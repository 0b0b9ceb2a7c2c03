------------------------ MODULE AutogradExact_proofs ------------------------
(***************************************************************************)
(* Gradients are derivatives: Tensor::backward leaves in every parameter   *)
(* what forward differentiation says, for every graph, sequence of calls   *)
(* and failure.                                                            *)
(*                                                                         *)
(* The argument is a balance.  At every moment some gradients are on their *)
(* way: pending in an engine, given to one that begins, parked in a block, *)
(* recovered by a recompute.  What a parameter holds, and what is on its   *)
(* way, each times its tensor's derivative with respect to the parameter,  *)
(* add up to what the parameter should hold after the call (Even).  Every  *)
(* step keeps that: a visit by the chain rule, a commit by moving an       *)
(* amount from what is on its way to what is held, a block's recompute     *)
(* because its tensors stand for the derivative of the block's outputs.    *)
(* In the end nothing is on its way.                                       *)
(***************************************************************************)
EXTENDS AutogradBuffers_proofs

-----------------------------------------------------------------------------
(* Sums over the tensors.                                                  *)

\* The last tensor there is.
Last == MaxTensors + 6

\* The sum of f over all tensors.
Total(f) ==
  LET S[i \in 0 .. Last] == IF i = 0 THEN 0 ELSE S[i - 1] + f[i] IN S[Last]

\* What f adds up to, tensor by tensor, the first n of them.
Adds(S, f, n) ==
  /\ S \in [0 .. n -> Int] /\ S[0] = 0
  /\ \A i \in 1 .. n : S[i] = S[i - 1] + f[i]

\* Induction: a set with every number all smaller ones of which it has.
LEMMA Induction ==
  ASSUME NEW S, \A n \in Nat : (\A m \in Nat : m < n => m \in S) => n \in S
  PROVE  \A n \in Nat : n \in S
  <1> DEFINE T == {n \in Nat : n \notin S}
  <1> SUFFICES ASSUME T # {} PROVE FALSE
    OBVIOUS
  <1>1. T \subseteq Nat
    OBVIOUS
  <1>2. PICK m \in T : \A k \in T : <<k, m>> \notin OpToRel(<, Nat)
    <2> HIDE DEF T
    <2> QED
      BY <1>1, WFMin, NatLessThanWellFounded, Zenon
  <1>3. \A k \in T : ~(k < m)
    <2> HIDE DEF T
    <2> QED
      BY <1>1, <1>2, Zenon DEF OpToRel
  <1> QED
    BY <1>3

\* Tensors are numbered up to it.
LEMMA LastFacts == Last \in Nat /\ Last >= 8 /\ Ids = 1 .. Last
  BY ConstantsAssumption DEF Last, Ids

\* There is such a sum up to every tensor.
LEMMA AddsExists ==
  ASSUME NEW f \in [Ids -> Int]
  PROVE  \A n \in Nat : n <= Last => \E S : Adds(S, f, n)
  <1> DEFINE P == {n \in Nat : n <= Last => \E S : Adds(S, f, n)}
  <1>1. ASSUME NEW n \in Nat, \A m \in Nat : m < n => m \in P PROVE n \in P
    <2>1. CASE n = 0
      <3>1. Adds([i \in 0 .. 0 |-> 0], f, 0)
        BY DEF Adds
      <3> QED
        BY <2>1, <3>1
    <2>2. CASE n # 0 /\ n <= Last
      <3>1. n - 1 \in Nat /\ n - 1 < n /\ n - 1 <= Last
        BY <2>2, LastFacts
      <3>2. PICK S : Adds(S, f, n - 1)
        BY <1>1, <3>1
      <3>3. f[n] \in Int
        BY <2>2, LastFacts
      <3> PICK R : R = [i \in 0 .. n |-> IF i = n THEN S[n - 1] + f[n] ELSE S[i]]
        OBVIOUS
      <3>4. S \in [0 .. n - 1 -> Int] /\ S[0] = 0 /\ \A i \in 1 .. n - 1 : S[i] = S[i - 1] + f[i]
        BY <3>2 DEF Adds
      <3>5. R \in [0 .. n -> Int]
        BY <3>1, <3>3, <3>4
      <3>6. R[0] = 0
        BY <2>2, <3>4
      <3>7. ASSUME NEW i \in 1 .. n PROVE R[i] = R[i - 1] + f[i]
        <4>1. CASE i = n
          BY <4>1, <2>2, <3>1
        <4>2. CASE i # n
          BY <4>2, <2>2, <3>4
        <4> QED
          BY <4>1, <4>2
      <3>8. Adds(R, f, n)
        BY <3>5, <3>6, <3>7 DEF Adds
      <3> QED
        BY <3>8
    <2>3. CASE ~(n <= Last)
      BY <2>3
    <2> QED
      BY <2>1, <2>2, <2>3
  <1>2. \A n \in Nat : n \in P
    <2> HIDE DEF P
    <2> QED
      BY <1>1, Induction
  <1> QED
    BY <1>2

\* Total is the last of them.
LEMMA TotalAdds ==
  ASSUME NEW f \in [Ids -> Int]
  PROVE  \E S : Adds(S, f, Last) /\ Total(f) = S[Last]
  <1>1. PICK R : Adds(R, f, Last)
    BY AddsExists, LastFacts
  <1>2. R = [i \in 0 .. Last |-> IF i = 0 THEN 0 ELSE R[i - 1] + f[i]]
    <2>1. R = [i \in 0 .. Last |-> R[i]]
      BY <1>1 DEF Adds
    <2>2. \A i \in 0 .. Last : R[i] = IF i = 0 THEN 0 ELSE R[i - 1] + f[i]
      BY <1>1, LastFacts DEF Adds
    <2> QED
      BY <2>1, <2>2
  <1> DEFINE S == CHOOSE S : S = [i \in 0 .. Last |-> IF i = 0 THEN 0 ELSE S[i - 1] + f[i]]
  <1>3. S = [i \in 0 .. Last |-> IF i = 0 THEN 0 ELSE S[i - 1] + f[i]]
    BY <1>2
  <1>4. Total(f) = S[Last]
    BY DEF Total
  <1> HIDE DEF S
  <1>5. \A i \in 0 .. Last : S[i] = IF i = 0 THEN 0 ELSE S[i - 1] + f[i]
    BY <1>3
  <1>6. S[0] = 0 /\ \A i \in 1 .. Last : S[i] = S[i - 1] + f[i]
    BY <1>5, LastFacts
  <1>7. \A i \in 1 .. Last : f[i] \in Int
    BY LastFacts
  <1> DEFINE P == {n \in Nat : n <= Last => S[n] \in Int}
  <1>8. ASSUME NEW n \in Nat, \A m \in Nat : m < n => m \in P PROVE n \in P
    <2>1. CASE n = 0
      BY <2>1, <1>6
    <2>2. CASE n # 0 /\ n <= Last
      <3>1. n - 1 \in P /\ n - 1 <= Last /\ n \in 1 .. Last
        BY <2>2, <1>8, LastFacts
      <3>2. S[n - 1] \in Int /\ f[n] \in Int /\ S[n] = S[n - 1] + f[n]
        BY <3>1, <1>6, <1>7
      <3> QED
        BY <3>2
    <2>3. CASE ~(n <= Last)
      BY <2>3
    <2> QED
      BY <2>1, <2>2, <2>3
  <1>9. \A n \in Nat : n \in P
    <2> HIDE DEF P
    <2> QED
      BY <1>8, Induction
  <1>10. \A n \in 0 .. Last : S[n] \in Int
    BY <1>9, LastFacts
  <1>11. S \in [0 .. Last -> Int]
    <2>1. S = [i \in 0 .. Last |-> S[i]]
      BY <1>3
    <2> QED
      BY <2>1, <1>10
  <1> QED
    BY <1>4, <1>6, <1>11 DEF Adds

\* A sum of integers is one.
LEMMA TotalInt == ASSUME NEW f \in [Ids -> Int] PROVE Total(f) \in Int
  BY TotalAdds, LastFacts DEF Adds

\* A sum changes by what one of its terms does.
LEMMA TotalChange ==
  ASSUME NEW f \in [Ids -> Int], NEW g \in [Ids -> Int], NEW j \in Ids, NEW d \in Int,
         g[j] = f[j] + d, \A u \in Ids : u # j => g[u] = f[u]
  PROVE  Total(g) = Total(f) + d
  <1>1. PICK S : Adds(S, f, Last) /\ Total(f) = S[Last]
    BY TotalAdds
  <1>2. PICK R : Adds(R, g, Last) /\ Total(g) = R[Last]
    BY TotalAdds
  <1>3. /\ S \in [0 .. Last -> Int] /\ S[0] = 0
        /\ \A i \in 1 .. Last : S[i] = S[i - 1] + f[i]
        /\ R \in [0 .. Last -> Int] /\ R[0] = 0
        /\ \A i \in 1 .. Last : R[i] = R[i - 1] + g[i]
    BY <1>1, <1>2 DEF Adds
  <1>4. j \in 1 .. Last /\ j <= Last /\ j # 0 /\ j \in Nat /\ j > 0
    BY LastFacts
  <1> DEFINE P == {n \in Nat : n <= Last => R[n] = S[n] + IF j <= n THEN d ELSE 0}
  <1>5. ASSUME NEW n \in Nat, \A m \in Nat : m < n => m \in P PROVE n \in P
    <2>1. CASE n = 0
      <3>1. ~(j <= n) /\ R[n] = 0 /\ S[n] = 0
        BY <2>1, <1>3, <1>4
      <3> QED
        BY <3>1
    <2>2. CASE n # 0 /\ n <= Last
      <3>1. n - 1 \in P /\ n - 1 <= Last /\ n \in 1 .. Last /\ n \in Ids /\ n - 1 \in 0 .. Last
        BY <2>2, <1>5, LastFacts
      <3>2. /\ S[n - 1] \in Int /\ f[n] \in Int /\ S[n] = S[n - 1] + f[n]
            /\ R[n - 1] \in Int /\ g[n] \in Int /\ R[n] = R[n - 1] + g[n]
        BY <3>1, <1>3
      <3>3. R[n - 1] = S[n - 1] + IF j <= n - 1 THEN d ELSE 0
        BY <3>1
      <3>4. CASE n = j
        <4>1. ~(j <= n - 1) /\ j <= n /\ g[n] = f[n] + d
          BY <3>4, <1>4
        <4>2. R[n] = S[n] + d
          BY <3>2, <3>3, <4>1
        <4> QED
          BY <4>1, <4>2
      <3>5. CASE n # j
        <4>1. g[n] = f[n] /\ (j <= n - 1 <=> j <= n)
          BY <3>1, <3>5, <1>4
        <4>2. R[n] = S[n] + IF j <= n THEN d ELSE 0
          BY <3>2, <3>3, <4>1
        <4> QED
          BY <4>2
      <3> QED
        BY <3>4, <3>5
    <2>3. CASE ~(n <= Last)
      BY <2>3
    <2> QED
      BY <2>1, <2>2, <2>3
  <1>6. \A n \in Nat : n \in P
    <2> HIDE DEF P
    <2> QED
      BY <1>5, Induction
  <1>7. R[Last] = S[Last] + d
    BY <1>4, <1>6, LastFacts
  <1> QED
    BY <1>1, <1>2, <1>7

\* A sum of nothing is nothing, one of numbers is not below it.
LEMMA TotalNat ==
  ASSUME NEW f \in [Ids -> Nat]
  PROVE  Total(f) \in Nat /\ ((\A u \in Ids : f[u] = 0) => Total(f) = 0)
  <1>1. f \in [Ids -> Int]
    OBVIOUS
  <1>2. PICK S : Adds(S, f, Last) /\ Total(f) = S[Last]
    BY <1>1, TotalAdds
  <1>3. S \in [0 .. Last -> Int] /\ S[0] = 0 /\ \A i \in 1 .. Last : S[i] = S[i - 1] + f[i]
    BY <1>2 DEF Adds
  <1> DEFINE P == {n \in Nat : n <= Last =>
                     S[n] \in Nat /\ ((\A u \in Ids : f[u] = 0) => S[n] = 0)}
  <1>4. ASSUME NEW n \in Nat, \A m \in Nat : m < n => m \in P PROVE n \in P
    <2>1. CASE n = 0
      BY <2>1, <1>3
    <2>2. CASE n # 0 /\ n <= Last
      <3>1. n - 1 \in P /\ n - 1 <= Last /\ n \in 1 .. Last /\ n \in Ids
        BY <2>2, <1>4, LastFacts
      <3>2. S[n - 1] \in Nat /\ f[n] \in Nat /\ S[n] = S[n - 1] + f[n]
        BY <3>1, <1>3
      <3>3. S[n] \in Nat
        BY <3>2
      <3>4. ASSUME \A u \in Ids : f[u] = 0 PROVE S[n] = 0
        <4>1. f[n] = 0 /\ S[n - 1] = 0
          BY <3>1, <3>4
        <4> QED
          BY <3>2, <4>1
      <3> QED
        BY <3>3, <3>4
    <2>3. CASE ~(n <= Last)
      BY <2>3
    <2> QED
      BY <2>1, <2>2, <2>3
  <1>5. \A n \in Nat : n \in P
    <2> HIDE DEF P
    <2> QED
      BY <1>4, Induction
  <1> QED
    BY <1>2, <1>5, LastFacts

-----------------------------------------------------------------------------
(* Derivatives.                                                            *)

\* The body of Derivative, in a graph T: the derivative of u with respect to v by the chain
\* rule, when d has those of its inputs.
Slope(T, d, u, v) ==
  LET Term(weight, i) == IF T[i].rg THEN weight * d[i] ELSE 0
      n == T[u].fn
      in == T[n].in
      b == IF T[n].op = "rev2" THEN n - 1 ELSE n
      y1 == Term(1, in[1]) + Term(2, in[2]) + Term(3, b - 2)
  IN IF u = v THEN 1
     ELSE IF n = 0 THEN 0
     ELSE IF T[n].op = "rev1" THEN y1
     ELSE IF T[n].op = "rev2" THEN Term(1, in[2]) + 2 * y1 + Term(3, b - 1)
     ELSE Term(Weights(T[n].op)[1], in[1]) + Term(Weights(T[n].op)[2], in[2])

\* The derivative of t with respect to v in graph T.
Deriv(T, t, v) == LET d[u \in Ids] == Slope(T, d, u, v) IN d[t]

\* It is the one the model has.
LEMMA DerivativeIs == \A t, v : Derivative(t, v) = Deriv(tensor, t, v)
  BY DEF Derivative, Deriv, Slope, Block, ParamF, ParamG

\* What the derivative of a tensor is made of comes before it.
Feeds(T) ==
  \A u \in Ids : T[u].fn # 0 =>
    /\ T[u].fn \in Ids /\ T[u].fn <= u
    /\ \A k \in {1, 2} : T[T[u].fn].in[k] \in Ids /\ T[T[u].fn].in[k] < u
    /\ T[T[u].fn].op = "rev1" => T[u].fn - 2 \in Ids /\ T[u].fn - 2 < u
    /\ T[T[u].fn].op = "rev2" =>
         /\ T[u].fn - 1 - 2 \in Ids /\ T[u].fn - 1 - 2 < u
         /\ T[u].fn - 1 - 1 \in Ids /\ T[u].fn - 1 - 1 < u

\* Weights are numbers.
LEMMA WeightsNat == \A op : Weights(op)[1] \in Nat /\ Weights(op)[2] \in Nat
  BY DEF Weights

\* The chain rule looks at earlier tensors only, and gives a number.
LEMMA SlopeLocal ==
  ASSUME NEW T, Feeds(T), NEW v, NEW u \in Ids, NEW d, NEW e,
         \A i \in Ids : i < u => d[i] \in Nat /\ e[i] = d[i]
  PROVE  Slope(T, d, u, v) \in Nat /\ Slope(T, e, u, v) = Slope(T, d, u, v)
  <1> DEFINE Term(c, weight, i) == IF T[i].rg THEN weight * c[i] ELSE 0
  <1> PICK n : n = T[u].fn
    OBVIOUS
  <1> PICK a : a = T[n].in[1]
    OBVIOUS
  <1> PICK b : b = T[n].in[2]
    OBVIOUS
  <1>1. ASSUME NEW i \in Ids, i < u, NEW w \in Nat
        PROVE  Term(d, w, i) \in Nat /\ Term(e, w, i) = Term(d, w, i)
    <2>1. d[i] \in Nat /\ e[i] = d[i]
      BY <1>1
    <2>2. w * d[i] \in Nat
      BY <2>1
    <2> QED
      BY <2>1, <2>2
  <1>2. CASE u = v
    BY <1>2 DEF Slope
  <1>3. CASE u # v /\ n = 0
    BY <1>3 DEF Slope
  <1>4. CASE u # v /\ n # 0
    <2>1. /\ a \in Ids /\ a < u /\ b \in Ids /\ b < u
          /\ T[n].op = "rev1" => n - 2 \in Ids /\ n - 2 < u
          /\ T[n].op = "rev2" => /\ n - 1 - 2 \in Ids /\ n - 1 - 2 < u
                                 /\ n - 1 - 1 \in Ids /\ n - 1 - 1 < u
      BY <1>4 DEF Feeds
    <2>2. ASSUME NEW w \in Nat
          PROVE  /\ Term(d, w, a) \in Nat /\ Term(e, w, a) = Term(d, w, a)
                 /\ Term(d, w, b) \in Nat /\ Term(e, w, b) = Term(d, w, b)
      BY <1>1, <2>1
    <2>3. CASE T[n].op = "rev1"
      <3>1. Term(d, 3, n - 2) \in Nat /\ Term(e, 3, n - 2) = Term(d, 3, n - 2)
        BY <1>1, <2>1, <2>3
      <3>2. /\ Slope(T, d, u, v) = Term(d, 1, a) + Term(d, 2, b) + Term(d, 3, n - 2)
            /\ Slope(T, e, u, v) = Term(e, 1, a) + Term(e, 2, b) + Term(e, 3, n - 2)
        BY <1>4, <2>3 DEF Slope
      <3>3. /\ Term(d, 1, a) \in Nat /\ Term(e, 1, a) = Term(d, 1, a)
            /\ Term(d, 2, b) \in Nat /\ Term(e, 2, b) = Term(d, 2, b)
        BY <2>2
      <3> HIDE DEF Term
      <3> QED
        BY <3>1, <3>2, <3>3
    <2>4. CASE T[n].op = "rev2"
      <3>1. PICK p \in Nat : p = Term(d, 3, n - 1 - 2) /\ p = Term(e, 3, n - 1 - 2)
        BY <1>1, <2>1, <2>4
      <3>2. PICK q \in Nat : q = Term(d, 3, n - 1 - 1) /\ q = Term(e, 3, n - 1 - 1)
        BY <1>1, <2>1, <2>4
      <3>3. PICK r \in Nat : r = Term(d, 1, a) /\ r = Term(e, 1, a)
        BY <2>2
      <3>4. PICK s \in Nat : s = Term(d, 1, b) /\ s = Term(e, 1, b)
        BY <2>2
      <3>5. PICK x \in Nat : x = Term(d, 2, b) /\ x = Term(e, 2, b)
        BY <2>2
      <3>6. /\ Slope(T, d, u, v) = Term(d, 1, b)
                 + 2 * (Term(d, 1, a) + Term(d, 2, b) + Term(d, 3, n - 1 - 2))
                 + Term(d, 3, n - 1 - 1)
            /\ Slope(T, e, u, v) = Term(e, 1, b)
                 + 2 * (Term(e, 1, a) + Term(e, 2, b) + Term(e, 3, n - 1 - 2))
                 + Term(e, 3, n - 1 - 1)
        BY <1>4, <2>4 DEF Slope
      <3> HIDE DEF Term
      <3>7. /\ Slope(T, d, u, v) = s + 2 * (r + x + p) + q
            /\ Slope(T, e, u, v) = s + 2 * (r + x + p) + q
        BY <3>1, <3>2, <3>3, <3>4, <3>5, <3>6
      <3> QED
        BY <3>7
    <2>5. CASE T[n].op \notin {"rev1", "rev2"}
      <3>1. PICK w \in Nat : w = Weights(T[n].op)[1]
        BY WeightsNat
      <3>2. PICK x \in Nat : x = Weights(T[n].op)[2]
        BY WeightsNat
      <3>3. PICK p \in Nat : p = Term(d, w, a) /\ p = Term(e, w, a)
        BY <2>2
      <3>4. PICK q \in Nat : q = Term(d, x, b) /\ q = Term(e, x, b)
        BY <2>2
      <3>5. /\ Slope(T, d, u, v) = Term(d, Weights(T[n].op)[1], a) + Term(d, Weights(T[n].op)[2], b)
            /\ Slope(T, e, u, v) = Term(e, Weights(T[n].op)[1], a) + Term(e, Weights(T[n].op)[2], b)
        BY <1>4, <2>5 DEF Slope
      <3> HIDE DEF Term
      <3>6. Slope(T, d, u, v) = p + q /\ Slope(T, e, u, v) = p + q
        BY <3>1, <3>2, <3>3, <3>4, <3>5
      <3> QED
        BY <3>6
    <2> QED
      BY <2>3, <2>4, <2>5
  <1> QED
    BY <1>2, <1>3, <1>4

\* The derivatives of the first n tensors.
Slopes(D, T, v, n) == D \in [1 .. n -> Nat] /\ \A u \in 1 .. n : D[u] = Slope(T, D, u, v)

\* By induction over the tensors there are derivatives of all of them.
LEMMA SlopesExist ==
  ASSUME NEW T, Feeds(T), NEW v
  PROVE  \A n \in Nat : n <= Last => \E D : Slopes(D, T, v, n)
  <1> DEFINE P == {n \in Nat : n <= Last => \E D : Slopes(D, T, v, n)}
  <1>1. ASSUME NEW n \in Nat, \A m \in Nat : m < n => m \in P PROVE n \in P
    <2>1. CASE n = 0
      <3>1. Slopes([i \in 1 .. 0 |-> 0], T, v, 0)
        BY DEF Slopes
      <3> QED
        BY <2>1, <3>1
    <2>2. CASE n # 0 /\ n <= Last
      <3>1. n - 1 \in Nat /\ n - 1 < n /\ n - 1 <= Last /\ n \in Ids
        BY <2>2, LastFacts
      <3>2. PICK D : Slopes(D, T, v, n - 1)
        BY <1>1, <3>1
      <3>3. D \in [1 .. n - 1 -> Nat] /\ \A u \in 1 .. n - 1 : D[u] = Slope(T, D, u, v)
        BY <3>2 DEF Slopes
      <3> PICK s : s = Slope(T, D, n, v)
        OBVIOUS
      <3> PICK E : E = [u \in 1 .. n |-> IF u = n THEN s ELSE D[u]]
        OBVIOUS
      <3>4. \A i \in Ids : i < n => D[i] \in Nat /\ E[i] = D[i]
        BY <3>1, <3>3, LastFacts
      <3>5. s \in Nat /\ Slope(T, E, n, v) = s
        BY <3>1, <3>4, SlopeLocal
      <3>6. E \in [1 .. n -> Nat]
        BY <3>3, <3>5
      <3>7. ASSUME NEW u \in 1 .. n PROVE E[u] = Slope(T, E, u, v)
        <4>1. CASE u = n
          BY <3>5, <4>1
        <4>2. CASE u # n
          <5>1. u \in 1 .. n - 1 /\ u \in Ids /\ E[u] = D[u] /\ D[u] = Slope(T, D, u, v)
            BY <2>2, <3>3, <4>2, LastFacts
          <5>2. \A i \in Ids : i < u => D[i] \in Nat /\ E[i] = D[i]
            BY <3>1, <3>4, <5>1, LastFacts
          <5>3. Slope(T, E, u, v) = Slope(T, D, u, v)
            BY <5>1, <5>2, SlopeLocal
          <5> QED
            BY <5>1, <5>3
        <4> QED
          BY <4>1, <4>2
      <3>8. Slopes(E, T, v, n)
        BY <3>6, <3>7 DEF Slopes
      <3> QED
        BY <3>8
    <2>3. CASE ~(n <= Last)
      BY <2>3
    <2> QED
      BY <2>1, <2>2, <2>3
  <1>2. \A n \in Nat : n \in P
    <2> HIDE DEF P
    <2> QED
      BY <1>1, Induction
  <1> QED
    BY <1>2

\* Derivatives are what the chain rule says they are, of every tensor.
LEMMA DerivSlopes ==
  ASSUME NEW T, Feeds(T), NEW v
  PROVE  \E D : Slopes(D, T, v, Last) /\ \A t \in Ids : Deriv(T, t, v) = D[t]
  <1>1. PICK E : Slopes(E, T, v, Last)
    BY SlopesExist, LastFacts
  <1>2. E = [u \in Ids |-> Slope(T, E, u, v)]
    <2>1. E \in [Ids -> Nat] /\ \A u \in Ids : E[u] = Slope(T, E, u, v)
      BY <1>1, LastFacts DEF Slopes
    <2> QED
      BY <2>1
  <1> DEFINE D == CHOOSE d : d = [u \in Ids |-> Slope(T, d, u, v)]
  <1>3. D = [u \in Ids |-> Slope(T, D, u, v)]
    BY <1>2
  <1>4. \A t \in Ids : Deriv(T, t, v) = D[t]
    BY DEF Deriv
  <1> HIDE DEF D
  <1>5. \A u \in Ids : D[u] = Slope(T, D, u, v)
    BY <1>3
  <1> DEFINE P == {n \in Nat : n \in Ids => D[n] \in Nat}
  <1>6. ASSUME NEW n \in Nat, \A m \in Nat : m < n => m \in P PROVE n \in P
    <2> SUFFICES ASSUME n \in Ids PROVE D[n] \in Nat
      OBVIOUS
    <2>1. \A i \in Ids : i < n => D[i] \in Nat /\ D[i] = D[i]
      BY <1>6, LastFacts
    <2>2. Slope(T, D, n, v) \in Nat
      BY <2>1, SlopeLocal
    <2> QED
      BY <1>5, <2>2
  <1>7. \A n \in Nat : n \in P
    <2> HIDE DEF P
    <2> QED
      BY <1>6, Induction
  <1>8. \A u \in Ids : D[u] \in Nat
    BY <1>7, LastFacts
  <1>9. D \in [Ids -> Nat]
    BY <1>3, <1>8
  <1> QED
    BY <1>4, <1>5, <1>9, LastFacts DEF Slopes

\* Those of tensors the graphs agree about agree.
LEMMA DerivAgrees ==
  ASSUME NEW T, NEW U, Feeds(T), Feeds(U), NEW v,
         \A t \in Ids : t <= MaxTensors => U[t] = T[t]
  PROVE  \A t \in Ids : t <= MaxTensors => Deriv(U, t, v) = Deriv(T, t, v)
  <1>1. PICK D : Slopes(D, T, v, Last) /\ \A t \in Ids : Deriv(T, t, v) = D[t]
    BY DerivSlopes
  <1>2. PICK E : Slopes(E, U, v, Last) /\ \A t \in Ids : Deriv(U, t, v) = E[t]
    BY DerivSlopes
  <1>3. /\ D \in [Ids -> Nat] /\ \A u \in Ids : D[u] = Slope(T, D, u, v)
        /\ \A u \in Ids : E[u] = Slope(U, E, u, v)
    BY <1>1, <1>2, LastFacts DEF Slopes
  <1> DEFINE P == {n \in Nat : n \in Ids /\ n <= MaxTensors => E[n] = D[n]}
  <1>4. ASSUME NEW u \in Nat, \A m \in Nat : m < u => m \in P PROVE u \in P
    <2> SUFFICES ASSUME u \in Ids, u <= MaxTensors PROVE E[u] = D[u]
      OBVIOUS
    <2>1. \A i \in Ids : i < u => D[i] \in Nat /\ E[i] = D[i] /\ U[i] = T[i]
      BY <1>3, <1>4, LastFacts, IdsFacts
    <2>2. Slope(T, E, u, v) = Slope(T, D, u, v)
      BY <2>1, SlopeLocal
    <2>3. Slope(U, E, u, v) = Slope(T, E, u, v)
      <3> PICK n : n = T[u].fn
        OBVIOUS
      <3>1. U[u] = T[u]
        OBVIOUS
      <3>2. CASE u = v \/ n = 0
        BY <3>1, <3>2 DEF Slope
      <3>3. CASE u # v /\ n # 0
        <4>1. n \in Ids /\ n <= u
          BY <3>3 DEF Feeds
        <4>2. U[n] = T[n]
          BY <4>1, <3>1, <2>1, IdsFacts
        <4>3. /\ \A k \in {1, 2} : T[n].in[k] \in Ids /\ T[n].in[k] < u
              /\ T[n].op = "rev1" => n - 2 \in Ids /\ n - 2 < u
              /\ T[n].op = "rev2" => /\ n - 1 - 2 \in Ids /\ n - 1 - 2 < u
                                     /\ n - 1 - 1 \in Ids /\ n - 1 - 1 < u
          BY <3>3 DEF Feeds
        <4>4. \A k \in {1, 2} : U[T[n].in[k]] = T[T[n].in[k]]
          BY <2>1, <4>3
        <4>5. CASE T[n].op = "rev1"
          <5>1. U[n - 2] = T[n - 2]
            BY <2>1, <4>3, <4>5
          <5> QED
            BY <3>1, <3>3, <4>2, <4>4, <4>5, <5>1 DEF Slope
        <4>6. CASE T[n].op = "rev2"
          <5>1. U[n - 1 - 2] = T[n - 1 - 2] /\ U[n - 1 - 1] = T[n - 1 - 1]
            BY <2>1, <4>3, <4>6
          <5> QED
            BY <3>1, <3>3, <4>2, <4>4, <4>6, <5>1 DEF Slope
        <4>7. CASE T[n].op \notin {"rev1", "rev2"}
          BY <3>1, <3>3, <4>2, <4>4, <4>7 DEF Slope
        <4> QED
          BY <4>5, <4>6, <4>7
      <3> QED
        BY <3>2, <3>3
    <2> QED
      BY <1>3, <2>2, <2>3
  <1>5. \A n \in Nat : n \in P
    <2> HIDE DEF P
    <2> QED
      BY <1>4, Induction
  <1> QED
    BY <1>1, <1>2, <1>5, LastFacts

\* Nothing depends on a tensor made later.
LEMMA DerivLater ==
  ASSUME NEW T, Feeds(T), NEW v \in Nat
  PROVE  \A t \in Ids : t < v => Deriv(T, t, v) = 0
  <1>1. PICK D : Slopes(D, T, v, Last) /\ \A t \in Ids : Deriv(T, t, v) = D[t]
    BY DerivSlopes
  <1>2. D \in [Ids -> Nat] /\ \A u \in Ids : D[u] = Slope(T, D, u, v)
    BY <1>1, LastFacts DEF Slopes
  <1> DEFINE P == {n \in Nat : n \in Ids /\ n < v => D[n] = 0}
  <1>3. ASSUME NEW u \in Nat, \A m \in Nat : m < u => m \in P PROVE u \in P
    <2> SUFFICES ASSUME u \in Ids, u < v PROVE D[u] = 0
      OBVIOUS
    <2>0. PICK Z : Z = [i \in Ids |-> 0]
      OBVIOUS
    <2>1. \A i \in Ids : i < u => Z[i] \in Nat /\ D[i] = Z[i] /\ Z[i] = 0
      BY <1>2, <1>3, <2>0, LastFacts
    <2>2. Slope(T, D, u, v) = Slope(T, Z, u, v)
      BY <2>1, SlopeLocal
    <2>3. Slope(T, Z, u, v) = 0
      <3> PICK n : n = T[u].fn
        OBVIOUS
      <3>1. u # v
        OBVIOUS
      <3>2. CASE n = 0
        BY <3>1, <3>2 DEF Slope
      <3>3. CASE n # 0
        <4>1. /\ \A k \in {1, 2} : T[n].in[k] \in Ids /\ T[n].in[k] < u
              /\ T[n].op = "rev1" => n - 2 \in Ids /\ n - 2 < u
              /\ T[n].op = "rev2" => /\ n - 1 - 2 \in Ids /\ n - 1 - 2 < u
                                     /\ n - 1 - 1 \in Ids /\ n - 1 - 1 < u
          BY <3>3 DEF Feeds
        <4>2. \A k \in {1, 2} : Z[T[n].in[k]] = 0
          BY <2>1, <4>1
        <4>3. CASE T[n].op = "rev1"
          <5>1. Z[n - 2] = 0
            BY <2>1, <4>1, <4>3
          <5> QED
            BY <3>1, <3>3, <4>2, <4>3, <5>1 DEF Slope
        <4>4. CASE T[n].op = "rev2"
          <5>1. Z[n - 1 - 2] = 0 /\ Z[n - 1 - 1] = 0
            BY <2>1, <4>1, <4>4
          <5> QED
            BY <3>1, <3>3, <4>2, <4>4, <5>1 DEF Slope
        <4>5. CASE T[n].op \notin {"rev1", "rev2"}
          <5> PICK a : a = T[n].in[1]
            OBVIOUS
          <5> PICK b : b = T[n].in[2]
            OBVIOUS
          <5> DEFINE Term(weight, i) == IF T[i].rg THEN weight * Z[i] ELSE 0
          <5>1. Slope(T, Z, u, v) = Term(Weights(T[n].op)[1], a) + Term(Weights(T[n].op)[2], b)
            BY <3>1, <3>3, <4>5 DEF Slope
          <5>2. PICK w \in Nat : w = Weights(T[n].op)[1]
            BY WeightsNat
          <5>3. PICK x \in Nat : x = Weights(T[n].op)[2]
            BY WeightsNat
          <5>4. Term(w, a) = 0 /\ Term(x, b) = 0
            BY <4>2
          <5> HIDE DEF Term
          <5> QED
            BY <5>1, <5>2, <5>3, <5>4
        <4> QED
          BY <4>3, <4>4, <4>5
      <3> QED
        BY <3>2, <3>3
    <2> QED
      BY <1>2, <2>2, <2>3
  <1>4. \A n \in Nat : n \in P
    <2> HIDE DEF P
    <2> QED
      BY <1>3, Induction
  <1> QED
    BY <1>1, <1>4, LastFacts

-----------------------------------------------------------------------------
(* The shape of the graph.                                                 *)

\* Leaves have no node and operations their own, there is nothing yet where callers will
\* make tensors, and a block's outputs are next to each other, after its parameters.
GraphShape ==
  /\ \A t \in Ids : tensor[t].op = "leaf" => tensor[t].fn = 0
  /\ \A t \in Ids : tensor[t].op \in {"op", "add", "rev1", "rev2"} => tensor[t].fn = t
  /\ \A t \in created + 1 .. MaxTensors : tensor[t] = Leaf(TRUE)
  /\ \A t \in Ids : tensor[t].op = "rev1" =>
       /\ t + 1 <= MaxTensors /\ tensor[t + 1].op = "rev2"
       /\ tensor[t - 2] = Leaf(TRUE) /\ tensor[t - 1] = Leaf(TRUE)
  /\ \A t \in Ids : tensor[t].op = "rev2" => tensor[t - 1].op = "rev1"

\* What a leaf is.
LEMMA LeafFacts ==
  ASSUME NEW rg
  PROVE  Leaf(rg).op = "leaf" /\ Leaf(rg).fn = 0 /\ Leaf(rg).in = <<>> /\ Leaf(rg).rg = rg
  BY DEF Leaf

\* Where blocks are.
LEMMA RevPlace ==
  ASSUME GraphInv, GraphShape, NEW t \in Ids
  PROVE  /\ tensor[t].op = "rev1" =>
              /\ tensor[t].fn = t /\ 2 < t /\ t + 1 <= created /\ t - 1 \in Ids /\ t - 2 \in Ids
              /\ t + 1 \in Ids /\ tensor[t + 1].op = "rev2" /\ tensor[t + 1].in = tensor[t].in
              /\ tensor[t + 1].fn = t + 1
         /\ tensor[t].op = "rev2" =>
              /\ tensor[t].fn = t /\ 3 < t /\ t <= created /\ t - 1 \in Ids
              /\ tensor[t - 1].op = "rev1" /\ tensor[t - 1].in = tensor[t].in
  <1>1. created \in 2 .. MaxTensors /\ t \in Nat
    BY IdsFacts DEF GraphInv
  <1>2. ASSUME tensor[t].op = "rev2"
        PROVE  /\ tensor[t].fn = t /\ 3 < t /\ t <= created /\ t - 1 \in Ids
               /\ tensor[t - 1].op = "rev1" /\ tensor[t - 1].in = tensor[t].in
    <2>1. tensor[t].fn = t /\ tensor[t - 1].op = "rev1"
      BY <1>2 DEF GraphShape
    <2>2. 3 < t /\ t <= created /\ tensor[t - 1].in = tensor[t].in
      BY <1>2, <2>1 DEF GraphInv
    <2> QED
      BY <2>1, <2>2, <1>1, IdsFacts
  <1>3. ASSUME tensor[t].op = "rev1"
        PROVE  /\ tensor[t].fn = t /\ 2 < t /\ t + 1 <= created /\ t - 1 \in Ids /\ t - 2 \in Ids
               /\ t + 1 \in Ids /\ tensor[t + 1].op = "rev2" /\ tensor[t + 1].in = tensor[t].in
               /\ tensor[t + 1].fn = t + 1
    <2>1. tensor[t].fn = t /\ t + 1 <= MaxTensors /\ tensor[t + 1].op = "rev2"
      BY <1>3 DEF GraphShape
    <2>2. 2 < t
      BY <1>3, <2>1 DEF GraphInv
    <2>3. t + 1 \in Ids /\ t - 1 \in Ids /\ t - 2 \in Ids /\ t + 1 - 1 = t
      BY <2>1, <2>2, <1>1, IdsFacts
    <2>4. tensor[t + 1].fn = t + 1
      BY <2>1, <2>3 DEF GraphShape
    <2> PICK u : u = t + 1
      OBVIOUS
    <2>6. u \in Ids /\ u - 1 = t /\ tensor[u].op = "rev2" /\ tensor[u].fn = u
      BY <1>1, <2>1, <2>3, <2>4
    <2>5. u <= created /\ tensor[u - 1].in = tensor[u].in /\ u - 1 = t
      BY <2>6 DEF GraphInv
    <2> QED
      BY <2>1, <2>2, <2>3, <2>4, <2>5
  <1> QED
    BY <1>2, <1>3

\* What is new has the shape, what was there is there.
NewShape ==
  /\ created' \in created + 1 .. MaxTensors
  /\ \A t \in Ids : t \notin created + 1 .. created' => tensor'[t] = tensor[t]
  /\ \A t \in created + 1 .. created' :
       /\ tensor'[t].op = "leaf" => tensor'[t].fn = 0
       /\ tensor'[t].op \in {"op", "add", "rev1", "rev2"} => tensor'[t].fn = t
       /\ tensor'[t].op = "rev1" =>
            /\ t + 1 <= created' /\ tensor'[t + 1].op = "rev2"
            /\ tensor'[t - 2] = Leaf(TRUE) /\ tensor'[t - 1] = Leaf(TRUE)
       /\ tensor'[t].op = "rev2" => tensor'[t - 1].op = "rev1"

\* A range, in numbers.
LEMMA RangeFacts ==
  ASSUME NEW m \in Nat, NEW n \in Nat, NEW t \in m + 1 .. n
  PROVE  t \in Nat /\ m < t /\ t <= n
  OBVIOUS

\* A graph that grows by what has the shape keeps it.
LEMMA ShapeGrows ==
  ASSUME GraphInv, GraphShape, NewShape
  PROVE  GraphShape'
  <1> PICK c : c = created
    OBVIOUS
  <1> PICK m : m = created'
    OBVIOUS
  <1>1. c \in Nat /\ m \in Nat /\ c < m /\ m <= MaxTensors /\ MaxTensors \in Nat
    <2>1. c \in 2 .. MaxTensors
      BY DEF GraphInv
    <2>2. m \in c + 1 .. MaxTensors
      BY DEF NewShape
    <2> QED
      BY <2>1, <2>2, IdsFacts
  <1>0. \A t \in Ids : t \in Nat /\ t > 0
    BY IdsFacts
  <1>2. \A t \in Ids : t \notin c + 1 .. m => tensor'[t] = tensor[t]
    BY DEF NewShape
  <1>3. ASSUME NEW t \in Ids
        PROVE  /\ tensor'[t].op = "leaf" => tensor'[t].fn = 0
               /\ tensor'[t].op \in {"op", "add", "rev1", "rev2"} => tensor'[t].fn = t
    <2>1. CASE t \in c + 1 .. m
      BY <2>1 DEF NewShape
    <2>2. CASE t \notin c + 1 .. m
      BY <1>2, <2>2 DEF GraphShape
    <2> QED
      BY <2>1, <2>2
  <1>4. ASSUME NEW t \in created' + 1 .. MaxTensors PROVE tensor'[t] = Leaf(TRUE)
    <2>5. created' \in Nat
      BY <1>1
    <2>6. t \in Nat /\ created' < t /\ t <= MaxTensors
      BY <1>1, <2>5, RangeFacts, Zenon
    <2>4. t \in Nat /\ m < t /\ t <= MaxTensors
      BY <2>6
    <2>0. t \in Nat /\ m < t /\ c < t /\ t <= MaxTensors
      BY <1>1, <2>4
    <2>2. t \in Ids
      BY <1>1, <2>0 DEF Ids
    <2>3. t \notin c + 1 .. m
      BY <1>1, <2>0
    <2>1. t \in Ids /\ t \notin c + 1 .. m /\ t \in c + 1 .. MaxTensors
      BY <1>1, <2>0, <2>2, <2>3
    <2> QED
      BY <1>2, <2>1 DEF GraphShape
  <1>5. ASSUME NEW t \in Ids, tensor'[t].op = "rev1"
        PROVE  /\ t + 1 <= MaxTensors /\ tensor'[t + 1].op = "rev2"
               /\ tensor'[t - 2] = Leaf(TRUE) /\ tensor'[t - 1] = Leaf(TRUE)
    <2>1. CASE t \in c + 1 .. m
      <3>1. /\ t + 1 <= m /\ tensor'[t + 1].op = "rev2"
            /\ tensor'[t - 2] = Leaf(TRUE) /\ tensor'[t - 1] = Leaf(TRUE)
        BY <1>5, <2>1 DEF NewShape
      <3> QED
        BY <3>1, <1>0, <1>1
    <2>2. CASE t \notin c + 1 .. m
      <3>1. tensor[t].op = "rev1"
        BY <1>2, <1>5, <2>2
      <3>2. /\ t + 1 <= c /\ tensor[t + 1].op = "rev2" /\ t + 1 \in Ids /\ 2 < t
            /\ t - 1 \in Ids /\ t - 2 \in Ids
        BY <3>1, RevPlace
      <3>3. tensor[t - 2] = Leaf(TRUE) /\ tensor[t - 1] = Leaf(TRUE)
        BY <3>1 DEF GraphShape
      <3>4. t + 1 \notin c + 1 .. m /\ t - 1 \notin c + 1 .. m /\ t - 2 \notin c + 1 .. m
        BY <3>2, <1>0, <1>1
      <3>5. t + 1 <= MaxTensors
        BY <3>2, <1>0, <1>1
      <3>6. /\ tensor'[t + 1] = tensor[t + 1] /\ tensor'[t - 1] = tensor[t - 1]
            /\ tensor'[t - 2] = tensor[t - 2]
        BY <1>2, <3>2, <3>4
      <3> QED
        BY <3>2, <3>3, <3>5, <3>6
    <2> QED
      BY <2>1, <2>2
  <1>6. ASSUME NEW t \in Ids, tensor'[t].op = "rev2" PROVE tensor'[t - 1].op = "rev1"
    <2>1. CASE t \in c + 1 .. m
      BY <1>6, <2>1 DEF NewShape
    <2>2. CASE t \notin c + 1 .. m
      <3>1. tensor[t].op = "rev2"
        BY <1>2, <1>6, <2>2
      <3>2. t <= c /\ t - 1 \in Ids /\ tensor[t - 1].op = "rev1"
        BY <3>1, RevPlace
      <3>3. t - 1 \notin c + 1 .. m
        BY <3>2, <1>0, <1>1
      <3> QED
        BY <1>2, <3>2, <3>3
    <2> QED
      BY <2>1, <2>2
  <1> QED
    BY <1>3, <1>4, <1>5, <1>6 DEF GraphShape

\* What an operation makes is a leaf, or has a node of its own.
LEMMA ResultShape ==
  ASSUME NEW op, NEW in, NEW id, NEW on, NEW rg
  PROVE  /\ Result(op, in, id, on, rg).op \in {op, "leaf"}
         /\ Result(op, in, id, on, rg).op = "leaf" /\ op # "leaf" => Result(op, in, id, on, rg).fn = 0
         /\ Result(op, in, id, on, rg).op # "leaf" => Result(op, in, id, on, rg).fn = id
  BY LeafFacts DEF Result

\* One new tensor.
LEMMA MakeShape ==
  ASSUME GraphInv, GraphShape, NEW call, NEW r, Make(call, r),
         r.op = "leaf" => r.fn = 0,
         r.op \in {"op", "add"} => r.fn = created + 1,
         r.op \notin {"rev1", "rev2"}
  PROVE  GraphShape'
  <1> PICK n : n = created + 1
    OBVIOUS
  <1>1. created' = n /\ n <= MaxTensors /\ tensor' = [tensor EXCEPT ![n] = r]
    BY DEF Make, Builds
  <1>2. n \in Ids /\ created + 1 .. created' = {n} /\ n \in Nat
    BY <1>1, CreatedFacts, IdsFacts
  <1>3. tensor \in [Ids -> TensorType]
    BY DEF GraphInv
  <1>4. tensor'[n] = r /\ \A t \in Ids : t # n => tensor'[t] = tensor[t]
    BY <1>1, <1>2, <1>3
  <1>5. created' \in created + 1 .. MaxTensors
    BY <1>1, <1>2, CreatedFacts, IdsFacts
  <1>6. NewShape
    BY <1>2, <1>4, <1>5 DEF NewShape
  <1> QED
    BY <1>6, ShapeGrows

\* A new block.
LEMMA BlockShape ==
  ASSUME GraphInv, GraphShape, NEW a, NEW b, Reversible(a, b)
  PROVE  GraphShape'
  <1> DEFINE y1 == created + 3
             r1 == Result("rev1", <<a, b>>, y1, enabled, TRUE)
             r2 == Result("rev2", <<a, b>>, y1 + 1, enabled, TRUE)
  <1>1. created' = created + 4 /\ created + 4 <= MaxTensors
    BY DEF Reversible, Builds
  <1>2. tensor' = [tensor EXCEPT ![y1 - 2] = Leaf(TRUE), ![y1 - 1] = Leaf(TRUE),
                                 ![y1] = r1, ![y1 + 1] = r2]
    BY DEF Reversible
  <1>3. /\ created + 1 .. created' = {y1 - 2, y1 - 1, y1, y1 + 1} /\ y1 \in Nat
        /\ {y1 - 2, y1 - 1, y1, y1 + 1} \subseteq Ids
        /\ created' \in created + 1 .. MaxTensors /\ y1 + 1 = created'
    BY <1>1, CreatedFacts, IdsFacts
  <1>4. DOMAIN tensor = Ids
    BY DEF GraphInv
  <1>5. /\ r1.op \in {"rev1", "leaf"} /\ (r1.op = "leaf" => r1.fn = 0)
        /\ r1.op = "rev1" => r1.fn = y1 /\ r2.op = "rev2"
        /\ r2.op \in {"rev2", "leaf"} /\ (r2.op = "leaf" => r2.fn = 0)
        /\ r2.op = "rev2" => r2.fn = y1 + 1 /\ r1.op = "rev1"
    <2> HIDE DEF y1
    <2>1. CASE enabled
      BY <2>1 DEF Result
    <2>2. CASE ~enabled
      BY <2>2, LeafFacts DEF Result
    <2> QED
      BY <2>1, <2>2
  <1> HIDE DEF y1, r1, r2
  <1>6. /\ y1 - 1 # y1 - 2 /\ y1 - 1 # y1 /\ y1 - 1 # y1 + 1
        /\ y1 - 2 # y1 /\ y1 - 2 # y1 + 1 /\ y1 # y1 + 1
        /\ y1 - 1 \in Ids /\ y1 - 2 \in Ids /\ y1 \in Ids /\ y1 + 1 \in Ids
        /\ y1 + 1 - 1 = y1
    BY <1>3
  <1>7. /\ tensor'[y1 - 1] = Leaf(TRUE) /\ tensor'[y1 - 2] = Leaf(TRUE)
        /\ tensor'[y1] = r1 /\ tensor'[y1 + 1] = r2
    BY <1>2, <1>4, <1>6, ZenonT(30)
  <1>8. \A t \in Ids : t \notin created + 1 .. created' => tensor'[t] = tensor[t]
    BY <1>2, <1>3, <1>4
  <1>9. ASSUME NEW t \in {y1 - 2, y1 - 1, y1, y1 + 1}
        PROVE  /\ tensor'[t].op = "leaf" => tensor'[t].fn = 0
               /\ tensor'[t].op \in {"op", "add", "rev1", "rev2"} => tensor'[t].fn = t
               /\ tensor'[t].op = "rev1" =>
                    /\ t + 1 <= created' /\ tensor'[t + 1].op = "rev2"
                    /\ tensor'[t - 2] = Leaf(TRUE) /\ tensor'[t - 1] = Leaf(TRUE)
               /\ tensor'[t].op = "rev2" => tensor'[t - 1].op = "rev1"
    <2>1. CASE t = y1 - 2 \/ t = y1 - 1
      <3>1. tensor'[t] = Leaf(TRUE)
        BY <2>1, <1>7
      <3> QED
        BY <3>1, LeafFacts
    <2>2. CASE t = y1
      <3>2. t + 1 <= created'
        BY <1>3, <2>2
      <3>1. /\ t + 1 <= created' /\ tensor'[t] = r1 /\ tensor'[t + 1] = r2
            /\ tensor'[t - 1] = Leaf(TRUE) /\ tensor'[t - 2] = Leaf(TRUE)
        BY <1>7, <2>2, <3>2
      <3> QED
        BY <2>2, <3>1, <1>5
    <2>3. CASE t = y1 + 1
      <3>1. tensor'[t] = r2 /\ tensor'[t - 1] = r1
        BY <2>3, <1>3, <1>6, <1>7, SMTT(30)
      <3> QED
        BY <2>3, <3>1, <1>5
    <2> QED
      BY <2>1, <2>2, <2>3
  <1>10. NewShape
    BY <1>3, <1>8, <1>9 DEF NewShape
  <1> QED
    BY <1>10, ShapeGrows

\* Calls that add to the graph.
LEMMA BuildShape ==
  ASSUME GraphInv, GraphShape, Build
  PROVE  GraphShape'
  <1>1. ASSUME NEW a, Op(a, created) PROVE GraphShape'
    <2> PICK r : r = Result("op", <<a, created>>, created + 1, enabled, Wants(<<a, created>>))
      OBVIOUS
    <2>1. Make("op", r)
      BY <1>1 DEF Op
    <2>2. r.op \in {"op", "leaf"} /\ (r.op = "leaf" => r.fn = 0) /\ (r.op # "leaf" => r.fn = created + 1)
      BY ResultShape
    <2> QED
      BY <2>1, <2>2, MakeShape
  <1>2. ASSUME NEW a, Add(a, created) PROVE GraphShape'
    <2> PICK r : r = Result("add", <<a, created>>, created + 1, enabled, Wants(<<a, created>>))
      OBVIOUS
    <2>1. Make("add", r)
      BY <1>2 DEF Add
    <2>2. r.op \in {"add", "leaf"} /\ (r.op = "leaf" => r.fn = 0) /\ (r.op # "leaf" => r.fn = created + 1)
      BY ResultShape
    <2> QED
      BY <2>1, <2>2, MakeShape
  <1>3. CASE View(created)
    BY <1>3, MakeShape DEF View
  <1> QED
    BY <1>1, <1>2, <1>3, BlockShape DEF Build

\* The tensors of a recompute.
Made ==
  /\ tensor[x1r] = Leaf(tensor[tensor[block].in[1]].rg)
  /\ tensor[x2r] = Leaf(tensor[tensor[block].in[2]].rg)
  /\ tensor[fx] = Result("op", <<x2r, ParamF(block)>>, fx, TRUE, TRUE)
  /\ tensor[fy1] = Result("add", <<x1r, fx>>, fy1, TRUE, TRUE)
  /\ tensor[gy] = Result("op", <<fy1, ParamG(block)>>, gy, TRUE, TRUE)
  /\ tensor[fy2] = Result("add", <<x2r, gy>>, fy2, TRUE, TRUE)

\* A recompute makes these, and changes nothing of what callers made.
LEMMA RecomputeMakes ==
  ASSUME GraphInv, GraphShape, BlockThere, tensor[block].op = "rev1", Recompute
  PROVE  Made' /\ UNCHANGED <<block, created>>
         /\ \A t \in Ids : t <= MaxTensors => tensor'[t] = tensor[t]
  <1> PICK a : a = tensor[block].in[1]
    OBVIOUS
  <1> PICK b : b = tensor[block].in[2]
    OBVIOUS
  <1> DEFINE r(op, inputs, id) == Result(op, inputs, id, TRUE, TRUE)
  <1>1. /\ tensor' = [tensor EXCEPT ![x1r] = Leaf(tensor[a].rg),
                                    ![x2r] = Leaf(tensor[b].rg),
                                    ![fx]  = r("op", <<x2r, ParamF(block)>>, fx),
                                    ![fy1] = r("add", <<x1r, fx>>, fy1),
                                    ![gy]  = r("op", <<fy1, ParamG(block)>>, gy),
                                    ![fy2] = r("add", <<x2r, gy>>, fy2)]
        /\ UNCHANGED <<block, created>>
    BY DEF Recompute
  <1>2. DOMAIN tensor = Ids
    BY DEF GraphInv
  <1>3. /\ x1r \in Ids /\ x2r \in Ids /\ fx \in Ids /\ fy1 \in Ids /\ gy \in Ids /\ fy2 \in Ids
    BY IdsFacts
  <1>8. x1r # x2r /\ x1r # fx /\ x1r # fy1 /\ x1r # gy /\ x1r # fy2 /\ x2r # fx /\ x2r # fy1
        /\ x2r # gy /\ x2r # fy2 /\ fx # fy1 /\ fx # gy /\ fx # fy2 /\ fy1 # gy /\ fy1 # fy2
        /\ gy # fy2
    BY IdsFacts
  <1> HIDE DEF r
  <1>9. /\ tensor'[x1r] = Leaf(tensor[a].rg) /\ tensor'[x2r] = Leaf(tensor[b].rg)
        /\ tensor'[fx] = r("op", <<x2r, ParamF(block)>>, fx)
        /\ tensor'[fy1] = r("add", <<x1r, fx>>, fy1)
        /\ tensor'[gy] = r("op", <<fy1, ParamG(block)>>, gy)
        /\ tensor'[fy2] = r("add", <<x2r, gy>>, fy2)
    BY <1>1, <1>2, <1>3, <1>8, ZenonT(30)
  <1>10. \A t \in Ids : t <= MaxTensors => tensor'[t] = tensor[t]
    BY RecomputeGraph
  <1>11. a \in Ids /\ a <= MaxTensors /\ b \in Ids /\ b <= MaxTensors
    <2>1. tensor[block].fn = block /\ block \in Ids /\ block <= MaxTensors
      BY DEF GraphShape, BlockThere
    <2>2. tensor[block].in[1] < block /\ tensor[block].in[2] < block
      BY <2>1 DEF GraphInv
    <2>3. a \in Ids /\ b \in Ids
      BY ElementOfSeq DEF BlockThere
    <2> QED
      BY <2>1, <2>2, <2>3, IdsFacts
  <1>12. block \in Ids /\ tensor'[block] = tensor[block]
    BY <1>10 DEF BlockThere
  <1>13. tensor'[a] = tensor[a] /\ tensor'[b] = tensor[b]
    BY <1>10, <1>11
  <1>14. Made'
    BY <1>1, <1>9, <1>12, <1>13 DEF r, Made, ParamF, ParamG, x1r, x2r, fx, fy1, gy, fy2
  <1> QED
    BY <1>1, <1>10, <1>14

\* The inputs of every node come before it.
LEMMA FeedsGraph ==
  ASSUME GraphInv, GraphShape
  PROVE  Feeds(tensor)
  <1> SUFFICES ASSUME NEW u \in Ids, tensor[u].fn # 0
               PROVE  /\ tensor[u].fn \in Ids /\ tensor[u].fn <= u
                      /\ \A k \in {1, 2} : tensor[tensor[u].fn].in[k] \in Ids
                                             /\ tensor[tensor[u].fn].in[k] < u
                      /\ tensor[tensor[u].fn].op = "rev1" =>
                           tensor[u].fn - 2 \in Ids /\ tensor[u].fn - 2 < u
                      /\ tensor[tensor[u].fn].op = "rev2" =>
                           /\ tensor[u].fn - 1 - 2 \in Ids /\ tensor[u].fn - 1 - 2 < u
                           /\ tensor[u].fn - 1 - 1 \in Ids /\ tensor[u].fn - 1 - 1 < u
    BY DEF Feeds
  <1>1. Wired(tensor, u) /\ Ins(tensor, u) = tensor[tensor[u].fn].in /\ Acyclic(tensor)
    BY GraphAcyclic DEF Wired, Ins
  <1>2. \A k \in {1, 2} : tensor[tensor[u].fn].in[k] \in Ids /\ tensor[tensor[u].fn].in[k] < u
    BY <1>1 DEF Acyclic
  <1> PICK n : n = tensor[u].fn
    OBVIOUS
  <1>3. n \in Ids
    BY DEF GraphInv, TensorType
  <1>4. n <= u
    <2>1. CASE u <= MaxTensors
      BY <2>1 DEF GraphInv
    <2>2. CASE u > MaxTensors
      <3>1. n = u
        BY <2>2 DEF GraphInv
      <3> QED
        BY <3>1, IdsFacts
    <2>3. u \in Nat /\ MaxTensors \in Nat
      BY IdsFacts
    <2> QED
      BY <2>1, <2>2, <2>3
  <1>5. u \in Nat /\ n \in Nat
    BY <1>3, IdsFacts
  <1>6. ASSUME tensor[n].op = "rev1" PROVE n - 2 \in Ids /\ n - 2 < u
    <2>1. n - 2 \in Ids
      BY <1>3, <1>6, RevPlace
    <2> QED
      BY <1>4, <1>5, <2>1
  <1>7. ASSUME tensor[n].op = "rev2"
        PROVE  /\ n - 1 - 2 \in Ids /\ n - 1 - 2 < u
               /\ n - 1 - 1 \in Ids /\ n - 1 - 1 < u
    <2> PICK b : b = n - 1
      OBVIOUS
    <2>1. b \in Ids /\ tensor[b].op = "rev1"
      BY <1>3, <1>7, RevPlace
    <2>2. b - 2 \in Ids /\ b - 1 \in Ids
      BY <2>1, RevPlace
    <2>3. b - 2 < u /\ b - 1 < u
      BY <1>4, <1>5
    <2> QED
      BY <2>2, <2>3
  <1> QED
    BY <1>2, <1>3, <1>4, <1>6, <1>7

-----------------------------------------------------------------------------
(* What buffers hold.                                                      *)

\* Buffers were added, none was changed.
Longer(w, v) ==
  /\ w \in Seq(Nat) /\ Len(v) <= Len(w)
  /\ \A b \in 1 .. Len(v) : w[b] = v[b]

\* Buffers as they were.
LEMMA LongerSame == ASSUME NEW v \in Seq(Nat) PROVE Longer(v, v)
  BY DEF Longer

\* One more buffer.
LEMMA LongerOne ==
  ASSUME NEW v \in Seq(Nat), NEW x \in Nat
  PROVE  /\ Longer(Append(v, x), v) /\ Len(Append(v, x)) = Len(v) + 1
         /\ Append(v, x)[Len(v) + 1] = x
  BY DEF Longer

\* One addition after another.
LEMMA LongerTwice ==
  ASSUME NEW u, NEW v \in Seq(Nat), NEW w, Longer(u, w), Longer(w, v)
  PROVE  Longer(u, v)
  <1>1. Len(u) \in Nat /\ Len(v) \in Nat /\ Len(w) \in Nat /\ u \in Seq(Nat)
        /\ Len(v) <= Len(w) /\ Len(w) <= Len(u)
    BY DEF Longer
  <1>2. ASSUME NEW b \in 1 .. Len(v) PROVE u[b] = v[b]
    <2>1. b \in 1 .. Len(w)
      BY <1>1
    <2> QED
      BY <2>1 DEF Longer
  <1> QED
    BY <1>1, <1>2 DEF Longer

\* Gradients pending in s, as numbers.
Numbers(s) == s.value \in Seq(Nat) /\ s.pending \in [Ids -> Buffers(Len(s.value))]

\* What is pending in s for tensor u.
In(s, u) == IF s.pending[u] = 0 THEN 0 ELSE s.value[s.pending[u]]

\* From s to r, tensor t's gradient grew by a.
Gains(r, s, t, a) ==
  /\ Numbers(r) /\ Longer(r.value, s.value)
  /\ \A u \in Ids : In(r, u) = In(s, u) + IF u = t THEN a ELSE 0
  /\ \A u \in Ids : r.pending[u] # 0 => u = t \/ s.pending[u] # 0

\* A buffer is none, or one of those there are.
LEMMA BuffersRange ==
  ASSUME NEW n \in Nat, NEW b \in Buffers(n)
  PROVE  b \in Nat /\ b <= n /\ (b # 0 => b \in 1 .. n)
  BY DEF Buffers

\* What is pending is a number.
LEMMA InNat == ASSUME NEW s, Numbers(s), NEW u \in Ids PROVE In(s, u) \in Nat
  <1>1. s.pending[u] \in Buffers(Len(s.value)) /\ Len(s.value) \in Nat /\ s.value \in Seq(Nat)
    BY DEF Numbers
  <1>2. s.pending[u] # 0 => s.pending[u] \in 1 .. Len(s.value)
    BY <1>1, BuffersRange
  <1> QED
    BY <1>1, <1>2 DEF In

\* What stays as it is has gained nothing.
LEMMA GainsNothing ==
  ASSUME NEW s, Numbers(s), NEW t
  PROVE  Gains(s, s, t, 0)
  <1>1. Longer(s.value, s.value)
    BY LongerSame DEF Numbers
  <1> PICK p : p = s.pending
    OBVIOUS
  <1>2. \A u \in Ids : In(s, u) = In(s, u) + IF u = t THEN 0 ELSE 0
    <2> SUFFICES ASSUME NEW u \in Ids PROVE In(s, u) = In(s, u) + IF u = t THEN 0 ELSE 0
      OBVIOUS
    <2>1. PICK x \in Nat : x = In(s, u)
      BY InNat
    <2> QED
      BY <2>1
  <1> QED
    BY <1>1, <1>2 DEF Gains

\* add_gradient adds the buffer's number.
LEMMA AddGains ==
  ASSUME NEW s, Numbers(s), NEW t \in Ids, NEW b \in 1 .. Len(s.value)
  PROVE  Gains(AddGradient(s, t, b), s, t, s.value[b])
  <1> PICK v : v = s.value
    OBVIOUS
  <1> PICK p : p = s.pending
    OBVIOUS
  <1> PICK r : r = AddGradient(s, t, b)
    OBVIOUS
  <1>1. v \in Seq(Nat) /\ Len(v) \in Nat /\ p \in [Ids -> Buffers(Len(v))] /\ v[b] \in Nat
        /\ b \in 1 .. Len(v)
    BY DEF Numbers
  <1>2. CASE p[t] = 0
    <2>1. r.pending = [p EXCEPT ![t] = b] /\ r.value = v
      BY <1>2 DEF AddGradient
    <2>2. b \in Buffers(Len(v))
      BY <1>1 DEF Buffers
    <2>3. Numbers(r) /\ Longer(r.value, s.value)
      BY <1>1, <2>1, <2>2, LongerSame DEF Numbers
    <2>4. /\ r.pending[t] = b /\ \A u \in Ids : u # t => r.pending[u] = p[u]
          /\ b # 0
      BY <1>1, <2>1
    <2>5. In(r, t) = v[b] /\ In(s, t) = 0 /\ \A u \in Ids : u # t => In(r, u) = In(s, u)
      BY <1>2, <2>1, <2>4 DEF In
    <2>6. ASSUME NEW u \in Ids PROVE In(r, u) = In(s, u) + IF u = t THEN v[b] ELSE 0
      <3>1. PICK x \in Nat : x = In(s, u)
        BY InNat
      <3> QED
        BY <1>1, <2>5, <3>1
    <2> QED
      BY <2>3, <2>4, <2>6 DEF Gains
  <1>3. CASE p[t] # 0
    <2>1. p[t] \in 1 .. Len(v)
      BY <1>1, <1>3, BuffersRange
    <2>2. PICK x \in Nat : x = v[p[t]]
      BY <1>1, <2>1
    <2>3. PICK y \in Nat : y = v[b]
      BY <1>1
    <2> PICK w : w = Append(v, x + y)
      OBVIOUS
    <2>4. r.pending = [p EXCEPT ![t] = Len(v) + 1] /\ r.value = w
      BY <1>3, <2>2, <2>3 DEF AddGradient
    <2>5. x + y \in Nat
      OBVIOUS
    <2>6. Longer(w, v) /\ Len(w) = Len(v) + 1 /\ w[Len(v) + 1] = x + y
      BY <1>1, <2>5, LongerOne
    <2>7. Len(v) + 1 \in Buffers(Len(w)) /\ Buffers(Len(v)) \subseteq Buffers(Len(w))
          /\ Len(v) + 1 # 0
      BY <1>1, <2>6 DEF Buffers
    <2>8. r.pending \in [Ids -> Buffers(Len(w))]
      BY <1>1, <2>4, <2>7
    <2>9. Numbers(r)
      BY <2>4, <2>6, <2>8 DEF Numbers, Longer
    <2>10. r.pending[t] = Len(v) + 1 /\ \A u \in Ids : u # t => r.pending[u] = p[u]
      BY <1>1, <2>4
    <2>11. In(r, t) = x + y /\ In(s, t) = x
      BY <1>3, <2>2, <2>4, <2>6, <2>7, <2>10 DEF In
    <2>12. ASSUME NEW u \in Ids, u # t PROVE In(r, u) = In(s, u)
      <3>1. p[u] # 0 => p[u] \in 1 .. Len(v)
        BY <1>1, BuffersRange
      <3>2. p[u] # 0 => w[p[u]] = v[p[u]]
        BY <2>6, <3>1 DEF Longer
      <3> QED
        BY <2>4, <2>10, <2>12, <3>2 DEF In
    <2>13. ASSUME NEW u \in Ids PROVE In(r, u) = In(s, u) + IF u = t THEN y ELSE 0
      <3>1. PICK z \in Nat : z = In(s, u)
        BY InNat
      <3> QED
        BY <2>11, <2>12, <3>1
    <2>14. \A u \in Ids : r.pending[u] # 0 => u = t \/ s.pending[u] # 0
      BY <2>10
    <2>15. Longer(r.value, s.value)
      BY <2>4, <2>6
    <2> QED
      BY <2>3, <2>9, <2>13, <2>14, <2>15 DEF Gains
  <1> QED
    BY <1>2, <1>3

\* A node's gradient for one input: by the weight, if it wants one.
LEMMA SendGains ==
  ASSUME NEW s, Numbers(s), NEW t \in Ids, NEW weight \in Nat, NEW b \in 1 .. Len(s.value)
  PROVE  Gains(Send(s, t, weight, b), s, t, IF tensor[t].rg THEN weight * s.value[b] ELSE 0)
  <1>0. s.value \in Seq(Nat) /\ s.pending \in [Ids -> Buffers(Len(s.value))] /\ Len(s.value) \in Nat
    BY DEF Numbers
  <1>1. PICK x \in Nat : x = s.value[b]
    BY <1>0
  <1>2. CASE ~tensor[t].rg
    BY <1>2, GainsNothing DEF Send
  <1>3. CASE tensor[t].rg /\ weight = 1
    <2>1. Gains(AddGradient(s, t, b), s, t, x)
      BY <1>1, AddGains
    <2>2. weight * s.value[b] = x
      BY <1>1, <1>3
    <2> QED
      BY <1>3, <2>1, <2>2 DEF Send
  <1>4. CASE tensor[t].rg /\ weight # 1
    <2>1. PICK y \in Nat : y = weight * x
      OBVIOUS
    <2> PICK w : w = Append(s.value, y)
      OBVIOUS
    <2> PICK q : q = [pending |-> s.pending, value |-> w]
      OBVIOUS
    <2>2. Send(s, t, weight, b) = AddGradient(q, t, Len(s.value) + 1)
      BY <1>1, <1>4, <2>1 DEF Send
    <2>3. Longer(w, s.value) /\ Len(w) = Len(s.value) + 1 /\ w[Len(s.value) + 1] = y
      BY <1>0, LongerOne
    <2>4. q.pending = s.pending /\ q.value = w
      OBVIOUS
    <2>5. Buffers(Len(s.value)) \subseteq Buffers(Len(w))
      BY <1>0, <2>3 DEF Buffers
    <2>6. Numbers(q)
      BY <1>0, <2>3, <2>4, <2>5 DEF Numbers, Longer
    <2>7. \A u \in Ids : In(q, u) = In(s, u)
      <3> SUFFICES ASSUME NEW u \in Ids PROVE In(q, u) = In(s, u)
        OBVIOUS
      <3>1. s.pending[u] # 0 => s.pending[u] \in 1 .. Len(s.value)
        BY <1>0, BuffersRange
      <3>2. s.pending[u] # 0 => w[s.pending[u]] = s.value[s.pending[u]]
        BY <2>3, <3>1 DEF Longer
      <3> QED
        BY <2>4, <3>2 DEF In
    <2>8. Len(s.value) + 1 \in 1 .. Len(q.value)
      BY <1>0, <2>3, <2>4
    <2> PICK r : r = AddGradient(q, t, Len(s.value) + 1)
      OBVIOUS
    <2>9. Gains(r, q, t, y)
      BY <2>3, <2>4, <2>6, <2>8, AddGains
    <2>10. Longer(r.value, s.value)
      BY <1>0, <2>3, <2>4, <2>9, LongerTwice DEF Gains
    <2>11. Gains(r, s, t, y)
      BY <2>4, <2>7, <2>9, <2>10 DEF Gains
    <2>12. (IF tensor[t].rg THEN weight * s.value[b] ELSE 0) = y
      BY <1>1, <1>4, <2>1
    <2> QED
      BY <2>2, <2>11, <2>12
  <1> QED
    BY <1>2, <1>3, <1>4

\* A recovered input's gradient.
LEMMA HandGains ==
  ASSUME NEW s, Numbers(s), NEW x \in Ids, NEW xr, grad[xr] \in Buffers(Len(s.value))
  PROVE  Gains(Hand(s, x, xr), s, x,
               IF tensor[x].rg /\ grad[xr] # 0 THEN s.value[grad[xr]] ELSE 0)
  <1>1. CASE tensor[x].rg /\ grad[xr] # 0
    <2>1. grad[xr] \in 1 .. Len(s.value)
      BY <1>1, BuffersRange DEF Numbers
    <2> QED
      BY <1>1, <2>1, AddGains DEF Hand
  <1>2. CASE ~(tensor[x].rg /\ grad[xr] # 0)
    BY <1>2, GainsNothing DEF Hand
  <1> QED
    BY <1>1, <1>2

-----------------------------------------------------------------------------
(* What every step keeps: the graph's shape, recomputes, parked gradients. *)

\* Of which block a recompute is, and that it has the tensors it made; what it recovered has
\* no gradient before.
RecomputeInv ==
  /\ step = "idle" => block = 0
  /\ step # "idle" => tensor[block].op = "rev1" /\ arrived[block] # 0 /\ arrived[block + 1] # 0
  /\ step \in {"y1", "y2", "dispatch"} => Made
  /\ step \in {"idle", "forward"} => grad[x1r] = 0 /\ grad[x2r] = 0

\* A block has parked the gradients that arrived, and only those.
ArrivedInv ==
  /\ arrived \in [Ids -> Nat]
  /\ \A t \in Ids : arrived[t] # 0 => t <= MaxTensors /\ tensor[t].op \in {"rev1", "rev2"}
  /\ \A b \in Ids : tensor[b].op = "rev1" =>
       (parked[b][1] # 0 <=> arrived[b] # 0) /\ (parked[b][2] # 0 <=> arrived[b + 1] # 0)

\* A recompute's tensors have the shape.
LEMMA MadeShape ==
  ASSUME GraphInv, GraphShape, BlockThere, tensor[block].op = "rev1", Recompute
  PROVE  /\ GraphShape'
         /\ \A t \in Ids : t > MaxTensors => tensor'[t].op \notin {"rev1", "rev2"}
  <1>1. /\ tensor'[x1r].op = "leaf" /\ tensor'[x1r].fn = 0
        /\ tensor'[x2r].op = "leaf" /\ tensor'[x2r].fn = 0
        /\ tensor'[fx].op = "op" /\ tensor'[fx].fn = fx
        /\ tensor'[fy1].op = "add" /\ tensor'[fy1].fn = fy1
        /\ tensor'[gy].op = "op" /\ tensor'[gy].fn = gy
        /\ tensor'[fy2].op = "add" /\ tensor'[fy2].fn = fy2
    BY RecomputeMakes, LeafFacts DEF Made, Result
  <1>2. UNCHANGED <<block, created>> /\ \A t \in Ids : t <= MaxTensors => tensor'[t] = tensor[t]
    BY RecomputeMakes
  <1>3. \A t \in Ids : t > MaxTensors => t \in {x1r, x2r, fx, fy1, gy, fy2}
    BY IdsFacts
  <1>4. ASSUME NEW t \in Ids, t > MaxTensors
        PROVE  /\ tensor'[t].op \notin {"rev1", "rev2"}
               /\ tensor'[t].op = "leaf" => tensor'[t].fn = 0
               /\ tensor'[t].op \in {"op", "add"} => tensor'[t].fn = t
    BY <1>1, <1>3, <1>4
  <1>5. \A t \in Ids : t > MaxTensors \/ t <= MaxTensors
    BY IdsFacts
  <1>6. ASSUME NEW t \in Ids
        PROVE  /\ tensor'[t].op = "leaf" => tensor'[t].fn = 0
               /\ tensor'[t].op \in {"op", "add", "rev1", "rev2"} => tensor'[t].fn = t
    BY <1>2, <1>4, <1>5 DEF GraphShape
  <1>7. ASSUME NEW t \in created + 1 .. MaxTensors PROVE tensor'[t] = Leaf(TRUE)
    <2>1. created \in Nat /\ MaxTensors \in Nat
      BY CreatedFacts, IdsFacts
    <2>2. t \in Nat /\ created < t /\ t <= MaxTensors
      BY <2>1, <1>7, RangeFacts, Zenon
    <2>3. t \in Ids
      BY <2>1, <2>2, IdsFacts
    <2> QED
      BY <1>2, <1>7, <2>2, <2>3 DEF GraphShape
  <1>8. ASSUME NEW t \in Ids, tensor'[t].op = "rev1"
        PROVE  /\ t + 1 <= MaxTensors /\ tensor'[t + 1].op = "rev2"
               /\ tensor'[t - 2] = Leaf(TRUE) /\ tensor'[t - 1] = Leaf(TRUE)
    <2>1. t <= MaxTensors /\ tensor[t].op = "rev1"
      BY <1>2, <1>4, <1>5, <1>8
    <2>2. t + 1 \in Ids /\ t - 1 \in Ids /\ t - 2 \in Ids
      BY <2>1, RevPlace
    <2>3. t + 1 <= MaxTensors /\ tensor[t + 1].op = "rev2" /\ tensor[t - 2] = Leaf(TRUE)
          /\ tensor[t - 1] = Leaf(TRUE)
      BY <2>1 DEF GraphShape
    <2>4. t - 1 <= MaxTensors /\ t - 2 <= MaxTensors
      BY <2>1, IdsFacts
    <2> QED
      BY <1>2, <2>2, <2>3, <2>4
  <1>9. ASSUME NEW t \in Ids, tensor'[t].op = "rev2" PROVE tensor'[t - 1].op = "rev1"
    <2>1. t <= MaxTensors /\ tensor[t].op = "rev2"
      BY <1>2, <1>4, <1>5, <1>9
    <2>2. t - 1 \in Ids /\ tensor[t - 1].op = "rev1"
      BY <2>1, RevPlace
    <2>3. t - 1 <= MaxTensors
      BY <2>1, IdsFacts
    <2> QED
      BY <1>2, <2>2, <2>3
  <1>10. \A t \in created + 1 .. MaxTensors : tensor'[t] = Leaf(TRUE)
    BY <1>7
  <1>11. created' = created
    BY <1>2
  <1>12. \A t \in created' + 1 .. MaxTensors : tensor'[t] = Leaf(TRUE)
    BY <1>10, <1>11
  <1> QED
    BY <1>4, <1>6, <1>8, <1>9, <1>12 DEF GraphShape

\* A block that is recomputed is there.
LEMMA RecomputeThere ==
  ASSUME AllInv, RecomputeInv, step # "idle"
  PROVE  BlockThere /\ GraphInv /\ tensor[block].op = "rev1"
  BY DEF AllInv, OrderInv, BlockInv, RecomputeInv

\* The steps that change the graph.
LEMMA GraphSteps ==
  ASSUME [Next]_vars
  PROVE  Build \/ Recompute \/ UNCHANGED <<tensor, created, built>>
  BY DEF Next, Run, SetEnabled, ZeroGrad, Scale, Backward, CollectInput, CollectDone,
         CollectUnchanged, StartVisits, VisitNothing, VisitOp, EndVisits, Commit, Return,
         VisitBlock, Nested, Dispatch, Throw, vars, graphVars

\* Every step keeps the shape.
LEMMA ShapeStep ==
  ASSUME AllInv, GraphShape, RecomputeInv, [Next]_vars
  PROVE  GraphShape'
  <1>0. GraphInv
    BY DEF AllInv, OrderInv
  <1>1. CASE Build
    BY <1>0, <1>1, BuildShape
  <1>2. CASE Recompute
    <2>1. step # "idle"
      BY <1>2 DEF Recompute, Recomputing
    <2> QED
      BY <1>2, <2>1, RecomputeThere, MadeShape
  <1>3. CASE UNCHANGED <<tensor, created, built>>
    BY <1>3 DEF GraphShape
  <1> QED
    BY <1>1, <1>2, <1>3, GraphSteps

\* Before the first gradient, none is parked and none has arrived.
LEMMA NothingArrived ==
  ASSUME AllInv, GraphShape, BufferInv, ArrivedInv, value = <<>>
  PROVE  /\ \A t \in Ids : arrived[t] = 0 /\ parked[t][1] = 0 /\ parked[t][2] = 0 /\ grad[t] = 0
  <1>0. GraphInv
    BY DEF AllInv, OrderInv
  <1>1. Len(value) = 0
    OBVIOUS
  <1>2. \A b \in Buffers(Len(value)) : b = 0
    BY <1>1 DEF Buffers
  <1>3. \A t \in Ids : parked[t][1] = 0 /\ parked[t][2] = 0 /\ grad[t] = 0
    BY <1>2 DEF BufferInv
  <1>4. ASSUME NEW t \in Ids PROVE arrived[t] = 0
    <2>1. CASE tensor[t].op = "rev1"
      BY <1>3, <2>1 DEF ArrivedInv
    <2>2. CASE tensor[t].op = "rev2"
      <3> PICK b : b = t - 1
        OBVIOUS
      <3>1. b \in Ids /\ tensor[b].op = "rev1"
        BY <1>0, <2>2, RevPlace
      <3>2. b + 1 = t
        BY IdsFacts
      <3>3. arrived[b + 1] = 0
        BY <1>3, <3>1 DEF ArrivedInv
      <3> QED
        BY <3>2, <3>3
    <2> QED
      BY <2>1, <2>2 DEF ArrivedInv
  <1> QED
    BY <1>3, <1>4

\* What VisitBlock does: n is the output whose node ran, b its block.
BlockVisit(t, n, b, x) ==
  /\ t = Current(1) /\ t \in Ids /\ t <= MaxTensors /\ Wired(tensor, t)
  /\ n = tensor[t].fn /\ n \in Ids /\ n <= MaxTensors /\ tensor[n].op \in {"rev1", "rev2"}
  /\ b = Block(n) /\ b \in Ids /\ tensor[b].op = "rev1"
  /\ \/ b = n /\ Part(n) = 1 /\ tensor[n].op = "rev1"
     \/ b = n - 1 /\ n = b + 1 /\ Part(n) = 2 /\ tensor[n].op = "rev2"
  /\ x = pending[1][t] /\ x # 0
  /\ parked' = [parked EXCEPT ![b][Part(n)] = x]
  /\ arrived' = [arrived EXCEPT ![n] = @ + 1]
  /\ UNCHANGED <<tensor, created, grad, value, pending>>

\* It does no more, and no less.
LEMMA BlockVisits ==
  ASSUME AllInv, GraphShape, VisitBlock
  PROVE  \E t, n, b, x : BlockVisit(t, n, b, x)
  <1>0. GraphInv /\ OrderInv
    BY DEF AllInv, OrderInv
  <1>1. Visiting(1)
    BY DEF VisitBlock
  <1> PICK t : t = Current(1)
    OBVIOUS
  <1>2. t \in Ids /\ Wired(tensor, t)
    BY <1>0, <1>1, CurrentThere DEF Engines
  <1>3. t <= MaxTensors
    <2>1. /\ topo[1] \in Seq(Ids) /\ pos[1] \in Nat /\ pos[1] > 0 /\ pos[1] <= Len(topo[1])
          /\ Searched(tensor, stack[1], topo[1], visited[1], next[1])
      BY <1>0, <1>1 DEF OrderInv, SearchType, EngineInv, Visiting, Engines
    <2>2. pos[1] \in 1 .. Len(topo[1])
      BY <2>1
    <2>3. topo[1][pos[1]] \in visited[1]
      BY <2>1, <2>2 DEF Searched, Within
    <2> QED
      BY <1>0, <2>3 DEF OrderInv, OuterInv, Current
  <1> PICK n : n = tensor[t].fn
    OBVIOUS
  <1>4. n \in Ids /\ n <= t
    BY <1>0, <1>2, FeedsGraph DEF Feeds, Wired
  <1>5. n <= MaxTensors
    BY <1>2, <1>3, <1>4, IdsFacts
  <1>6. tensor[n].op \in {"rev1", "rev2"}
    BY DEF VisitBlock
  <1> PICK b : b = Block(n)
    OBVIOUS
  <1> PICK x : x = pending[1][t]
    OBVIOUS
  <1>9. x # 0 /\ parked' = [parked EXCEPT ![b][Part(n)] = x]
        /\ arrived' = [arrived EXCEPT ![n] = @ + 1]
        /\ UNCHANGED <<tensor, created, grad, value, pending>>
    BY DEF VisitBlock, graphVars
  <1>7. CASE tensor[n].op = "rev1"
    <2>1. b = n /\ Part(n) = 1
      BY <1>7 DEF Block, Part
    <2>2. Wired(tensor, t) /\ tensor[n].op \in {"rev1", "rev2"}
      BY <1>2, <1>6
    <2>3. b \in Ids /\ tensor[b].op = "rev1"
      BY <1>4, <1>7, <2>1
    <2> QED
      BY <1>2, <1>3, <1>4, <1>5, <1>7, <1>6, <1>9, <2>1, <2>2, <2>3 DEF BlockVisit
  <1>8. CASE tensor[n].op = "rev2"
    <2>1. b = n - 1 /\ Part(n) = 2
      BY <1>8 DEF Block, Part
    <2>2. b \in Ids /\ tensor[b].op = "rev1"
      BY <1>0, <1>4, <1>8, <2>1, RevPlace
    <2>3. n = b + 1
      BY <1>4, <2>1, IdsFacts
    <2> QED
      BY <1>2, <1>3, <1>4, <1>5, <1>8, <1>6, <1>9, <2>1, <2>2, <2>3 DEF BlockVisit
  <1> QED
    BY <1>6, <1>7, <1>8

\* The places where gradients are parked.
LEMMA BlockParks ==
  ASSUME BufferInv, NEW t, NEW n, NEW b, NEW x, BlockVisit(t, n, b, x)
  PROVE  /\ parked'[b][Part(n)] = x
         /\ \A i \in {1, 2} : i # Part(n) => parked'[b][i] = parked[b][i]
         /\ \A u \in Ids : u # b => parked'[u] = parked[u]
  <1> PICK B : B = Buffers(Len(value))
    OBVIOUS
  <1>1. parked \in [Ids -> B \X B] /\ b \in Ids
    BY DEF BufferInv, BlockVisit
  <1>2. parked' = [parked EXCEPT ![b][Part(n)] = x] /\ Part(n) \in {1, 2}
    BY DEF BlockVisit
  <1>3. PICK y \in B, z \in B : parked[b] = <<y, z>>
    BY <1>1
  <1>4. parked'[b] = [parked[b] EXCEPT ![Part(n)] = x] /\ \A u \in Ids : u # b => parked'[u] = parked[u]
    BY <1>1, <1>2
  <1>5. parked'[b][Part(n)] = x /\ \A i \in {1, 2} : i # Part(n) => parked'[b][i] = parked[b][i]
    <2>1. CASE Part(n) = 1
      BY <1>3, <1>4, <2>1
    <2>2. CASE Part(n) = 2
      BY <1>3, <1>4, <2>2
    <2> QED
      BY <1>2, <2>1, <2>2
  <1> QED
    BY <1>4, <1>5

\* Every step keeps that.
LEMMA ArrivedStep ==
  ASSUME AllInv, GraphShape, BufferInv, RecomputeInv, ArrivedInv, GraphShape', AllInv', [Next]_vars
  PROVE  ArrivedInv'
  <1>0. GraphInv /\ GraphInv'
    BY DEF AllInv, OrderInv
  <1>1. CASE Build
    <2>1. value = <<>> /\ UNCHANGED <<arrived, parked>>
      BY <1>1 DEF Build, Op, Add, View, Make, Reversible, Builds
    <2>2. \A t \in Ids : arrived'[t] = 0 /\ parked'[t][1] = 0 /\ parked'[t][2] = 0
      BY <2>1, NothingArrived
    <2>3. ASSUME NEW b \in Ids, tensor'[b].op = "rev1" PROVE b + 1 \in Ids
      <3>1. b + 1 <= MaxTensors
        BY <2>3 DEF GraphShape
      <3> QED
        BY <3>1, IdsFacts
    <2>4. arrived' \in [Ids -> Nat]
      BY <2>1 DEF ArrivedInv
    <2> QED
      BY <2>2, <2>3, <2>4 DEF ArrivedInv
  <1>2. CASE Recompute
    <2>1. step # "idle" /\ UNCHANGED <<arrived, parked>>
      BY <1>2 DEF Recompute, Recomputing, ghostVars
    <2>2. /\ \A t \in Ids : t <= MaxTensors => tensor'[t] = tensor[t]
          /\ \A t \in Ids : t > MaxTensors => tensor'[t].op \notin {"rev1", "rev2"}
      BY <1>2, <2>1, RecomputeThere, RecomputeMakes, MadeShape
    <2>3. \A t \in Ids : t > MaxTensors \/ t <= MaxTensors
      BY IdsFacts
    <2> QED
      BY <2>1, <2>2, <2>3 DEF ArrivedInv
  <1>3. CASE VisitBlock
    <2>1. PICK t, n, b, x : BlockVisit(t, n, b, x)
      BY <1>3, BlockVisits
    <2>2. /\ parked'[b][Part(n)] = x
          /\ \A i \in {1, 2} : i # Part(n) => parked'[b][i] = parked[b][i]
          /\ \A u \in Ids : u # b => parked'[u] = parked[u]
      BY <2>1, BlockParks
    <2>3. arrived' = [arrived EXCEPT ![n] = @ + 1] /\ n \in Ids /\ tensor' = tensor
          /\ n <= MaxTensors /\ tensor[n].op \in {"rev1", "rev2"} /\ x # 0
      BY <2>1 DEF BlockVisit
    <2>4. /\ arrived' \in [Ids -> Nat] /\ arrived'[n] # 0
          /\ \A u \in Ids : u # n => arrived'[u] = arrived[u]
      BY <2>3 DEF ArrivedInv
    <2>5. \A u \in Ids : arrived'[u] # 0 => u <= MaxTensors /\ tensor'[u].op \in {"rev1", "rev2"}
      BY <2>3, <2>4 DEF ArrivedInv
    <2>6. ASSUME NEW c \in Ids, tensor'[c].op = "rev1"
          PROVE  (parked'[c][1] # 0 <=> arrived'[c] # 0) /\ (parked'[c][2] # 0 <=> arrived'[c + 1] # 0)
      <3>1. c + 1 \in Ids /\ tensor[c + 1].op = "rev2"
        BY <1>0, <2>3, <2>6, RevPlace
      <3>2. (parked[c][1] # 0 <=> arrived[c] # 0) /\ (parked[c][2] # 0 <=> arrived[c + 1] # 0)
        BY <2>3, <2>6 DEF ArrivedInv
      <3> PICK d : d = c + 1
        OBVIOUS
      <3>3. c # d
        BY IdsFacts
      <3>4. CASE b = n /\ Part(n) = 1 /\ tensor[n].op = "rev1"
        <4>1. d # n
          BY <3>1, <3>4
        <4>2. arrived'[d] = arrived[d] /\ parked'[c][2] = parked[c][2]
          BY <2>2, <2>4, <3>1, <3>4, <4>1
        <4>3. CASE c = n
          BY <2>2, <2>3, <2>4, <3>2, <3>4, <4>2, <4>3
        <4>4. CASE c # n
          BY <2>2, <2>4, <3>2, <3>4, <4>2, <4>4
        <4> QED
          BY <4>3, <4>4
      <3>5. CASE b = n - 1 /\ n = b + 1 /\ Part(n) = 2 /\ tensor[n].op = "rev2"
        <4>1. c # n
          BY <2>3, <2>6, <3>5
        <4>2. arrived'[c] = arrived[c] /\ parked'[c][1] = parked[c][1]
          BY <2>2, <2>4, <3>5, <4>1
        <4>3. CASE c = b
          BY <2>2, <2>3, <2>4, <3>2, <3>5, <4>2, <4>3
        <4>4. CASE c # b
          <5>1. b \in Nat /\ c \in Nat
            BY <2>1, IdsFacts DEF BlockVisit
          <5>2. d # n
            BY <3>5, <4>4, <5>1
          <5>3. arrived'[d] = arrived[d]
            BY <2>4, <3>1, <5>2
          <5> QED
            BY <2>2, <3>2, <4>2, <4>4, <5>3
        <4> QED
          BY <4>3, <4>4
      <3> QED
        BY <2>1, <3>4, <3>5 DEF BlockVisit
    <2> QED
      BY <2>4, <2>5, <2>6 DEF ArrivedInv
  <1>4. ASSUME UNCHANGED <<tensor, arrived, parked>> PROVE ArrivedInv'
    BY <1>4 DEF ArrivedInv
  <1>5. Build \/ Recompute \/ VisitBlock \/ UNCHANGED <<tensor, arrived, parked>>
    BY DEF Next, Run, SetEnabled, ZeroGrad, Scale, Backward, CollectInput, CollectDone,
           CollectUnchanged, StartVisits, VisitNothing, VisitOp, EndVisits, Commit, Return,
           Nested, Dispatch, Throw, vars, graphVars, ghostVars
  <1> QED
    BY <1>1, <1>2, <1>3, <1>4, <1>5

-----------------------------------------------------------------------------
(* What every step keeps: engines and their pending gradients.             *)

\* Pending gradients are those of tensors the engine lists, or of leaves; only while it visits
\* or commits are there any.
WorkInv ==
  /\ phase[1] # "idle" => root[1] \in Ids /\ root[1] <= created
  /\ \A e \in Engines : phase[e] = "collect" /\ HasNode(root[e]) => root[e] \in visited[e]
  /\ \A e \in Engines : phase[e] \in {"idle", "collect"} => \A u \in Ids : pending[e][u] = 0
  /\ \A e \in Engines : phase[e] = "commit" => pos[e] = 0
  /\ \A u \in Ids : pending[1][u] # 0 => u <= MaxTensors
  /\ \A e \in Engines : \A u \in Ids :
       pending[e][u] # 0 /\ HasNode(u) => \E i \in 1 .. Len(topo[e]) : topo[e][i] = u

\* What a step leaves of a commit.
LEMMA CommitFacts ==
  ASSUME BufferInv, NEW e \in Engines, Commit(e)
  PROVE  \E t \in Ids :
           /\ pending[e][t] # 0 /\ level = e /\ phase[e] = "commit"
           /\ grad' = [grad EXCEPT ![t] = Accumulated(t, pending[e][t]).grad]
           /\ value' = Accumulated(t, pending[e][t]).value
           /\ pending'[e][t] = 0
           /\ \A f \in Engines : \A u \in Ids : f # e \/ u # t => pending'[f][u] = pending[f][u]
  <1>1. PICK t \in Left(e) :
          /\ grad' = [grad EXCEPT ![t] = Accumulated(t, pending[e][t]).grad]
          /\ value' = Accumulated(t, pending[e][t]).value
          /\ pending' = [pending EXCEPT ![e][t] = 0]
    BY DEF Commit
  <1>2. t \in Ids /\ pending[e][t] # 0 /\ level = e /\ phase[e] = "commit"
    BY DEF Left, Commit, Runs
  <1>3. /\ pending'[e][t] = 0
        /\ \A f \in Engines : \A u \in Ids : f # e \/ u # t => pending'[f][u] = pending[f][u]
    BY <1>1, <1>2 DEF BufferInv
  <1> QED
    BY <1>1, <1>2, <1>3

\* Every step keeps what the invariant says of recomputes.
LEMMA RecomputeStep ==
  ASSUME AllInv, GraphShape, BufferInv, RecomputeInv, ArrivedInv, ArrivedInv', WorkInv, [Next]_vars
  PROVE  RecomputeInv'
  <1>0. GraphInv /\ ContextInv
    BY DEF AllInv, OrderInv
  <1>a. x1r \in Ids /\ x2r \in Ids /\ x1r > MaxTensors /\ x2r > MaxTensors
    BY IdsFacts
  <1>1. ASSUME UNCHANGED <<step, block, grad, tensor, arrived>> PROVE RecomputeInv'
    BY <1>1 DEF RecomputeInv, Made
  <1>2. CASE Build
    <2>1. step = "idle" /\ UNCHANGED <<step, block, grad>>
      BY <1>0, <1>2 DEF Build, Op, Add, View, Make, Reversible, Builds, Does, Idle, ContextInv,
         runVars, recomputeVars
    <2> QED
      BY <2>1 DEF RecomputeInv
  <1>3. CASE ZeroGrad
    <2>1. step = "idle" /\ UNCHANGED <<step, block>>
          /\ grad' = [t \in Ids |-> IF t \in Params THEN 0 ELSE grad[t]]
      BY <1>0, <1>3 DEF ZeroGrad, Does, Idle, ContextInv, runVars, recomputeVars
    <2>2. grad'[x1r] = 0 /\ grad'[x2r] = 0
      BY <1>a, <2>1 DEF RecomputeInv
    <2> QED
      BY <2>1, <2>2 DEF RecomputeInv
  <1>4. ASSUME NEW e \in Engines, Commit(e) PROVE RecomputeInv'
    <2>1. PICK t \in Ids :
           /\ pending[e][t] # 0 /\ level = e /\ phase[e] = "commit"
           /\ grad' = [grad EXCEPT ![t] = Accumulated(t, pending[e][t]).grad]
      BY <1>4, CommitFacts
    <2>2. UNCHANGED <<step, block, tensor, arrived>>
      BY <1>4 DEF Commit, recomputeVars, graphVars, ghostVars
    <2>3. CASE e = 1
      <3>1. t <= MaxTensors
        BY <2>1, <2>3 DEF WorkInv
      <3>2. t # x1r /\ t # x2r
        BY <1>a, <3>1, IdsFacts
      <3>3. grad'[x1r] = grad[x1r] /\ grad'[x2r] = grad[x2r]
        BY <1>a, <2>1, <3>2 DEF BufferInv
      <3> QED
        BY <2>2, <3>3 DEF RecomputeInv, Made
    <2>4. CASE e = 2
      <3>1. step \in {"y2", "dispatch"}
        BY <1>0, <2>1, <2>4 DEF ContextInv
      <3> QED
        BY <2>2, <3>1 DEF RecomputeInv, Made
    <2> QED
      BY <2>3, <2>4 DEF Engines
  <1>5. CASE VisitBlock
    <2>1. PICK t, n, b, x : BlockVisit(t, n, b, x)
      BY <1>5, BlockVisits
    <2>2. step = "idle"
      BY <1>5 DEF VisitBlock, Visiting, Runs
    <2>3. t = Current(1) /\ n = tensor[t].fn /\ b = Block(n) /\ b \in Ids /\ tensor[b].op = "rev1"
          /\ UNCHANGED <<tensor, grad>>
      BY <2>1 DEF BlockVisit
    <2>4. IF parked'[b][1] # 0 /\ parked'[b][2] # 0
           THEN step' = "forward" /\ block' = b
           ELSE UNCHANGED <<step, block>>
      BY <1>5, <2>3 DEF VisitBlock
    <2>5. CASE ~(parked'[b][1] # 0 /\ parked'[b][2] # 0)
      <3>1. UNCHANGED <<step, block>>
        BY <2>4, <2>5
      <3> QED
        BY <2>2, <2>3, <3>1 DEF RecomputeInv
    <2>6. CASE parked'[b][1] # 0 /\ parked'[b][2] # 0
      <3>1. step' = "forward" /\ block' = b
        BY <2>4, <2>6
      <3>2. arrived'[b] # 0 /\ arrived'[b + 1] # 0
        BY <2>3, <2>6 DEF ArrivedInv
      <3> QED
        BY <2>2, <2>3, <3>1, <3>2 DEF RecomputeInv
    <2> QED
      BY <2>5, <2>6
  <1>6. CASE Recompute
    <2>1. step = "forward" /\ step' = "y1" /\ UNCHANGED <<arrived, block>>
      BY <1>6 DEF Recompute, Recomputing, ghostVars
    <2>2. BlockThere /\ tensor[block].op = "rev1"
      BY <2>1, RecomputeThere
    <2>3. Made' /\ tensor'[block] = tensor[block]
      BY <1>0, <1>6, <2>2, RecomputeMakes DEF BlockThere
    <2> QED
      BY <2>1, <2>2, <2>3 DEF RecomputeInv
  <1>7. ASSUME NEW part \in {1, 2}, Nested(part) PROVE RecomputeInv'
    <2>1. /\ step \in {"y1", "y2"} /\ step' \in {"y2", "dispatch"}
          /\ UNCHANGED <<block, tensor, arrived>>
      BY <1>7 DEF Nested, Recomputing, graphVars, ghostVars
    <2> QED
      BY <2>1 DEF RecomputeInv, Made
  <1>8. CASE Dispatch \/ Throw
    <2>1. /\ step' = "idle" /\ block' = 0
          /\ grad' = [t \in Ids |-> IF t \in Temporaries THEN 0 ELSE grad[t]]
      BY <1>8 DEF Dispatch, Throw
    <2>2. x1r \in Temporaries /\ x2r \in Temporaries
      BY IdsFacts DEF Temporaries
    <2>3. grad'[x1r] = 0 /\ grad'[x2r] = 0
      BY <1>a, <2>1, <2>2
    <2> QED
      BY <2>1, <2>3 DEF RecomputeInv
  <1>9. \/ Build \/ ZeroGrad \/ (\E e \in Engines : Commit(e)) \/ VisitBlock \/ Recompute
        \/ (\E part \in {1, 2} : Nested(part)) \/ Dispatch \/ Throw
        \/ UNCHANGED <<step, block, grad, tensor, arrived>>
    BY DEF Next, Run, SetEnabled, Scale, Backward, CollectInput, CollectDone,
           CollectUnchanged, StartVisits, VisitNothing, VisitOp, EndVisits, Return,
           vars, graphVars, ghostVars, runVars, recomputeVars
  <1> QED
    BY <1>1, <1>2, <1>3, <1>4, <1>5, <1>6, <1>7, <1>8, <1>9

\* The part of it about one engine.
WorkOf(e) ==
  /\ phase[e] = "collect" /\ HasNode(root[e]) => root[e] \in visited[e]
  /\ phase[e] \in {"idle", "collect"} => \A u \in Ids : pending[e][u] = 0
  /\ phase[e] = "commit" => pos[e] = 0
  /\ \A u \in Ids : pending[e][u] # 0 /\ HasNode(u) => \E i \in 1 .. Len(topo[e]) : topo[e][i] = u

\* The invariant, engine by engine.
LEMMA WorkParts ==
  /\ WorkInv <=>
       /\ phase[1] # "idle" => root[1] \in Ids /\ root[1] <= created
       /\ \A u \in Ids : pending[1][u] # 0 => u <= MaxTensors
       /\ \A e \in Engines : WorkOf(e)
  BY DEF WorkInv, WorkOf

\* The tensor whose node is visited, and its inputs.
LEMMA VisitFacts ==
  ASSUME AllInv, NEW e \in Engines, Visiting(e)
  PROVE  /\ pos[e] \in 1 .. Len(topo[e]) /\ topo[e] \in Seq(Ids) /\ Len(topo[e]) \in Nat
         /\ Current(e) = topo[e][pos[e]] /\ Current(e) \in Ids /\ Wired(tensor, Current(e))
         /\ e = 1 => Current(e) <= MaxTensors
         /\ \A k \in {1, 2} :
              /\ Inputs(Current(e))[k] \in Ids /\ Inputs(Current(e))[k] < Current(e)
              /\ HasNode(Inputs(Current(e))[k]) =>
                   \E i \in 1 .. Len(topo[e]) : topo[e][i] = Inputs(Current(e))[k]
  <1>1. /\ topo[e] \in Seq(Ids) /\ pos[e] \in Nat /\ pos[e] > 0 /\ pos[e] <= Len(topo[e])
        /\ Searched(tensor, stack[e], topo[e], visited[e], next[e])
        /\ OrderInv /\ GraphInv
    BY DEF AllInv, OrderInv, SearchType, EngineInv, Visiting
  <1>2. pos[e] \in 1 .. Len(topo[e]) /\ Len(topo[e]) \in Nat
    BY <1>1
  <1>3. Current(e) = topo[e][pos[e]] /\ Current(e) \in visited[e]
    BY <1>1, <1>2 DEF Searched, Within, Current
  <1>4. Current(e) \in Ids /\ Wired(tensor, Current(e))
    BY <1>1, CurrentThere
  <1>5. e = 1 => Current(e) <= MaxTensors
    BY <1>1, <1>3 DEF OrderInv, OuterInv
  <1>6. Inputs(Current(e)) = Ins(tensor, Current(e))
    BY DEF Inputs, Node, Ins
  <1>7. \A k \in {1, 2} : Inputs(Current(e))[k] \in Ids /\ Inputs(Current(e))[k] < Current(e)
    BY <1>1, <1>4, <1>6, GraphAcyclic DEF Acyclic
  <1>8. ASSUME NEW k \in {1, 2}, HasNode(Inputs(Current(e))[k])
        PROVE  \E i \in 1 .. Len(topo[e]) : topo[e][i] = Inputs(Current(e))[k]
    <2>1. PICK j \in 1 .. pos[e] - 1 : topo[e][j] = Inputs(Current(e))[k]
      BY <1>1, <1>2, <1>3, <1>6, <1>8 DEF Searched, After, HasNode, Wired
    <2>2. j \in 1 .. Len(topo[e])
      BY <1>1
    <2> QED
      BY <2>1, <2>2
  <1> QED
    BY <1>1, <1>2, <1>3, <1>4, <1>5, <1>7, <1>8

\* The inputs of the block that is recomputed.
LEMMA BlockFacts ==
  ASSUME AllInv, GraphShape, RecomputeInv, step # "idle"
  PROVE  /\ BlockThere /\ tensor[block].op = "rev1" /\ pos[1] \in Nat
         /\ pos[1] + 1 \in 1 .. Len(topo[1])
         /\ \A k \in {1, 2} :
              /\ tensor[block].in[k] = Inputs(topo[1][pos[1] + 1])[k]
              /\ tensor[block].in[k] \in Ids /\ tensor[block].in[k] <= MaxTensors
              /\ HasNode(tensor[block].in[k]) =>
                   \E i \in 1 .. Len(topo[1]) : topo[1][i] = tensor[block].in[k]
  <1>1. /\ BlockThere /\ tensor[block].op = "rev1" /\ pos[1] < Len(topo[1])
        /\ Ins(tensor, topo[1][pos[1] + 1]) = tensor[block].in
    BY RecomputeThere DEF AllInv, BlockInv
  <1>2. /\ topo[1] \in Seq(Ids) /\ pos[1] \in Nat
        /\ Searched(tensor, stack[1], topo[1], visited[1], next[1])
        /\ GraphInv
    BY DEF AllInv, OrderInv, SearchType, EngineInv, Engines
  <1>3. pos[1] + 1 \in 1 .. Len(topo[1])
    BY <1>1, <1>2
  <1>4. tensor[block].in = Inputs(topo[1][pos[1] + 1])
    BY <1>1 DEF Inputs, Node, Ins
  <1>5. \A k \in {1, 2} : tensor[block].in[k] \in Ids
    BY <1>1, ElementOfSeq DEF BlockThere
  <1>6. block \in Ids /\ block <= MaxTensors /\ tensor[block].fn = block
    BY <1>1 DEF BlockThere, GraphShape
  <1>7. \A k \in {1, 2} : tensor[block].in[k] < block
    BY <1>2, <1>6 DEF GraphInv
  <1>8. \A k \in {1, 2} : tensor[block].in[k] <= MaxTensors
    BY <1>5, <1>6, <1>7, IdsFacts
  <1>9. ASSUME NEW k \in {1, 2}, HasNode(tensor[block].in[k])
        PROVE  \E i \in 1 .. Len(topo[1]) : topo[1][i] = tensor[block].in[k]
    <2> PICK m : m = pos[1] + 1
      OBVIOUS
    <2>1. PICK j \in 1 .. m - 1 : topo[1][j] = tensor[block].in[k]
      BY <1>1, <1>2, <1>3, <1>9 DEF Searched, After, HasNode, Wired
    <2>2. j \in 1 .. Len(topo[1])
      BY <1>1, <1>2
    <2> QED
      BY <2>1, <2>2
  <1> QED
    BY <1>1, <1>2, <1>3, <1>4, <1>5, <1>8, <1>9

\* An engine that is idle, or an engine that nothing happened to.
LEMMA WorkSame ==
  ASSUME NEW e \in Engines, WorkOf(e), tensor' = tensor, phase'[e] = phase[e], root'[e] = root[e],
         visited'[e] = visited[e], pending'[e] = pending[e], topo'[e] = topo[e], pos'[e] = pos[e]
  PROVE  WorkOf(e)'
  BY DEF WorkOf, HasNode

\* Of an engine that is gone there is no work.
LEMMA WorkGone ==
  ASSUME AllInv, BufferInv, NEW es \in SUBSET Engines, Gone(es), NEW e \in Engines, tensor' = tensor,
         WorkOf(e)
  PROVE  /\ WorkOf(e)'
         /\ phase'[e] # "idle" => phase'[e] = phase[e] /\ root'[e] = root[e]
         /\ \A u \in Ids : pending'[e][u] # 0 => pending[e][u] # 0
  <1>1. CASE e \in es
    <2>1. phase'[e] = "idle" /\ pending'[e] = None
      BY <1>1 DEF Gone
    <2>2. \A u \in Ids : pending'[e][u] = 0
      BY <2>1 DEF None
    <2> QED
      BY <2>1, <2>2 DEF WorkOf
  <1>2. CASE e \notin es
    <2>1. /\ phase'[e] = phase[e] /\ root'[e] = root[e] /\ visited'[e] = visited[e]
          /\ pending'[e] = pending[e] /\ topo'[e] = topo[e] /\ pos'[e] = pos[e]
      BY <1>2 DEF Gone
    <2> QED
      BY <2>1, WorkSame
  <1> QED
    BY <1>1, <1>2

\* An engine starts, on a tensor with a node or without.
LEMMA WorkStarts ==
  ASSUME AllInv, BufferInv, NEW e \in Engines, NEW t \in Ids, NEW b, Starts(e, t, b), phase[e] = "idle",
         UNCHANGED <<tensor, pending>>, \A f \in Engines : WorkOf(f)
  PROVE  /\ \A f \in Engines : WorkOf(f)'
         /\ root'[e] = t /\ \A f \in Engines : f # e => phase'[f] = phase[f] /\ root'[f] = root[f]
  <1>1. /\ phase \in [Engines -> Phases] /\ root \in [Engines -> Ids \cup {0}]
        /\ visited \in [Engines -> SUBSET Ids]
    BY DEF AllInv, ContextInv, BufferInv, OrderInv, SearchType
  <1>2. /\ phase' = [phase EXCEPT ![e] = "collect"] /\ root' = [root EXCEPT ![e] = t]
        /\ visited' = [visited EXCEPT ![e] = IF HasNode(t) THEN {t} ELSE {}]
        /\ UNCHANGED <<topo, pos>>
    BY DEF Starts
  <1>3. /\ phase'[e] = "collect" /\ root'[e] = t /\ visited'[e] = IF HasNode(t) THEN {t} ELSE {}
        /\ \A f \in Engines : f # e =>
             phase'[f] = phase[f] /\ root'[f] = root[f] /\ visited'[f] = visited[f]
    BY <1>1, <1>2
  <1>4. WorkOf(e)'
    BY <1>2, <1>3 DEF WorkOf, HasNode
  <1>5. ASSUME NEW f \in Engines, f # e PROVE WorkOf(f)'
    BY <1>2, <1>3, <1>5, WorkSame
  <1> QED
    BY <1>3, <1>4, <1>5

\* An engine collects.
LEMMA WorkCollects ==
  ASSUME AllInv, BufferInv, WorkInv, NEW e \in Engines, CollectInput(e) \/ CollectDone(e)
  PROVE  WorkInv'
  <1>1. UNCHANGED <<tensor, created, phase, root, pending, pos>> /\ phase[e] = "collect"
    BY DEF CollectInput, CollectDone, CollectUnchanged, Collecting, Runs, graphVars
  <1>2. visited \in [Engines -> SUBSET Ids] /\ topo \in [Engines -> Seq(Ids)]
    BY DEF AllInv, OrderInv, SearchType
  <1>3. \A f \in Engines : visited[f] \subseteq visited'[f]
    BY <1>2 DEF CollectInput, CollectDone
  <1>4. \A f \in Engines : f # e => topo'[f] = topo[f]
    BY <1>2 DEF CollectInput, CollectDone
  <1>5. ASSUME NEW f \in Engines PROVE WorkOf(f)'
    <2>1. CASE f = e
      BY <1>1, <1>3, <2>1 DEF WorkInv, WorkOf, HasNode
    <2>2. CASE f # e
      BY <1>1, <1>3, <1>4, <2>2 DEF WorkInv, WorkOf, HasNode
    <2> QED
      BY <2>1, <2>2
  <1>6. /\ phase'[1] # "idle" => root'[1] \in Ids /\ root'[1] <= created'
        /\ \A u \in Ids : pending'[1][u] # 0 => u <= MaxTensors
    BY <1>1 DEF WorkInv
  <1> QED
    BY <1>5, <1>6 DEF WorkInv, WorkOf

\* Gradients that join the pending ones are of tensors the engine lists, or of leaves.
Joins(e, s, T) ==
  /\ pending' = [pending EXCEPT ![e] = s]
  /\ UNCHANGED <<tensor, created, root, visited, topo>>
  /\ \A u \in Ids : s[u] # 0 => u \in T \/ pending[e][u] # 0
  /\ \A u \in T : /\ e = 1 => u <= MaxTensors
                  /\ HasNode(u) => \E i \in 1 .. Len(topo[e]) : topo[e][i] = u
  /\ phase'[e] = "visit"
  /\ \A f \in Engines : f # e => phase'[f] = phase[f] /\ pos'[f] = pos[f]
  /\ phase'[1] # "idle" => phase[1] # "idle"

\* Gradients that join where the engine has listed their tensors leave it in order.
LEMMA WorkJoins ==
  ASSUME AllInv, BufferInv, WorkInv, NEW e \in Engines, NEW s, NEW T, Joins(e, s, T)
  PROVE  WorkInv'
  <1>0. /\ pending' = [pending EXCEPT ![e] = s]
        /\ UNCHANGED <<tensor, created, root, visited, topo>>
        /\ phase'[e] = "visit"
        /\ \A f \in Engines : f # e => phase'[f] = phase[f] /\ pos'[f] = pos[f]
        /\ phase'[1] # "idle" => phase[1] # "idle"
    BY DEF Joins
  <1>1. pending'[e] = s /\ \A f \in Engines : f # e => pending'[f] = pending[f]
    BY <1>0 DEF BufferInv
  <1>2. \A u \in Ids : s[u] # 0 => u \in T \/ pending[e][u] # 0
    BY DEF Joins
  <1>3. \A u \in T : /\ e = 1 => u <= MaxTensors
                     /\ HasNode(u) => \E i \in 1 .. Len(topo[e]) : topo[e][i] = u
    BY DEF Joins
  <1>4. \A u \in Ids : s[u] # 0 =>
             /\ e = 1 => u <= MaxTensors
             /\ HasNode(u) => \E i \in 1 .. Len(topo[e]) : topo[e][i] = u
    <2> SUFFICES ASSUME NEW u \in Ids, s[u] # 0
                 PROVE  /\ e = 1 => u <= MaxTensors
                        /\ HasNode(u) => \E i \in 1 .. Len(topo[e]) : topo[e][i] = u
      OBVIOUS
    <2>1. CASE u \in T
      BY <1>3, <2>1
    <2>2. CASE pending[e][u] # 0
      <3>1. e = 1 => u <= MaxTensors
        BY <2>2 DEF WorkInv
      <3>2. HasNode(u) => \E i \in 1 .. Len(topo[e]) : topo[e][i] = u
        BY <2>2 DEF WorkInv
      <3> QED
        BY <3>1, <3>2
    <2> QED
      BY <1>2, <2>1, <2>2
  <1>5. WorkOf(e)'
    BY <1>0, <1>1, <1>4 DEF WorkOf, HasNode
  <1>6. ASSUME NEW f \in Engines, f # e PROVE WorkOf(f)'
    <2>1. WorkOf(f)
      BY WorkParts
    <2> QED
      BY <1>0, <1>1, <1>6, <2>1, WorkSame
  <1>7. phase'[1] # "idle" => root'[1] \in Ids /\ root'[1] <= created'
    BY <1>0 DEF WorkInv
  <1>8. \A u \in Ids : pending'[1][u] # 0 => u <= MaxTensors
    BY <1>1, <1>4 DEF WorkInv, Engines
  <1> QED
    BY <1>5, <1>6, <1>7, <1>8 DEF WorkInv, WorkOf

\* The steps of an engine.
LEMMA WorkRuns ==
  ASSUME AllInv, BufferInv, WorkInv, NEW e \in Engines, Run(e)
  PROVE  WorkInv'
  <1>0. /\ phase \in [Engines -> Phases] /\ pos \in [Engines -> Nat] /\ topo \in [Engines -> Seq(Ids)]
        /\ GraphInv
    BY DEF AllInv, ContextInv, OrderInv, SearchType
  <1>1. CASE CollectInput(e) \/ CollectDone(e)
    BY <1>1, WorkCollects
  <1>2. CASE StartVisits(e)
    <2> PICK s : s = AddGradient(Pending(e), root[e], seed[e])
      OBVIOUS
    <2>1. /\ pending' = [pending EXCEPT ![e] = s.pending] /\ UNCHANGED <<tensor, created, root, visited, topo>>
          /\ phase' = [phase EXCEPT ![e] = "visit"] /\ pos' = [pos EXCEPT ![e] = Len(topo[e])]
          /\ phase[e] = "collect" /\ stack[e] = <<>>
      BY <1>2 DEF StartVisits, Runs, graphVars, collectVars
    <2>2. \A u \in Ids : u # root[e] => s.pending[u] = pending[e][u]
      <3>1. DOMAIN Pending(e).pending = Ids /\ Pending(e).pending = pending[e]
        BY DEF BufferInv, Pending
      <3> QED
        BY <3>1, AddElsewhere
    <2>3. HasNode(root[e]) => \E i \in 1 .. Len(topo[e]) : topo[e][i] = root[e]
      <3>1. HasNode(root[e]) => root[e] \in visited[e]
        BY <2>1 DEF WorkInv
      <3>2. Searched(tensor, stack[e], topo[e], visited[e], next[e]) /\ Len(stack[e]) = 0
        BY <2>1 DEF AllInv, OrderInv, EngineInv
      <3> QED
        BY <3>1, <3>2 DEF Searched, Within
    <2>4. e = 1 => root[e] <= MaxTensors
      <3>1. e = 1 => root[e] \in Ids /\ root[e] <= created
        BY <2>1 DEF WorkInv
      <3> QED
        BY <1>0, <3>1, CreatedFacts, IdsFacts DEF GraphInv
    <2>5. phase'[e] = "visit" /\ \A f \in Engines : f # e => phase'[f] = phase[f] /\ pos'[f] = pos[f]
      BY <1>0, <2>1
    <2>6. phase'[1] # "idle" => phase[1] # "idle"
      BY <2>1, <2>5 DEF Engines
    <2> PICK T : T = {root[e]}
      OBVIOUS
    <2>7. \A u \in Ids : s.pending[u] # 0 => u \in T \/ pending[e][u] # 0
      BY <2>2
    <2>8. \A u \in T : /\ e = 1 => u <= MaxTensors
                       /\ HasNode(u) => \E i \in 1 .. Len(topo[e]) : topo[e][i] = u
      BY <2>3, <2>4
    <2>9. Joins(e, s.pending, T)
      BY <2>1, <2>5, <2>6, <2>7, <2>8 DEF Joins
    <2> QED
      BY <2>9, WorkJoins
  <1>3. CASE VisitNothing(e) \/ VisitOp(e)
    <2>1. /\ Visiting(e) /\ phase[e] = "visit" /\ UNCHANGED <<tensor, created, root, visited, topo, phase>>
          /\ pos' = [pos EXCEPT ![e] = @ - 1]
      BY <1>3 DEF VisitNothing, VisitOp, Visiting, Runs, graphVars, collectVars
    <2>2. \A f \in Engines : f # e => phase'[f] = phase[f] /\ pos'[f] = pos[f]
      BY <1>0, <2>1
    <2>3. CASE VisitNothing(e)
      <3>1. pending' = pending
        BY <2>3 DEF VisitNothing
      <3>2. \A f \in Engines : WorkOf(f)'
        BY <2>1, <3>1 DEF WorkInv, WorkOf, HasNode
      <3> QED
        BY <2>1, <3>1, <3>2 DEF WorkInv, WorkOf
    <2>4. CASE VisitOp(e)
      <3> PICK n : n = tensor[Current(e)].fn
        OBVIOUS
      <3> PICK s : s = SendAll(Pending(e), n, pending[e][Current(e)])
        OBVIOUS
      <3>1. active = e
        BY <2>1, VisitsActive DEF AllInv
      <3>2. pending' = [pending EXCEPT ![e] = s.pending]
        BY <2>4, <3>1 DEF VisitOp
      <3> PICK T : T = {Inputs(Current(e))[1], Inputs(Current(e))[2]}
        OBVIOUS
      <3>3. \A u \in Ids : u \notin T => s.pending[u] = pending[e][u]
        <4>1. DOMAIN Pending(e).pending = Ids /\ Pending(e).pending = pending[e]
          BY DEF BufferInv, Pending
        <4>2. Inputs(Current(e)) = tensor[n].in
          BY DEF Inputs, Node
        <4>3. \A u \in DOMAIN Pending(e).pending : (\A k \in {1, 2} : u # tensor[n].in[k]) =>
                s.pending[u] = Pending(e).pending[u]
          BY SendAllElsewhere
        <4> QED
          BY <4>1, <4>2, <4>3
      <3>4. \A u \in T : (e = 1 => u <= MaxTensors)
                        /\ (HasNode(u) => \E i \in 1 .. Len(topo[e]) : topo[e][i] = u)
        <4>1. \A k \in {1, 2} : (e = 1 => Inputs(Current(e))[k] <= MaxTensors)
                /\ (HasNode(Inputs(Current(e))[k]) =>
                       \E i \in 1 .. Len(topo[e]) : topo[e][i] = Inputs(Current(e))[k])
          BY <2>1, VisitFacts, IdsFacts
        <4> QED
          BY <4>1
      <3>5. \A u \in Ids : s.pending[u] # 0 => u \in T \/ pending[e][u] # 0
        BY <3>3
      <3>6. phase'[e] = "visit" /\ (phase'[1] # "idle" => phase[1] # "idle")
        BY <2>1
      <3>7. Joins(e, s.pending, T)
        BY <2>1, <2>2, <3>2, <3>4, <3>5, <3>6 DEF Joins
      <3> QED
        BY <3>7, WorkJoins
    <2> QED
      BY <1>3, <2>3, <2>4
  <1>4. CASE EndVisits(e)
    <2>1. /\ phase' = [phase EXCEPT ![e] = "commit"] /\ pos[e] = 0 /\ phase[e] = "visit"
          /\ UNCHANGED <<tensor, created, root, visited, topo, pos, pending>>
      BY <1>4 DEF EndVisits, Runs, graphVars, collectVars
    <2>2. phase'[e] = "commit" /\ \A f \in Engines : f # e => phase'[f] = phase[f]
      BY <1>0, <2>1
    <2>3. \A f \in Engines : WorkOf(f)'
      BY <2>1, <2>2 DEF WorkInv, WorkOf, HasNode
    <2>4. phase'[1] # "idle" => phase[1] # "idle"
      BY <2>1, <2>2 DEF Engines
    <2> QED
      BY <2>1, <2>3, <2>4 DEF WorkInv, WorkOf
  <1>5. CASE Commit(e)
    <2>1. PICK t \in Ids : /\ pending'[e][t] = 0
            /\ \A f \in Engines : \A u \in Ids : f # e \/ u # t => pending'[f][u] = pending[f][u]
      BY <1>5, CommitFacts
    <2>2. UNCHANGED <<tensor, created, root, visited, topo, pos, phase>>
      BY <1>5 DEF Commit, graphVars, engineVars, collectVars
    <2>3. \A f \in Engines : \A u \in Ids : pending'[f][u] # 0 => pending[f][u] # 0
      BY <2>1
    <2>4. \A f \in Engines : WorkOf(f)'
      BY <2>2, <2>3 DEF WorkInv, WorkOf, HasNode
    <2> QED
      BY <2>2, <2>3, <2>4 DEF WorkInv, WorkOf, Engines
  <1>6. CASE Return(e)
    <2>1. Gone({e}) /\ UNCHANGED <<tensor, created>> /\ {e} \in SUBSET Engines
      BY <1>6 DEF Return, graphVars
    <2>2. \A f \in Engines :
            /\ WorkOf(f)'
            /\ phase'[f] # "idle" => phase'[f] = phase[f] /\ root'[f] = root[f]
            /\ \A u \in Ids : pending'[f][u] # 0 => pending[f][u] # 0
      BY <2>1, WorkGone, WorkParts
    <2>3. phase'[1] # "idle" => root'[1] \in Ids /\ root'[1] <= created'
      BY <2>1, <2>2 DEF WorkInv, Engines
    <2>4. \A u \in Ids : pending'[1][u] # 0 => u <= MaxTensors
      BY <2>2 DEF WorkInv, Engines
    <2> QED
      BY <2>2, <2>3, <2>4 DEF WorkInv, WorkOf
  <1> QED
    BY <1>1, <1>2, <1>3, <1>4, <1>5, <1>6 DEF Run

\* What no engine does: calls that add to the graph, engines that start, recomputes, failures.
LEMMA WorkStep ==
  ASSUME AllInv, GraphShape, BufferInv, RecomputeInv, WorkInv, [Next]_vars
  PROVE  WorkInv'
  <1>0. ContextInv /\ GraphInv /\ WorkOf(1) /\ WorkOf(2)
    BY WorkParts DEF AllInv, OrderInv, Engines
  <1>1. ASSUME UNCHANGED <<phase, root, visited, pending, topo, tensor, created>>,
               \A e \in Engines : phase[e] = "commit" => pos'[e] = pos[e]
        PROVE  WorkInv'
    BY <1>1 DEF WorkInv, WorkOf, HasNode
  <1>2. CASE Build
    <2>1. level = 0 /\ UNCHANGED <<phase, root, visited, pending, topo, pos>>
      BY <1>2 DEF Build, Op, Add, View, Make, Reversible, Builds, Does, Idle, runVars, engineVars,
         collectVars
    <2>2. phase[1] = "idle" /\ phase[2] = "idle"
      BY <1>0, <2>1 DEF ContextInv
    <2>3. \A e \in Engines : \A u \in Ids : pending[e][u] = 0
      BY <2>2 DEF WorkInv, Engines
    <2> QED
      BY <2>1, <2>2, <2>3 DEF WorkInv, Engines
  <1>3. ASSUME NEW t \in 1 .. created, Backward(t) PROVE WorkInv'
    <2>1. Starts(1, t, Len(value) + 1) /\ UNCHANGED <<tensor, created, pending>> /\ level = 0
      BY <1>3 DEF Backward, Does, Idle, graphVars
    <2>2. t \in Ids /\ t <= created /\ phase[1] = "idle"
      BY <1>0, <2>1, CreatedFacts DEF ContextInv
    <2>3. /\ \A f \in Engines : WorkOf(f)'
          /\ root'[1] = t
      BY <1>0, <2>1, <2>2, WorkStarts DEF Engines
    <2> QED
      BY <2>1, <2>2, <2>3 DEF WorkInv, WorkOf
  <1>4. ASSUME NEW part \in {1, 2}, Nested(part) PROVE WorkInv'
    <2>1. level = 1 /\ step \in {"y1", "y2"} /\ UNCHANGED <<tensor, created>>
      BY <1>4 DEF Nested, Recomputing, graphVars
    <2>2. phase[2] = "idle" /\ active = 0 /\ phase[1] = "visit"
      BY <1>0, <2>1 DEF ContextInv
    <2>3. PICK t \in {fy1, fy2} : Starts(2, t, parked[block][part]) /\ pending' = pending
      BY <1>4, <2>2 DEF Nested
    <2>4. t \in Ids
      BY <2>3, IdsFacts
    <2>5. /\ \A f \in Engines : WorkOf(f)'
          /\ \A f \in Engines : f # 2 => phase'[f] = phase[f] /\ root'[f] = root[f]
      BY <1>0, <2>1, <2>2, <2>3, <2>4, WorkStarts DEF Engines
    <2>6. phase'[1] = phase[1] /\ root'[1] = root[1]
      BY <2>5 DEF Engines
    <2> QED
      BY <2>1, <2>3, <2>5, <2>6 DEF WorkInv, WorkOf
  <1>5. CASE VisitBlock
    <2>1. /\ UNCHANGED <<phase, root, visited, pending, topo, tensor, created>> /\ phase[1] = "visit"
          /\ pos' = [pos EXCEPT ![1] = @ - 1]
      BY <1>5 DEF VisitBlock, Visiting, Runs, graphVars, collectVars
    <2>2. \A e \in Engines : phase[e] = "commit" => pos'[e] = pos[e]
      BY <2>1 DEF AllInv, OrderInv, SearchType
    <2> QED
      BY <1>1, <2>1, <2>2
  <1>6. CASE Recompute
    <2>1. level = 1 /\ step = "forward" /\ UNCHANGED <<phase, root, visited, pending, topo, pos>>
      BY <1>6 DEF Recompute, Recomputing, engineVars, collectVars
    <2>2. phase[2] = "idle" /\ phase[1] = "visit"
      BY <1>0, <2>1 DEF ContextInv
    <2>3. created' = created /\ \A t \in Ids : t <= MaxTensors => tensor'[t] = tensor[t]
      BY <1>0, <1>6, <2>1, RecomputeThere, RecomputeMakes
    <2>4. WorkOf(1)'
      BY <2>1, <2>2, <2>3 DEF WorkInv, WorkOf, HasNode, Engines
    <2>5. \A u \in Ids : pending[2][u] = 0
      BY <2>2 DEF WorkInv, Engines
    <2>6. WorkOf(2)'
      BY <2>1, <2>2, <2>5 DEF WorkOf
    <2> QED
      BY <2>1, <2>3, <2>4, <2>6 DEF WorkInv, WorkOf, Engines
  <1>7. CASE Dispatch
    <2>1. step = "dispatch" /\ UNCHANGED <<tensor, created, phase, root, visited, topo, pos>>
      BY <1>7 DEF Dispatch, Recomputing, graphVars, engineVars, collectVars
    <2>2. saved = 1 /\ phase[1] = "visit"
      BY <1>0, <2>1 DEF ContextInv
    <2> PICK a : a = tensor[block].in[1]
      OBVIOUS
    <2> PICK c : c = tensor[block].in[2]
      OBVIOUS
    <2> PICK r : r = Hand(Pending(1), a, x1r)
      OBVIOUS
    <2> PICK s : s = Hand(r, c, x2r)
      OBVIOUS
    <2>3. pending' = [pending EXCEPT ![1] = s.pending]
      BY <1>7, <2>2 DEF Dispatch
    <2>4. DOMAIN Pending(1).pending = Ids /\ Pending(1).pending = pending[1]
      BY DEF BufferInv, Pending, Engines
    <2>5. DOMAIN r.pending = Ids /\ \A u \in Ids : u # a => r.pending[u] = pending[1][u]
      BY <2>4, HandElsewhere
    <2>6. \A u \in Ids : u # c => s.pending[u] = r.pending[u]
      BY <2>5, HandElsewhere
    <2> PICK T : T = {a, c}
      OBVIOUS
    <2>7. \A u \in Ids : s.pending[u] # 0 => u \in T \/ pending[1][u] # 0
      BY <2>5, <2>6
    <2>8. \A u \in T : /\ 1 = 1 => u <= MaxTensors
                       /\ HasNode(u) => \E i \in 1 .. Len(topo[1]) : topo[1][i] = u
      BY <2>1, BlockFacts
    <2>9. Joins(1, s.pending, T)
      BY <2>1, <2>2, <2>3, <2>7, <2>8 DEF Joins
    <2> QED
      BY <2>9, WorkJoins DEF Engines
  <1>8. CASE Throw
    <2>1. Gone(Engines) /\ UNCHANGED <<tensor, created>> /\ Engines \in SUBSET Engines
      BY <1>8 DEF Throw, graphVars
    <2>2. \A f \in Engines : phase'[f] = "idle" /\ pending'[f] = None
      BY <2>1 DEF Gone
    <2>3. \A f \in Engines : phase'[f] = "idle" /\ \A u \in Ids : pending'[f][u] = 0
      BY <2>2 DEF None
    <2> QED
      BY <2>3 DEF WorkInv, Engines
  <1>9. CASE SetEnabled \/ ZeroGrad \/ Scale \/ UNCHANGED vars
    <2>1. UNCHANGED <<phase, root, visited, pending, topo, tensor, created, pos>>
      BY <1>9 DEF SetEnabled, ZeroGrad, Scale, vars, graphVars, runVars, engineVars, collectVars
    <2> QED
      BY <1>1, <2>1
  <1> QED
    BY <1>2, <1>3, <1>4, <1>5, <1>6, <1>7, <1>8, <1>9, WorkRuns DEF Next

-----------------------------------------------------------------------------
(* What every step keeps: numbers.                                         *)

\* What buffer b holds.
Amount(b) == IF b = 0 THEN 0 ELSE value[b]

\* Gradients are numbers, those of what is not made yet are none, and an engine that begins has
\* a gradient for its root.
AmountInv ==
  /\ exact => value \in Seq(Nat)
  /\ want \in [Ids -> Nat]
  /\ \A t \in Ids : created < t /\ t <= MaxTensors => want[t] = 0
  /\ \A e \in Engines : phase[e] = "collect" => seed[e] # 0

\* Pending gradients are numbers.
LEMMA PendingNumbers ==
  ASSUME BufferInv, value \in Seq(Nat), NEW e \in Engines
  PROVE  /\ Numbers(Pending(e)) /\ Pending(e).value = value /\ Pending(e).pending = pending[e]
         /\ \A u \in Ids : In(Pending(e), u) = Amount(pending[e][u])
  BY DEF BufferInv, Numbers, Pending, In, Amount

\* From s to r, two tensors' gradients grew, or one's twice.
GainsTwo(r, s, t, a, u, b) ==
  /\ Numbers(r) /\ Longer(r.value, s.value)
  /\ \A v \in Ids : In(r, v) = In(s, v) + (IF v = t THEN a ELSE 0) + (IF v = u THEN b ELSE 0)

\* One gain after another.
LEMMA GainsTwice ==
  ASSUME NEW s, NEW q, NEW r, NEW t, NEW a, NEW u, NEW b, Numbers(s),
         Gains(q, s, t, a), Gains(r, q, u, b)
  PROVE  GainsTwo(r, s, t, a, u, b)
  <1>1. Numbers(r) /\ Longer(r.value, q.value) /\ Longer(q.value, s.value) /\ s.value \in Seq(Nat)
    BY DEF Gains, Numbers
  <1>2. Longer(r.value, s.value)
    BY <1>1, LongerTwice
  <1>3. ASSUME NEW v \in Ids
        PROVE  In(r, v) = In(s, v) + (IF v = t THEN a ELSE 0) + (IF v = u THEN b ELSE 0)
    <2>1. In(r, v) = In(q, v) + IF v = u THEN b ELSE 0
      BY DEF Gains
    <2>2. In(q, v) = In(s, v) + IF v = t THEN a ELSE 0
      BY DEF Gains
    <2> QED
      BY <2>1, <2>2
  <1> QED
    BY <1>1, <1>2, <1>3 DEF GainsTwo

\* What a node's visit sends: x is the gradient that arrived.
Share(i, weight, x) == IF tensor[i].rg THEN weight * x ELSE 0

\* A visit sends shares of the gradient to both inputs.
LEMMA VisitGains ==
  ASSUME AllInv, BufferInv, value \in Seq(Nat), NEW e \in Engines, VisitOp(e)
  PROVE  \E s : /\ pending' = [pending EXCEPT ![e] = s.pending] /\ value' = s.value
                /\ GainsTwo(s, Pending(e),
                     Inputs(Current(e))[1],
                     Share(Inputs(Current(e))[1], Weights(Node(Current(e)).op)[1], Amount(pending[e][Current(e)])),
                     Inputs(Current(e))[2],
                     Share(Inputs(Current(e))[2], Weights(Node(Current(e)).op)[2], Amount(pending[e][Current(e)])))
  <1>1. Visiting(e) /\ active = e
    BY VisitsActive DEF VisitOp, AllInv
  <1> PICK t : t = Current(e)
    OBVIOUS
  <1> PICK n : n = tensor[t].fn
    OBVIOUS
  <1> PICK b : b = pending[e][t]
    OBVIOUS
  <1> PICK i : i = Inputs(t)[1]
    OBVIOUS
  <1> PICK j : j = Inputs(t)[2]
    OBVIOUS
  <1> PICK w : w = Weights(Node(t).op)[1]
    OBVIOUS
  <1> PICK z : z = Weights(Node(t).op)[2]
    OBVIOUS
  <1>2. t \in Ids /\ i \in Ids /\ j \in Ids
    BY <1>1, VisitFacts
  <1>3. w \in Nat /\ z \in Nat
    BY WeightsNat
  <1>4. b # 0 /\ b \in 1 .. Len(value)
    <2>1. b \in Buffers(Len(value)) /\ b # 0
      BY <1>2 DEF BufferInv, VisitOp
    <2> QED
      BY <2>1, BuffersRange
  <1>5. Numbers(Pending(e)) /\ Pending(e).value = value
    BY PendingNumbers
  <1> PICK q : q = Send(Pending(e), i, w, b)
    OBVIOUS
  <1> PICK s : s = Send(q, j, z, b)
    OBVIOUS
  <1>6. Gains(q, Pending(e), i, IF tensor[i].rg THEN w * value[b] ELSE 0)
    BY <1>2, <1>3, <1>4, <1>5, SendGains
  <1>7. Numbers(q) /\ Longer(q.value, value)
    BY <1>5, <1>6 DEF Gains
  <1>8. b \in 1 .. Len(q.value) /\ q.value[b] = value[b]
    <2>1. Len(value) \in Nat /\ Len(q.value) \in Nat
      BY <1>7 DEF Numbers
    <2> QED
      BY <1>4, <1>7, <2>1 DEF Longer
  <1>9. Gains(s, q, j, IF tensor[j].rg THEN z * value[b] ELSE 0)
    BY <1>2, <1>3, <1>7, <1>8, SendGains
  <1>10. Amount(b) = value[b]
    BY <1>4 DEF Amount
  <1>11. Gains(q, Pending(e), i, Share(i, w, Amount(b))) /\ Gains(s, q, j, Share(j, z, Amount(b)))
    BY <1>6, <1>9, <1>10 DEF Share
  <1>12. GainsTwo(s, Pending(e), i, Share(i, w, Amount(b)), j, Share(j, z, Amount(b)))
    BY <1>5, <1>11, GainsTwice
  <1>13. s = SendAll(Pending(e), n, b)
    BY DEF SendAll, Inputs, Node
  <1>14. pending' = [pending EXCEPT ![e] = s.pending] /\ value' = s.value
    BY <1>1, <1>13 DEF VisitOp
  <1> QED
    BY <1>12, <1>14

\* The root's gradient is the first.
LEMMA StartGains ==
  ASSUME AllInv, BufferInv, AmountInv, value \in Seq(Nat), NEW e \in Engines, StartVisits(e)
  PROVE  \E s : /\ pending' = [pending EXCEPT ![e] = s.pending] /\ value' = s.value
                /\ Gains(s, Pending(e), root[e], Amount(seed[e]))
  <1>1. phase[e] = "collect" /\ root[e] \in Ids
    BY DEF StartVisits, Runs, BufferInv
  <1>2. seed[e] # 0 /\ seed[e] \in Buffers(Len(value))
    BY <1>1 DEF AmountInv, BufferInv
  <1>3. seed[e] \in 1 .. Len(value) /\ Amount(seed[e]) = value[seed[e]]
    BY <1>2, BuffersRange DEF Amount
  <1> PICK s : s = AddGradient(Pending(e), root[e], seed[e])
    OBVIOUS
  <1>4. Gains(s, Pending(e), root[e], Amount(seed[e]))
    BY <1>1, <1>3, PendingNumbers, AddGains
  <1>5. pending' = [pending EXCEPT ![e] = s.pending] /\ value' = s.value
    BY DEF StartVisits
  <1> QED
    BY <1>4, <1>5

\* What the recompute recovered.
LEMMA DispatchGains ==
  ASSUME AllInv, GraphShape, RecomputeInv, BufferInv, value \in Seq(Nat), Dispatch
  PROVE  \E s : /\ pending' = [pending EXCEPT ![1] = s.pending] /\ value' = s.value
                /\ GainsTwo(s, Pending(1),
                     tensor[block].in[1], Share(tensor[block].in[1], 1, Held(x1r)),
                     tensor[block].in[2], Share(tensor[block].in[2], 1, Held(x2r)))
  <1>1. step = "dispatch"
    BY DEF Dispatch, Recomputing
  <1>2. saved = 1
    BY <1>1 DEF AllInv, ContextInv
  <1> PICK a : a = tensor[block].in[1]
    OBVIOUS
  <1> PICK c : c = tensor[block].in[2]
    OBVIOUS
  <1>3. a \in Ids /\ c \in Ids
    BY <1>1, BlockFacts
  <1>4. x1r \in Ids /\ x2r \in Ids
    BY IdsFacts
  <1> PICK r : r = Hand(Pending(1), a, x1r)
    OBVIOUS
  <1> PICK s : s = Hand(r, c, x2r)
    OBVIOUS
  <1> PICK k : k = grad[x1r]
    OBVIOUS
  <1> PICK l : l = grad[x2r]
    OBVIOUS
  <1>5. k \in Buffers(Len(value)) /\ l \in Buffers(Len(value)) /\ Len(value) \in Nat
    BY <1>4 DEF BufferInv
  <1>6. Numbers(Pending(1)) /\ Pending(1).value = value
    BY PendingNumbers DEF Engines
  <1>7. Gains(r, Pending(1), a, IF tensor[a].rg /\ k # 0 THEN value[k] ELSE 0)
    BY <1>3, <1>5, <1>6, HandGains
  <1>8. Numbers(r) /\ Longer(r.value, value) /\ Len(r.value) \in Nat
    BY <1>6, <1>7 DEF Gains, Numbers
  <1>9. l \in Buffers(Len(r.value)) /\ (l # 0 => r.value[l] = value[l])
    <2>1. l # 0 => l \in 1 .. Len(value)
      BY <1>5, BuffersRange
    <2> QED
      BY <1>5, <1>8, <2>1 DEF Longer, Buffers
  <1>10. Gains(s, r, c, IF tensor[c].rg /\ l # 0 THEN r.value[l] ELSE 0)
    BY <1>3, <1>8, <1>9, HandGains
  <1>11. ASSUME NEW m \in Buffers(Len(value)), NEW i
         PROVE  (IF tensor[i].rg /\ m # 0 THEN value[m] ELSE 0)
                  = IF tensor[i].rg THEN 1 * (IF m = 0 THEN 0 ELSE value[m]) ELSE 0
    <2>1. m # 0 => value[m] \in Nat
      BY <1>5, BuffersRange
    <2> QED
      BY <2>1
  <1>12. (IF tensor[a].rg /\ k # 0 THEN value[k] ELSE 0) = Share(a, 1, Held(x1r))
    BY <1>5, <1>11 DEF Share, Held
  <1>13. (IF tensor[c].rg /\ l # 0 THEN r.value[l] ELSE 0) = Share(c, 1, Held(x2r))
    BY <1>5, <1>9, <1>11 DEF Share, Held
  <1>14. GainsTwo(s, Pending(1), a, Share(a, 1, Held(x1r)), c, Share(c, 1, Held(x2r)))
    BY <1>6, <1>7, <1>10, <1>12, <1>13, GainsTwice
  <1>15. pending' = [pending EXCEPT ![1] = s.pending] /\ value' = s.value
    BY <1>2 DEF Dispatch
  <1> QED
    BY <1>14, <1>15

\* What tensors hold is a number.
LEMMA HeldNat ==
  ASSUME BufferInv, value \in Seq(Nat)
  PROVE  /\ \A b \in Buffers(Len(value)) : Amount(b) \in Nat
         /\ \A t \in Ids : Held(t) \in Nat /\ Held(t) = Amount(grad[t])
  <1>1. ASSUME NEW b \in Buffers(Len(value)) PROVE Amount(b) \in Nat
    <2>1. b # 0 => b \in 1 .. Len(value)
      BY BuffersRange
    <2> QED
      BY <2>1 DEF Amount
  <1>2. \A t \in Ids : grad[t] \in Buffers(Len(value)) /\ Held(t) = Amount(grad[t])
    BY DEF BufferInv, Held, Amount
  <1> QED
    BY <1>1, <1>2

\* When buffers are only added, what the others hold stays.
LEMMA AmountSame ==
  ASSUME BufferInv, value \in Seq(Nat), Longer(value', value), NEW b \in Buffers(Len(value))
  PROVE  Amount(b)' = Amount(b)
  <1>1. b # 0 => b \in 1 .. Len(value)
    BY BuffersRange
  <1> QED
    BY <1>1 DEF Amount, Longer

\* Tensor t's gradient grows by its pending one.
LEMMA CommitGains ==
  ASSUME BufferInv, value \in Seq(Nat), NEW e \in Engines, NEW t \in Ids, pending[e][t] # 0,
         grad' = [grad EXCEPT ![t] = Accumulated(t, pending[e][t]).grad],
         value' = Accumulated(t, pending[e][t]).value
  PROVE  /\ Longer(value', value)
         /\ \A u \in Ids : Held(u)' = Held(u) + IF u = t THEN Amount(pending[e][t]) ELSE 0
  <1> PICK b : b = pending[e][t]
    OBVIOUS
  <1> PICK g : g = grad[t]
    OBVIOUS
  <1>1. b \in 1 .. Len(value) /\ Len(value) \in Nat /\ b # 0
    <2>1. b \in Buffers(Len(value))
      BY DEF BufferInv
    <2> QED
      BY <2>1, BuffersRange
  <1>2. PICK x \in Nat : x = value[b]
    BY <1>1
  <1>3. Amount(pending[e][t]) = x
    BY <1>1, <1>2 DEF Amount
  <1>4. DOMAIN grad = Ids
    BY DEF BufferInv
  <1>5. CASE g = 0
    <2>1. value' = value /\ grad' = [grad EXCEPT ![t] = b]
      BY <1>5 DEF Accumulated
    <2>2. grad'[t] = b /\ \A u \in Ids : u # t => grad'[u] = grad[u]
      BY <1>4, <2>1
    <2>3. \A u \in Ids : u # t => Held(u)' = Held(u)
      BY <2>1, <2>2 DEF Held
    <2>4. Held(t)' = x /\ Held(t) = 0
      BY <1>1, <1>2, <1>5, <2>1, <2>2 DEF Held
    <2>5. \A u \in Ids : Held(u)' = Held(u) + IF u = t THEN x ELSE 0
      <3> SUFFICES ASSUME NEW u \in Ids PROVE Held(u)' = Held(u) + IF u = t THEN x ELSE 0
        OBVIOUS
      <3>1. PICK y \in Nat : y = Held(u)
        BY HeldNat
      <3> QED
        BY <2>3, <2>4, <3>1
    <2> QED
      BY <1>3, <2>1, <2>5, LongerSame
  <1>6. CASE g # 0
    <2>1. g \in 1 .. Len(value)
      <3>1. g \in Buffers(Len(value))
        BY DEF BufferInv
      <3> QED
        BY <1>1, <1>6, <3>1, BuffersRange
    <2>2. PICK y \in Nat : y = value[g]
      BY <2>1
    <2> PICK w : w = Append(value, y + x)
      OBVIOUS
    <2>3. value' = w /\ grad' = [grad EXCEPT ![t] = Len(value) + 1]
      BY <1>2, <1>6, <2>2 DEF Accumulated
    <2>4. Longer(w, value) /\ w[Len(value) + 1] = y + x
      BY LongerOne
    <2>5. grad'[t] = Len(value) + 1 /\ \A u \in Ids : u # t => grad'[u] = grad[u]
      BY <1>4, <2>3
    <2>6. Held(t)' = y + x /\ Held(t) = y
      BY <1>1, <1>6, <2>2, <2>3, <2>4, <2>5 DEF Held
    <2>7. ASSUME NEW u \in Ids, u # t PROVE Held(u)' = Held(u)
      <3>1. grad[u] # 0 => grad[u] \in 1 .. Len(value)
        BY <1>1, BuffersRange DEF BufferInv
      <3>2. grad[u] # 0 => w[grad[u]] = value[grad[u]]
        BY <2>4, <3>1 DEF Longer
      <3> QED
        BY <2>3, <2>5, <2>7, <3>2 DEF Held
    <2>8. \A u \in Ids : Held(u)' = Held(u) + IF u = t THEN x ELSE 0
      <3> SUFFICES ASSUME NEW u \in Ids PROVE Held(u)' = Held(u) + IF u = t THEN x ELSE 0
        OBVIOUS
      <3>1. PICK z \in Nat : z = Held(u)
        BY HeldNat
      <3> QED
        BY <2>6, <2>7, <3>1
    <2> QED
      BY <1>3, <2>3, <2>4, <2>8
  <1> QED
    BY <1>5, <1>6

\* Gradients of parameters, when no two share a buffer, and others.
LEMMA ScaleGains ==
  ASSUME BufferInv, GraphInv, value \in Seq(Nat), Scale, exact'
  PROVE  /\ value' \in Seq(Nat) /\ exact /\ BlocksPaired
         /\ \A p \in Params : Held(p)' = 2 * Held(p)
  <1>1. /\ value' = [b \in DOMAIN value |-> Doubled(value[b], Cardinality(Sharing(b)))]
        /\ exact /\ BlocksPaired /\ grad' = grad
        /\ \A b \in DOMAIN value : Cardinality(Sharing(b)) <= 1
    BY DEF Scale
  <1>2. ASSUME NEW b PROVE IsFiniteSet(Sharing(b)) /\ Cardinality(Sharing(b)) \in Nat
    <2>1. Sharing(b) \subseteq 1 .. created /\ created \in Nat
      BY DEF Sharing, Params, GraphInv
    <2>2. IsFiniteSet(1 .. created)
      BY <2>1, FS_Interval
    <2> QED
      BY <2>1, <2>2, FS_Subset, FS_CardinalityType
  <1>3. DOMAIN value = 1 .. Len(value) /\ Len(value) \in Nat
    OBVIOUS
  <1>4. ASSUME NEW b \in DOMAIN value
        PROVE  /\ value'[b] \in Nat
               /\ Sharing(b) # {} => value'[b] = 2 * value[b]
    <2>1. PICK x \in Nat : x = value[b]
      OBVIOUS
    <2>2. PICK c : c = Cardinality(Sharing(b))
      OBVIOUS
    <2>3. c \in Nat /\ c <= 1
      BY <1>1, <1>2, <2>2
    <2>4. value'[b] = x * 2 ^ c
      BY <1>1, <2>1, <2>2 DEF Doubled
    <2>5. CASE c = 0
      <3>1. Sharing(b) = {}
        BY <1>2, <2>2, <2>5, FS_EmptySet
      <3>2. x * 2 ^ 0 = x
        OBVIOUS
      <3> QED
        BY <2>1, <2>4, <2>5, <3>1, <3>2
    <2>6. CASE c = 1
      <3>1. x * 2 ^ 1 = x * 2
        OBVIOUS
      <3> QED
        BY <2>1, <2>4, <2>6, <3>1
    <2> QED
      BY <2>3, <2>5, <2>6
  <1>5. value' \in Seq(Nat)
    <2>1. value' \in [1 .. Len(value) -> Nat]
      BY <1>1, <1>3, <1>4
    <2> QED
      BY <1>3, <2>1
  <1>6. ASSUME NEW p \in Params PROVE Held(p)' = 2 * Held(p)
    <2>0. p \in Ids
      BY CreatedFacts DEF Params
    <2>1. CASE grad[p] = 0
      BY <1>1, <2>1 DEF Held
    <2>2. CASE grad[p] # 0
      <3>1. grad[p] \in DOMAIN value
        BY <1>3, <2>0, <2>2, BuffersRange DEF BufferInv
      <3>2. p \in Sharing(grad[p])
        BY DEF Sharing
      <3> QED
        BY <1>1, <1>4, <2>2, <3>1, <3>2 DEF Held
    <2> QED
      BY <2>1, <2>2
  <1> QED
    BY <1>1, <1>5, <1>6

\* After a failure, what is kept is what it was.
LEMMA ThrowKeeps ==
  ASSUME BufferInv, BufferInv', value \in Seq(Nat), Throw
  PROVE  /\ value' \in Seq(Nat)
         /\ \A u \in Ids : u <= MaxTensors => Held(u)' = Held(u)
  <1>1. /\ grad' = [t \in Ids |-> IF t \in Temporaries THEN 0 ELSE grad[t]]
        /\ value' = SubSeq(value, 1, LastUsed(grad'))
    BY DEF Throw
  <1> PICK last : last = LastUsed(grad')
    OBVIOUS
  <1> PICK n : n = Len(value)
    OBVIOUS
  <1> PICK g : g = grad'
    OBVIOUS
  <1>2. n \in Nat
    OBVIOUS
  <1>3. last \in 0 .. n /\ Len(value') = last
    <2> DEFINE used == {g[t] : t \in Ids} \cup {parked[t][part] : t \in Ids, part \in {1, 2}}
    <2>1. used \subseteq 0 .. n /\ g[1] \in used
      <3>0. 1 \in Ids
        BY IdsFacts
      <3>1. 0 \in Buffers(n) /\ Buffers(n) = 0 .. n
        BY <1>2 DEF Buffers
      <3>2. \A t \in Ids : g[t] \in 0 .. n
        BY <1>1, <3>1 DEF BufferInv
      <3>3. \A t \in Ids : \A part \in {1, 2} : parked[t][part] \in 0 .. n
        BY <3>1 DEF BufferInv
      <3>4. ASSUME NEW b \in used PROVE b \in 0 .. n
        <4>1. CASE \E t \in Ids : b = g[t]
          BY <3>2, <4>1
        <4>2. CASE \E t \in Ids, part \in {1, 2} : b = parked[t][part]
          BY <3>3, <4>2
        <4> QED
          BY <4>1, <4>2
      <3>5. g[1] \in used
        BY <3>0
      <3> HIDE DEF used
      <3> QED
        BY <3>4, <3>5
    <2>2. last = CHOOSE b \in used : \A c \in used : c <= b
      BY DEF LastUsed
    <2> HIDE DEF used
    <2>3. \E b \in used : \A c \in used : c <= b
      BY <1>2, <2>1, Largest
    <2>4. last \in used
      BY <2>2, <2>3
    <2>5. last \in 0 .. n
      BY <2>1, <2>4
    <2>6. \A i \in 1 .. last : value[i] \in Nat
      BY <1>2, <2>5
    <2>7. Len(SubSeq(value, 1, last)) = IF 1 <= last THEN last - 1 + 1 ELSE 0
      BY <2>5, <2>6, SubSeqProperties
    <2> QED
      BY <1>1, <2>5, <2>7
  <1>4. value' \in Seq(Nat) /\ \A i \in 1 .. last : value'[i] = value[i]
    <2>1. \A i \in 1 .. last : value[i] \in Nat
      BY <1>2, <1>3
    <2> PICK w : w = SubSeq(value, 1, last)
      OBVIOUS
    <2>2. /\ w \in Seq(Nat)
          /\ \A i \in 1 .. last - 1 + 1 : w[i] = value[1 + i - 1]
      BY <1>3, <2>1, SubSeqProperties
    <2>3. last \in Nat
      BY <1>2, <1>3
    <2>4. \A i \in 1 .. last : w[i] = value[i]
      <3> SUFFICES ASSUME NEW i \in 1 .. last PROVE w[i] = value[i]
        OBVIOUS
      <3>1. i \in 1 .. last - 1 + 1 /\ 1 + i - 1 = i
        BY <2>3
      <3> QED
        BY <2>2, <3>1
    <2> QED
      BY <1>1, <2>2, <2>4
  <1>5. ASSUME NEW u \in Ids, u <= MaxTensors PROVE Held(u)' = Held(u)
    <2>1. u \notin Temporaries
      BY <1>5, IdsFacts DEF Temporaries
    <2>2. grad'[u] = grad[u]
      BY <1>1, <2>1
    <2>3. grad'[u] \in Buffers(last)
      BY <1>3 DEF BufferInv
    <2>4. last \in Nat
      BY <1>2, <1>3
    <2>5. grad'[u] # 0 => grad'[u] \in 1 .. last
      BY <2>3, <2>4, BuffersRange
    <2> QED
      BY <1>4, <2>2, <2>5 DEF Held
  <1> QED
    BY <1>4, <1>5

\* Derivatives are numbers.
LEMMA DerivNat ==
  ASSUME GraphInv, GraphShape, NEW t \in Ids, NEW v
  PROVE  Deriv(tensor, t, v) \in Nat
  <1>1. PICK D : Slopes(D, tensor, v, Last) /\ \A u \in Ids : Deriv(tensor, u, v) = D[u]
    BY FeedsGraph, DerivSlopes
  <1> QED
    BY <1>1, LastFacts DEF Slopes

\* What happened stays known.
LEMMA ExactBefore ==
  ASSUME [Next]_vars, exact'
  PROVE  exact
  BY DEF Next, Run, Build, Op, Add, View, Make, Reversible, SetEnabled, ZeroGrad, Scale, Backward,
         CollectInput, CollectDone, CollectUnchanged, StartVisits, VisitNothing, VisitOp, EndVisits,
         Commit, Return, VisitBlock, Recompute, Nested, Dispatch, Throw, vars, ghostVars

\* Buffers keep numbers.
LEMMA ValueStep ==
  ASSUME AllInv, GraphShape, BufferInv, BufferInv', RecomputeInv, AmountInv, [Next]_vars, exact'
  PROVE  value' \in Seq(Nat)
  <1>0. value \in Seq(Nat) /\ GraphInv /\ ContextInv
    BY ExactBefore DEF AmountInv, AllInv, OrderInv
  <1>1. ASSUME value' = value PROVE value' \in Seq(Nat)
    BY <1>0, <1>1
  <1>2. CASE Scale
    BY <1>0, <1>2, ScaleGains
  <1>3. ASSUME NEW t \in 1 .. created, Backward(t) PROVE value' \in Seq(Nat)
    BY <1>0, <1>3 DEF Backward
  <1>4. ASSUME NEW e \in Engines, StartVisits(e) \/ VisitOp(e) PROVE value' \in Seq(Nat)
    <2>1. CASE StartVisits(e)
      BY <1>0, <2>1, StartGains DEF Gains, Numbers
    <2>2. CASE VisitOp(e)
      BY <1>0, <2>2, VisitGains DEF GainsTwo, Numbers
    <2> QED
      BY <1>4, <2>1, <2>2
  <1>5. ASSUME NEW e \in Engines, Commit(e) PROVE value' \in Seq(Nat)
    <2>1. PICK t \in Ids :
           /\ pending[e][t] # 0
           /\ grad' = [grad EXCEPT ![t] = Accumulated(t, pending[e][t]).grad]
           /\ value' = Accumulated(t, pending[e][t]).value
      BY <1>5, CommitFacts
    <2>2. Longer(value', value)
      BY <1>0, <2>1, CommitGains
    <2> QED
      BY <2>2 DEF Longer
  <1>6. ASSUME NEW part \in {1, 2}, Nested(part) PROVE value' \in Seq(Nat)
    <2>1. active = 0
      BY <1>0, <1>6 DEF Nested, Recomputing, ContextInv
    <2> QED
      BY <1>1, <1>6, <2>1 DEF Nested
  <1>7. CASE Dispatch
    BY <1>0, <1>7, DispatchGains DEF GainsTwo, Numbers
  <1>8. CASE Throw
    BY <1>0, <1>8, ThrowKeeps
  <1>9. \/ Scale \/ (\E t \in 1 .. created : Backward(t)) \/ Dispatch \/ Throw
        \/ (\E e \in Engines : StartVisits(e) \/ VisitOp(e) \/ Commit(e))
        \/ (\E part \in {1, 2} : Nested(part)) \/ value' = value
    BY DEF Next, Run, Build, Op, Add, View, Make, Reversible, SetEnabled, ZeroGrad,
           CollectInput, CollectDone, CollectUnchanged, VisitNothing, EndVisits, Return,
           VisitBlock, Recompute, vars
  <1> QED
    BY <1>1, <1>2, <1>3, <1>4, <1>5, <1>6, <1>7, <1>8, <1>9

\* What gradients should be is a number, and none for what is not made yet.
LEMMA WantStep ==
  ASSUME AllInv, AllInv', GraphShape, WorkInv, AmountInv, [Next]_vars
  PROVE  /\ want' \in [Ids -> Nat]
         /\ \A t \in Ids : created' < t /\ t <= MaxTensors => want'[t] = 0
  <1>0. GraphInv /\ ContextInv /\ want \in [Ids -> Nat]
        /\ \A t \in Ids : created < t /\ t <= MaxTensors => want[t] = 0
    BY DEF AmountInv, AllInv, OrderInv
  <1>1. ASSUME UNCHANGED <<want, created>> PROVE want' \in [Ids -> Nat]
         /\ \A t \in Ids : created' < t /\ t <= MaxTensors => want'[t] = 0
    BY <1>0, <1>1
  <1>2. CASE Build
    <2>1. want' = want /\ created' \in Nat /\ created' >= created
      <3>1. created \in Nat
        BY <1>0, CreatedFacts
      <3>2. want' = want /\ \E call : Builds(call, 1) \/ Builds(call, 4)
        BY <1>2 DEF Build, Op, Add, View, Make, Reversible
      <3>3. PICK call : Builds(call, 1) \/ Builds(call, 4)
        BY <3>2
      <3>4. created' = created + 1 \/ created' = created + 4
        BY <3>3 DEF Builds
      <3> QED
        BY <3>1, <3>2, <3>4
    <2>2. created \in Nat
      BY <1>0, CreatedFacts
    <2>3. ASSUME NEW t \in Ids, created' < t PROVE created < t
      BY <2>1, <2>2, <2>3, IdsFacts
    <2> QED
      BY <1>0, <2>1, <2>3
  <1>3. CASE ZeroGrad
    <2>1. want' = [t \in Ids |-> IF t \in Params THEN 0 ELSE want[t]] /\ created' = created
      BY <1>3 DEF ZeroGrad, graphVars
    <2> QED
      BY <1>0, <2>1
  <1>4. CASE Scale
    <2>1. want' = [t \in Ids |-> IF t \in Params THEN 2 * want[t] ELSE want[t]] /\ created' = created
      BY <1>4 DEF Scale, graphVars
    <2>2. \A t \in Ids : 2 * want[t] \in Nat /\ (want[t] = 0 => 2 * want[t] = 0)
      BY <1>0
    <2> QED
      BY <1>0, <2>1, <2>2
  <1>5. ASSUME NEW e \in Engines, Return(e)
        PROVE  /\ want' \in [Ids -> Nat]
               /\ \A t \in Ids : created' < t /\ t <= MaxTensors => want'[t] = 0
    <2>1. CASE e = 1
      <3> PICK r : r = root[1]
        OBVIOUS
      <3>1. want' = [t \in Ids |-> want[t] + Derivative(r, t)] /\ created' = created
        BY <1>5, <2>1 DEF Return, graphVars
      <3>2. want' = [t \in Ids |-> want[t] + Deriv(tensor, r, t)]
        BY <3>1, DerivativeIs
      <3>3. phase[1] # "idle"
        BY <1>5, <2>1 DEF Return, Runs
      <3>4. r \in Ids /\ r <= created
        BY <3>3 DEF WorkInv
      <3>5. \A t \in Ids : Deriv(tensor, r, t) \in Nat
        BY <1>0, <3>4, DerivNat
      <3>6. ASSUME NEW t \in Ids, created < t, t <= MaxTensors PROVE want'[t] = 0
        <4>1. t \in Nat /\ r < t
          BY <1>0, <3>4, <3>6, IdsFacts, CreatedFacts
        <4>2. Deriv(tensor, r, t) = 0
          BY <1>0, <3>4, <4>1, FeedsGraph, DerivLater
        <4> QED
          BY <1>0, <3>2, <3>6, <4>2
      <3>7. want' \in [Ids -> Nat]
        <4>1. \A t \in Ids : want[t] + Deriv(tensor, r, t) \in Nat
          BY <1>0, <3>5
        <4> QED
          BY <3>2, <4>1
      <3> QED
        BY <3>1, <3>6, <3>7
    <2>2. CASE e = 2
      BY <1>1, <1>5, <2>2 DEF Return, graphVars
    <2> QED
      BY <2>1, <2>2 DEF Engines
  <1>6. \/ Build \/ ZeroGrad \/ Scale \/ (\E e \in Engines : Return(e)) \/ UNCHANGED <<want, created>>
    BY DEF Next, Run, SetEnabled, Backward,
         CollectInput, CollectDone, CollectUnchanged, StartVisits, VisitNothing, VisitOp, EndVisits,
         Commit, VisitBlock, Recompute, Nested, Dispatch, Throw, vars, ghostVars, graphVars
  <1> QED
    BY <1>1, <1>2, <1>3, <1>4, <1>5, <1>6

\* A root's gradient is there.
LEMMA SeedStep ==
  ASSUME AllInv, GraphShape, BufferInv, RecomputeInv, ArrivedInv, AmountInv, [Next]_vars
  PROVE  \A e \in Engines : phase'[e] = "collect" => seed'[e] # 0
  <1>0. ContextInv /\ phase \in [Engines -> Phases] /\ \A e \in Engines : phase[e] = "collect" => seed[e] # 0
    BY DEF AmountInv, AllInv, ContextInv
  <1>1. ASSUME UNCHANGED <<phase, seed>>
        PROVE  \A e \in Engines : phase'[e] = "collect" => seed'[e] # 0
    BY <1>0, <1>1
  <1>2. ASSUME NEW f \in Engines, NEW t, NEW b, Starts(f, t, b), b # 0
        PROVE  \A e \in Engines : phase'[e] = "collect" => seed'[e] # 0
    <2>1. phase' = [phase EXCEPT ![f] = "collect"] /\ seed' = [seed EXCEPT ![f] = b]
      BY <1>2 DEF Starts
    <2> QED
      BY <1>0, <1>2, <2>1 DEF BufferInv
  <1>3. ASSUME NEW t \in 1 .. created, Backward(t)
        PROVE  \A e \in Engines : phase'[e] = "collect" => seed'[e] # 0
    <2>1. Starts(1, t, Len(value) + 1) /\ Len(value) + 1 # 0
      BY <1>3, SeqLength DEF Backward, BufferInv
    <2> QED
      BY <1>2, <2>1 DEF Engines
  <1>4. ASSUME NEW part \in {1, 2}, Nested(part)
        PROVE  \A e \in Engines : phase'[e] = "collect" => seed'[e] # 0
    <2>1. active = 0 /\ step # "idle"
      BY <1>0, <1>4 DEF Nested, Recomputing, ContextInv
    <2>2. PICK t : Starts(2, t, parked[block][part])
      BY <1>4, <2>1 DEF Nested
    <2>3. parked[block][1] # 0 /\ parked[block][2] # 0
      <3>1. tensor[block].op = "rev1" /\ arrived[block] # 0 /\ arrived[block + 1] # 0 /\ block \in Ids
        BY <2>1, RecomputeThere DEF RecomputeInv, BlockThere
      <3> QED
        BY <3>1 DEF ArrivedInv
    <2> QED
      BY <1>2, <2>2, <2>3 DEF Engines
  <1>5. ASSUME NEW es, Gone(es)
        PROVE  \A e \in Engines : phase'[e] = "collect" => seed'[e] # 0
    BY <1>0, <1>5 DEF Gone
  <1>6. ASSUME NEW e \in Engines, NEW p, p # "collect", phase' = [phase EXCEPT ![e] = p], seed' = seed
        PROVE  \A f \in Engines : phase'[f] = "collect" => seed'[f] # 0
    BY <1>0, <1>6
  <1>7. ASSUME NEW e \in Engines, StartVisits(e) \/ EndVisits(e)
        PROVE  \A f \in Engines : phase'[f] = "collect" => seed'[f] # 0
    <2>1. seed' = seed /\ \E p \in {"visit", "commit"} : phase' = [phase EXCEPT ![e] = p]
      BY <1>7 DEF StartVisits, EndVisits, collectVars
    <2> QED
      BY <1>6, <2>1
  <1>8. \/ (\E t \in 1 .. created : Backward(t)) \/ (\E part \in {1, 2} : Nested(part))
        \/ (\E e \in Engines : Return(e) \/ StartVisits(e) \/ EndVisits(e)) \/ Throw
        \/ UNCHANGED <<phase, seed>>
    BY DEF Next, Run, Build, Op, Add, View, Make, Reversible, SetEnabled, ZeroGrad, Scale,
         CollectInput, CollectDone, CollectUnchanged, VisitNothing, VisitOp, Visiting,
         Commit, VisitBlock, Recompute, Dispatch, vars, runVars, engineVars, collectVars
  <1> QED
    BY <1>1, <1>3, <1>4, <1>5, <1>7, <1>8 DEF Return, Throw

\* Every step keeps numbers numbers.
LEMMA AmountStep ==
  ASSUME AllInv, AllInv', GraphShape, BufferInv, BufferInv', RecomputeInv, ArrivedInv, WorkInv,
         AmountInv, [Next]_vars
  PROVE  AmountInv'
  BY ValueStep, WantStep, SeedStep DEF AmountInv

-----------------------------------------------------------------------------
(* What is still owed.                                                     *)

\* The tensors whose nodes engine e has visited.
Ran(e) == {u \in Ids : \E i \in pos[e] + 1 .. Len(topo[e]) : topo[e][i] = u}

\* The gradient of tensor u that is pending and will be passed on or committed: an engine does
\* not look again at those of tensors whose nodes it has visited.
Coming(e, u) == IF u \in Ran(e) THEN 0 ELSE Amount(pending[e][u])

\* The gradient an engine will begin with.
Seeded(e, u) == IF phase[e] = "collect" /\ root[e] = u THEN Amount(seed[e]) ELSE 0

\* A block's other output.
Other(u) == IF tensor[u].op = "rev2" THEN u - 1 ELSE u + 1

\* The gradient of a block's output is parked and a recompute has not begun with it.
Waiting(u) ==
  /\ arrived[u] = 1
  /\ \/ arrived[Other(u)] = 0
     \/ block = Block(u) /\ step \in {"forward", "y1"}
     \/ block = Block(u) /\ step = "y2" /\ Part(u) = 2

\* What is parked for it.
ParkedFor(u) == IF Waiting(u) THEN Amount(parked[Block(u)][Part(u)]) ELSE 0

\* The gradient of an input that a recompute recovered.
Recovered(u) == IF u \in {x1r, x2r} THEN Held(u) ELSE 0

\* All of it.
Owed(u) == Coming(1, u) + Coming(2, u) + Seeded(1, u) + Seeded(2, u) + ParkedFor(u) + Recovered(u)

\* How much of the gradient of tensor u goes to tensor v.  The tensors of a recompute stand for
\* the derivative of the block's outputs with respect to what they are.
One(v)   == Share(tensor[block].in[1], 1, Deriv(tensor, tensor[block].in[1], v))
Two(v)   == Share(tensor[block].in[2], 1, Deriv(tensor, tensor[block].in[2], v))
WithF(v) == Share(ParamF(block), 1, Deriv(tensor, ParamF(block), v))
WithG(v) == Share(ParamG(block), 1, Deriv(tensor, ParamG(block), v))
First(v) == One(v) + 2 * Two(v) + 3 * WithF(v)

\* The effect of u on v: the derivative, or what it stands for.
Effect(u, v) ==
  IF u <= MaxTensors THEN Deriv(tensor, u, v)
  ELSE IF block = 0 THEN 0
  ELSE IF u = x1r THEN One(v)
  ELSE IF u = x2r THEN Two(v)
  ELSE IF u = fx THEN 2 * Two(v) + 3 * WithF(v)
  ELSE IF u = fy1 THEN First(v)
  ELSE IF u = gy THEN 2 * First(v) + 3 * WithG(v)
  ELSE Two(v) + 2 * First(v) + 3 * WithG(v)

\* All that the invariants say.
Ready ==
  /\ AllInv /\ BufferInv /\ GraphShape /\ RecomputeInv /\ ArrivedInv /\ WorkInv /\ AmountInv

\* What it is made of, and what follows at once.
LEMMA ReadyFacts ==
  ASSUME Ready
  PROVE  /\ AllInv /\ BufferInv /\ GraphShape /\ RecomputeInv /\ ArrivedInv /\ WorkInv /\ AmountInv
         /\ GraphInv /\ OrderInv /\ ContextInv /\ (exact => value \in Seq(Nat))
         /\ (block # 0 => step # "idle")
  BY DEF Ready, AllInv, OrderInv, AmountInv, RecomputeInv

\* A share of a number is one.
LEMMA ShareNat ==
  ASSUME NEW i, NEW w \in Nat, NEW x \in Nat
  PROVE  Share(i, w, x) \in Nat /\ Share(i, w, x) = w * Share(i, 1, x)
  BY DEF Share

\* The tensors the recompute's effects are made of.
LEMMA EffectParts ==
  ASSUME Ready, block # 0, NEW v
  PROVE  /\ One(v) \in Nat /\ Two(v) \in Nat /\ WithF(v) \in Nat /\ WithG(v) \in Nat
         /\ First(v) \in Nat
         /\ ParamF(block) \in Ids /\ ParamG(block) \in Ids
         /\ ParamF(block) <= MaxTensors /\ ParamG(block) <= MaxTensors
         /\ tensor[block].in[1] \in Ids /\ tensor[block].in[2] \in Ids
         /\ tensor[block].in[1] <= MaxTensors /\ tensor[block].in[2] <= MaxTensors
  <1>1. GraphInv /\ GraphShape /\ step # "idle" /\ BlockThere /\ tensor[block].op = "rev1"
    BY ReadyFacts, RecomputeThere
  <1>2. \A k \in {1, 2} : tensor[block].in[k] \in Ids /\ tensor[block].in[k] <= MaxTensors
    BY <1>1, ReadyFacts, BlockFacts
  <1>3. ParamF(block) \in Ids /\ ParamG(block) \in Ids
    BY <1>1, RevPlace DEF BlockThere, ParamF, ParamG
  <1>4. ParamF(block) <= MaxTensors /\ ParamG(block) <= MaxTensors
    BY <1>1, IdsFacts DEF BlockThere, ParamF, ParamG
  <1>5. One(v) \in Nat /\ Two(v) \in Nat /\ WithF(v) \in Nat /\ WithG(v) \in Nat
    BY <1>1, <1>2, <1>3, DerivNat, ShareNat DEF One, Two, WithF, WithG
  <1>6. First(v) \in Nat
    BY <1>5 DEF First
  <1> QED
    BY <1>2, <1>3, <1>4, <1>5, <1>6

\* Effects are numbers.
LEMMA EffectNat ==
  ASSUME Ready, NEW u \in Ids, NEW v
  PROVE  Effect(u, v) \in Nat
  <1>1. CASE u <= MaxTensors
    BY <1>1, ReadyFacts, DerivNat DEF Effect
  <1>2. CASE ~(u <= MaxTensors) /\ block = 0
    BY <1>2 DEF Effect
  <1>3. CASE ~(u <= MaxTensors) /\ block # 0
    <2>1. PICK one \in Nat : one = One(v)
      BY <1>3, EffectParts
    <2>2. PICK two \in Nat : two = Two(v)
      BY <1>3, EffectParts
    <2>3. PICK f \in Nat : f = WithF(v)
      BY <1>3, EffectParts
    <2>4. PICK g \in Nat : g = WithG(v)
      BY <1>3, EffectParts
    <2>5. PICK y \in Nat : y = First(v)
      BY <1>3, EffectParts
    <2>6. 2 * two + 3 * f \in Nat /\ 2 * y + 3 * g \in Nat /\ two + 2 * y + 3 * g \in Nat
      OBVIOUS
    <2> QED
      BY <1>3, <2>1, <2>2, <2>3, <2>4, <2>5, <2>6 DEF Effect
  <1> QED
    BY <1>1, <1>2, <1>3

\* The chain rule for tensors that callers make.
LEMMA DerivIs ==
  ASSUME GraphInv, GraphShape, NEW u \in Ids, NEW v
  PROVE  /\ tensor[u].fn = 0 /\ u # v => Deriv(tensor, u, v) = 0
         /\ u = v => Deriv(tensor, u, v) = 1
         /\ tensor[u].fn # 0 /\ tensor[v].fn = 0 =>
              /\ tensor[tensor[u].fn].op \in {"op", "add"} =>
                   Deriv(tensor, u, v) =
                     Share(Inputs(u)[1], Weights(Node(u).op)[1], Deriv(tensor, Inputs(u)[1], v))
                       + Share(Inputs(u)[2], Weights(Node(u).op)[2], Deriv(tensor, Inputs(u)[2], v))
              /\ Deriv(tensor, tensor[u].fn, v) = Deriv(tensor, u, v)
              /\ tensor[tensor[u].fn].op = "rev1" =>
                   Deriv(tensor, u, v) =
                     Share(Inputs(u)[1], 1, Deriv(tensor, Inputs(u)[1], v))
                       + Share(Inputs(u)[2], 2, Deriv(tensor, Inputs(u)[2], v))
                       + Share(tensor[u].fn - 2, 3, Deriv(tensor, tensor[u].fn - 2, v))
              /\ tensor[tensor[u].fn].op = "rev2" =>
                   Deriv(tensor, u, v) =
                     Share(Inputs(u)[2], 1, Deriv(tensor, Inputs(u)[2], v))
                       + 2 * (Share(Inputs(u)[1], 1, Deriv(tensor, Inputs(u)[1], v))
                               + Share(Inputs(u)[2], 2, Deriv(tensor, Inputs(u)[2], v))
                               + Share(tensor[u].fn - 1 - 2, 3, Deriv(tensor, tensor[u].fn - 1 - 2, v)))
                       + Share(tensor[u].fn - 1 - 1, 3, Deriv(tensor, tensor[u].fn - 1 - 1, v))
  <1>1. Feeds(tensor)
    BY FeedsGraph
  <1>2. PICK D : Slopes(D, tensor, v, Last) /\ \A t \in Ids : Deriv(tensor, t, v) = D[t]
    BY <1>1, DerivSlopes
  <1>3. \A t \in Ids : D[t] = Slope(tensor, D, t, v)
    BY <1>2, LastFacts DEF Slopes
  <1>4. tensor[u].fn = 0 /\ u # v => Deriv(tensor, u, v) = 0
    BY <1>2, <1>3 DEF Slope
  <1>5. u = v => Deriv(tensor, u, v) = 1
    BY <1>2, <1>3 DEF Slope
  <1> PICK n : n = tensor[u].fn
    OBVIOUS
  <1> PICK i : i = tensor[n].in[1]
    OBVIOUS
  <1> PICK j : j = tensor[n].in[2]
    OBVIOUS
  <1> PICK o : o = tensor[n].op
    OBVIOUS
  <1>6. Inputs(u)[1] = i /\ Inputs(u)[2] = j /\ Node(u).op = o
    BY DEF Inputs, Node
  <1>7. ASSUME n # 0, tensor[v].fn = 0
        PROVE  /\ n \in Ids /\ i \in Ids /\ j \in Ids /\ tensor[n].fn = n /\ u # v /\ n # v
               /\ o = "rev1" => n - 2 \in Ids
               /\ o = "rev2" => n - 1 - 2 \in Ids /\ n - 1 - 1 \in Ids
    <2>1. n \in Ids /\ i \in Ids /\ j \in Ids
      BY <1>1, <1>7 DEF Feeds
    <2>2. o = "rev1" => n - 2 \in Ids
      BY <1>1, <1>7 DEF Feeds
    <2>3. o = "rev2" => n - 1 - 2 \in Ids /\ n - 1 - 1 \in Ids
      BY <1>1, <1>7 DEF Feeds
    <2>4. tensor[n].fn = n
      BY <1>7 DEF GraphInv
    <2> QED
      BY <1>7, <2>1, <2>2, <2>3, <2>4
  <1>8. ASSUME n # 0, tensor[v].fn = 0, o \in {"op", "add"}
        PROVE  D[u] = Share(i, Weights(o)[1], D[i]) + Share(j, Weights(o)[2], D[j])
    <2> PICK w1 : w1 = Weights(o)[1]
      OBVIOUS
    <2> PICK w2 : w2 = Weights(o)[2]
      OBVIOUS
    <2> PICK ti : ti = IF tensor[i].rg THEN w1 * D[i] ELSE 0
      OBVIOUS
    <2> PICK tj : tj = IF tensor[j].rg THEN w2 * D[j] ELSE 0
      OBVIOUS
    <2>1. D[u] = ti + tj
      BY <1>3, <1>7, <1>8, ZenonT(60) DEF Slope
    <2>2. Share(i, Weights(o)[1], D[i]) = ti
      BY DEF Share
    <2>3. Share(j, Weights(o)[2], D[j]) = tj
      BY DEF Share
    <2> QED
      BY <2>1, <2>2, <2>3
  <1>9. ASSUME n # 0, tensor[v].fn = 0
        PROVE  D[n] = D[u]
    <2>1. tensor[n].fn = tensor[u].fn /\ n # v /\ u # v /\ n \in Ids
      BY <1>7, <1>9
    <2>2. Slope(tensor, D, n, v) = Slope(tensor, D, u, v)
      BY <2>1, ZenonT(60) DEF Slope
    <2> QED
      BY <1>3, <2>1, <2>2
  <1>10. ASSUME n # 0, tensor[v].fn = 0, o = "rev1"
         PROVE  D[u] = Share(i, 1, D[i]) + Share(j, 2, D[j]) + Share(n - 2, 3, D[n - 2])
    BY <1>3, <1>7, <1>10 DEF Slope, Share
  <1>11. ASSUME n # 0, tensor[v].fn = 0, o = "rev2"
         PROVE  D[u] = Share(j, 1, D[j])
                         + 2 * (Share(i, 1, D[i]) + Share(j, 2, D[j]) + Share(n - 1 - 2, 3, D[n - 1 - 2]))
                         + Share(n - 1 - 1, 3, D[n - 1 - 1])
    BY <1>3, <1>7, <1>11 DEF Slope, Share
  <1>12. ASSUME n # 0, tensor[v].fn = 0
         PROVE  /\ Deriv(tensor, u, v) = D[u] /\ Deriv(tensor, n, v) = D[n]
                /\ Deriv(tensor, i, v) = D[i] /\ Deriv(tensor, j, v) = D[j]
                /\ o = "rev1" => Deriv(tensor, n - 2, v) = D[n - 2]
                /\ o = "rev2" => /\ Deriv(tensor, n - 1 - 2, v) = D[n - 1 - 2]
                                 /\ Deriv(tensor, n - 1 - 1, v) = D[n - 1 - 1]
    BY <1>2, <1>7, <1>12
  <1> QED
    BY <1>4, <1>5, <1>6, <1>8, <1>9, <1>10, <1>11, <1>12

\* What callers know the block's tensors to be, in the recompute's terms.
LEMMA EffectOfBlock ==
  ASSUME Ready, block # 0, NEW v, tensor[v].fn = 0
  PROVE  /\ Effect(block, v) = Effect(fy1, v) /\ Effect(block + 1, v) = Effect(fy2, v)
         /\ Effect(x1r, v) = Share(tensor[block].in[1], 1, Effect(tensor[block].in[1], v))
         /\ Effect(x2r, v) = Share(tensor[block].in[2], 1, Effect(tensor[block].in[2], v))
  <1>1. GraphInv /\ GraphShape /\ step # "idle" /\ BlockThere /\ tensor[block].op = "rev1"
    BY ReadyFacts, RecomputeThere
  <1>2. /\ tensor[block].fn = block /\ tensor[block + 1].op = "rev2" /\ tensor[block + 1].fn = block + 1
        /\ tensor[block + 1].in = tensor[block].in /\ block \in Ids /\ block + 1 \in Ids
        /\ block \in Nat /\ block <= MaxTensors /\ block + 1 <= MaxTensors /\ MaxTensors \in Nat
    BY <1>1, RevPlace, IdsFacts DEF BlockThere, GraphInv
  <1> PICK i : i = tensor[block].in[1]
    OBVIOUS
  <1> PICK j : j = tensor[block].in[2]
    OBVIOUS
  <1>3. i <= MaxTensors /\ j <= MaxTensors /\ i \in Ids /\ j \in Ids
    BY EffectParts
  <1>4. /\ Inputs(block)[1] = i /\ Inputs(block)[2] = j
        /\ Inputs(block + 1)[1] = i /\ Inputs(block + 1)[2] = j
    BY <1>2 DEF Inputs, Node
  <1>5. Deriv(tensor, block, v) = Share(i, 1, Deriv(tensor, i, v)) + Share(j, 2, Deriv(tensor, j, v))
                                    + Share(block - 2, 3, Deriv(tensor, block - 2, v))
    BY <1>1, <1>2, <1>4, DerivIs
  <1>6. /\ block + 1 - 1 - 2 = block - 2 /\ block + 1 - 1 - 1 = block - 1 /\ block # 0 /\ block + 1 # 0
    BY <1>2
  <1>7. Deriv(tensor, block + 1, v) =
          Share(j, 1, Deriv(tensor, j, v))
            + 2 * (Share(i, 1, Deriv(tensor, i, v)) + Share(j, 2, Deriv(tensor, j, v))
                     + Share(block - 2, 3, Deriv(tensor, block - 2, v)))
            + Share(block - 1, 3, Deriv(tensor, block - 1, v))
    BY <1>1, <1>2, <1>4, <1>6, DerivIs
  <1>8. ParamF(block) = block - 2 /\ ParamG(block) = block - 1
    BY DEF ParamF, ParamG
  <1>9. /\ Deriv(tensor, i, v) \in Nat /\ Deriv(tensor, j, v) \in Nat
        /\ Deriv(tensor, block - 2, v) \in Nat /\ Deriv(tensor, block - 1, v) \in Nat
    BY <1>1, <1>3, <1>8, EffectParts, DerivNat
  <1>10. /\ Share(j, 2, Deriv(tensor, j, v)) = 2 * Two(v)
         /\ Share(block - 2, 3, Deriv(tensor, block - 2, v)) = 3 * WithF(v)
         /\ Share(block - 1, 3, Deriv(tensor, block - 1, v)) = 3 * WithG(v)
         /\ Share(i, 1, Deriv(tensor, i, v)) = One(v) /\ Share(j, 1, Deriv(tensor, j, v)) = Two(v)
    BY <1>8, <1>9, ShareNat DEF One, Two, WithF, WithG
  <1>11. Deriv(tensor, block, v) = First(v)
    BY <1>5, <1>10 DEF First
  <1>12. Deriv(tensor, block + 1, v) = Two(v) + 2 * First(v) + 3 * WithG(v)
    BY <1>7, <1>10 DEF First
  <1>13. Effect(block, v) = First(v) /\ Effect(block + 1, v) = Two(v) + 2 * First(v) + 3 * WithG(v)
    BY <1>2, <1>11, <1>12 DEF Effect
  <1>14. Effect(x1r, v) = One(v) /\ Effect(x2r, v) = Two(v) /\ Effect(fy1, v) = First(v)
         /\ Effect(fy2, v) = Two(v) + 2 * First(v) + 3 * WithG(v)
    <2>1. /\ ~(x1r <= MaxTensors) /\ ~(x2r <= MaxTensors) /\ ~(fy1 <= MaxTensors) /\ ~(fy2 <= MaxTensors)
          /\ x2r # x1r /\ fy1 \notin {x1r, x2r, fx} /\ fy2 \notin {x1r, x2r, fx, fy1, gy}
      BY IdsFacts
    <2> QED
      BY <2>1 DEF Effect
  <1>15. Effect(i, v) = Deriv(tensor, i, v) /\ Effect(j, v) = Deriv(tensor, j, v)
    BY <1>3 DEF Effect
  <1> QED
    BY <1>10, <1>13, <1>14, <1>15

\* The chain rule, in a recompute's graph too.
LEMMA EffectOp ==
  ASSUME Ready, NEW u \in Ids, NEW v, tensor[v].fn = 0, tensor[u].fn # 0,
         Node(u).op \in {"op", "add"}, u > MaxTensors => step \in {"y1", "y2", "dispatch"}
  PROVE  Effect(u, v) =
           Share(Inputs(u)[1], Weights(Node(u).op)[1], Effect(Inputs(u)[1], v))
             + Share(Inputs(u)[2], Weights(Node(u).op)[2], Effect(Inputs(u)[2], v))
  <1>1. GraphInv /\ GraphShape /\ RecomputeInv
    BY ReadyFacts
  <1>2. CASE u <= MaxTensors
    <2>1. \A k \in {1, 2} : Inputs(u)[k] \in Nat /\ Inputs(u)[k] < u
      BY <1>1, GraphAcyclic, IdsFacts DEF Acyclic, Wired, Ins, Inputs, Node
    <2>2. \A k \in {1, 2} : Inputs(u)[k] <= MaxTensors
      BY <1>2, <2>1, IdsFacts
    <2>3. \A k \in {1, 2} : Effect(Inputs(u)[k], v) = Deriv(tensor, Inputs(u)[k], v)
      BY <2>2 DEF Effect
    <2>4. Effect(u, v) = Deriv(tensor, u, v)
      BY <1>2 DEF Effect
    <2>5. Deriv(tensor, u, v) =
            Share(Inputs(u)[1], Weights(Node(u).op)[1], Deriv(tensor, Inputs(u)[1], v))
              + Share(Inputs(u)[2], Weights(Node(u).op)[2], Deriv(tensor, Inputs(u)[2], v))
      <3>1. tensor[tensor[u].fn].op \in {"op", "add"}
        BY DEF Node
      <3> QED
        BY <1>1, <3>1, DerivIs
    <2> QED
      BY <2>3, <2>4, <2>5
  <1>3. CASE ~(u <= MaxTensors)
    <2>1. u > MaxTensors /\ u \in {x1r, x2r, fx, fy1, gy, fy2}
      BY <1>3, IdsFacts
    <2>2. step \in {"y1", "y2", "dispatch"} /\ Made /\ block # 0 /\ tensor[block].op = "rev1"
      <3>1. step # "idle" /\ Made
        BY <2>1, <1>1 DEF RecomputeInv
      <3>2. BlockThere
        BY <3>1, ReadyFacts, RecomputeThere
      <3> QED
        BY <2>1, <3>1, <3>2, <1>1 DEF RecomputeInv, BlockThere
    <2>3. tensor[u].fn = u
      BY <1>1, <2>1 DEF GraphInv
    <2>4. /\ tensor[x1r].fn = 0 /\ tensor[x2r].fn = 0
          /\ tensor[x1r].rg = tensor[tensor[block].in[1]].rg
          /\ tensor[x2r].rg = tensor[tensor[block].in[2]].rg
      BY <2>2, LeafFacts DEF Made
    <2>5. /\ tensor[fx].op = "op" /\ tensor[fx].in = <<x2r, ParamF(block)>> /\ tensor[fx].rg = TRUE
          /\ tensor[fy1].op = "add" /\ tensor[fy1].in = <<x1r, fx>> /\ tensor[fy1].rg = TRUE
          /\ tensor[gy].op = "op" /\ tensor[gy].in = <<fy1, ParamG(block)>> /\ tensor[gy].rg = TRUE
          /\ tensor[fy2].op = "add" /\ tensor[fy2].in = <<x2r, gy>> /\ tensor[fy2].rg = TRUE
      BY <2>2 DEF Made, Result
    <2>6. tensor[ParamF(block)].rg = TRUE /\ tensor[ParamG(block)].rg = TRUE
      <3>1. block \in Ids
        BY ReadyFacts, RecomputeThere, <2>2 DEF BlockThere
      <3> QED
        BY <3>1, <1>1, <2>2, LeafFacts DEF GraphShape, ParamF, ParamG
    <2>7. /\ One(v) \in Nat /\ Two(v) \in Nat /\ WithF(v) \in Nat /\ WithG(v) \in Nat /\ First(v) \in Nat
          /\ ParamF(block) \in Ids /\ ParamG(block) \in Ids
          /\ ParamF(block) <= MaxTensors /\ ParamG(block) <= MaxTensors
      BY <2>2, EffectParts
    <2>8. Weights("op")[1] = 2 /\ Weights("op")[2] = 3 /\ Weights("add")[1] = 1 /\ Weights("add")[2] = 1
      BY DEF Weights
    <2>9. /\ Effect(x1r, v) = One(v) /\ Effect(x2r, v) = Two(v)
          /\ Effect(fx, v) = 2 * Two(v) + 3 * WithF(v) /\ Effect(fy1, v) = First(v)
          /\ Effect(gy, v) = 2 * First(v) + 3 * WithG(v)
          /\ Effect(fy2, v) = Two(v) + 2 * First(v) + 3 * WithG(v)
      <3>1. /\ ~(x1r <= MaxTensors) /\ ~(x2r <= MaxTensors) /\ ~(fy1 <= MaxTensors)
            /\ ~(fy2 <= MaxTensors) /\ ~(fx <= MaxTensors) /\ ~(gy <= MaxTensors)
            /\ x2r # x1r /\ fx \notin {x1r, x2r} /\ fy1 \notin {x1r, x2r, fx}
            /\ gy \notin {x1r, x2r, fx, fy1} /\ fy2 \notin {x1r, x2r, fx, fy1, gy}
        BY IdsFacts
      <3> QED
        BY <2>2, <3>1 DEF Effect
    <2>10. Effect(ParamF(block), v) = WithF(v) /\ Effect(ParamG(block), v) = WithG(v)
      <3>1. Deriv(tensor, ParamF(block), v) \in Nat /\ Deriv(tensor, ParamG(block), v) \in Nat
        BY <1>1, <2>7, DerivNat
      <3>2. /\ Effect(ParamF(block), v) = Deriv(tensor, ParamF(block), v)
            /\ Effect(ParamG(block), v) = Deriv(tensor, ParamG(block), v)
        BY <2>7 DEF Effect
      <3>3. /\ WithF(v) = 1 * Deriv(tensor, ParamF(block), v)
            /\ WithG(v) = 1 * Deriv(tensor, ParamG(block), v)
        BY <2>6 DEF WithF, WithG, Share
      <3> QED
        BY <3>1, <3>2, <3>3
    <2>11. /\ tensor[x1r].rg = FALSE => One(v) = 0
           /\ tensor[x2r].rg = FALSE => Two(v) = 0
      BY <2>4 DEF One, Two, Share
    <2>12. /\ Share(x2r, 2, Two(v)) = 2 * Two(v) /\ Share(x2r, 1, Two(v)) = Two(v)
           /\ Share(x1r, 1, One(v)) = One(v)
      <3>1. tensor[x1r].rg \in BOOLEAN /\ tensor[x2r].rg \in BOOLEAN
        BY <1>1, IdsFacts DEF GraphInv, TensorType
      <3> QED
        BY <2>7, <2>11, <3>1 DEF Share
    <2>13. CASE u = fx
      <3>1. Inputs(u)[1] = x2r /\ Inputs(u)[2] = ParamF(block) /\ Node(u).op = "op"
        BY <2>3, <2>5, <2>13 DEF Inputs, Node
      <3>2. Share(ParamF(block), 3, WithF(v)) = 3 * WithF(v)
        BY <2>6 DEF Share
      <3> QED
        BY <3>1, <3>2, <2>8, <2>9, <2>10, <2>12, <2>13
    <2>14. CASE u = fy1
      <3>1. Inputs(u)[1] = x1r /\ Inputs(u)[2] = fx /\ Node(u).op = "add"
        BY <2>3, <2>5, <2>14 DEF Inputs, Node
      <3>2. Share(fx, 1, Effect(fx, v)) = 2 * Two(v) + 3 * WithF(v)
        BY <2>5, <2>7, <2>9 DEF Share
      <3>3. First(v) = One(v) + (2 * Two(v) + 3 * WithF(v))
        BY <2>7 DEF First
      <3> QED
        BY <3>1, <3>2, <3>3, <2>8, <2>9, <2>12, <2>14
    <2>15. CASE u = gy
      <3>1. Inputs(u)[1] = fy1 /\ Inputs(u)[2] = ParamG(block) /\ Node(u).op = "op"
        BY <2>3, <2>5, <2>15 DEF Inputs, Node
      <3>2. Share(ParamG(block), 3, WithG(v)) = 3 * WithG(v) /\ Share(fy1, 2, First(v)) = 2 * First(v)
        BY <2>5, <2>6 DEF Share
      <3> QED
        BY <3>1, <3>2, <2>8, <2>9, <2>10, <2>15
    <2>16. CASE u = fy2
      <3>1. Inputs(u)[1] = x2r /\ Inputs(u)[2] = gy /\ Node(u).op = "add"
        BY <2>3, <2>5, <2>16 DEF Inputs, Node
      <3>2. Share(gy, 1, Effect(gy, v)) = 2 * First(v) + 3 * WithG(v)
        BY <2>5, <2>7, <2>9 DEF Share
      <3>3. Two(v) + 2 * First(v) + 3 * WithG(v) = Two(v) + (2 * First(v) + 3 * WithG(v))
        BY <2>7
      <3> QED
        BY <3>1, <3>2, <3>3, <2>8, <2>9, <2>12, <2>16
    <2>17. u \notin {x1r, x2r}
      BY <2>3, <2>4, <2>1, IdsFacts
    <2> QED
      BY <2>1, <2>13, <2>14, <2>15, <2>16, <2>17
  <1> QED
    BY <1>2, <1>3

\* A tensor and the one with its node are one, and leaves depend on nothing else.
LEMMA EffectPlain ==
  ASSUME Ready, NEW u \in Ids, u <= MaxTensors, NEW v, tensor[v].fn = 0
  PROVE  /\ tensor[u].fn # 0 => Effect(tensor[u].fn, v) = Effect(u, v)
         /\ tensor[u].fn = 0 => Effect(u, v) = IF u = v THEN 1 ELSE 0
  <1>1. GraphInv /\ GraphShape
    BY ReadyFacts
  <1>2. tensor[u].fn <= MaxTensors
    <2>1. tensor[u].fn <= created /\ created \in Nat /\ created <= MaxTensors /\ MaxTensors \in Nat
      BY <1>1, IdsFacts DEF GraphInv
    <2>2. tensor[u] \in TensorType
      BY <1>1 DEF GraphInv
    <2>3. tensor[u].fn \in Nat
      BY <2>2, IdsFacts DEF TensorType
    <2> QED
      BY <2>1, <2>3
  <1> QED
    BY <1>1, <1>2, DerivIs DEF Effect

-----------------------------------------------------------------------------
(* The balance: what is held and what is owed is what should be held.      *)

\* What o owes is worth, when tensors have effects e.
Worth(o, e) == Total([u \in Ids |-> o[u] * e[u]])

\* Worth is an integer.
LEMMA WorthInt ==
  ASSUME NEW o \in [Ids -> Int], NEW e \in [Ids -> Int]
  PROVE  Worth(o, e) \in Int
  BY TotalInt DEF Worth

\* Only effects of what is owed count.
LEMMA WorthSame ==
  ASSUME NEW o \in [Ids -> Int], NEW e \in [Ids -> Int], NEW d \in [Ids -> Int],
         \A u \in Ids : d[u] = e[u] \/ o[u] = 0
  PROVE  Worth(o, d) = Worth(o, e)
  <1>1. \A u \in Ids : o[u] * d[u] = o[u] * e[u]
    OBVIOUS
  <1>2. [u \in Ids |-> o[u] * d[u]] = [u \in Ids |-> o[u] * e[u]]
    BY <1>1
  <1> QED
    BY <1>2 DEF Worth

\* A product, opaque.
Times(a, b) == a * b

\* A product of integers is one.
LEMMA TimesInt == ASSUME NEW a \in Int, NEW b \in Int PROVE Times(a, b) \in Int
  BY DEF Times

\* One tensor is owed more.
More(o, i, a) == [u \in Ids |-> o[u] + IF u = i THEN a ELSE 0]

\* Debts and effects, and a tensor that is owed a more.
Owing(o, e, i, a) == o \in [Ids -> Int] /\ e \in [Ids -> Int] /\ i \in Ids /\ a \in Int

\* It is worth the product with the tensor's effect more.
LEMMA WorthMore ==
  ASSUME NEW o, NEW e, NEW i, NEW a, Owing(o, e, i, a)
  PROVE  More(o, i, a) \in [Ids -> Int] /\ Worth(More(o, i, a), e) = Worth(o, e) + Times(a, e[i])
  <1>0. o \in [Ids -> Int] /\ e \in [Ids -> Int] /\ i \in Ids /\ a \in Int
    BY DEF Owing
  <1>1. PICK r \in [Ids -> Int] : r = More(o, i, a) /\ \A u \in Ids : r[u] = o[u] + IF u = i THEN a ELSE 0
    <2>1. More(o, i, a) \in [Ids -> Int]
      BY <1>0 DEF More
    <2>2. \A u \in Ids : More(o, i, a)[u] = o[u] + IF u = i THEN a ELSE 0
      BY <1>0 DEF More
    <2> QED
      BY <2>1, <2>2
  <1> DEFINE f == [u \in Ids |-> o[u] * e[u]]
             g == [u \in Ids |-> r[u] * e[u]]
  <1>2. f \in [Ids -> Int]
    BY <1>0
  <1>3. g \in [Ids -> Int]
    BY <1>0
  <1>4. a * e[i] \in Int
    BY <1>0
  <1>5. g[i] = f[i] + a * e[i]
    <2>1. r[i] = o[i] + a
      BY <1>0, <1>1
    <2>2. PICK x \in Int : x = e[i]
      BY <1>0
    <2>3. PICK y \in Int : y = o[i]
      BY <1>0
    <2>4. (y + a) * x = y * x + a * x
      BY <1>0, <2>2, <2>3
    <2> QED
      BY <1>0, <2>1, <2>2, <2>3, <2>4
  <1>6. \A u \in Ids : u # i => g[u] = f[u]
    BY <1>0, <1>1
  <1> HIDE DEF f, g
  <1>7. Total(g) = Total(f) + a * e[i]
    BY <1>0, <1>2, <1>3, <1>4, <1>5, <1>6, TotalChange
  <1>8. Worth(r, e) = Total(g) /\ Worth(o, e) = Total(f)
    BY DEF Worth, f, g
  <1> QED
    BY <1>1, <1>7, <1>8 DEF Times

\* What is owed, tensor by tensor, and its effects on p.
Debts == [u \in Ids |-> Owed(u)]
Effects(p) == [u \in Ids |-> Effect(u, p)]

\* What backward will have added when it is done.
Due(p) == IF level > 0 THEN Deriv(tensor, root[1], p) ELSE 0

\* What is held of p's gradient, and what is owed it.
Even(p) == Held(p) + Worth(Debts, Effects(p)) = want[p] + Due(p)

\* What is owed is a number.
LEMMA OwedNat ==
  ASSUME Ready, exact, NEW u \in Ids
  PROVE  /\ \A e \in Engines : Coming(e, u) \in Nat /\ Seeded(e, u) \in Nat
         /\ ParkedFor(u) \in Nat /\ Recovered(u) \in Nat /\ Owed(u) \in Nat
  <1>1. BufferInv /\ ArrivedInv /\ GraphInv /\ GraphShape /\ value \in Seq(Nat)
    BY ReadyFacts
  <1>2. \A b \in Buffers(Len(value)) : Amount(b) \in Nat
    BY <1>1, HeldNat
  <1>3. \A e \in Engines : pending[e][u] \in Buffers(Len(value)) /\ seed[e] \in Buffers(Len(value))
    BY <1>1 DEF BufferInv
  <1>4. \A e \in Engines : Coming(e, u) \in Nat /\ Seeded(e, u) \in Nat
    BY <1>2, <1>3 DEF Coming, Seeded
  <1>5. Recovered(u) \in Nat
    BY <1>1, HeldNat DEF Recovered
  <1>6. ParkedFor(u) \in Nat
    <2>1. CASE ~Waiting(u)
      BY <2>1 DEF ParkedFor
    <2>2. CASE Waiting(u)
      <3>1. tensor[u].op \in {"rev1", "rev2"}
        BY <1>1, <2>2 DEF Waiting, ArrivedInv
      <3>2. Block(u) \in Ids /\ Part(u) \in {1, 2}
        BY <1>1, <3>1, RevPlace DEF Block, Part
      <3>3. parked[Block(u)] \in Buffers(Len(value)) \X Buffers(Len(value))
        BY <1>1, <3>2 DEF BufferInv
      <3>4. parked[Block(u)][Part(u)] \in Buffers(Len(value))
        BY <3>2, <3>3
      <3> QED
        BY <1>2, <3>4 DEF ParkedFor
    <2> QED
      BY <2>1, <2>2
  <1>7. Owed(u) \in Nat
    <2>1. Coming(1, u) \in Nat /\ Coming(2, u) \in Nat /\ Seeded(1, u) \in Nat /\ Seeded(2, u) \in Nat
      BY <1>4 DEF Engines
    <2> QED
      BY <1>5, <1>6, <2>1 DEF Owed
  <1> QED
    BY <1>4, <1>5, <1>6, <1>7

\* So are debts and effects, now and after a step.
LEMMA NumbersNow ==
  Ready /\ exact => \A u \in Ids : Owed(u) \in Nat /\ \A v \in Ids : Effect(u, v) \in Nat
  BY OwedNat, EffectNat

\* The same of the state after a step.
LEMMA NumbersNext ==
  Ready' /\ exact' => \A u \in Ids : Owed(u)' \in Nat /\ \A v \in Ids : Effect(u, v)' \in Nat
  <1>1. Ready' /\ exact' => (\A u \in Ids : Owed(u) \in Nat /\ \A v \in Ids : Effect(u, v) \in Nat)'
    BY NumbersNow, PTL
  <1> QED
    BY <1>1

\* In a step four tensors or less are owed more, or less; what is owed that has another effect
\* afterwards is nothing; and worth goes where it is due.
Moves(p, i, a, j, b, k, c, l, x, h, w) ==
  /\ i \in Ids /\ j \in Ids /\ k \in Ids /\ l \in Ids
  /\ a \in Int /\ b \in Int /\ c \in Int /\ x \in Int /\ h \in Int /\ w \in Int
  /\ \A u \in Ids : Owed(u)' = Owed(u) + (IF u = i THEN a ELSE 0) + (IF u = j THEN b ELSE 0)
                                     + (IF u = k THEN c ELSE 0) + (IF u = l THEN x ELSE 0)
  /\ \A u \in Ids : Effect(u, p)' = Effect(u, p) \/ Owed(u)' = 0
  /\ Held(p)' = Held(p) + h
  /\ want'[p] + Due(p)' = want[p] + Due(p) + w
  /\ h + (Times(a, Effect(i, p)) + Times(b, Effect(j, p)) + Times(c, Effect(k, p)) + Times(x, Effect(l, p))) = w

\* Such a step keeps p even.
LEMMA EvenMoves ==
  ASSUME Ready, Ready', exact, exact', NEW p \in Ids, Even(p),
         NEW i, NEW a, NEW j, NEW b, NEW k, NEW c, NEW l, NEW x, NEW h, NEW w,
         Moves(p, i, a, j, b, k, c, l, x, h, w)
  PROVE  Even(p)'
  <1>0. /\ i \in Ids /\ j \in Ids /\ k \in Ids /\ l \in Ids
        /\ a \in Int /\ b \in Int /\ c \in Int /\ x \in Int /\ h \in Int /\ w \in Int
        /\ \A u \in Ids : Owed(u)' = Owed(u) + (IF u = i THEN a ELSE 0) + (IF u = j THEN b ELSE 0)
                                     + (IF u = k THEN c ELSE 0) + (IF u = l THEN x ELSE 0)
        /\ \A u \in Ids : Effect(u, p)' = Effect(u, p) \/ Owed(u)' = 0
        /\ Held(p)' = Held(p) + h
        /\ want'[p] + Due(p)' = want[p] + Due(p) + w
        /\ h + (Times(a, Effect(i, p)) + Times(b, Effect(j, p)) + Times(c, Effect(k, p)) + Times(x, Effect(l, p))) = w
    BY DEF Moves
  <1>1. PICK o : o = Debts
    OBVIOUS
  <1>2. PICK r : r = Debts'
    OBVIOUS
  <1>3. PICK e : e = Effects(p)
    OBVIOUS
  <1>4. PICK d : d = Effects(p)'
    OBVIOUS
  <1>5. \A u \in Ids : Owed(u) \in Nat /\ Owed(u)' \in Nat /\ Effect(u, p) \in Nat /\ Effect(u, p)' \in Nat
    BY NumbersNow, NumbersNext
  <1>6. o \in [Ids -> Int] /\ r \in [Ids -> Int] /\ e \in [Ids -> Int] /\ d \in [Ids -> Int]
        /\ \A u \in Ids : o[u] = Owed(u) /\ r[u] = Owed(u)' /\ e[u] = Effect(u, p) /\ d[u] = Effect(u, p)'
    BY <1>1, <1>2, <1>3, <1>4, <1>5 DEF Debts, Effects
  <1>0a. /\ i \in Ids /\ j \in Ids /\ k \in Ids /\ l \in Ids
         /\ a \in Int /\ b \in Int /\ c \in Int /\ x \in Int
    BY <1>0
  <1>6a. e \in [Ids -> Int]
    BY <1>6
  <1>6b. o \in [Ids -> Int] /\ r \in [Ids -> Int] /\ d \in [Ids -> Int] /\ \A u \in Ids : d[u] = e[u] \/ r[u] = 0
    BY <1>0, <1>6
  <1>7a. \A q \in [Ids -> Int] :
           More(q, i, a) \in [Ids -> Int] /\ Worth(More(q, i, a), e) = Worth(q, e) + Times(a, e[i])
    <2>1. \A q \in [Ids -> Int] : Owing(q, e, i, a)
      BY <1>0a, <1>6a DEF Owing
    <2> QED
      BY <2>1, WorthMore
  <1>7b. \A q \in [Ids -> Int] :
           More(q, j, b) \in [Ids -> Int] /\ Worth(More(q, j, b), e) = Worth(q, e) + Times(b, e[j])
    <2>1. \A q \in [Ids -> Int] : Owing(q, e, j, b)
      BY <1>0a, <1>6a DEF Owing
    <2> QED
      BY <2>1, WorthMore
  <1>7c. \A q \in [Ids -> Int] :
           More(q, k, c) \in [Ids -> Int] /\ Worth(More(q, k, c), e) = Worth(q, e) + Times(c, e[k])
    <2>1. \A q \in [Ids -> Int] : Owing(q, e, k, c)
      BY <1>0a, <1>6a DEF Owing
    <2> QED
      BY <2>1, WorthMore
  <1>7d. \A q \in [Ids -> Int] :
           More(q, l, x) \in [Ids -> Int] /\ Worth(More(q, l, x), e) = Worth(q, e) + Times(x, e[l])
    <2>1. \A q \in [Ids -> Int] : Owing(q, e, l, x)
      BY <1>0a, <1>6a DEF Owing
    <2> QED
      BY <2>1, WorthMore
  <1>7e. r = More(More(More(More(o, i, a), j, b), k, c), l, x)
    BY <1>0, <1>6 DEF More
  <1>8. \A q \in [Ids -> Int] : Worth(q, e) \in Int
    BY <1>6, WorthInt
  <1>7f. Worth(r, d) = Worth(r, e)
    BY <1>6a, <1>6b, WorthSame
  <1>9. PICK s1 \in Int : s1 = Times(a, e[i])
    BY <1>0, <1>6, TimesInt
  <1>10. PICK s2 \in Int : s2 = Times(b, e[j])
    BY <1>0, <1>6, TimesInt
  <1>11. PICK s3 \in Int : s3 = Times(c, e[k])
    BY <1>0, <1>6, TimesInt
  <1>12. PICK s4 \in Int : s4 = Times(x, e[l])
    BY <1>0, <1>6, TimesInt
  <1>13. h + (s1 + s2 + s3 + s4) = w
    BY <1>0, <1>6, <1>9, <1>10, <1>11, <1>12
  <1>7. Worth(r, e) = Worth(o, e) + s1 + s2 + s3 + s4
    <2>1. PICK o1 : o1 = More(o, i, a)
      OBVIOUS
    <2>2. PICK o2 : o2 = More(o1, j, b)
      OBVIOUS
    <2>3. PICK o3 : o3 = More(o2, k, c)
      OBVIOUS
    <2>4. o1 \in [Ids -> Int] /\ Worth(o1, e) = Worth(o, e) + s1
      BY <2>1, <1>6, <1>7a, <1>9
    <2>5. o2 \in [Ids -> Int] /\ Worth(o2, e) = Worth(o1, e) + s2
      BY <2>2, <2>4, <1>7b, <1>10
    <2>6. o3 \in [Ids -> Int] /\ Worth(o3, e) = Worth(o2, e) + s3
      BY <2>3, <2>5, <1>7c, <1>11
    <2>7. Worth(r, e) = Worth(o3, e) + s4
      BY <2>1, <2>2, <2>3, <2>6, <1>7d, <1>7e, <1>12
    <2> QED
      BY <2>4, <2>5, <2>6, <2>7, <1>6, <1>8
  <1>14. PICK q \in Int : q = Held(p)
    <2>1. BufferInv /\ value \in Seq(Nat)
      BY ReadyFacts
    <2> QED
      BY <2>1, HeldNat
  <1>15. q + Worth(o, e) = want[p] + Due(p)
    BY <1>1, <1>3, <1>14 DEF Even
  <1>15a. PICK y \in Int : y = want[p] + Due(p)
    BY <1>6, <1>8, <1>14, <1>15
  <1>15b. PICK z \in Int : z = Worth(o, e)
    BY <1>6, <1>8
  <1>16. Worth(r, d) = z + s1 + s2 + s3 + s4
    BY <1>7, <1>7f, <1>15b
  <1>17. want'[p] + Due(p)' = y + w /\ Held(p)' = q + h
    BY <1>0, <1>14, <1>15a
  <1>18. q + z = y
    BY <1>15, <1>15a, <1>15b
  <1>19. (q + h) + (z + s1 + s2 + s3 + s4) = y + w
    BY <1>0, <1>13, <1>18
  <1>20. Held(p)' + Worth(r, d) = want'[p] + Due(p)'
    BY <1>16, <1>17, <1>19
  <1> QED
    BY <1>2, <1>4, <1>20 DEF Even

\* No node of a block's output has run twice.
OnceEach == \A t \in Ids : arrived[t] <= 1

\* What a step of a balanced state may use.
Stepping(p) ==
  Ready /\ Ready' /\ exact /\ exact' /\ OnceEach /\ OnceEach' /\ p \in Params /\ Even(p)

\* What is in it, and what follows at once.
LEMMA SteppingFacts ==
  ASSUME NEW p, Stepping(p)
  PROVE  /\ p \in Ids /\ p <= MaxTensors /\ p <= created /\ tensor[p].fn = 0 /\ tensor[p].op = "leaf"
         /\ value \in Seq(Nat) /\ value' \in Seq(Nat)
         /\ Ready /\ Ready' /\ exact /\ exact' /\ OnceEach /\ OnceEach' /\ Even(p)
         /\ AllInv /\ BufferInv /\ GraphShape /\ RecomputeInv /\ ArrivedInv /\ WorkInv /\ AmountInv
         /\ GraphInv /\ OrderInv /\ ContextInv /\ SearchType /\ BlockInv
         /\ (block # 0 => step # "idle") /\ created \in Nat
  <1>1. Ready /\ Ready' /\ exact /\ exact' /\ OnceEach /\ OnceEach' /\ p \in Params /\ Even(p)
    BY DEF Stepping
  <1>2. /\ AllInv /\ BufferInv /\ GraphShape /\ RecomputeInv /\ ArrivedInv /\ WorkInv /\ AmountInv
        /\ GraphInv /\ OrderInv /\ ContextInv /\ value \in Seq(Nat) /\ (block # 0 => step # "idle")
    BY <1>1, ReadyFacts
  <1>3. value' \in Seq(Nat)
    BY <1>1 DEF Ready, AmountInv
  <1>4. p \in 1 .. created /\ tensor[p].op = "leaf"
    BY <1>1 DEF Params
  <1>5. p \in Ids /\ created \in Nat /\ p <= created
    BY <1>2, <1>4, CreatedFacts
  <1>6. p <= MaxTensors
    BY <1>2, <1>5, IdsFacts DEF GraphInv
  <1>7. tensor[p].fn = 0
    BY <1>2, <1>4, <1>5 DEF GraphShape
  <1>8. SearchType /\ BlockInv
    BY <1>2 DEF AllInv, OrderInv
  <1> QED
    BY <1>1, <1>2, <1>3, <1>4, <1>5, <1>6, <1>7, <1>8

-----------------------------------------------------------------------------
(* What a step leaves alone.                                               *)

\* Of engine e.
Keeps(e) ==
  /\ pending'[e] = pending[e] /\ pos'[e] = pos[e] /\ topo'[e] = topo[e]
  /\ phase'[e] = phase[e] /\ root'[e] = root[e] /\ seed'[e] = seed[e]

\* Where buffers are.
LEMMA BufferPlaces ==
  ASSUME Ready
  PROVE  /\ \A e \in Engines : seed[e] \in Buffers(Len(value)) /\ \A u \in Ids : pending[e][u] \in Buffers(Len(value))
         /\ \A u \in Ids : grad[u] \in Buffers(Len(value))
         /\ \A u \in Ids : \A i \in {1, 2} : parked[u][i] \in Buffers(Len(value))
  <1>1. BufferInv
    BY ReadyFacts
  <1>2. \A u \in Ids : parked[u] \in Buffers(Len(value)) \X Buffers(Len(value))
    BY <1>1 DEF BufferInv
  <1>3. \A u \in Ids : \A i \in {1, 2} : parked[u][i] \in Buffers(Len(value))
    BY <1>2
  <1> QED
    BY <1>1, <1>3 DEF BufferInv

\* An amount in a buffer is the same after the step.
LEMMA SameAmount ==
  ASSUME Ready, exact, Longer(value', value), NEW b \in Buffers(Len(value))
  PROVE  (IF b = 0 THEN 0 ELSE value'[b]) = Amount(b)
  <1>1. BufferInv /\ value \in Seq(Nat)
    BY ReadyFacts
  <1>2. Amount(b)' = Amount(b)
    BY <1>1, AmountSame
  <1> QED
    BY <1>2 DEF Amount

\* What is pending in an engine that did nothing comes as before.
LEMMA ComingSame ==
  ASSUME Ready, exact, Longer(value', value), NEW e \in Engines,
         pending'[e] = pending[e], pos'[e] = pos[e], topo'[e] = topo[e], NEW u \in Ids
  PROVE  Coming(e, u)' = Coming(e, u)
  <1>1. PICK b : b = pending[e][u]
    OBVIOUS
  <1>2. b \in Buffers(Len(value)) /\ pending'[e][u] = b
    BY <1>1, BufferPlaces
  <1>3. Coming(e, u)' = IF u \in Ran(e)' THEN 0 ELSE IF b = 0 THEN 0 ELSE value'[b]
    BY <1>2 DEF Coming, Amount
  <1>4. Coming(e, u) = IF u \in Ran(e) THEN 0 ELSE Amount(b)
    BY <1>1 DEF Coming
  <1>5. Ran(e)' = Ran(e)
    BY DEF Ran
  <1> QED
    BY <1>2, <1>3, <1>4, <1>5, SameAmount

\* So does what an engine begins with.
LEMMA SeededSame ==
  ASSUME Ready, exact, Longer(value', value), NEW e \in Engines,
         phase'[e] = phase[e], root'[e] = root[e], seed'[e] = seed[e], NEW u \in Ids
  PROVE  Seeded(e, u)' = Seeded(e, u)
  <1>1. PICK b : b = seed[e]
    OBVIOUS
  <1>2. b \in Buffers(Len(value)) /\ seed'[e] = b
    BY <1>1, BufferPlaces
  <1>3. Seeded(e, u)' = IF phase[e] = "collect" /\ root[e] = u THEN (IF b = 0 THEN 0 ELSE value'[b]) ELSE 0
    BY <1>2 DEF Seeded, Amount
  <1>4. Seeded(e, u) = IF phase[e] = "collect" /\ root[e] = u THEN Amount(b) ELSE 0
    BY <1>1 DEF Seeded
  <1> QED
    BY <1>2, <1>3, <1>4, SameAmount

\* Both.
LEMMA KeepsSame ==
  ASSUME Ready, exact, Longer(value', value), NEW e \in Engines, Keeps(e), NEW u \in Ids
  PROVE  Coming(e, u)' = Coming(e, u) /\ Seeded(e, u)' = Seeded(e, u)
  BY ComingSame, SeededSame DEF Keeps

\* An engine that does not begin has no gradient to begin with, one that has not begun to
\* visit has none pending.
LEMMA SeededNone == \A e, u : phase[e] # "collect" => Seeded(e, u) = 0
  BY DEF Seeded

\* What is not pending, or was visited, does not come.
LEMMA ComingNone ==
  ASSUME NEW e, NEW u, pending[e][u] = 0 \/ u \in Ran(e)
  PROVE  Coming(e, u) = 0
  BY DEF Coming, Amount

\* An engine that has not begun to visit has nothing coming.
LEMMA ComingIdle ==
  ASSUME WorkInv, NEW e \in Engines, phase[e] \in {"idle", "collect"}, NEW u \in Ids
  PROVE  Coming(e, u) = 0
  BY ComingNone DEF WorkInv

\* What waits is an output of a block, and callers' own.
LEMMA WaitingPlace ==
  ASSUME Ready, NEW u \in Ids, Waiting(u) \/ arrived[u] # 0
  PROVE  Block(u) \in Ids /\ Part(u) \in {1, 2} /\ u <= MaxTensors /\ tensor[u].op \in {"rev1", "rev2"}
  <1>1. GraphInv /\ GraphShape /\ ArrivedInv
    BY ReadyFacts
  <1>2. arrived[u] # 0
    BY DEF Waiting
  <1>3. tensor[u].op \in {"rev1", "rev2"} /\ u <= MaxTensors
    BY <1>1, <1>2 DEF ArrivedInv
  <1> QED
    BY <1>1, <1>3, RevPlace DEF Block, Part

\* What is parked stays parked.
LEMMA ParkedSame ==
  ASSUME Ready, exact, Longer(value', value), NEW u \in Ids, parked' = parked,
         tensor'[u].op = tensor[u].op, Waiting(u)' <=> Waiting(u)
  PROVE  ParkedFor(u)' = ParkedFor(u)
  <1>1. CASE ~Waiting(u)
    BY <1>1 DEF ParkedFor
  <1>2. CASE Waiting(u)
    <2>1. Block(u)' = Block(u) /\ Part(u)' = Part(u)
      BY DEF Block, Part
    <2>2. PICK b : b = parked[Block(u)][Part(u)]
      OBVIOUS
    <2>3. b \in Buffers(Len(value))
      BY <1>2, <2>2, WaitingPlace, BufferPlaces
    <2>4. ParkedFor(u)' = IF b = 0 THEN 0 ELSE value'[b]
      BY <1>2, <2>1, <2>2 DEF ParkedFor, Amount
    <2>5. ParkedFor(u) = Amount(b)
      BY <1>2, <2>2 DEF ParkedFor
    <2> QED
      BY <2>3, <2>4, <2>5, SameAmount
  <1> QED
    BY <1>1, <1>2

\* It waits as long as no node runs and no recompute goes on.
LEMMA WaitingSame ==
  ASSUME NEW u \in Ids, UNCHANGED <<arrived, step, block>>, tensor'[u].op = tensor[u].op
  PROVE  Waiting(u)' <=> Waiting(u)
  BY DEF Waiting, Other, Block, Part

\* What a tensor holds stays when its buffer is the same.
LEMMA HeldSame ==
  ASSUME Ready, exact, Longer(value', value), NEW u \in Ids, grad'[u] = grad[u]
  PROVE  Held(u)' = Held(u)
  <1>1. PICK b : b = grad[u]
    OBVIOUS
  <1>2. b \in Buffers(Len(value)) /\ grad'[u] = b
    BY <1>1, BufferPlaces
  <1> QED
    BY <1>1, <1>2, SameAmount DEF Held, Amount

\* So does what was recovered.
LEMMA RecoveredSame ==
  ASSUME NEW u \in Ids, u \in {x1r, x2r} => Held(u)' = Held(u)
  PROVE  Recovered(u)' = Recovered(u)
  BY DEF Recovered

\* Effects stay when the graph and the block do.
LEMMA EffectSame ==
  ASSUME UNCHANGED <<tensor, block>>, NEW u, NEW v
  PROVE  Effect(u, v)' = Effect(u, v)
  BY DEF Effect, One, Two, WithF, WithG, First, Share, ParamF, ParamG

\* No buffer is added.
LEMMA LongerStill == ASSUME value \in Seq(Nat), value' = value PROVE Longer(value', value)
  BY LongerSame

-----------------------------------------------------------------------------
(* Steps after which the same is owed.                                     *)

\* What is due is a number.
LEMMA DueInt ==
  ASSUME Ready, NEW p \in Ids
  PROVE  want[p] \in Nat /\ Due(p) \in Nat /\ want[p] + Due(p) \in Int
  <1>1. want[p] \in Nat
    BY ReadyFacts DEF AmountInv
  <1>2. CASE level > 0
    <2>1. root[1] \in Ids
      BY <1>2, ReadyFacts DEF WorkInv, ContextInv
    <2>2. Due(p) \in Nat
      BY <1>2, <2>1, ReadyFacts, DerivNat DEF Due
    <2> QED
      BY <1>1, <2>2
  <1>3. CASE ~(level > 0)
    BY <1>1, <1>3 DEF Due
  <1> QED
    BY <1>2, <1>3

\* When the same is owed, held and due, p stays even.
LEMMA EvenStays ==
  ASSUME NEW p, Stepping(p), \A u \in Ids : Owed(u)' = Owed(u),
         \A u \in Ids : Effect(u, p)' = Effect(u, p) \/ Owed(u)' = 0,
         Held(p)' = Held(p), want'[p] + Due(p)' = want[p] + Due(p)
  PROVE  Even(p)'
  <1>1. p \in Ids /\ Ready /\ Ready' /\ exact /\ exact' /\ Even(p)
    BY SteppingFacts
  <1>2. \A u \in Ids : Owed(u) \in Nat /\ Effect(u, p) \in Nat
    BY <1>1, NumbersNow
  <1>3. Held(p) \in Nat
    BY <1>1, ReadyFacts, HeldNat
  <1>5. want[p] + Due(p) \in Int
    BY <1>1, DueInt
  <1>6. Times(0, Effect(p, p)) = 0
    BY <1>1, <1>2 DEF Times
  <1>7. Moves(p, p, 0, p, 0, p, 0, p, 0, 0, 0)
    <2>1. \A u \in Ids : Owed(u)' = Owed(u) + (IF u = p THEN 0 ELSE 0) + (IF u = p THEN 0 ELSE 0)
                                     + (IF u = p THEN 0 ELSE 0) + (IF u = p THEN 0 ELSE 0)
      BY <1>2
    <2>2. want'[p] + Due(p)' = want[p] + Due(p) + 0
      BY <1>5
    <2>3. Held(p)' = Held(p) + 0
      BY <1>3
    <2> QED
      BY <1>1, <1>6, <2>1, <2>2, <2>3 DEF Moves
  <1> QED
    BY <1>1, <1>7, EvenMoves

\* What is not pending after the step does not come then.
LEMMA ComingNoneNext ==
  ASSUME NEW e, NEW u, pending'[e][u] = 0 \/ u \in Ran(e)'
  PROVE  Coming(e, u)' = 0
  BY DEF Coming, Amount

\* What comes after the step to a tensor that was not visited.
LEMMA ComingMore ==
  ASSUME NEW e, NEW u, u \notin Ran(e)'
  PROVE  Coming(e, u)' = IF pending'[e][u] = 0 THEN 0 ELSE value'[pending'[e][u]]
  BY DEF Coming, Amount

\* An engine that no longer collects does not begin.
LEMMA SeededNoneNext ==
  ASSUME NEW e, NEW u, phase'[e] # "collect"
  PROVE  Seeded(e, u)' = 0
  BY DEF Seeded

\* What an engine visits, it has then visited, and not before.
LEMMA RanVisit ==
  ASSUME AllInv, NEW e \in Engines, Visiting(e)
  PROVE  /\ Current(e) \in Ids /\ Current(e) \notin Ran(e) /\ Current(e) \in Ran(e)'
         /\ \A u \in Ids : u # Current(e) => (u \in Ran(e)' <=> u \in Ran(e))
         /\ \A k \in {1, 2} : Inputs(Current(e))[k] \notin Ran(e)'
         /\ pos'[e] = pos[e] - 1 /\ topo' = topo
         /\ \A f \in Engines : f # e => pos'[f] = pos[f]
  <1>1. OrderInv /\ SearchType /\ EngineInv(e)
    BY DEF AllInv, OrderInv
  <1>2. /\ pos[e] \in 1 .. Len(topo[e]) /\ Len(topo[e]) \in Nat /\ Current(e) = topo[e][pos[e]]
        /\ Current(e) \in Ids
    BY VisitFacts
  <1>3. pos' = [pos EXCEPT ![e] = @ - 1] /\ topo' = topo
    BY DEF Visiting, collectVars
  <1>4. pos'[e] = pos[e] - 1 /\ \A f \in Engines : f # e => pos'[f] = pos[f]
    BY <1>1, <1>3 DEF SearchType
  <1>5. \A i \in Nat : i \in pos'[e] + 1 .. Len(topo'[e]) <=> i = pos[e] \/ i \in pos[e] + 1 .. Len(topo[e])
    BY <1>2, <1>3, <1>4
  <1>6. \A u \in Ids : u \in Ran(e)' <=> u = Current(e) \/ u \in Ran(e)
    <2>1. \A i : i \in pos'[e] + 1 .. Len(topo'[e]) => i \in Nat
      BY <1>2, <1>3, <1>4
    <2>2. \A i : i \in pos[e] + 1 .. Len(topo[e]) => i \in Nat
      BY <1>2
    <2>3. \A u \in Ids : u \in Ran(e) <=> \E i \in pos[e] + 1 .. Len(topo[e]) : topo[e][i] = u
      BY DEF Ran
    <2>4. \A u \in Ids : u \in Ran(e)' <=> \E i \in pos'[e] + 1 .. Len(topo'[e]) : topo'[e][i] = u
      BY DEF Ran
    <2> QED
      BY <1>2, <1>3, <1>5, <2>1, <2>2, <2>3, <2>4
  <1>7. Current(e) \notin Ran(e)
    <2>1. \A i, j \in 1 .. Len(topo[e]) : i # j => topo[e][i] # topo[e][j]
      BY <1>1 DEF EngineInv, Searched, Once
    <2>2. \A i \in pos[e] + 1 .. Len(topo[e]) : i \in 1 .. Len(topo[e]) /\ i # pos[e]
      BY <1>2
    <2> QED
      BY <1>2, <2>1, <2>2 DEF Ran
  <1>8. ASSUME NEW k \in {1, 2}
        PROVE  Inputs(Current(e))[k] \notin Ran(e)'
    <2>1. \A j \in pos[e] .. Len(topo[e]) : topo[e][j] # Inputs(topo[e][pos[e]])[k]
      BY <1>1, <1>2, InputsPrecede
    <2>2. Inputs(Current(e))[k] # Current(e) /\ Inputs(Current(e))[k] \notin Ran(e)
      <3>1. pos[e] \in pos[e] .. Len(topo[e]) /\ \A i \in pos[e] + 1 .. Len(topo[e]) : i \in pos[e] .. Len(topo[e])
        BY <1>2
      <3> QED
        BY <1>2, <2>1, <3>1 DEF Ran
    <2>3. Inputs(Current(e))[k] \in Ids
      BY VisitFacts
    <2> QED
      BY <1>6, <2>2, <2>3
  <1> QED
    BY <1>2, <1>3, <1>4, <1>6, <1>7, <1>8

\* What is owed is the same when its parts are.
LEMMA OwedSame ==
  ASSUME NEW u, \A e \in Engines : Coming(e, u)' = Coming(e, u) /\ Seeded(e, u)' = Seeded(e, u),
         ParkedFor(u)' = ParkedFor(u), Recovered(u)' = Recovered(u)
  PROVE  Owed(u)' = Owed(u)
  BY DEF Owed, Engines

\* Only engines do something, and what they are to pass on stays.
LEMMA EvenUntouched ==
  ASSUME NEW p, Stepping(p), UNCHANGED <<tensor, grad, value, parked, level, step, block, want, arrived>>,
         level > 0 => root'[1] = root[1],
         \A e \in Engines : \A u \in Ids : Coming(e, u)' = Coming(e, u) /\ Seeded(e, u)' = Seeded(e, u)
  PROVE  Even(p)'
  <1>1. p \in Ids /\ Ready /\ exact /\ Longer(value', value)
    BY SteppingFacts, LongerStill
  <1>2. \A u \in Ids : Held(u)' = Held(u)
    BY <1>1, HeldSame
  <1>3. \A u \in Ids : Recovered(u)' = Recovered(u)
    BY <1>2, RecoveredSame
  <1>4. \A u \in Ids : ParkedFor(u)' = ParkedFor(u)
    BY <1>1, ParkedSame, WaitingSame
  <1>5. \A u \in Ids : Owed(u)' = Owed(u)
    BY <1>3, <1>4, OwedSame
  <1>6. \A u \in Ids : Effect(u, p)' = Effect(u, p)
    BY EffectSame
  <1>7. Due(p)' = Due(p)
    BY DEF Due
  <1>8. want'[p] + Due(p)' = want[p] + Due(p)
    BY <1>7
  <1> QED
    BY <1>1, <1>2, <1>5, <1>6, <1>8, EvenStays

\* A caller turns autograd on or off, or nothing happens.
LEMMA EvenSetEnabled ==
  ASSUME NEW p, Stepping(p), SetEnabled \/ UNCHANGED vars
  PROVE  Even(p)'
  <1>1. /\ UNCHANGED <<tensor, grad, value, parked, level, step, block, want, arrived>>
        /\ UNCHANGED <<root, seed, phase, pos, topo, pending>>
    BY DEF SetEnabled, vars, graphVars, engineVars, collectVars, runVars, recomputeVars, ghostVars, contextVars
  <1>2. Ready /\ exact /\ Longer(value', value)
    BY <1>1, SteppingFacts, LongerStill
  <1>3. \A e \in Engines : \A u \in Ids : Coming(e, u)' = Coming(e, u) /\ Seeded(e, u)' = Seeded(e, u)
    BY <1>1, <1>2, KeepsSame DEF Keeps
  <1> QED
    BY <1>1, <1>3, EvenUntouched

\* A search goes on.
LEMMA EvenCollect ==
  ASSUME NEW p, Stepping(p), NEW e \in Engines, CollectInput(e) \/ CollectDone(e)
  PROVE  Even(p)'
  <1>1. /\ UNCHANGED <<tensor, grad, value, parked, level, step, block, want, arrived>>
        /\ UNCHANGED <<root, seed, phase, pos, pending>> /\ phase[e] = "collect"
        /\ topo' = topo \/ topo' = [topo EXCEPT ![e] = Append(@, Top(e))]
    BY DEF CollectInput, CollectDone, CollectUnchanged, Collecting, Runs, graphVars, recomputeVars,
           ghostVars, contextVars
  <1>2. /\ Ready /\ exact /\ Longer(value', value) /\ WorkInv /\ SearchType
    BY <1>1, SteppingFacts, LongerStill
  <1>3. \A f \in Engines : f # e => topo'[f] = topo[f]
    BY <1>1, <1>2 DEF SearchType
  <1>4. ASSUME NEW f \in Engines, NEW u \in Ids
        PROVE  Coming(f, u)' = Coming(f, u) /\ Seeded(f, u)' = Seeded(f, u)
    <2>1. CASE f # e
      BY <1>1, <1>2, <1>3, <2>1, KeepsSame DEF Keeps
    <2>2. CASE f = e
      <3>1. pending[f][u] = 0 /\ pending'[f][u] = 0
        BY <1>1, <1>2, <2>2 DEF WorkInv
      <3> QED
        BY <1>1, <1>2, <3>1, ComingNone, ComingNoneNext, SeededSame
    <2> QED
      BY <2>1, <2>2
  <1> QED
    BY <1>1, <1>4, EvenUntouched

\* A tensor is visited for which nothing is pending.
LEMMA EvenNothing ==
  ASSUME NEW p, Stepping(p), NEW e \in Engines, VisitNothing(e)
  PROVE  Even(p)'
  <1>1. /\ UNCHANGED <<tensor, grad, value, parked, level, step, block, want, arrived>>
        /\ UNCHANGED <<root, seed, phase, topo, pending>> /\ Visiting(e)
        /\ pending[e][Current(e)] = 0
    BY DEF VisitNothing, Visiting, graphVars, recomputeVars, ghostVars, contextVars, collectVars
  <1>2. /\ Ready /\ exact /\ Longer(value', value) /\ AllInv
    BY <1>1, SteppingFacts, LongerStill
  <1>3. ASSUME NEW f \in Engines, NEW u \in Ids
        PROVE  Coming(f, u)' = Coming(f, u) /\ Seeded(f, u)' = Seeded(f, u)
    <2>1. CASE f # e
      <3>1. pos'[f] = pos[f]
        BY <1>1, <1>2, <2>1, RanVisit
      <3> QED
        BY <1>1, <1>2, <3>1, KeepsSame DEF Keeps
    <2>2. CASE f = e /\ u = Current(e)
      <3>1. pending[f][u] = 0 /\ pending'[f][u] = 0
        BY <1>1, <2>2
      <3> QED
        BY <1>1, <1>2, <3>1, ComingNone, ComingNoneNext, SeededSame
    <2>3. CASE f = e /\ u # Current(e)
      <3>1. u \in Ran(f)' <=> u \in Ran(f)
        BY <1>1, <1>2, <2>3, RanVisit
      <3>2. Coming(f, u)' = Coming(f, u)
        BY <1>1, <3>1 DEF Coming, Amount
      <3> QED
        BY <1>1, <1>2, <3>2, SeededSame
    <2> QED
      BY <2>1, <2>2, <2>3
  <1> QED
    BY <1>1, <1>3, EvenUntouched

\* The visits are over.
LEMMA EvenEnds ==
  ASSUME NEW p, Stepping(p), NEW e \in Engines, EndVisits(e)
  PROVE  Even(p)'
  <1>1. /\ UNCHANGED <<tensor, grad, value, parked, level, step, block, want, arrived>>
        /\ UNCHANGED <<root, seed, pos, topo, pending>> /\ phase[e] = "visit"
        /\ phase' = [phase EXCEPT ![e] = "commit"]
    BY DEF EndVisits, Runs, graphVars, recomputeVars, ghostVars, contextVars, collectVars
  <1>2. /\ Ready /\ exact /\ Longer(value', value) /\ ContextInv
    BY <1>1, SteppingFacts, LongerStill
  <1>3. phase'[e] = "commit" /\ \A f \in Engines : f # e => phase'[f] = phase[f]
    BY <1>1, <1>2 DEF ContextInv
  <1>4. ASSUME NEW f \in Engines, NEW u \in Ids
        PROVE  Coming(f, u)' = Coming(f, u) /\ Seeded(f, u)' = Seeded(f, u)
    <2>1. Coming(f, u)' = Coming(f, u)
      BY <1>1, <1>2, ComingSame
    <2>2. CASE f # e
      BY <1>1, <1>2, <1>3, <2>2, SeededSame, <2>1
    <2>3. CASE f = e
      BY <1>1, <1>3, <2>1, <2>3, SeededNone, SeededNoneNext
    <2> QED
      BY <2>2, <2>3
  <1> QED
    BY <1>1, <1>4, EvenUntouched

\* What is pending after a step: more for two tensors.
JoinedBy(e, i, a, j, b) ==
  \A u \in Ids : (IF pending'[e][u] = 0 THEN 0 ELSE value'[pending'[e][u]])
                    = Amount(pending[e][u]) + (IF u = i THEN a ELSE 0) + (IF u = j THEN b ELSE 0)

\* What is on its way to a tensor after gradients joined an engine's pending ones.
LEMMA Joined ==
  ASSUME Ready, exact, NEW e \in Engines, NEW s, NEW i, NEW a, NEW j, NEW b,
         GainsTwo(s, Pending(e), i, a, j, b),
         pending' = [pending EXCEPT ![e] = s.pending], value' = s.value
  PROVE  /\ Longer(value', value)
         /\ \A f \in Engines : f # e => pending'[f] = pending[f]
         /\ JoinedBy(e, i, a, j, b)
         /\ \A u \in Ids : Amount(pending[e][u]) \in Nat
  <1>1. BufferInv /\ value \in Seq(Nat) /\ DOMAIN pending = Engines
    BY ReadyFacts DEF BufferInv
  <1>2. Pending(e).value = value /\ \A u \in Ids : In(Pending(e), u) = Amount(pending[e][u])
    BY <1>1, PendingNumbers
  <1>3. /\ Longer(s.value, Pending(e).value)
        /\ \A v \in Ids : In(s, v) = In(Pending(e), v) + (IF v = i THEN a ELSE 0) + (IF v = j THEN b ELSE 0)
    BY DEF GainsTwo
  <1>4. pending'[e] = s.pending /\ \A f \in Engines : f # e => pending'[f] = pending[f]
    BY <1>1
  <1>5. \A u \in Ids : In(s, u) = IF pending'[e][u] = 0 THEN 0 ELSE value'[pending'[e][u]]
    BY <1>4 DEF In
  <1>6. \A u \in Ids : Amount(pending[e][u]) \in Nat
    <2>1. \A u \in Ids : pending[e][u] \in Buffers(Len(value))
      BY <1>1 DEF BufferInv
    <2> QED
      BY <1>1, <2>1, HeldNat
  <1>7. JoinedBy(e, i, a, j, b)
    BY <1>2, <1>3, <1>5 DEF JoinedBy
  <1> QED
    BY <1>2, <1>3, <1>4, <1>6, <1>7

\* A share of x with effect y is x with a share of the effect.
LEMMA ShareTimes ==
  ASSUME NEW i, NEW w \in Nat, NEW x \in Nat, NEW y \in Nat
  PROVE  /\ Times(Share(i, w, x), y) = Times(x, Share(i, w, y))
         /\ Share(i, w, x) \in Nat /\ Share(i, w, y) \in Nat
  <1>1. (w * x) * y = x * (w * y)
    OBVIOUS
  <1>2. 0 * y = 0 /\ x * 0 = 0
    OBVIOUS
  <1> QED
    BY <1>1, <1>2 DEF Share, Times

\* Arithmetic of products.
LEMMA TimesFacts ==
  /\ \A x, y \in Nat : Times(-x, y) = -Times(x, y) /\ Times(x, y) \in Nat
  /\ \A x, y, z \in Nat : Times(x, y + z) = Times(x, y) + Times(x, z)
  /\ \A y \in Nat : Times(0, y) = 0
  /\ \A x \in Nat : Times(x, 1) = x /\ Times(x, 0) = 0 /\ Times(-x, 1) = -x /\ Times(-x, 0) = 0
  <1>1. \A x, y \in Nat : Times(-x, y) = -Times(x, y) /\ Times(x, y) \in Nat
    BY DEF Times
  <1>2. \A x, y, z \in Nat : Times(x, y + z) = Times(x, y) + Times(x, z)
    BY DEF Times
  <1>3. \A y \in Nat : Times(0, y) = 0
    BY DEF Times
  <1>4. \A x \in Nat : Times(x, 1) = x /\ Times(x, 0) = 0 /\ Times(-x, 1) = -x /\ Times(-x, 0) = 0
    BY DEF Times
  <1> QED
    BY <1>1, <1>2, <1>3, <1>4

\* A node passes on what arrived, by the chain rule.
LEMMA EvenVisitOp ==
  ASSUME NEW p, Stepping(p), NEW e \in Engines, VisitOp(e)
  PROVE  Even(p)'
  <1>1. /\ UNCHANGED <<tensor, grad, parked, level, step, block, want, arrived>>
        /\ UNCHANGED <<root, seed, phase, topo>> /\ Visiting(e)
        /\ Node(Current(e)).op \in {"op", "add"}
    BY DEF VisitOp, Visiting, graphVars, recomputeVars, ghostVars, contextVars, collectVars
  <1>2. /\ Ready /\ exact /\ AllInv /\ BufferInv /\ value \in Seq(Nat) /\ ContextInv
        /\ p \in Ids /\ tensor[p].fn = 0 /\ Ready' /\ exact' /\ Even(p) /\ AmountInv
    BY SteppingFacts
  <1> PICK t : t = Current(e)
    OBVIOUS
  <1> PICK i : i = Inputs(t)[1]
    OBVIOUS
  <1> PICK j : j = Inputs(t)[2]
    OBVIOUS
  <1> PICK w1 : w1 = Weights(Node(t).op)[1]
    OBVIOUS
  <1> PICK w2 : w2 = Weights(Node(t).op)[2]
    OBVIOUS
  <1> PICK x : x = Amount(pending[e][t])
    OBVIOUS
  <1> PICK a : a = Share(i, w1, x)
    OBVIOUS
  <1> PICK b : b = Share(j, w2, x)
    OBVIOUS
  <1>3. PICK s : /\ pending' = [pending EXCEPT ![e] = s.pending] /\ value' = s.value
                 /\ GainsTwo(s, Pending(e), i, a, j, b)
    BY <1>2, VisitGains
  <1>4. /\ Longer(value', value)
        /\ \A f \in Engines : f # e => pending'[f] = pending[f]
        /\ \A u \in Ids : (IF pending'[e][u] = 0 THEN 0 ELSE value'[pending'[e][u]])
             = Amount(pending[e][u]) + (IF u = i THEN a ELSE 0) + (IF u = j THEN b ELSE 0)
        /\ \A u \in Ids : Amount(pending[e][u]) \in Nat
    <2>1. Longer(value', value) /\ \A f \in Engines : f # e => pending'[f] = pending[f]
      BY <1>2, <1>3, Joined
    <2>2. \A u \in Ids : (IF pending'[e][u] = 0 THEN 0 ELSE value'[pending'[e][u]])
             = Amount(pending[e][u]) + (IF u = i THEN a ELSE 0) + (IF u = j THEN b ELSE 0)
      <3>1. JoinedBy(e, i, a, j, b)
        BY <1>2, <1>3, Joined
      <3> QED
        BY <3>1 DEF JoinedBy
    <2>3. \A u \in Ids : Amount(pending[e][u]) \in Nat
      BY <1>2, <1>3, Joined
    <2> QED
      BY <2>1, <2>2, <2>3
  <1>5. /\ t \in Ids /\ t \notin Ran(e) /\ t \in Ran(e)'
        /\ \A u \in Ids : u # t => (u \in Ran(e)' <=> u \in Ran(e))
        /\ i \notin Ran(e)' /\ j \notin Ran(e)'
        /\ \A f \in Engines : f # e => pos'[f] = pos[f]
    BY <1>1, <1>2, RanVisit
  <1>6. i \in Ids /\ j \in Ids /\ tensor[t].fn # 0 /\ (e = 1 => t <= MaxTensors)
    BY <1>1, <1>2, VisitFacts DEF Wired
  <1>7. x \in Nat /\ w1 \in Nat /\ w2 \in Nat
    BY <1>4, <1>5, WeightsNat
  <1>8. a = Share(i, w1, x) /\ a \in Nat
    BY <1>7, ShareNat
  <1>9. b = Share(j, w2, x) /\ b \in Nat
    BY <1>7, ShareNat
  <1>10. ASSUME NEW u \in Ids
         PROVE  Coming(e, u)' = Coming(e, u) + (IF u = t THEN -x ELSE 0) + (IF u = i THEN a ELSE 0)
                                             + (IF u = j THEN b ELSE 0)
    <2>1. CASE u = t
      <3>1. u # i /\ u # j
        BY <1>5, <2>1
      <3>2. Coming(e, u)' = 0 /\ Coming(e, u) = x
        BY <1>5, <2>1, ComingNoneNext DEF Coming
      <3> QED
        BY <1>7, <2>1, <3>1, <3>2
    <2>2. CASE u # t /\ u \in Ran(e)
      <3>1. u # i /\ u # j /\ u \in Ran(e)'
        BY <1>5, <2>2
      <3>2. Coming(e, u)' = 0 /\ Coming(e, u) = 0
        BY <2>2, <3>1, ComingNoneNext, ComingNone
      <3> QED
        BY <2>2, <3>1, <3>2
    <2>3. CASE u # t /\ u \notin Ran(e)
      <3>1. u \notin Ran(e)'
        BY <1>5, <2>3
      <3>2. Coming(e, u)' = IF pending'[e][u] = 0 THEN 0 ELSE value'[pending'[e][u]]
        BY <3>1, ComingMore
      <3>3. PICK y \in Nat : y = Amount(pending[e][u])
        BY <1>4
      <3>4. Coming(e, u) = y
        BY <2>3, <3>3 DEF Coming
      <3>5. Coming(e, u)' = y + (IF u = i THEN a ELSE 0) + (IF u = j THEN b ELSE 0)
        BY <1>4, <1>8, <1>9, <3>2, <3>3
      <3> QED
        BY <1>8, <1>9, <2>3, <3>4, <3>5
    <2> QED
      BY <2>1, <2>2, <2>3
  <1>11. ASSUME NEW u \in Ids
         PROVE  Owed(u)' = Owed(u) + (IF u = t THEN -x ELSE 0) + (IF u = i THEN a ELSE 0)
                                   + (IF u = j THEN b ELSE 0) + (IF u = p THEN 0 ELSE 0)
    <2>1. \A f \in Engines : Seeded(f, u)' = Seeded(f, u)
      BY <1>1, <1>2, <1>4, SeededSame
    <2>2. \A f \in Engines : f # e => Coming(f, u)' = Coming(f, u)
      BY <1>1, <1>2, <1>4, <1>5, ComingSame
    <2>3. ParkedFor(u)' = ParkedFor(u)
      BY <1>1, <1>2, <1>4, ParkedSame, WaitingSame
    <2>4. Recovered(u)' = Recovered(u)
      BY <1>1, <1>2, <1>4, HeldSame, RecoveredSame
    <2>5. PICK y1 \in Nat : y1 = Coming(1, u)
      BY <1>2, OwedNat DEF Engines
    <2>6. PICK y2 \in Nat : y2 = Coming(2, u)
      BY <1>2, OwedNat DEF Engines
    <2>7. PICK y3 \in Nat : y3 = Seeded(1, u)
      BY <1>2, OwedNat DEF Engines
    <2>8. PICK y4 \in Nat : y4 = Seeded(2, u)
      BY <1>2, OwedNat DEF Engines
    <2>9. PICK y5 \in Nat : y5 = ParkedFor(u)
      BY <1>2, OwedNat
    <2>10. PICK y6 \in Nat : y6 = Recovered(u)
      BY <1>2, OwedNat
    <2>11. Owed(u) = y1 + y2 + y3 + y4 + y5 + y6
      BY <2>5, <2>6, <2>7, <2>8, <2>9, <2>10 DEF Owed
    <2>12. Owed(u)' = Coming(1, u)' + Coming(2, u)' + y3 + y4 + y5 + y6
      BY <2>1, <2>3, <2>4, <2>7, <2>8, <2>9, <2>10 DEF Owed, Engines
    <2>13. CASE e = 1
      <3>1. Coming(1, u)' = y1 + (IF u = t THEN -x ELSE 0) + (IF u = i THEN a ELSE 0) + (IF u = j THEN b ELSE 0)
        BY <1>10, <2>5, <2>13
      <3>2. Coming(2, u)' = y2
        BY <2>2, <2>6, <2>13 DEF Engines
      <3> QED
        BY <1>7, <1>8, <1>9, <2>11, <2>12, <3>1, <3>2
    <2>14. CASE e = 2
      <3>1. Coming(2, u)' = y2 + (IF u = t THEN -x ELSE 0) + (IF u = i THEN a ELSE 0) + (IF u = j THEN b ELSE 0)
        BY <1>10, <2>6, <2>14
      <3>2. Coming(1, u)' = y1
        BY <2>2, <2>5, <2>14 DEF Engines
      <3> QED
        BY <1>7, <1>8, <1>9, <2>11, <2>12, <3>1, <3>2
    <2> QED
      BY <2>13, <2>14 DEF Engines
  <1>12. \A u \in Ids : Effect(u, p)' = Effect(u, p)
    BY <1>1, EffectSame
  <1>13. t > MaxTensors => step \in {"y1", "y2", "dispatch"}
    <2>1. CASE e = 1
      BY <1>6, <2>1, <1>5, IdsFacts
    <2>2. CASE e = 2
      BY <1>1, <1>2, <2>2 DEF Visiting, Runs, ContextInv
    <2> QED
      BY <2>1, <2>2 DEF Engines
  <1>14. Effect(t, p) = Share(i, w1, Effect(i, p)) + Share(j, w2, Effect(j, p))
    BY <1>1, <1>2, <1>5, <1>6, <1>13, EffectOp
  <1>15. PICK c \in Nat : c = Effect(i, p)
    BY <1>2, <1>6, NumbersNow
  <1>16. PICK d \in Nat : d = Effect(j, p)
    BY <1>2, <1>6, NumbersNow
  <1>17. PICK m \in Nat : m = Share(i, w1, c) /\ Times(a, c) = Times(x, m)
    BY <1>7, <1>8, <1>15, ShareTimes
  <1>18. PICK n \in Nat : n = Share(j, w2, d) /\ Times(b, d) = Times(x, n)
    BY <1>7, <1>9, <1>16, ShareTimes
  <1>19. Effect(t, p) = m + n
    BY <1>14, <1>15, <1>16, <1>17, <1>18
  <1>20. Times(-x, m + n) + Times(x, m) + Times(x, n) = 0
    <2>1. PICK y \in Nat : y = Times(x, m)
      BY <1>7, <1>17, TimesFacts
    <2>2. PICK z \in Nat : z = Times(x, n)
      BY <1>7, <1>18, TimesFacts
    <2>3. m + n \in Nat
      BY <1>17, <1>18
    <2>4. Times(-x, m + n) = -(y + z)
      BY <1>7, <2>1, <2>2, <2>3, TimesFacts
    <2> QED
      BY <2>1, <2>2, <2>4
  <1>21. PICK q \in Nat : q = Effect(p, p)
    BY <1>2, NumbersNow
  <1>22. 0 + (Times(-x, Effect(t, p)) + Times(a, Effect(i, p)) + Times(b, Effect(j, p)) + Times(0, Effect(p, p))) = 0
    <2>1. Times(0, q) = 0
      BY <1>21, TimesFacts
    <2>2. Times(-x, m + n) \in Int /\ Times(x, m) \in Int /\ Times(x, n) \in Int
      BY <1>7, <1>17, <1>18, TimesInt
    <2> QED
      BY <1>15, <1>16, <1>17, <1>18, <1>19, <1>20, <1>21, <2>1, <2>2
  <1>23. Held(p)' = Held(p) + 0
    <2>1. Held(p) \in Nat
      BY <1>2, HeldNat
    <2> QED
      BY <1>1, <1>2, <1>4, <2>1, HeldSame
  <1>24. want'[p] + Due(p)' = want[p] + Due(p) + 0
    <2>1. Due(p)' = Due(p) /\ want'[p] = want[p]
      BY <1>1 DEF Due
    <2>2. want[p] + Due(p) \in Int
      BY <1>2, DueInt
    <2> QED
      BY <2>1, <2>2
  <1>25. Moves(p, t, -x, i, a, j, b, p, 0, 0, 0)
    <2>1. \A u \in Ids : Owed(u)' = Owed(u) + (IF u = t THEN -x ELSE 0) + (IF u = i THEN a ELSE 0)
                                   + (IF u = j THEN b ELSE 0) + (IF u = p THEN 0 ELSE 0)
      BY <1>11
    <2>2. -x \in Int /\ a \in Int /\ b \in Int
      BY <1>7, <1>8, <1>9
    <2> QED
      BY <1>2, <1>5, <1>6, <1>12, <1>22, <1>23, <1>24, <2>1, <2>2 DEF Moves
  <1> QED
    BY <1>2, <1>25, EvenMoves

\* What a step changes of what tensor u is owed.
Differs(u, c1, c2, s1, s2, k, r) ==
  /\ c1 \in Int /\ c2 \in Int /\ s1 \in Int /\ s2 \in Int /\ k \in Int /\ r \in Int
  /\ Coming(1, u)' = Coming(1, u) + c1 /\ Coming(2, u)' = Coming(2, u) + c2
  /\ Seeded(1, u)' = Seeded(1, u) + s1 /\ Seeded(2, u)' = Seeded(2, u) + s2
  /\ ParkedFor(u)' = ParkedFor(u) + k /\ Recovered(u)' = Recovered(u) + r

\* The differences add up.
LEMMA OwedDiffers ==
  ASSUME Ready, exact, NEW u \in Ids, NEW c1, NEW c2, NEW s1, NEW s2, NEW k, NEW r,
         Differs(u, c1, c2, s1, s2, k, r)
  PROVE  Owed(u)' = Owed(u) + (c1 + c2 + s1 + s2 + k + r)
  <1>1. /\ c1 \in Int /\ c2 \in Int /\ s1 \in Int /\ s2 \in Int /\ k \in Int /\ r \in Int
        /\ Coming(1, u)' = Coming(1, u) + c1 /\ Coming(2, u)' = Coming(2, u) + c2
        /\ Seeded(1, u)' = Seeded(1, u) + s1 /\ Seeded(2, u)' = Seeded(2, u) + s2
        /\ ParkedFor(u)' = ParkedFor(u) + k /\ Recovered(u)' = Recovered(u) + r
    BY DEF Differs
  <1>2. PICK y1 \in Nat : y1 = Coming(1, u)
    BY OwedNat DEF Engines
  <1>3. PICK y2 \in Nat : y2 = Coming(2, u)
    BY OwedNat DEF Engines
  <1>4. PICK y3 \in Nat : y3 = Seeded(1, u)
    BY OwedNat DEF Engines
  <1>5. PICK y4 \in Nat : y4 = Seeded(2, u)
    BY OwedNat DEF Engines
  <1>6. PICK y5 \in Nat : y5 = ParkedFor(u)
    BY OwedNat
  <1>7. PICK y6 \in Nat : y6 = Recovered(u)
    BY OwedNat
  <1>8. Owed(u) = y1 + y2 + y3 + y4 + y5 + y6
    BY <1>2, <1>3, <1>4, <1>5, <1>6, <1>7 DEF Owed
  <1>9. Owed(u)' = (y1 + c1) + (y2 + c2) + (y3 + s1) + (y4 + s2) + (y5 + k) + (y6 + r)
    BY <1>1, <1>2, <1>3, <1>4, <1>5, <1>6, <1>7 DEF Owed
  <1> QED
    BY <1>1, <1>8, <1>9

\* An engine begins with its root's gradient.
LEMMA EvenStarts ==
  ASSUME NEW p, Stepping(p), NEW e \in Engines, StartVisits(e)
  PROVE  Even(p)'
  <1>1. /\ UNCHANGED <<tensor, grad, parked, level, step, block, want, arrived>>
        /\ UNCHANGED <<root, seed, topo>> /\ phase[e] = "collect"
        /\ phase' = [phase EXCEPT ![e] = "visit"] /\ pos' = [pos EXCEPT ![e] = Len(topo[e])]
    BY DEF StartVisits, Runs, graphVars, recomputeVars, ghostVars, contextVars, collectVars
  <1>2. /\ Ready /\ exact /\ AllInv /\ BufferInv /\ value \in Seq(Nat) /\ ContextInv /\ SearchType
        /\ p \in Ids /\ AmountInv /\ WorkInv
    BY SteppingFacts
  <1>3. /\ phase'[e] = "visit" /\ pos'[e] = Len(topo[e])
        /\ \A f \in Engines : f # e => phase'[f] = phase[f] /\ pos'[f] = pos[f]
    BY <1>1, <1>2 DEF ContextInv, SearchType
  <1> PICK t : t = root[e]
    OBVIOUS
  <1> PICK a : a = Amount(seed[e])
    OBVIOUS
  <1>4. PICK s : /\ pending' = [pending EXCEPT ![e] = s.pending] /\ value' = s.value
                 /\ Gains(s, Pending(e), t, a)
    BY <1>2, StartGains
  <1>5. a \in Nat
    <2>1. seed[e] \in Buffers(Len(value))
      BY <1>2, BufferPlaces
    <2> QED
      BY <1>2, <2>1, HeldNat
  <1>6. Numbers(Pending(e))
    BY <1>2, PendingNumbers
  <1>7. GainsTwo(s, Pending(e), t, a, t, 0)
    <2>1. \A u \in Ids : In(Pending(e), u) \in Nat
      BY <1>6, InNat
    <2>2. \A u \in Ids : In(s, u) = In(Pending(e), u) + (IF u = t THEN a ELSE 0)
      BY <1>4 DEF Gains
    <2>3. \A u \in Ids : In(s, u) = In(Pending(e), u) + (IF u = t THEN a ELSE 0) + (IF u = t THEN 0 ELSE 0)
      BY <1>5, <2>1, <2>2
    <2> QED
      BY <1>4, <2>3 DEF Gains, GainsTwo
  <1>8. /\ Longer(value', value) /\ JoinedBy(e, t, a, t, 0)
        /\ \A f \in Engines : f # e => pending'[f] = pending[f]
    BY <1>2, <1>4, <1>7, Joined
  <1>9. \A u \in Ids : pending[e][u] = 0
    BY <1>1, <1>2 DEF WorkInv
  <1>10. \A u : u \notin Ran(e)'
    <2>1. Len(topo[e]) \in Nat
      BY <1>2 DEF SearchType
    <2> QED
      BY <1>1, <1>3, <2>1 DEF Ran
  <1>11. ASSUME NEW u \in Ids
         PROVE  Owed(u)' = Owed(u)
    <2> PICK x : x = IF u = t THEN a ELSE 0
      OBVIOUS
    <2>1. x \in Nat
      BY <1>5
    <2>2. Coming(e, u) = 0 /\ Coming(e, u)' = x
      <3>1. Amount(pending[e][u]) = 0
        BY <1>9 DEF Amount
      <3>2. Coming(e, u)' = 0 + (IF u = t THEN a ELSE 0) + (IF u = t THEN 0 ELSE 0)
        BY <1>8, <1>10, <3>1, ComingMore DEF JoinedBy
      <3> QED
        BY <1>5, <1>9, <3>2, ComingNone
    <2>3. Seeded(e, u) = x /\ Seeded(e, u)' = 0
      BY <1>1, <1>3, SeededNoneNext DEF Seeded
    <2>4. \A f \in Engines : f # e => Coming(f, u)' = Coming(f, u) /\ Seeded(f, u)' = Seeded(f, u)
      BY <1>1, <1>2, <1>3, <1>8, KeepsSame DEF Keeps
    <2>5. ParkedFor(u)' = ParkedFor(u)
      BY <1>1, <1>2, <1>8, ParkedSame, WaitingSame
    <2>6. Recovered(u)' = Recovered(u)
      BY <1>1, <1>2, <1>8, HeldSame, RecoveredSame
    <2>7. /\ Coming(1, u) \in Nat /\ Coming(2, u) \in Nat /\ Seeded(1, u) \in Nat /\ Seeded(2, u) \in Nat
          /\ ParkedFor(u) \in Nat /\ Recovered(u) \in Nat /\ Owed(u) \in Nat
      BY <1>2, OwedNat DEF Engines
    <2>8. CASE e = 1
      <3>1. Differs(u, x, 0, -x, 0, 0, 0)
        BY <2>1, <2>2, <2>3, <2>4, <2>5, <2>6, <2>7, <2>8 DEF Differs, Engines
      <3>2. Owed(u)' = Owed(u) + (x + 0 + (-x) + 0 + 0 + 0)
        BY <1>2, <3>1, OwedDiffers
      <3> QED
        BY <2>1, <2>7, <3>2
    <2>9. CASE e = 2
      <3>1. Differs(u, 0, x, 0, -x, 0, 0)
        BY <2>1, <2>2, <2>3, <2>4, <2>5, <2>6, <2>7, <2>9 DEF Differs, Engines
      <3>2. Owed(u)' = Owed(u) + (0 + x + 0 + (-x) + 0 + 0)
        BY <1>2, <3>1, OwedDiffers
      <3> QED
        BY <2>1, <2>7, <3>2
    <2> QED
      BY <2>8, <2>9 DEF Engines
  <1>12. \A u \in Ids : Effect(u, p)' = Effect(u, p)
    BY <1>1, EffectSame
  <1>13. Held(p)' = Held(p)
    BY <1>1, <1>2, <1>8, HeldSame
  <1>14. want'[p] + Due(p)' = want[p] + Due(p)
    BY <1>1 DEF Due
  <1> QED
    BY <1>11, <1>12, <1>13, <1>14, EvenStays

\* An engine returns: nothing is pending.
LEMMA EvenReturns ==
  ASSUME NEW p, Stepping(p), NEW e \in Engines, Return(e)
  PROVE  Even(p)'
  <1>1. /\ UNCHANGED <<tensor, grad, value, parked, step, block, arrived>>
        /\ Left(e) = {} /\ phase[e] = "commit" /\ level = e /\ level' = e - 1 /\ Gone({e})
        /\ want' = IF e = 1 THEN [t \in Ids |-> want[t] + Derivative(root[e], t)] ELSE want
    BY DEF Return, Runs, graphVars, recomputeVars
  <1>2. /\ Ready /\ exact /\ value \in Seq(Nat) /\ Longer(value', value) /\ p \in Ids /\ WorkInv
        /\ GraphInv /\ GraphShape
    BY <1>1, SteppingFacts, LongerStill
  <1>3. \A u \in Ids : pending[e][u] = 0
    BY <1>1 DEF Left
  <1>4. phase'[e] = "idle" /\ pending'[e] = None /\ \A f \in Engines : f # e => Keeps(f)
    BY <1>1 DEF Gone, Keeps
  <1>5. ASSUME NEW u \in Ids, NEW f \in Engines
        PROVE  Coming(f, u)' = Coming(f, u) /\ Seeded(f, u)' = Seeded(f, u)
    <2>1. CASE f # e
      BY <1>2, <1>4, <2>1, KeepsSame
    <2>2. CASE f = e
      <3>1. pending'[e][u] = 0
        BY <1>4 DEF None
      <3> QED
        BY <1>1, <1>3, <1>4, <2>2, <3>1, ComingNone, ComingNoneNext, SeededNone, SeededNoneNext
    <2> QED
      BY <2>1, <2>2
  <1>6. \A u \in Ids : ParkedFor(u)' = ParkedFor(u)
    BY <1>1, <1>2, ParkedSame, WaitingSame
  <1>7. \A u \in Ids : Held(u)' = Held(u)
    BY <1>1, <1>2, HeldSame
  <1>8. \A u \in Ids : Recovered(u)' = Recovered(u)
    BY <1>7, RecoveredSame
  <1>9. \A u \in Ids : Owed(u)' = Owed(u)
    BY <1>5, <1>6, <1>8, OwedSame
  <1>10. \A u \in Ids : Effect(u, p)' = Effect(u, p)
    BY <1>1, EffectSame
  <1>11. want'[p] + Due(p)' = want[p] + Due(p)
    <2>1. CASE e = 1
      <3>1. root[1] \in Ids
        BY <1>1, <1>2, <2>1 DEF WorkInv
      <3>2. PICK d \in Nat : d = Deriv(tensor, root[1], p)
        BY <1>2, <3>1, DerivNat
      <3>3. want'[p] = want[p] + d
        BY <1>1, <1>2, <2>1, <3>2, DerivativeIs
      <3>4. Due(p) = d /\ Due(p)' = 0
        BY <1>1, <2>1, <3>2 DEF Due
      <3>5. want[p] \in Nat
        BY <1>2, DueInt
      <3> QED
        BY <3>2, <3>3, <3>4, <3>5
    <2>2. CASE e = 2
      <3>1. root'[1] = root[1] /\ level = 2 /\ level' = 1 /\ want' = want
        BY <1>1, <1>4, <2>2 DEF Keeps, Engines
      <3> QED
        BY <1>1, <3>1 DEF Due
    <2> QED
      BY <2>1, <2>2 DEF Engines
  <1> QED
    BY <1>2, <1>7, <1>9, <1>10, <1>11, EvenStays

\* Tensors that were visited have nodes.
LEMMA RanWired ==
  ASSUME AllInv, NEW e \in Engines, NEW u, u \in Ran(e)
  PROVE  tensor[u].fn # 0
  <1>1. EngineInv(e) /\ SearchType
    BY DEF AllInv, OrderInv
  <1>2. PICK i \in pos[e] + 1 .. Len(topo[e]) : topo[e][i] = u
    BY DEF Ran
  <1>3. i \in 1 .. Len(topo[e])
    <2>1. pos[e] \in Nat /\ Len(topo[e]) \in Nat
      BY <1>1 DEF SearchType
    <2> QED
      BY <2>1, <1>2
  <1>4. u \in visited[e]
    BY <1>1, <1>2, <1>3 DEF EngineInv, Searched, Within
  <1> QED
    BY <1>1, <1>4 DEF EngineInv, Searched, Within, Wired

\* A recompute's tensors have nodes, but for the inputs it recovered.
LEMMA MadeNodes ==
  ASSUME RecomputeInv, step \in {"y1", "y2", "dispatch"}
  PROVE  /\ tensor[x1r].fn = 0 /\ tensor[x2r].fn = 0
         /\ \A t \in Ids : t > MaxTensors /\ tensor[t].fn = 0 => t \in {x1r, x2r}
  <1>1. Made
    BY DEF RecomputeInv
  <1>2. tensor[x1r].fn = 0 /\ tensor[x2r].fn = 0
    BY <1>1, LeafFacts DEF Made
  <1>3. /\ tensor[fx].fn = fx /\ tensor[fy1].fn = fy1 /\ tensor[gy].fn = gy /\ tensor[fy2].fn = fy2
    BY <1>1 DEF Made, Result
  <1>4. \A t \in Ids : t > MaxTensors => t \in {x1r, x2r, fx, fy1, gy, fy2}
    BY IdsFacts
  <1>5. fx # 0 /\ fy1 # 0 /\ gy # 0 /\ fy2 # 0
    BY IdsFacts
  <1> QED
    BY <1>2, <1>3, <1>4, <1>5

\* What a commit leaves alone, and what it adds.
Commits(e, t, x) ==
  /\ t \in Ids /\ x \in Nat /\ x = Amount(pending[e][t])
  /\ Longer(value', value)
  /\ \A u \in Ids : Held(u)' = Held(u) + IF u = t THEN x ELSE 0
  /\ pending[e][t] # 0 /\ pending'[e][t] = 0
  /\ \A f \in Engines : \A u \in Ids : f # e \/ u # t => pending'[f][u] = pending[f][u]
  /\ level = e /\ phase[e] = "commit" /\ pos[e] = 0

\* That is what a commit does.
LEMMA CommitsFacts ==
  ASSUME NEW p, Stepping(p), NEW e \in Engines, Commit(e)
  PROVE  \E t, x : Commits(e, t, x)
  <1>1. /\ Ready /\ exact /\ BufferInv /\ value \in Seq(Nat) /\ WorkInv
    BY SteppingFacts
  <1>2. PICK t \in Ids :
           /\ pending[e][t] # 0 /\ level = e /\ phase[e] = "commit"
           /\ grad' = [grad EXCEPT ![t] = Accumulated(t, pending[e][t]).grad]
           /\ value' = Accumulated(t, pending[e][t]).value
           /\ pending'[e][t] = 0
           /\ \A f \in Engines : \A u \in Ids : f # e \/ u # t => pending'[f][u] = pending[f][u]
    BY <1>1, CommitFacts
  <1>3. /\ Longer(value', value)
        /\ \A u \in Ids : Held(u)' = Held(u) + IF u = t THEN Amount(pending[e][t]) ELSE 0
    BY <1>1, <1>2, CommitGains
  <1>4. Amount(pending[e][t]) \in Nat
    <2>1. pending[e][t] \in Buffers(Len(value))
      BY <1>1, BufferPlaces
    <2> QED
      BY <1>1, <2>1, HeldNat
  <1>5. pos[e] = 0
    BY <1>1, <1>2 DEF WorkInv
  <1>6. Commits(e, t, Amount(pending[e][t]))
    BY <1>2, <1>3, <1>4, <1>5 DEF Commits
  <1> QED
    BY <1>6

\* Pending gradients other than t's, and t's if it has a node.
LEMMA CommitComing ==
  ASSUME NEW p, Stepping(p), NEW e \in Engines, NEW t, NEW x, Commits(e, t, x),
         UNCHANGED <<pos, topo, phase, root, seed, tensor>>
  PROVE  /\ \A f \in Engines : \A u \in Ids :
              /\ Seeded(f, u)' = Seeded(f, u)
              /\ f # e \/ u # t => Coming(f, u)' = Coming(f, u)
         /\ Coming(e, t)' = 0
         /\ Coming(e, t) = IF tensor[t].fn # 0 THEN 0 ELSE x
  <1>1. /\ Ready /\ exact /\ AllInv /\ SearchType /\ WorkInv
    BY SteppingFacts
  <1>2. /\ t \in Ids /\ x \in Nat /\ x = Amount(pending[e][t])
        /\ Longer(value', value) /\ pending[e][t] # 0 /\ pending'[e][t] = 0
        /\ \A f \in Engines : \A u \in Ids : f # e \/ u # t => pending'[f][u] = pending[f][u]
        /\ pos[e] = 0
    BY DEF Commits
  <1>3. ASSUME NEW f \in Engines, NEW u \in Ids, f # e \/ u # t
        PROVE  Coming(f, u)' = Coming(f, u)
    <2>1. PICK b : b = pending[f][u]
      OBVIOUS
    <2>2. b \in Buffers(Len(value)) /\ pending'[f][u] = b
      BY <1>1, <1>2, <1>3, <2>1, BufferPlaces
    <2>3. Coming(f, u)' = IF u \in Ran(f)' THEN 0 ELSE IF b = 0 THEN 0 ELSE value'[b]
      BY <2>2 DEF Coming, Amount
    <2>4. Coming(f, u) = IF u \in Ran(f) THEN 0 ELSE Amount(b)
      BY <2>1 DEF Coming
    <2>5. Ran(f)' = Ran(f)
      BY DEF Ran
    <2> QED
      BY <1>1, <1>2, <2>2, <2>3, <2>4, <2>5, SameAmount
  <1>4. \A f \in Engines : \A u \in Ids : Seeded(f, u)' = Seeded(f, u)
    BY <1>1, <1>2, SeededSame
  <1>5. Coming(e, t)' = 0
    BY <1>2, ComingNoneNext
  <1>6. CASE tensor[t].fn # 0
    <2>1. \E i \in 1 .. Len(topo[e]) : topo[e][i] = t
      BY <1>1, <1>2, <1>6 DEF WorkInv, HasNode
    <2>2. t \in Ran(e)
      BY <1>2, <2>1 DEF Ran
    <2> QED
      BY <1>3, <1>4, <1>5, <1>6, <2>2, ComingNone
  <1>7. CASE tensor[t].fn = 0
    <2>1. t \notin Ran(e)
      BY <1>1, <1>7, RanWired
    <2>2. Coming(e, t) = x
      BY <1>2, <2>1 DEF Coming
    <2> QED
      BY <1>3, <1>4, <1>5, <1>7, <2>2
  <1> QED
    BY <1>6, <1>7

\* A pending gradient is added to its tensor's: a parameter has what it was owed; what other
\* tensors get does not count, but for the inputs a recompute recovered.
LEMMA EvenCommits ==
  ASSUME NEW p, Stepping(p), NEW e \in Engines, Commit(e)
  PROVE  Even(p)'
  <1>1. /\ UNCHANGED <<tensor, parked, level, step, block, want, arrived>>
        /\ UNCHANGED <<pos, topo, phase, root, seed>>
    BY DEF Commit, graphVars, recomputeVars, ghostVars, contextVars, engineVars, collectVars
  <1>2. /\ Ready /\ exact /\ AllInv /\ value \in Seq(Nat) /\ ContextInv /\ WorkInv /\ RecomputeInv
        /\ p \in Ids /\ p <= MaxTensors /\ tensor[p].fn = 0 /\ Ready' /\ exact' /\ Even(p)
        /\ BufferInv
    BY SteppingFacts
  <1>3. PICK t, x : Commits(e, t, x)
    BY CommitsFacts
  <1>4. /\ t \in Ids /\ x \in Nat
        /\ Longer(value', value) /\ pending[e][t] # 0
        /\ \A u \in Ids : Held(u)' = Held(u) + IF u = t THEN x ELSE 0
        /\ level = e
    BY <1>3 DEF Commits
  <1>5. /\ \A f \in Engines : \A u \in Ids :
              /\ Seeded(f, u)' = Seeded(f, u)
              /\ f # e \/ u # t => Coming(f, u)' = Coming(f, u)
        /\ Coming(e, t)' = 0
        /\ Coming(e, t) = IF tensor[t].fn # 0 THEN 0 ELSE x
    BY <1>1, <1>3, CommitComing
  <1>6. \A u \in Ids : ParkedFor(u)' = ParkedFor(u)
    BY <1>1, <1>2, <1>4, ParkedSame, WaitingSame
  <1>7. \A u \in Ids : Held(u) \in Nat
    BY <1>2, HeldNat
  <1>8. \A u \in Ids : Effect(u, p)' = Effect(u, p)
    BY <1>1, EffectSame
  <1>9. want'[p] + Due(p)' = want[p] + Due(p)
    BY <1>1 DEF Due
  <1>10. t > MaxTensors => step \in {"y1", "y2", "dispatch"}
    <2>1. CASE e = 1
      BY <1>2, <1>4, <2>1, IdsFacts DEF WorkInv
    <2>2. CASE e = 2
      BY <1>2, <1>4, <2>2 DEF ContextInv
    <2> QED
      BY <2>1, <2>2 DEF Engines
  <1>11. ASSUME NEW u \in Ids
         PROVE  /\ Coming(1, u) \in Nat /\ Coming(2, u) \in Nat /\ Seeded(1, u) \in Nat /\ Seeded(2, u) \in Nat
                /\ ParkedFor(u) \in Nat /\ Recovered(u) \in Nat /\ Owed(u) \in Nat
    BY <1>2, OwedNat DEF Engines
  <1>12. CASE tensor[t].fn # 0
    <2>1. t \notin {x1r, x2r}
      <3>1. CASE t > MaxTensors
        BY <1>2, <1>10, <1>12, <3>1, MadeNodes
      <3>2. CASE ~(t > MaxTensors)
        BY <1>4, <3>2, IdsFacts
      <3> QED
        BY <3>1, <3>2
    <2>2. \A u \in Ids : u # t => Held(u)' = Held(u)
      BY <1>4, <1>7
    <2>3. \A u \in Ids : Recovered(u)' = Recovered(u)
      BY <2>1, <2>2, RecoveredSame
    <2>4. \A f \in Engines : \A u \in Ids : Coming(f, u)' = Coming(f, u)
      BY <1>5, <1>12
    <2>5. \A u \in Ids : Owed(u)' = Owed(u)
      BY <1>5, <1>6, <2>3, <2>4, OwedSame
    <2>6. Held(p)' = Held(p)
      BY <1>2, <1>12, <2>2
    <2> QED
      BY <1>8, <1>9, <2>5, <2>6, EvenStays
  <1>13. CASE tensor[t].fn = 0 /\ t > MaxTensors
    <2>1. t \in {x1r, x2r} /\ t # p
      BY <1>2, <1>4, <1>10, <1>13, MadeNodes, IdsFacts
    <2>2. \A u \in Ids : u # t => Held(u)' = Held(u)
      BY <1>4, <1>7
    <2>3. \A u \in Ids : u # t => Recovered(u)' = Recovered(u)
      BY <2>2, RecoveredSame
    <2>4. Recovered(t)' = Recovered(t) + x
      BY <1>4, <2>1 DEF Recovered
    <2>5. \A u \in Ids : u # t => Owed(u)' = Owed(u)
      BY <1>5, <1>6, <2>3, OwedSame
    <2>6. Owed(t)' = Owed(t)
      <3>1. CASE e = 1
        <4>1. Differs(t, -x, 0, 0, 0, 0, x)
          BY <1>4, <1>5, <1>6, <1>11, <1>13, <2>4, <3>1 DEF Differs, Engines
        <4>2. Owed(t)' = Owed(t) + (-x + 0 + 0 + 0 + 0 + x)
          BY <1>2, <1>4, <4>1, OwedDiffers
        <4> QED
          BY <1>4, <1>11, <4>2
      <3>2. CASE e = 2
        <4>1. Differs(t, 0, -x, 0, 0, 0, x)
          BY <1>4, <1>5, <1>6, <1>11, <1>13, <2>4, <3>2 DEF Differs, Engines
        <4>2. Owed(t)' = Owed(t) + (0 + (-x) + 0 + 0 + 0 + x)
          BY <1>2, <1>4, <4>1, OwedDiffers
        <4> QED
          BY <1>4, <1>11, <4>2
      <3> QED
        BY <3>1, <3>2 DEF Engines
    <2>7. Held(p)' = Held(p)
      BY <1>2, <2>1, <2>2
    <2> QED
      BY <1>8, <1>9, <2>5, <2>6, <2>7, EvenStays
  <1>14. CASE tensor[t].fn = 0 /\ ~(t > MaxTensors)
    <2>1. t <= MaxTensors /\ t \notin {x1r, x2r}
      BY <1>4, <1>14, IdsFacts
    <2>2. \A u \in Ids : u # t => Held(u)' = Held(u)
      BY <1>4, <1>7
    <2>3. \A u \in Ids : Recovered(u)' = Recovered(u)
      BY <2>1, <2>2, RecoveredSame
    <2>4. \A u \in Ids : u # t => Owed(u)' = Owed(u)
      BY <1>5, <1>6, <2>3, OwedSame
    <2>5. Owed(t)' = Owed(t) - x
      <3>1. CASE e = 1
        <4>1. Differs(t, -x, 0, 0, 0, 0, 0)
          BY <1>4, <1>5, <1>6, <1>11, <1>14, <2>3, <3>1 DEF Differs, Engines
        <4>2. Owed(t)' = Owed(t) + (-x + 0 + 0 + 0 + 0 + 0)
          BY <1>2, <1>4, <4>1, OwedDiffers
        <4> QED
          BY <1>4, <1>11, <4>2
      <3>2. CASE e = 2
        <4>1. Differs(t, 0, -x, 0, 0, 0, 0)
          BY <1>4, <1>5, <1>6, <1>11, <1>14, <2>3, <3>2 DEF Differs, Engines
        <4>2. Owed(t)' = Owed(t) + (0 + (-x) + 0 + 0 + 0 + 0)
          BY <1>2, <1>4, <4>1, OwedDiffers
        <4> QED
          BY <1>4, <1>11, <4>2
      <3> QED
        BY <3>1, <3>2 DEF Engines
    <2> PICK h : h = IF p = t THEN x ELSE 0
      OBVIOUS
    <2>6. h \in Int /\ Held(p)' = Held(p) + h
      BY <1>2, <1>4
    <2>7. Effect(t, p) = IF t = p THEN 1 ELSE 0
      BY <1>2, <1>4, <1>14, <2>1, EffectPlain
    <2>8. PICK q \in Nat : q = Effect(p, p)
      BY <1>2, NumbersNow
    <2>9. h + (Times(-x, Effect(t, p)) + Times(0, Effect(p, p)) + Times(0, Effect(p, p)) + Times(0, Effect(p, p))) = 0
      <3>1. Times(0, q) = 0
        BY <2>8, TimesFacts
      <3>2. Times(-x, Effect(t, p)) = IF p = t THEN -x ELSE 0
        BY <1>4, <2>7, TimesFacts
      <3> QED
        BY <1>4, <2>8, <3>1, <3>2
    <2>10. Moves(p, t, -x, p, 0, p, 0, p, 0, h, 0)
      <3>1. \A u \in Ids : Owed(u)' = Owed(u) + (IF u = t THEN -x ELSE 0) + (IF u = p THEN 0 ELSE 0)
                                   + (IF u = p THEN 0 ELSE 0) + (IF u = p THEN 0 ELSE 0)
        BY <1>4, <1>11, <2>4, <2>5
      <3>2. want'[p] + Due(p)' = want[p] + Due(p) + 0
        <4>1. want[p] + Due(p) \in Int
          BY <1>2, DueInt
        <4> QED
          BY <1>9, <4>1
      <3> QED
        BY <1>2, <1>4, <1>8, <2>6, <2>9, <3>1, <3>2 DEF Moves
    <2> QED
      BY <1>2, <2>10, EvenMoves
  <1> QED
    BY <1>12, <1>13, <1>14

\* The inputs of every node come before it, now and after a step.
LEMMA FeedsNow == Ready => Feeds(tensor)
  BY ReadyFacts, FeedsGraph

\* After a step.
LEMMA FeedsNext == Ready' => Feeds(tensor)'
  BY FeedsNow, PTL

\* An operator's value in another graph.
LEMMA FeedsIn == Feeds(tensor)' <=> Feeds(tensor')
  BY DEF Feeds

\* A recompute's graph changes no derivative of what callers made.
LEMMA EvenRecomputes ==
  ASSUME NEW p, Stepping(p), Recompute
  PROVE  Even(p)'
  <1>1. /\ UNCHANGED <<created, grad, value, parked, level, block, want, arrived>>
        /\ UNCHANGED <<pending, root, seed, phase, pos, topo>>
        /\ step = "forward" /\ step' = "y1"
    BY DEF Recompute, Recomputing, ghostVars, engineVars, collectVars
  <1>2. /\ Ready /\ Ready' /\ exact /\ AllInv /\ value \in Seq(Nat) /\ ContextInv /\ WorkInv /\ RecomputeInv
        /\ p \in Ids /\ p <= MaxTensors /\ tensor[p].fn = 0 /\ GraphInv /\ GraphShape /\ ArrivedInv
        /\ Longer(value', value)
    BY <1>1, SteppingFacts, LongerStill
  <1>3. BlockThere /\ tensor[block].op = "rev1" /\ block # 0
    <2>1. BlockThere /\ tensor[block].op = "rev1"
      BY <1>1, <1>2, RecomputeThere
    <2> QED
      BY <2>1 DEF BlockThere
  <1>4. \A t \in Ids : t <= MaxTensors => tensor'[t] = tensor[t]
    BY <1>2, <1>3, RecomputeMakes
  <1>5. \A t \in Ids : t <= MaxTensors => Deriv(tensor', t, p) = Deriv(tensor, t, p)
    <2>1. Feeds(tensor) /\ Feeds(tensor')
      BY <1>2, FeedsNow, FeedsNext, FeedsIn
    <2> QED
      BY <1>4, <2>1, DerivAgrees
  <1>6. ASSUME NEW u \in Ids
        PROVE  Owed(u)' = Owed(u)
    <2>1. \A e \in Engines : Coming(e, u)' = Coming(e, u) /\ Seeded(e, u)' = Seeded(e, u)
      BY <1>1, <1>2, KeepsSame DEF Keeps
    <2>2. Recovered(u)' = Recovered(u)
      BY <1>1, <1>2, HeldSame, RecoveredSame
    <2>3. ParkedFor(u)' = ParkedFor(u)
      <3>1. CASE arrived[u] = 0
        <4>1. ~Waiting(u) /\ ~Waiting(u)'
          BY <1>1, <3>1 DEF Waiting
        <4> QED
          BY <4>1 DEF ParkedFor
      <3>2. CASE arrived[u] # 0
        <4>1. u <= MaxTensors
          BY <1>2, <3>2 DEF ArrivedInv
        <4>2. tensor'[u] = tensor[u]
          BY <1>4, <4>1
        <4>3. Waiting(u)' <=> Waiting(u)
          BY <1>1, <4>2 DEF Waiting, Other, Block, Part
        <4> QED
          BY <1>1, <1>2, <4>2, <4>3, ParkedSame
      <3> QED
        BY <3>1, <3>2
    <2> QED
      BY <2>1, <2>2, <2>3, OwedSame
  <1>7. /\ One(p)' = One(p) /\ Two(p)' = Two(p) /\ WithF(p)' = WithF(p) /\ WithG(p)' = WithG(p)
    <2> PICK i : i = tensor[block].in[1]
      OBVIOUS
    <2> PICK j : j = tensor[block].in[2]
      OBVIOUS
    <2> PICK f : f = ParamF(block)
      OBVIOUS
    <2> PICK g : g = ParamG(block)
      OBVIOUS
    <2>1. /\ i \in Ids /\ i <= MaxTensors /\ j \in Ids /\ j <= MaxTensors
          /\ f \in Ids /\ f <= MaxTensors /\ g \in Ids /\ g <= MaxTensors
      BY <1>2, <1>3, EffectParts
    <2>2. tensor'[i] = tensor[i] /\ tensor'[j] = tensor[j] /\ tensor'[f] = tensor[f] /\ tensor'[g] = tensor[g]
      BY <1>4, <2>1
    <2>3. /\ Deriv(tensor', i, p) = Deriv(tensor, i, p) /\ Deriv(tensor', j, p) = Deriv(tensor, j, p)
          /\ Deriv(tensor', f, p) = Deriv(tensor, f, p) /\ Deriv(tensor', g, p) = Deriv(tensor, g, p)
      BY <1>5, <2>1
    <2>4. tensor'[block] = tensor[block] /\ block' = block
      BY <1>1, <1>3, <1>4 DEF BlockThere
    <2>5. tensor'[block'].in[1] = i /\ tensor'[block'].in[2] = j /\ ParamF(block') = f /\ ParamG(block') = g
      BY <2>4
    <2>6. One(p)' = One(p)
      BY <2>2, <2>3, <2>5 DEF One, Share
    <2>7. Two(p)' = Two(p)
      BY <2>2, <2>3, <2>5 DEF Two, Share
    <2>8. WithF(p)' = WithF(p)
      BY <2>2, <2>3, <2>5 DEF WithF, Share
    <2>9. WithG(p)' = WithG(p)
      BY <2>2, <2>3, <2>5 DEF WithG, Share
    <2> QED
      BY <2>6, <2>7, <2>8, <2>9
  <1>8. ASSUME NEW u \in Ids
        PROVE  Effect(u, p)' = Effect(u, p)
    <2>1. First(p)' = First(p)
      BY <1>7 DEF First
    <2>2. u <= MaxTensors => Deriv(tensor', u, p) = Deriv(tensor, u, p)
      BY <1>5
    <2> QED
      BY <1>1, <1>7, <2>1, <2>2 DEF Effect
  <1>9. want'[p] + Due(p)' = want[p] + Due(p)
    <2>1. level > 0 => root[1] \in Ids /\ root[1] <= MaxTensors
      <3>1. ASSUME level > 0
            PROVE  root[1] \in Ids /\ root[1] <= created
        BY <1>2, <3>1 DEF WorkInv, ContextInv
      <3>2. created <= MaxTensors /\ created \in Nat
        BY <1>2, IdsFacts DEF GraphInv
      <3> QED
        BY <3>1, <3>2, IdsFacts
    <2>2. Due(p)' = Due(p)
      BY <1>1, <1>5, <2>1 DEF Due
    <2> QED
      BY <1>1, <2>2
  <1>10. Held(p)' = Held(p)
    BY <1>1, <1>2, HeldSame
  <1> QED
    BY <1>6, <1>8, <1>9, <1>10, EvenStays

\* The outputs of the block that is recomputed.
LEMMA OutputsOf ==
  ASSUME Ready, step # "idle", OnceEach
  PROVE  /\ block \in Ids /\ block + 1 \in Ids /\ block + 1 # block /\ block # 0 /\ tensor[block].op = "rev1"
         /\ Block(block) = block /\ Part(block) = 1 /\ Other(block) = block + 1
         /\ Block(block + 1) = block /\ Part(block + 1) = 2 /\ Other(block + 1) = block
         /\ arrived[block] = 1 /\ arrived[block + 1] = 1
         /\ \A u \in Ids : arrived[u] # 0 /\ Block(u) = block => u \in {block, block + 1}
  <1>1. AllInv /\ RecomputeInv /\ ArrivedInv /\ GraphInv /\ GraphShape
    BY ReadyFacts
  <1>2. BlockThere /\ tensor[block].op = "rev1" /\ arrived[block] # 0 /\ arrived[block + 1] # 0
    BY <1>1, RecomputeThere DEF RecomputeInv
  <1>3. block \in Ids /\ block + 1 \in Ids /\ tensor[block + 1].op = "rev2" /\ block \in Nat
    BY <1>1, <1>2, RevPlace, IdsFacts DEF BlockThere
  <1>4. arrived[block] = 1 /\ arrived[block + 1] = 1
    BY <1>1, <1>2, <1>3 DEF ArrivedInv, OnceEach
  <1>5. /\ Block(block) = block /\ Part(block) = 1 /\ Other(block) = block + 1
        /\ Block(block + 1) = block /\ Part(block + 1) = 2 /\ Other(block + 1) = block
    BY <1>2, <1>3 DEF Block, Part, Other
  <1>6. ASSUME NEW u \in Ids, arrived[u] # 0, Block(u) = block
        PROVE  u \in {block, block + 1}
    <2>1. u \in Nat
      BY IdsFacts
    <2> QED
      BY <1>6, <1>3, <2>1 DEF Block
  <1> QED
    BY <1>2, <1>3, <1>4, <1>5, <1>6, IdsFacts

\* A recompute's backward begins with a gradient that was parked: n's is o's now.
LEMMA EvenNested ==
  ASSUME NEW p, Stepping(p), NEW part \in {1, 2}, Nested(part)
  PROVE  Even(p)'
  <1> PICK n : n = IF part = 1 THEN block ELSE block + 1
    OBVIOUS
  <1> PICK o : o = IF part = 1 THEN fy1 ELSE fy2
    OBVIOUS
  <1> PICK g : g = parked[block][part]
    OBVIOUS
  <1>1. /\ level = 1 /\ step = (IF part = 1 THEN "y1" ELSE "y2")
        /\ step' = (IF part = 1 THEN "y2" ELSE "dispatch")
        /\ UNCHANGED <<tensor, grad, parked, block, want, arrived>>
    BY DEF Nested, Recomputing, graphVars, ghostVars
  <1>2. /\ Ready /\ Ready' /\ exact /\ exact' /\ AllInv /\ value \in Seq(Nat) /\ ContextInv /\ WorkInv
        /\ p \in Ids /\ p <= MaxTensors /\ tensor[p].fn = 0 /\ OnceEach /\ Even(p) /\ BufferInv
    BY SteppingFacts
  <1>3. phase[2] = "idle" /\ active = 0
    BY <1>1, <1>2 DEF ContextInv
  <1>4. Starts(2, o, g) /\ UNCHANGED <<pending, value>>
    BY <1>3 DEF Nested
  <1>5. /\ phase'[2] = "collect" /\ root'[2] = o /\ seed'[2] = g /\ level' = 2
        /\ UNCHANGED <<pos, topo>>
        /\ phase'[1] = phase[1] /\ root'[1] = root[1] /\ seed'[1] = seed[1]
    <2>1. DOMAIN phase = Engines /\ DOMAIN root = Engines /\ DOMAIN seed = Engines
      BY <1>2 DEF ContextInv, BufferInv
    <2> QED
      BY <1>4, <2>1 DEF Starts, Engines
  <1>6. Longer(value', value)
    BY <1>2, <1>4, LongerStill
  <1>7. /\ block \in Ids /\ block + 1 \in Ids /\ block + 1 # block /\ block # 0
        /\ Block(block) = block /\ Part(block) = 1 /\ Other(block) = block + 1
        /\ Block(block + 1) = block /\ Part(block + 1) = 2 /\ Other(block + 1) = block
        /\ arrived[block] = 1 /\ arrived[block + 1] = 1
        /\ \A u \in Ids : arrived[u] # 0 /\ Block(u) = block => u \in {block, block + 1}
    BY <1>1, <1>2, OutputsOf
  <1>8. o \in Ids /\ n \in Ids /\ part = Part(n) /\ Block(n) = block /\ arrived[n] = 1
    BY <1>7, IdsFacts
  <1> PICK a : a = Amount(g)
    OBVIOUS
  <1>9. a \in Nat
    <2>1. g \in Buffers(Len(value))
      BY <1>2, <1>7, BufferPlaces
    <2> QED
      BY <1>2, <2>1, HeldNat
  <1>10. \A u : Seeded(2, u) = 0 /\ Seeded(2, u)' = IF u = o THEN a ELSE 0
    <2>1. \A u : Seeded(2, u) = 0
      BY <1>3, SeededNone
    <2>2. \A u : Seeded(2, u)' = IF u = o THEN a ELSE 0
      BY <1>4, <1>5 DEF Seeded, Amount
    <2> QED
      BY <2>1, <2>2
  <1>11. \A u \in Ids : Seeded(1, u)' = Seeded(1, u)
    BY <1>2, <1>5, <1>6, SeededSame DEF Engines
  <1>12. \A u \in Ids : \A e \in Engines : Coming(e, u)' = Coming(e, u)
    BY <1>2, <1>4, <1>5, <1>6, ComingSame
  <1>13. \A u \in Ids : Recovered(u)' = Recovered(u)
    BY <1>1, <1>2, <1>6, HeldSame, RecoveredSame
  <1>14. Waiting(n) /\ ~Waiting(n)'
    <2>1. Waiting(n)
      BY <1>1, <1>7, <1>8 DEF Waiting
    <2>2. Block(n)' = Block(n) /\ Part(n)' = Part(n) /\ Other(n)' = Other(n)
      BY <1>1 DEF Block, Part, Other
    <2>3. arrived[Other(n)] = 1
      BY <1>7
    <2> QED
      BY <1>1, <1>8, <2>1, <2>2, <2>3 DEF Waiting
  <1>15. ASSUME NEW u \in Ids, u # n
         PROVE  Waiting(u)' <=> Waiting(u)
    <2>1. Block(u)' = Block(u) /\ Part(u)' = Part(u) /\ Other(u)' = Other(u)
      BY <1>1 DEF Block, Part, Other
    <2>2. CASE arrived[u] = 0
      BY <1>1, <2>2 DEF Waiting
    <2>3. CASE arrived[u] # 0 /\ Block(u) # block
      BY <1>1, <2>1, <2>3 DEF Waiting
    <2>4. CASE arrived[u] # 0 /\ Block(u) = block
      <3>1. u \in {block, block + 1}
        BY <1>7, <2>4
      <3>2. CASE part = 1
        <4>1. u = block + 1
          BY <1>15, <3>1, <3>2
        <4> QED
          BY <1>1, <1>7, <2>1, <3>2, <4>1 DEF Waiting
      <3>3. CASE part = 2
        <4>1. u = block
          BY <1>15, <3>1, <3>3
        <4> QED
          BY <1>1, <1>7, <2>1, <3>3, <4>1 DEF Waiting
      <3> QED
        BY <3>2, <3>3
    <2> QED
      BY <2>2, <2>3, <2>4
  <1>16. ParkedFor(n) = a /\ ParkedFor(n)' = 0
    BY <1>8, <1>14 DEF ParkedFor
  <1>17. \A u \in Ids : u # n => ParkedFor(u)' = ParkedFor(u)
    BY <1>1, <1>2, <1>6, <1>15, ParkedSame
  <1>18. o # n
    <2>1. n <= MaxTensors
      BY <1>2, <1>8, WaitingPlace
    <2> QED
      BY <2>1, IdsFacts
  <1>19. ASSUME NEW u \in Ids
         PROVE  Owed(u)' = Owed(u) + (IF u = n THEN -a ELSE 0) + (IF u = o THEN a ELSE 0)
                                   + (IF u = p THEN 0 ELSE 0) + (IF u = p THEN 0 ELSE 0)
    <2> PICK k : k = IF u = n THEN -a ELSE 0
      OBVIOUS
    <2> PICK s : s = IF u = o THEN a ELSE 0
      OBVIOUS
    <2>1. k \in Int /\ s \in Int
      BY <1>9
    <2>2. /\ Coming(1, u) \in Nat /\ Coming(2, u) \in Nat /\ Seeded(1, u) \in Nat /\ Seeded(2, u) \in Nat
          /\ ParkedFor(u) \in Nat /\ Recovered(u) \in Nat /\ Owed(u) \in Nat
      BY <1>2, OwedNat DEF Engines
    <2>3. Differs(u, 0, 0, 0, s, k, 0)
      <3>1. Seeded(2, u)' = Seeded(2, u) + s
        BY <1>10, <2>1
      <3>2. ParkedFor(u)' = ParkedFor(u) + k
        BY <1>9, <1>16, <1>17, <2>2
      <3>3. /\ Coming(1, u)' = Coming(1, u) + 0 /\ Coming(2, u)' = Coming(2, u) + 0
            /\ Seeded(1, u)' = Seeded(1, u) + 0 /\ Recovered(u)' = Recovered(u) + 0
        BY <1>11, <1>12, <1>13, <2>2 DEF Engines
      <3> QED
        BY <2>1, <3>1, <3>2, <3>3 DEF Differs
    <2>4. Owed(u)' = Owed(u) + (0 + 0 + 0 + s + k + 0)
      BY <1>2, <2>3, OwedDiffers
    <2> QED
      BY <2>1, <2>2, <2>4
  <1>20. \A u \in Ids : Effect(u, p)' = Effect(u, p)
    BY <1>1, EffectSame
  <1>21. Effect(n, p) = Effect(o, p)
    BY <1>2, <1>7, EffectOfBlock
  <1>22. PICK y \in Nat : y = Effect(o, p)
    BY <1>2, <1>8, NumbersNow
  <1>23. PICK q \in Nat : q = Effect(p, p)
    BY <1>2, NumbersNow
  <1>24. 0 + (Times(-a, Effect(n, p)) + Times(a, Effect(o, p)) + Times(0, Effect(p, p)) + Times(0, Effect(p, p))) = 0
    <2>1. Times(0, q) = 0 /\ Times(-a, y) = -Times(a, y) /\ Times(a, y) \in Nat
      BY <1>9, <1>22, <1>23, TimesFacts
    <2> QED
      BY <1>21, <1>22, <1>23, <2>1
  <1>25. Held(p)' = Held(p) + 0
    <2>1. Held(p) \in Nat
      BY <1>2, HeldNat
    <2> QED
      BY <1>1, <1>2, <1>6, <2>1, HeldSame
  <1>26. want'[p] + Due(p)' = want[p] + Due(p) + 0
    <2>1. Due(p)' = Due(p) /\ want'[p] = want[p]
      BY <1>1, <1>5 DEF Due
    <2>2. want[p] + Due(p) \in Int
      BY <1>2, DueInt
    <2> QED
      BY <2>1, <2>2
  <1>27. Moves(p, n, -a, o, a, p, 0, p, 0, 0, 0)
    <2>1. -a \in Int /\ a \in Int
      BY <1>9
    <2> QED
      BY <1>2, <1>8, <1>19, <1>20, <1>24, <1>25, <1>26, <2>1 DEF Moves
  <1> QED
    BY <1>2, <1>27, EvenMoves

\* Between recomputes, nothing is owed to a recompute's tensors.
LEMMA Above ==
  Ready /\ step = "idle" => \A u \in Ids : u > MaxTensors => Owed(u) = 0
  <1> SUFFICES ASSUME Ready, step = "idle", NEW u \in Ids, u > MaxTensors
               PROVE  Owed(u) = 0
    OBVIOUS
  <1>1. AllInv /\ ContextInv /\ WorkInv /\ RecomputeInv /\ ArrivedInv /\ GraphInv
    BY ReadyFacts
  <1>2. phase[2] = "idle"
    BY <1>1 DEF ContextInv
  <1>3. ~(u <= MaxTensors)
    BY IdsFacts
  <1>4. Coming(1, u) = 0
    BY <1>1, <1>3, ComingNone DEF WorkInv
  <1>5. Coming(2, u) = 0
    BY <1>1, <1>2, ComingIdle DEF Engines
  <1>6. Seeded(1, u) = 0
    <2>1. CASE phase[1] = "collect"
      <3>1. root[1] \in Ids /\ root[1] <= created
        BY <1>1, <2>1 DEF WorkInv
      <3>2. created <= MaxTensors /\ created \in Nat
        BY <1>1, IdsFacts DEF GraphInv
      <3>3. root[1] # u
        BY <3>1, <3>2, IdsFacts
      <3> QED
        BY <3>3 DEF Seeded
    <2>2. CASE phase[1] # "collect"
      BY <2>2, SeededNone
    <2> QED
      BY <2>1, <2>2
  <1>7. Seeded(2, u) = 0
    BY <1>2, SeededNone
  <1>8. ParkedFor(u) = 0
    BY <1>3, WaitingPlace DEF ParkedFor
  <1>9. Recovered(u) = 0
    BY <1>1 DEF RecomputeInv, Recovered, Held
  <1> QED
    BY <1>4, <1>5, <1>6, <1>7, <1>8, <1>9 DEF Owed

\* Said of a state.
Settled == step = "idle" => \A u \in Ids : u > MaxTensors => Owed(u) = 0

\* It is so now.
LEMMA SettledNow == Ready => Settled
  BY Above DEF Settled

\* And after a step.
LEMMA SettledNext == Ready' => Settled'
  BY SettledNow, PTL

\* So nothing is owed to a recompute's tensors after a step that ends it.
LEMMA AboveNext ==
  ASSUME Ready', step' = "idle"
  PROVE  \A u \in Ids : u > MaxTensors => Owed(u)' = 0
  BY SettledNext DEF Settled

\* The outputs of a block, by one of them.
LEMMA OtherPlace ==
  ASSUME Ready, NEW n \in Ids, tensor[n].op \in {"rev1", "rev2"}
  PROVE  /\ Other(n) \in Ids /\ Other(n) # n /\ Block(Other(n)) = Block(n) /\ Block(n) \in Ids
         /\ Block(n) # 0
         /\ {Part(n), Part(Other(n))} = {1, 2} /\ Other(Other(n)) = n /\ n \in {Block(n), Block(n) + 1}
         /\ tensor[Block(n)].op = "rev1" /\ tensor[Other(n)].op \in {"rev1", "rev2"}
         /\ \A m \in Ids : tensor[m].op \in {"rev1", "rev2"} /\ Block(m) = Block(n) => m \in {n, Other(n)}
         /\ (arrived[n] # 0 <=> parked[Block(n)][Part(n)] # 0)
  <1>1. GraphInv /\ GraphShape /\ ArrivedInv
    BY ReadyFacts
  <1>2. n \in Nat /\ n > 0
    BY IdsFacts
  <1>3. CASE tensor[n].op = "rev1"
    <2>1. n + 1 \in Ids /\ tensor[n + 1].op = "rev2" /\ 2 < n
      BY <1>1, <1>3, RevPlace
    <2>2. Other(n) = n + 1 /\ Block(n) = n /\ Part(n) = 1
      BY <1>3 DEF Other, Block, Part
    <2>3. Other(n + 1) = n /\ Block(n + 1) = n /\ Part(n + 1) = 2
      BY <1>2, <2>1 DEF Other, Block, Part
    <2>4. \A m \in Ids : Block(m) = n => m \in {n, n + 1}
      BY <1>2, IdsFacts DEF Block
    <2>5. arrived[n] # 0 <=> parked[n][1] # 0
      BY <1>1, <1>3 DEF ArrivedInv
    <2> QED
      BY <1>2, <1>3, <2>1, <2>2, <2>3, <2>4, <2>5
  <1>4. CASE tensor[n].op = "rev2"
    <2>1. n - 1 \in Ids /\ tensor[n - 1].op = "rev1" /\ 3 < n
      BY <1>1, <1>4, RevPlace
    <2>2. Other(n) = n - 1 /\ Block(n) = n - 1 /\ Part(n) = 2
      BY <1>4 DEF Other, Block, Part
    <2>3. Other(n - 1) = n /\ Block(n - 1) = n - 1 /\ Part(n - 1) = 1
      BY <1>2, <2>1 DEF Other, Block, Part
    <2>4. \A m \in Ids : Block(m) = n - 1 => m \in {n, n - 1}
      BY <1>2, IdsFacts DEF Block
    <2>5. arrived[n] # 0 <=> parked[n - 1][2] # 0
      <3>1. parked[n - 1][2] # 0 <=> arrived[n - 1 + 1] # 0
        BY <1>1, <2>1 DEF ArrivedInv
      <3>2. n - 1 + 1 = n
        BY <1>2
      <3> QED
        BY <3>1, <3>2
    <2>6. n - 1 # n /\ n - 1 # 0 /\ n = n - 1 + 1
      BY <1>2, <2>1
    <2> QED
      BY <1>2, <1>4, <2>1, <2>2, <2>3, <2>4, <2>5, <2>6
  <1> QED
    BY <1>3, <1>4

\* What a visit of a block's output changes of what waits.
LEMMA VisitWaits ==
  ASSUME NEW p, Stepping(p), VisitBlock, NEW t, NEW n, NEW b, NEW x, BlockVisit(t, n, b, x)
  PROVE  /\ ~Waiting(n) /\ Waiting(n)'
         /\ \A u \in Ids : u # n => (Waiting(u)' <=> Waiting(u))
  <1>1. /\ Ready /\ exact /\ AllInv /\ ContextInv /\ RecomputeInv /\ ArrivedInv /\ OnceEach /\ OnceEach'
        /\ GraphInv /\ BufferInv /\ GraphShape
    BY SteppingFacts
  <1>2. /\ n \in Ids /\ tensor[n].op \in {"rev1", "rev2"} /\ b = Block(n) /\ x # 0 /\ n = tensor[t].fn
        /\ arrived' = [arrived EXCEPT ![n] = @ + 1] /\ tensor' = tensor /\ t = Current(1)
    BY DEF BlockVisit
  <1>3. step = "idle" /\ block = 0
    BY <1>1 DEF VisitBlock, Visiting, Runs, RecomputeInv
  <1>4. arrived'[n] = arrived[n] + 1 /\ \A u \in Ids : u # n => arrived'[u] = arrived[u]
    BY <1>1, <1>2 DEF ArrivedInv
  <1>5. \A u \in Ids : arrived[u] \in Nat
    BY <1>1 DEF ArrivedInv
  <1>6. arrived[n] = 0 /\ arrived'[n] = 1
    BY <1>1, <1>2, <1>4, <1>5 DEF OnceEach
  <1> PICK o : o = Other(n)
    OBVIOUS
  <1>7. /\ o \in Ids /\ o # n /\ Block(o) = b /\ b \in Ids /\ b # 0 /\ Other(o) = n
        /\ {Part(n), Part(o)} = {1, 2} /\ tensor[o].op \in {"rev1", "rev2"}
        /\ \A m \in Ids : tensor[m].op \in {"rev1", "rev2"} /\ Block(m) = b => m \in {n, o}
    BY <1>1, <1>2, OtherPlace
  <1>8. \A u : Block(u)' = Block(u) /\ Part(u)' = Part(u) /\ Other(u)' = Other(u)
    BY <1>2 DEF Block, Part, Other
  <1>9. parked'[b][Part(n)] = x /\ parked'[b][Part(o)] = parked[b][Part(o)]
    <2>1. Part(o) # Part(n) /\ Part(o) \in {1, 2}
      BY <1>7
    <2> QED
      BY <1>1, <2>1, BlockParks
  <1>10. arrived[o] # 0 <=> parked[b][Part(o)] # 0
    BY <1>1, <1>7, OtherPlace
  <1>11. IF parked'[b][1] # 0 /\ parked'[b][2] # 0
         THEN step' = "forward" /\ block' = b
         ELSE step' = step /\ block' = block
    BY <1>2 DEF VisitBlock
  <1>12. IF arrived[o] # 0 THEN step' = "forward" /\ block' = b ELSE step' = "idle" /\ block' = 0
    <2>1. (parked'[b][1] # 0 /\ parked'[b][2] # 0) <=> arrived[o] # 0
      BY <1>2, <1>7, <1>9, <1>10
    <2> QED
      BY <1>3, <1>11, <2>1
  <1>13. ~Waiting(n)
    BY <1>6 DEF Waiting
  <1>14. Waiting(n)'
    <2>1. arrived'[o] = arrived[o]
      BY <1>4, <1>7
    <2> QED
      BY <1>2, <1>6, <1>8, <1>12, <2>1 DEF Waiting
  <1>15. Waiting(o)' <=> Waiting(o)
    <2>1. arrived'[o] = arrived[o]
      BY <1>4, <1>7
    <2>2. Waiting(o) <=> arrived[o] = 1
      BY <1>6, <1>7 DEF Waiting
    <2>3. Waiting(o)' <=> arrived[o] = 1
      BY <1>7, <1>8, <1>12, <2>1, <1>6 DEF Waiting
    <2> QED
      BY <2>2, <2>3
  <1>16. ASSUME NEW u \in Ids, u # n, u # o
         PROVE  Waiting(u)' <=> Waiting(u)
    <2>1. arrived'[u] = arrived[u]
      BY <1>4, <1>16
    <2>2. CASE arrived[u] = 0
      BY <2>1, <2>2 DEF Waiting
    <2>3. CASE arrived[u] # 0
      <3>1. tensor[u].op \in {"rev1", "rev2"}
        BY <1>1, <2>3 DEF ArrivedInv
      <3>2. Block(u) # b /\ Other(u) # n /\ Other(u) \in Ids /\ Block(u) # 0
        BY <1>1, <1>7, <1>16, <3>1, OtherPlace
      <3>3. arrived'[Other(u)] = arrived[Other(u)]
        BY <1>4, <3>2
      <3>4. Waiting(u) <=> arrived[u] = 1 /\ arrived[Other(u)] = 0
        BY <1>3, <3>2 DEF Waiting
      <3>5. Waiting(u)' <=> arrived[u] = 1 /\ arrived[Other(u)] = 0
        BY <1>8, <1>12, <2>1, <3>2, <3>3 DEF Waiting
      <3> QED
        BY <3>4, <3>5
    <2> QED
      BY <2>2, <2>3
  <1> QED
    BY <1>13, <1>14, <1>15, <1>16

\* A gradient is parked: it was the tensor's, it is the output's whose node the tensor has.
LEMMA EvenVisitBlock ==
  ASSUME NEW p, Stepping(p), VisitBlock
  PROVE  Even(p)'
  <1>1. /\ Ready /\ Ready' /\ exact /\ exact' /\ AllInv /\ value \in Seq(Nat) /\ ContextInv /\ WorkInv
        /\ p \in Ids /\ p <= MaxTensors /\ tensor[p].fn = 0 /\ OnceEach /\ Even(p) /\ BufferInv
        /\ GraphShape /\ ArrivedInv
    BY SteppingFacts
  <1>2. PICK t, n, b, x : BlockVisit(t, n, b, x)
    BY <1>1, BlockVisits
  <1>3. /\ t = Current(1) /\ t \in Ids /\ t <= MaxTensors /\ tensor[t].fn = n /\ n # 0 /\ n \in Ids
        /\ n <= MaxTensors /\ tensor[n].op \in {"rev1", "rev2"} /\ b = Block(n) /\ x = pending[1][t]
        /\ UNCHANGED <<tensor, created, grad, value, pending>>
    BY <1>2 DEF BlockVisit, Wired
  <1>4. /\ Visiting(1) /\ UNCHANGED <<root, seed, phase, topo, level, want>> /\ phase[1] = "visit"
        /\ step = "idle"
    BY DEF VisitBlock, Visiting, Runs, collectVars, contextVars
  <1>5. ~Waiting(n) /\ Waiting(n)' /\ \A u \in Ids : u # n => (Waiting(u)' <=> Waiting(u))
    BY <1>2, VisitWaits
  <1>6. Longer(value', value)
    BY <1>1, <1>3, LongerStill
  <1> PICK a : a = Amount(x)
    OBVIOUS
  <1>7. a \in Nat
    <2>1. x \in Buffers(Len(value))
      BY <1>1, <1>3, BufferPlaces DEF Engines
    <2> QED
      BY <1>1, <2>1, HeldNat
  <1>8. /\ t \notin Ran(1) /\ t \in Ran(1)'
        /\ \A u \in Ids : u # t => (u \in Ran(1)' <=> u \in Ran(1))
        /\ pos'[2] = pos[2]
    BY <1>1, <1>3, <1>4, RanVisit DEF Engines
  <1>9. /\ Coming(1, t) = a /\ Coming(1, t)' = 0
        /\ \A u \in Ids : u # t => Coming(1, u)' = Coming(1, u)
    BY <1>3, <1>8 DEF Coming, Amount
  <1>10. \A u \in Ids : Coming(2, u)' = Coming(2, u)
    BY <1>1, <1>3, <1>4, <1>6, <1>8, ComingSame DEF Engines
  <1>11. \A u \in Ids : \A e \in Engines : Seeded(e, u)' = Seeded(e, u)
    BY <1>1, <1>4, <1>6, SeededSame
  <1>12. \A u \in Ids : Recovered(u)' = Recovered(u)
    BY <1>1, <1>3, <1>6, HeldSame, RecoveredSame
  <1>13. \A u : Block(u)' = Block(u) /\ Part(u)' = Part(u)
    BY <1>3 DEF Block, Part
  <1>14. ParkedFor(n) = 0 /\ ParkedFor(n)' = a
    <2>1. parked'[b][Part(n)] = x
      BY <1>1, <1>2, BlockParks
    <2>2. Amount(x)' = Amount(x)
      BY <1>3 DEF Amount
    <2> QED
      BY <1>3, <1>5, <1>13, <2>1 DEF ParkedFor, Amount
  <1>15. ASSUME NEW u \in Ids, u # n
         PROVE  ParkedFor(u)' = ParkedFor(u)
    <2>1. CASE ~Waiting(u)
      BY <1>5, <1>15, <2>1 DEF ParkedFor
    <2>2. CASE Waiting(u)
      <3>1. Block(u) \in Ids /\ Part(u) \in {1, 2} /\ tensor[u].op \in {"rev1", "rev2"}
        BY <1>1, <2>2, WaitingPlace
      <3>2. parked'[Block(u)][Part(u)] = parked[Block(u)][Part(u)]
        <4>1. CASE Block(u) # b
          BY <1>1, <1>2, <3>1, <4>1, BlockParks
        <4>2. CASE Block(u) = b
          <5>1. u = Other(n)
            BY <1>1, <1>3, <1>15, <3>1, <4>2, OtherPlace
          <5>2. Part(u) # Part(n)
            <6>1. {Part(n), Part(Other(n))} = {1, 2}
              BY <1>1, <1>3, OtherPlace
            <6> QED
              BY <5>1, <6>1
          <5> QED
            BY <1>1, <1>2, <3>1, <4>2, <5>2, BlockParks
        <4> QED
          BY <4>1, <4>2
      <3> QED
        BY <1>3, <1>5, <1>13, <1>15, <2>2, <3>2 DEF ParkedFor, Amount
    <2> QED
      BY <2>1, <2>2
  <1>16. ASSUME NEW u \in Ids
         PROVE  Owed(u)' = Owed(u) + (IF u = t THEN -a ELSE 0) + (IF u = n THEN a ELSE 0)
                                   + (IF u = p THEN 0 ELSE 0) + (IF u = p THEN 0 ELSE 0)
    <2> PICK c : c = IF u = t THEN -a ELSE 0
      OBVIOUS
    <2> PICK k : k = IF u = n THEN a ELSE 0
      OBVIOUS
    <2>1. k \in Int /\ c \in Int
      BY <1>7
    <2>2. /\ Coming(1, u) \in Nat /\ Coming(2, u) \in Nat /\ Seeded(1, u) \in Nat /\ Seeded(2, u) \in Nat
          /\ ParkedFor(u) \in Nat /\ Recovered(u) \in Nat /\ Owed(u) \in Nat
      BY <1>1, OwedNat DEF Engines
    <2>3. Differs(u, c, 0, 0, 0, k, 0)
      <3>1. Coming(1, u)' = Coming(1, u) + c
        BY <1>7, <1>9, <2>2
      <3>2. ParkedFor(u)' = ParkedFor(u) + k
        BY <1>7, <1>14, <1>15, <2>2
      <3>3. /\ Coming(2, u)' = Coming(2, u) + 0 /\ Seeded(1, u)' = Seeded(1, u) + 0
            /\ Seeded(2, u)' = Seeded(2, u) + 0 /\ Recovered(u)' = Recovered(u) + 0
        BY <1>10, <1>11, <1>12, <2>2 DEF Engines
      <3> QED
        BY <2>1, <3>1, <3>2, <3>3 DEF Differs
    <2>4. Owed(u)' = Owed(u) + (c + 0 + 0 + 0 + k + 0)
      BY <1>1, <2>3, OwedDiffers
    <2> QED
      BY <2>1, <2>2, <2>4
  <1>17. ASSUME NEW u \in Ids
         PROVE  Effect(u, p)' = Effect(u, p) \/ Owed(u)' = 0
    <2>1. CASE u <= MaxTensors
      BY <1>3, <2>1 DEF Effect
    <2>2. CASE ~(u <= MaxTensors)
      <3>1. u > MaxTensors /\ u # t /\ u # n
        BY <1>3, <2>2, IdsFacts
      <3>2. Owed(u) = 0
        BY <1>1, <1>4, <3>1, Above
      <3> QED
        BY <1>16, <3>1, <3>2
    <2> QED
      BY <2>1, <2>2
  <1>18. Effect(n, p) = Effect(t, p)
    BY <1>1, <1>3, EffectPlain
  <1>19. PICK y \in Nat : y = Effect(t, p)
    BY <1>1, <1>3, NumbersNow
  <1>20. PICK q \in Nat : q = Effect(p, p)
    BY <1>1, NumbersNow
  <1>21. 0 + (Times(-a, Effect(t, p)) + Times(a, Effect(n, p)) + Times(0, Effect(p, p)) + Times(0, Effect(p, p))) = 0
    <2>1. Times(0, q) = 0 /\ Times(-a, y) = -Times(a, y) /\ Times(a, y) \in Nat
      BY <1>7, <1>19, <1>20, TimesFacts
    <2> QED
      BY <1>18, <1>19, <1>20, <2>1
  <1>22. Held(p)' = Held(p) + 0
    <2>1. Held(p) \in Nat
      BY <1>1, HeldNat
    <2> QED
      BY <1>1, <1>3, <1>6, <2>1, HeldSame
  <1>23. want'[p] + Due(p)' = want[p] + Due(p) + 0
    <2>1. Due(p)' = Due(p) /\ want'[p] = want[p]
      BY <1>3, <1>4 DEF Due
    <2>2. want[p] + Due(p) \in Int
      BY <1>1, DueInt
    <2> QED
      BY <2>1, <2>2
  <1>24. Moves(p, t, -a, n, a, p, 0, p, 0, 0, 0)
    <2>1. -a \in Int /\ a \in Int
      BY <1>7
    <2> QED
      BY <1>1, <1>3, <1>16, <1>17, <1>21, <1>22, <1>23, <2>1 DEF Moves
  <1> QED
    BY <1>1, <1>24, EvenMoves

\* What the recompute recovered goes to the block's inputs, where the engine has not been yet.
LEMMA EvenDispatch ==
  ASSUME NEW p, Stepping(p), Dispatch
  PROVE  Even(p)'
  <1>1. /\ Ready /\ Ready' /\ exact /\ exact' /\ AllInv /\ value \in Seq(Nat) /\ ContextInv /\ WorkInv
        /\ p \in Ids /\ p <= MaxTensors /\ tensor[p].fn = 0 /\ OnceEach /\ Even(p) /\ BufferInv
        /\ GraphShape /\ RecomputeInv /\ OrderInv
    BY SteppingFacts
  <1>2. /\ step = "dispatch" /\ step' = "idle" /\ block' = 0 /\ level = 1 /\ level' = 1
        /\ UNCHANGED <<tensor, parked, arrived, want>> /\ UNCHANGED <<root, seed, phase, pos, topo>>
        /\ grad' = [t \in Ids |-> IF t \in Temporaries THEN 0 ELSE grad[t]]
    BY DEF Dispatch, Recomputing, graphVars, ghostVars, engineVars, collectVars
  <1> PICK i : i = tensor[block].in[1]
    OBVIOUS
  <1> PICK j : j = tensor[block].in[2]
    OBVIOUS
  <1> PICK h1 : h1 = Held(x1r)
    OBVIOUS
  <1> PICK h2 : h2 = Held(x2r)
    OBVIOUS
  <1> PICK a : a = Share(i, 1, h1)
    OBVIOUS
  <1> PICK b : b = Share(j, 1, h2)
    OBVIOUS
  <1>3. PICK s : /\ pending' = [pending EXCEPT ![1] = s.pending] /\ value' = s.value
                 /\ GainsTwo(s, Pending(1), i, a, j, b)
    BY <1>1, DispatchGains
  <1>4. /\ Longer(value', value) /\ pending'[2] = pending[2] /\ JoinedBy(1, i, a, j, b)
        /\ \A u \in Ids : Amount(pending[1][u]) \in Nat
    <2>1. Longer(value', value)
      BY <1>1, <1>3, Joined DEF Engines
    <2>2. \A f \in Engines : f # 1 => pending'[f] = pending[f]
      BY <1>1, <1>3, Joined DEF Engines
    <2>3. JoinedBy(1, i, a, j, b)
      BY <1>1, <1>3, Joined DEF Engines
    <2>4. \A u \in Ids : Amount(pending[1][u]) \in Nat
      <3>1. \A u \in Ids : pending[1][u] \in Buffers(Len(value))
        BY <1>1, BufferPlaces DEF Engines
      <3> QED
        BY <1>1, <3>1, HeldNat
    <2> QED
      BY <2>1, <2>2, <2>3, <2>4 DEF Engines
  <1>5. x1r \in Ids /\ x2r \in Ids /\ x1r # x2r /\ ~(x1r <= MaxTensors) /\ ~(x2r <= MaxTensors)
        /\ x1r \in Temporaries /\ x2r \in Temporaries
        /\ \A u \in Temporaries : u \in Ids => ~(u <= MaxTensors)
    <2>1. \A u \in Ids : u \in Temporaries => ~(u <= MaxTensors)
      <3> SUFFICES ASSUME NEW u \in Ids, u \in Temporaries PROVE ~(u <= MaxTensors)
        OBVIOUS
      <3>1. u \in MaxTensors + 1 .. MaxTensors + 6 /\ u \in Nat
        BY IdsFacts DEF Temporaries
      <3> QED
        BY <3>1, IdsFacts
    <2>2. x1r \in Temporaries /\ x2r \in Temporaries
      <3>1. MaxTensors + 1 \in MaxTensors + 1 .. MaxTensors + 6 /\ MaxTensors + 2 \in MaxTensors + 1 .. MaxTensors + 6
        BY IdsFacts
      <3> QED
        BY <3>1, IdsFacts DEF Temporaries
    <2> QED
      BY <2>1, <2>2, IdsFacts
  <1>6. h1 \in Nat /\ h2 \in Nat
    BY <1>1, <1>5, HeldNat
  <1>7. a \in Nat /\ b \in Nat
    BY <1>6, ShareNat
  <1>8. /\ i \in Ids /\ i <= MaxTensors /\ j \in Ids /\ j <= MaxTensors
        /\ i = Inputs(topo[1][pos[1] + 1])[1] /\ j = Inputs(topo[1][pos[1] + 1])[2]
        /\ pos[1] \in Nat /\ pos[1] + 1 \in 1 .. Len(topo[1])
    BY <1>1, <1>2, BlockFacts
  <1>9. i \notin Ran(1) /\ j \notin Ran(1)
    <2>1. \A m \in pos[1] + 1 .. Len(topo[1]) : topo[1][m] # i /\ topo[1][m] # j
      BY <1>1, <1>8, InputsPrecede DEF Engines
    <2> QED
      BY <2>1 DEF Ran
  <1>10. Ran(1)' = Ran(1)
    BY <1>2 DEF Ran
  <1>11. ASSUME NEW u \in Ids
         PROVE  Coming(1, u)' = Coming(1, u) + (IF u = i THEN a ELSE 0) + (IF u = j THEN b ELSE 0)
    <2>1. CASE u \in Ran(1)
      <3>1. u # i /\ u # j
        BY <1>9, <2>1
      <3>2. Coming(1, u)' = 0 /\ Coming(1, u) = 0
        BY <1>10, <2>1, ComingNoneNext, ComingNone
      <3> QED
        BY <3>1, <3>2
    <2>2. CASE u \notin Ran(1)
      <3>1. Coming(1, u)' = IF pending'[1][u] = 0 THEN 0 ELSE value'[pending'[1][u]]
        BY <1>10, <2>2, ComingMore
      <3>2. Coming(1, u) = Amount(pending[1][u])
        BY <2>2 DEF Coming
      <3> QED
        BY <1>4, <3>1, <3>2 DEF JoinedBy
    <2> QED
      BY <2>1, <2>2
  <1>12. \A u \in Ids : Coming(2, u)' = Coming(2, u)
    BY <1>1, <1>2, <1>4, ComingSame DEF Engines
  <1>13. \A u \in Ids : \A e \in Engines : Seeded(e, u)' = Seeded(e, u)
    BY <1>1, <1>2, <1>4, SeededSame
  <1>14. ASSUME NEW u \in Ids
         PROVE  Waiting(u)' <=> Waiting(u)
    <2>1. Other(u)' = Other(u)
      BY <1>2 DEF Other
    <2> QED
      BY <1>2, <2>1 DEF Waiting
  <1>15. \A u \in Ids : ParkedFor(u)' = ParkedFor(u)
    BY <1>1, <1>2, <1>4, <1>14, ParkedSame
  <1>16. /\ Recovered(x1r) = h1 /\ Recovered(x1r)' = 0
         /\ Recovered(x2r) = h2 /\ Recovered(x2r)' = 0
         /\ \A u : u # x1r /\ u # x2r => Recovered(u) = 0 /\ Recovered(u)' = 0
    <2>1. grad'[x1r] = 0 /\ grad'[x2r] = 0
      BY <1>2, <1>5
    <2>2. Held(x1r)' = 0 /\ Held(x2r)' = 0
      BY <2>1 DEF Held
    <2> QED
      BY <2>2 DEF Recovered
  <1>17. ASSUME NEW u \in Ids
         PROVE  Owed(u)' = Owed(u) + (IF u = x1r THEN -h1 ELSE 0) + (IF u = x2r THEN -h2 ELSE 0)
                                   + (IF u = i THEN a ELSE 0) + (IF u = j THEN b ELSE 0)
    <2> PICK c : c = (IF u = i THEN a ELSE 0) + (IF u = j THEN b ELSE 0)
      OBVIOUS
    <2> PICK r : r = (IF u = x1r THEN -h1 ELSE 0) + (IF u = x2r THEN -h2 ELSE 0)
      OBVIOUS
    <2>1. c \in Int /\ r \in Int
      BY <1>6, <1>7
    <2>2. /\ Coming(1, u) \in Nat /\ Coming(2, u) \in Nat /\ Seeded(1, u) \in Nat /\ Seeded(2, u) \in Nat
          /\ ParkedFor(u) \in Nat /\ Recovered(u) \in Nat /\ Owed(u) \in Nat
      BY <1>1, OwedNat DEF Engines
    <2>3. Differs(u, c, 0, 0, 0, 0, r)
      <3>1. Coming(1, u)' = Coming(1, u) + c
        BY <1>7, <1>11, <2>2
      <3>2. Recovered(u)' = Recovered(u) + r
        <4>1. CASE u = x1r
          BY <1>5, <1>6, <1>16, <4>1
        <4>2. CASE u = x2r
          BY <1>5, <1>6, <1>16, <4>2
        <4>3. CASE u # x1r /\ u # x2r
          BY <1>16, <4>3
        <4> QED
          BY <4>1, <4>2, <4>3
      <3>3. /\ Coming(2, u)' = Coming(2, u) + 0 /\ Seeded(1, u)' = Seeded(1, u) + 0
            /\ Seeded(2, u)' = Seeded(2, u) + 0 /\ ParkedFor(u)' = ParkedFor(u) + 0
        BY <1>12, <1>13, <1>15, <2>2 DEF Engines
      <3> QED
        BY <2>1, <3>1, <3>2, <3>3 DEF Differs
    <2>4. Owed(u)' = Owed(u) + (c + 0 + 0 + 0 + 0 + r)
      BY <1>1, <2>3, OwedDiffers
    <2> QED
      BY <1>6, <1>7, <2>1, <2>2, <2>4
  <1>18. ASSUME NEW u \in Ids
         PROVE  Effect(u, p)' = Effect(u, p) \/ Owed(u)' = 0
    <2>1. CASE u <= MaxTensors
      BY <1>2, <2>1 DEF Effect
    <2>2. CASE ~(u <= MaxTensors)
      <3>1. u > MaxTensors
        BY <2>2, IdsFacts
      <3> QED
        BY <1>1, <1>2, <3>1, AboveNext
    <2> QED
      BY <2>1, <2>2
  <1>19. PICK y \in Nat : y = Effect(i, p)
    BY <1>1, <1>8, NumbersNow
  <1>20. PICK z \in Nat : z = Effect(j, p)
    BY <1>1, <1>8, NumbersNow
  <1>21. Effect(x1r, p) = Share(i, 1, y) /\ Effect(x2r, p) = Share(j, 1, z)
    <2>1. block # 0
      BY <1>1, <1>2, BlockFacts DEF BlockThere
    <2> QED
      BY <1>1, <1>19, <1>20, <2>1, EffectOfBlock
  <1>22. PICK m \in Nat : m = Share(i, 1, y) /\ Times(a, y) = Times(h1, m)
    BY <1>6, <1>19, ShareTimes
  <1>23. PICK n \in Nat : n = Share(j, 1, z) /\ Times(b, z) = Times(h2, n)
    BY <1>6, <1>20, ShareTimes
  <1>24. 0 + (Times(-h1, Effect(x1r, p)) + Times(-h2, Effect(x2r, p)) + Times(a, Effect(i, p)) + Times(b, Effect(j, p))) = 0
    <2>1. Times(-h1, m) = -Times(h1, m) /\ Times(h1, m) \in Nat
      BY <1>6, <1>22, TimesFacts
    <2>2. Times(-h2, n) = -Times(h2, n) /\ Times(h2, n) \in Nat
      BY <1>6, <1>23, TimesFacts
    <2> QED
      BY <1>19, <1>20, <1>21, <1>22, <1>23, <2>1, <2>2
  <1>25. Held(p)' = Held(p) + 0
    <2>1. Held(p) \in Nat
      BY <1>1, HeldNat
    <2>2. p \notin Temporaries
      BY <1>1, <1>5
    <2>3. grad'[p] = grad[p]
      BY <1>1, <1>2, <2>2
    <2> QED
      BY <1>1, <1>4, <2>1, <2>3, HeldSame
  <1>26. want'[p] + Due(p)' = want[p] + Due(p) + 0
    <2>1. Due(p)' = Due(p) /\ want'[p] = want[p]
      BY <1>2 DEF Due
    <2>2. want[p] + Due(p) \in Int
      BY <1>1, DueInt
    <2> QED
      BY <2>1, <2>2
  <1>27. Moves(p, x1r, -h1, x2r, -h2, i, a, j, b, 0, 0)
    <2>1. -h1 \in Int /\ -h2 \in Int /\ a \in Int /\ b \in Int /\ 0 \in Int
      BY <1>6, <1>7
    <2>2. x1r \in Ids /\ x2r \in Ids /\ i \in Ids /\ j \in Ids
      BY <1>5, <1>8
    <2>3. \A u \in Ids : Owed(u)' = Owed(u) + (IF u = x1r THEN -h1 ELSE 0) + (IF u = x2r THEN -h2 ELSE 0)
                                   + (IF u = i THEN a ELSE 0) + (IF u = j THEN b ELSE 0)
      BY <1>17
    <2>4. \A u \in Ids : Effect(u, p)' = Effect(u, p) \/ Owed(u)' = 0
      BY <1>18
    <2> QED
      BY <1>24, <1>25, <1>26, <2>1, <2>2, <2>3, <2>4 DEF Moves
  <1> QED
    BY <1>1, <1>27, EvenMoves

\* The root's gradient is one.
LEMMA EvenBackward ==
  ASSUME NEW p, Stepping(p), NEW t \in 1 .. created, Backward(t)
  PROVE  Even(p)'
  <1>1. /\ Ready /\ Ready' /\ exact /\ exact' /\ AllInv /\ value \in Seq(Nat) /\ ContextInv /\ WorkInv
        /\ p \in Ids /\ p <= MaxTensors /\ tensor[p].fn = 0 /\ OnceEach /\ Even(p) /\ BufferInv
        /\ GraphShape /\ GraphInv
    BY SteppingFacts
  <1> PICK g : g = Len(value) + 1
    OBVIOUS
  <1>2. /\ level = 0 /\ Starts(1, t, g) /\ value' = Append(value, 1)
        /\ UNCHANGED <<tensor, grad, parked, pending, step, block, want, arrived>>
    BY DEF Backward, Does, Idle, graphVars, recomputeVars
  <1>3. t \in Ids /\ t <= MaxTensors
    <2>1. t \in Ids /\ created \in Nat /\ created <= MaxTensors
      BY <1>1, CreatedFacts, IdsFacts DEF GraphInv
    <2> QED
      BY <2>1, IdsFacts
  <1>4. Longer(value', value) /\ g # 0 /\ value'[g] = 1
    <2>1. Len(value) \in Nat
      BY <1>1
    <2> QED
      BY <1>1, <1>2, <2>1, LongerOne
  <1>5. /\ phase'[1] = "collect" /\ root'[1] = t /\ seed'[1] = g /\ level' = 1
        /\ UNCHANGED <<pos, topo>>
        /\ phase'[2] = phase[2] /\ root'[2] = root[2] /\ seed'[2] = seed[2]
    <2>1. DOMAIN phase = Engines /\ DOMAIN root = Engines /\ DOMAIN seed = Engines
      BY <1>1 DEF ContextInv, BufferInv
    <2> QED
      BY <1>2, <2>1 DEF Starts, Engines
  <1>6. phase[1] = "idle"
    BY <1>1, <1>2 DEF ContextInv
  <1>7. \A u : Seeded(1, u) = 0 /\ Seeded(1, u)' = IF u = t THEN 1 ELSE 0
    <2>1. \A u : Seeded(1, u) = 0
      BY <1>6, SeededNone
    <2>2. \A u : Seeded(1, u)' = IF u = t THEN 1 ELSE 0
      BY <1>4, <1>5 DEF Seeded, Amount
    <2> QED
      BY <2>1, <2>2
  <1>8. \A u \in Ids : Seeded(2, u)' = Seeded(2, u)
    BY <1>1, <1>4, <1>5, SeededSame DEF Engines
  <1>9. \A u \in Ids : \A e \in Engines : Coming(e, u)' = Coming(e, u)
    BY <1>1, <1>2, <1>4, <1>5, ComingSame
  <1>10. \A u \in Ids : Recovered(u)' = Recovered(u)
    BY <1>1, <1>2, <1>4, HeldSame, RecoveredSame
  <1>11. \A u \in Ids : ParkedFor(u)' = ParkedFor(u)
    BY <1>1, <1>2, <1>4, ParkedSame, WaitingSame
  <1>12. ASSUME NEW u \in Ids
         PROVE  Owed(u)' = Owed(u) + (IF u = t THEN 1 ELSE 0) + (IF u = p THEN 0 ELSE 0)
                                   + (IF u = p THEN 0 ELSE 0) + (IF u = p THEN 0 ELSE 0)
    <2> PICK s : s = IF u = t THEN 1 ELSE 0
      OBVIOUS
    <2>1. s \in Int
      OBVIOUS
    <2>2. /\ Coming(1, u) \in Nat /\ Coming(2, u) \in Nat /\ Seeded(1, u) \in Nat /\ Seeded(2, u) \in Nat
          /\ ParkedFor(u) \in Nat /\ Recovered(u) \in Nat /\ Owed(u) \in Nat
      BY <1>1, OwedNat DEF Engines
    <2>3. Differs(u, 0, 0, s, 0, 0, 0)
      <3>1. Seeded(1, u)' = Seeded(1, u) + s
        BY <1>7, <2>1
      <3>2. /\ Coming(1, u)' = Coming(1, u) + 0 /\ Coming(2, u)' = Coming(2, u) + 0
            /\ Seeded(2, u)' = Seeded(2, u) + 0 /\ ParkedFor(u)' = ParkedFor(u) + 0
            /\ Recovered(u)' = Recovered(u) + 0
        BY <1>8, <1>9, <1>10, <1>11, <2>2 DEF Engines
      <3> QED
        BY <2>1, <3>1, <3>2 DEF Differs
    <2>4. Owed(u)' = Owed(u) + (0 + 0 + s + 0 + 0 + 0)
      BY <1>1, <2>3, OwedDiffers
    <2> QED
      BY <2>1, <2>2, <2>4
  <1>13. \A u \in Ids : Effect(u, p)' = Effect(u, p)
    BY <1>2, EffectSame
  <1>14. PICK w \in Nat : w = Deriv(tensor, t, p)
    BY <1>1, <1>3, DerivNat
  <1>15. Effect(t, p) = w
    BY <1>3, <1>14 DEF Effect
  <1>16. PICK q \in Nat : q = Effect(p, p)
    BY <1>1, NumbersNow
  <1>17. 0 + (Times(1, Effect(t, p)) + Times(0, Effect(p, p)) + Times(0, Effect(p, p)) + Times(0, Effect(p, p))) = w
    <2>1. Times(0, q) = 0 /\ Times(1, w) = w
      BY <1>14, <1>16 DEF Times
    <2> QED
      BY <1>14, <1>15, <1>16, <2>1
  <1>18. Held(p)' = Held(p) + 0
    <2>1. Held(p) \in Nat
      BY <1>1, HeldNat
    <2> QED
      BY <1>1, <1>2, <1>4, <2>1, HeldSame
  <1>19. want'[p] + Due(p)' = want[p] + Due(p) + w
    <2>1. Due(p) = 0
      BY <1>2 DEF Due
    <2>2. Due(p)' = w
      BY <1>2, <1>5, <1>14 DEF Due
    <2>3. want[p] \in Nat /\ want'[p] = want[p]
      BY <1>1, <1>2, DueInt
    <2> QED
      BY <1>14, <2>1, <2>2, <2>3
  <1>20. Moves(p, t, 1, p, 0, p, 0, p, 0, 0, w)
    BY <1>1, <1>3, <1>12, <1>13, <1>14, <1>17, <1>18, <1>19 DEF Moves
  <1> QED
    BY <1>1, <1>20, EvenMoves

-----------------------------------------------------------------------------
(* Between calls of backward.                                              *)

\* When a block's outputs have both passed their gradients on, or neither has, nothing is owed.
LEMMA PairedNone ==
  ASSUME Ready, exact, level = 0, BlocksPaired, NEW u \in Ids
  PROVE  Owed(u) = 0
  <1>1. AllInv /\ ContextInv /\ WorkInv /\ RecomputeInv /\ ArrivedInv /\ GraphInv /\ GraphShape
    BY ReadyFacts
  <1>2. phase[1] = "idle" /\ phase[2] = "idle" /\ step = "idle"
    BY <1>1 DEF ContextInv
  <1>3. \A e \in Engines : Coming(e, u) = 0 /\ Seeded(e, u) = 0
    BY <1>1, <1>2, ComingIdle, SeededNone DEF Engines
  <1>4. Recovered(u) = 0
    BY <1>1, <1>2 DEF RecomputeInv, Recovered, Held
  <1>5. ParkedFor(u) = 0
    <2>1. SUFFICES ASSUME Waiting(u) PROVE FALSE
      BY DEF ParkedFor
    <2>2. arrived[u] = 1 /\ arrived[Other(u)] = 0
      BY <1>2, <2>1 DEF Waiting
    <2>3. tensor[u].op \in {"rev1", "rev2"}
      BY <2>1, WaitingPlace
    <2> PICK b : b = Block(u)
      OBVIOUS
    <2>4. /\ b \in Ids /\ tensor[b].op = "rev1" /\ u \in {b, b + 1} /\ Other(u) \in {b, b + 1}
          /\ Other(u) # u
      <3>1. /\ b \in Ids /\ tensor[b].op = "rev1" /\ u \in {b, b + 1} /\ Other(u) # u
            /\ Other(u) \in Ids /\ tensor[Other(u)].op \in {"rev1", "rev2"} /\ Block(Other(u)) = b
        BY <2>3, OtherPlace
      <3>2. Other(u) \in {b, b + 1}
        BY <3>1, OtherPlace
      <3> QED
        BY <3>1, <3>2
    <2>5. b \in Blocks
      <3>1. b + 1 <= created /\ b \in Nat /\ b > 0 /\ created \in Nat
        BY <1>1, <2>4, RevPlace, CreatedFacts, IdsFacts
      <3> QED
        BY <2>4, <3>1 DEF Blocks
    <2>6. arrived[b] = arrived[b + 1]
      BY <2>5 DEF BlocksPaired
    <2> QED
      BY <2>2, <2>4, <2>6
  <1> QED
    BY <1>3, <1>4, <1>5 DEF Owed, Engines

\* What is owed is worth a number, or nothing when nothing is owed.
LEMMA WorthNat ==
  ASSUME Ready, exact, NEW p \in Ids
  PROVE  /\ Worth(Debts, Effects(p)) \in Nat
         /\ (\A u \in Ids : Owed(u) = 0) => Worth(Debts, Effects(p)) = 0
  <1> DEFINE f == [u \in Ids |-> Debts[u] * Effects(p)[u]]
  <1>1. \A u \in Ids : Debts[u] = Owed(u) /\ Effects(p)[u] = Effect(u, p)
    BY DEF Debts, Effects
  <1>2. \A u \in Ids : Owed(u) \in Nat /\ Effect(u, p) \in Nat
    BY NumbersNow
  <1>3. \A u \in Ids : f[u] \in Nat /\ (Owed(u) = 0 => f[u] = 0)
    <2> SUFFICES ASSUME NEW u \in Ids PROVE f[u] \in Nat /\ (Owed(u) = 0 => f[u] = 0)
      OBVIOUS
    <2>1. PICK x \in Nat : x = Owed(u)
      BY <1>2
    <2>2. PICK y \in Nat : y = Effect(u, p)
      BY <1>2
    <2>3. f[u] = x * y
      BY <1>1, <2>1, <2>2
    <2>4. x * y \in Nat /\ 0 * y = 0
      OBVIOUS
    <2> QED
      BY <2>1, <2>3, <2>4
  <1>4. f \in [Ids -> Nat]
    BY <1>3
  <1>5. Worth(Debts, Effects(p)) = Total(f)
    BY DEF Worth
  <1> HIDE DEF f
  <1>6. Total(f) \in Nat /\ ((\A u \in Ids : f[u] = 0) => Total(f) = 0)
    BY <1>4, TotalNat
  <1> QED
    BY <1>3, <1>5, <1>6

\* What is even is held, or held back.
Settling ==
  level = 0 /\ exact =>
    /\ BlocksPaired => \A p \in Ids : Even(p) <=> Held(p) = want[p]
    /\ \A p \in Ids : Even(p) => Held(p) <= want[p]

\* It is so now.
LEMMA SettlingNow == Ready => Settling
  <1> SUFFICES ASSUME Ready, level = 0, exact
               PROVE  /\ BlocksPaired => \A p \in Ids : Even(p) <=> Held(p) = want[p]
                      /\ \A p \in Ids : Even(p) => Held(p) <= want[p]
    BY DEF Settling
  <1>1. ASSUME NEW p \in Ids
        PROVE  /\ Even(p) => Held(p) <= want[p]
               /\ BlocksPaired => (Even(p) <=> Held(p) = want[p])
    <2>1. Due(p) = 0
      BY DEF Due
    <2>2. PICK h \in Nat : h = Held(p)
      BY ReadyFacts, HeldNat
    <2>3. PICK w \in Nat : w = want[p]
      BY DueInt
    <2>4. PICK x \in Nat : x = Worth(Debts, Effects(p))
      BY WorthNat
    <2>5. Even(p) <=> h + x = w + 0
      BY <2>1, <2>2, <2>3, <2>4 DEF Even
    <2>6. BlocksPaired => x = 0
      BY <2>4, PairedNone, WorthNat
    <2> QED
      BY <2>2, <2>3, <2>5, <2>6
  <1> QED
    BY <1>1

\* And after a step.
LEMMA SettlingNext == Ready' => Settling'
  BY SettlingNow, PTL

\* Blocks of which both outputs' nodes have run once.
Pairing ==
  /\ BlocksPaired => OnceEach
  /\ (\A t \in Ids : arrived[t] = 0) => BlocksPaired

\* They have not run more often, and before any has run all are paired.
LEMMA PairingNow == Ready => Pairing
  <1> SUFFICES ASSUME Ready PROVE Pairing
    OBVIOUS
  <1>1. GraphInv /\ GraphShape /\ ArrivedInv
    BY ReadyFacts
  <1>2. ASSUME BlocksPaired, NEW t \in Ids
        PROVE  arrived[t] <= 1
    <2>1. CASE arrived[t] = 0
      BY <2>1
    <2>2. CASE arrived[t] # 0
      <3>1. tensor[t].op \in {"rev1", "rev2"}
        BY <1>1, <2>2 DEF ArrivedInv
      <3> PICK b : b = Block(t)
        OBVIOUS
      <3>2. b \in Ids /\ tensor[b].op = "rev1" /\ t \in {b, b + 1}
        BY <3>1, OtherPlace
      <3>3. b \in Blocks
        <4>1. b + 1 <= created /\ b \in Nat /\ b > 0 /\ created \in Nat
          BY <1>1, <3>2, RevPlace, CreatedFacts, IdsFacts
        <4> QED
          BY <3>2, <4>1 DEF Blocks
      <3>4. arrived[b] = arrived[b + 1] /\ arrived[b] <= 1
        BY <1>2, <3>3 DEF BlocksPaired
      <3> QED
        BY <3>2, <3>4
    <2> QED
      BY <2>1, <2>2
  <1>3. ASSUME \A t \in Ids : arrived[t] = 0, NEW b \in Blocks
        PROVE  arrived[b] = arrived[b + 1] /\ arrived[b] <= 1
    <2>1. b \in Ids /\ tensor[b].op = "rev1"
      BY <1>1, CreatedFacts DEF Blocks
    <2>2. b + 1 \in Ids
      BY <1>1, <2>1, RevPlace
    <2> QED
      BY <1>3, <2>1, <2>2
  <1> QED
    BY <1>2, <1>3 DEF Pairing, OnceEach, BlocksPaired

\* After a step too.
LEMMA PairingNext == Ready' => Pairing'
  BY PairingNow, PTL

\* The same blocks, the same nodes that ran.
LEMMA PairedSame ==
  ASSUME UNCHANGED <<tensor, created, arrived>>
  PROVE  /\ BlocksPaired' <=> BlocksPaired
         /\ OnceEach' <=> OnceEach
         /\ Params' = Params
  BY DEF BlocksPaired, Blocks, OnceEach, Params

\* Nodes run again, never less.
LEMMA ArrivedGrows ==
  ASSUME AllInv, GraphShape, ArrivedInv, [Next]_vars, NEW t \in Ids
  PROVE  arrived[t] <= arrived'[t]
  <1>1. arrived \in [Ids -> Nat]
    BY DEF ArrivedInv
  <1>2. CASE VisitBlock
    <2>1. PICK s, n, b, x : BlockVisit(s, n, b, x)
      BY <1>2, BlockVisits
    <2>2. arrived' = [arrived EXCEPT ![n] = @ + 1]
      BY <2>1 DEF BlockVisit
    <2> PICK k : k = arrived[t]
      OBVIOUS
    <2>3. k \in Nat /\ arrived'[t] \in {k, k + 1}
      BY <1>1, <2>2
    <2> QED
      BY <2>3
  <1>3. CASE ~VisitBlock
    <2>1. arrived' = arrived
      BY <1>3 DEF Next, Build, Op, Add, View, Reversible, Make, SetEnabled, ZeroGrad, Scale, Backward,
                 Run, CollectInput, CollectDone, CollectUnchanged, StartVisits, VisitNothing, VisitOp,
                 EndVisits, Commit, Return, Recompute, Nested, Dispatch, Throw, vars, ghostVars
    <2> QED
      BY <1>1, <2>1
  <1> QED
    BY <1>2, <1>3

-----------------------------------------------------------------------------
(* The invariants.                                                         *)

\* While no node of a block runs twice, every parameter's gradient is even.
Balance == exact /\ OnceEach => \A p \in Params : Even(p)

\* Before the first node of a block runs, and before the first commit, the parameters have what
\* they had before the call: what a failure leaves them.
Clean ==
  exact /\ (\A t \in Ids : arrived[t] = 0) /\ phase[1] \in {"collect", "visit"} =>
    \A p \in Params : Held(p) = want[p]

\* Parameters are callers' tensors and have no node.
LEMMA ParamsThere ==
  Ready => \A p \in Params : p \in Ids /\ p <= MaxTensors /\ tensor[p].fn = 0 /\ want[p] \in Nat
  <1> SUFFICES ASSUME Ready, NEW p \in Params
               PROVE  p \in Ids /\ p <= MaxTensors /\ tensor[p].fn = 0 /\ want[p] \in Nat
    OBVIOUS
  <1>1. GraphInv /\ GraphShape
    BY ReadyFacts
  <1>2. p \in 1 .. created /\ tensor[p].op = "leaf"
    BY DEF Params
  <1>3. p \in Ids /\ created \in Nat /\ p <= created
    BY <1>1, <1>2, CreatedFacts
  <1>4. p <= MaxTensors
    BY <1>1, <1>3, IdsFacts DEF GraphInv
  <1> QED
    BY <1>1, <1>2, <1>3, <1>4, DueInt DEF GraphShape

\* An engine of which no node of a block has run keeps the numbers it found.
LEMMA RunLonger ==
  ASSUME Ready, exact, NEW e \in Engines,
         CollectInput(e) \/ CollectDone(e) \/ StartVisits(e) \/ VisitNothing(e) \/ VisitOp(e) \/ EndVisits(e)
  PROVE  Longer(value', value) /\ grad' = grad /\ want' = want /\ tensor' = tensor /\ created' = created
  <1>1. AllInv /\ BufferInv /\ AmountInv /\ value \in Seq(Nat)
    BY ReadyFacts
  <1>2. CASE VisitOp(e)
    <2>1. UNCHANGED <<grad, want, tensor, created>>
      BY <1>2 DEF VisitOp, graphVars, ghostVars
    <2>2. PICK s, i, a, j, b : value' = s.value /\ GainsTwo(s, Pending(e), i, a, j, b)
      BY <1>1, <1>2, VisitGains
    <2>3. Pending(e).value = value
      BY <1>1, PendingNumbers
    <2> QED
      BY <2>1, <2>2, <2>3 DEF GainsTwo
  <1>3. CASE StartVisits(e)
    <2>1. UNCHANGED <<grad, want, tensor, created>>
      BY <1>3 DEF StartVisits, graphVars, ghostVars
    <2>2. PICK s, t, a : value' = s.value /\ Gains(s, Pending(e), t, a)
      BY <1>1, <1>3, StartGains
    <2>3. Pending(e).value = value
      BY <1>1, PendingNumbers
    <2> QED
      BY <2>1, <2>2, <2>3 DEF Gains
  <1>4. CASE CollectInput(e) \/ CollectDone(e)
    <2>1. UNCHANGED <<grad, want, tensor, created, value>>
      BY <1>4 DEF CollectInput, CollectDone, CollectUnchanged, graphVars, ghostVars
    <2> QED
      BY <1>1, <2>1, LongerStill
  <1>5. CASE VisitNothing(e) \/ EndVisits(e)
    <2>1. UNCHANGED <<grad, want, tensor, created, value>>
      BY <1>5 DEF VisitNothing, EndVisits, graphVars, ghostVars
    <2> QED
      BY <1>1, <2>1, LongerStill
  <1> QED
    BY <1>2, <1>3, <1>4, <1>5

\* A gradient of ones is made.
LEMMA BackwardLonger ==
  ASSUME Ready, exact, NEW t, Backward(t)
  PROVE  Longer(value', value) /\ grad' = grad /\ want' = want /\ tensor' = tensor /\ created' = created
         /\ level = 0 /\ arrived' = arrived
  <1>1. value \in Seq(Nat)
    BY ReadyFacts
  <1>2. value' = Append(value, 1) /\ UNCHANGED <<grad, want, tensor, created, arrived>> /\ level = 0
    BY DEF Backward, graphVars, Does, Idle
  <1>3. Longer(Append(value, 1), value)
    BY <1>1, LongerOne
  <1> QED
    BY <1>2, <1>3

\* Every step keeps it: callers find their gradients as they were until a block's node runs or a commit.
LEMMA CleanStep ==
  ASSUME Ready, Ready', Balance, Clean, [Next]_vars
  PROVE  Clean'
  <1> SUFFICES ASSUME exact', \A t \in Ids : arrived'[t] = 0, phase'[1] \in {"collect", "visit"},
                      NEW p \in Params'
               PROVE  Held(p)' = want'[p]
    BY DEF Clean
  <1>1. exact
    BY ExactBefore
  <1>2. AllInv /\ GraphShape /\ ArrivedInv /\ ContextInv /\ RecomputeInv /\ GraphInv /\ BufferInv
    BY ReadyFacts
  <1>3. \A t \in Ids : arrived[t] = 0
    <2> SUFFICES ASSUME NEW t \in Ids PROVE arrived[t] = 0
      OBVIOUS
    <2>1. arrived[t] \in Nat /\ arrived[t] <= arrived'[t] /\ arrived'[t] = 0
      BY <1>2, ArrivedGrows DEF ArrivedInv
    <2> QED
      BY <2>1
  <1>4. step = "idle"
    <2> SUFFICES ASSUME step # "idle" PROVE FALSE
      OBVIOUS
    <2>1. arrived[block] # 0 /\ block \in Ids
      BY <1>2, RecomputeThere DEF RecomputeInv, BlockThere
    <2> QED
      BY <1>3, <2>1
  <1>5. level \in {0, 1}
    BY <1>2, <1>4 DEF ContextInv
  <1>6. level = 0 => phase[1] = "idle"
    BY <1>2 DEF ContextInv
  <1>7. CASE \E t \in {u \in 1 .. created : HasNode(u)} : Backward(t)
    <2>1. PICK t : Backward(t)
      BY <1>7
    <2>2. /\ Longer(value', value) /\ grad' = grad /\ want' = want /\ tensor' = tensor /\ created' = created
          /\ level = 0 /\ arrived' = arrived
      BY <1>1, <2>1, BackwardLonger
    <2>3. p \in Params
      BY <2>2 DEF Params
    <2>4. BlocksPaired /\ OnceEach
      BY <1>3, PairingNow DEF Pairing
    <2>5. Even(p)
      BY <1>1, <2>3, <2>4 DEF Balance
    <2>6. p \in Ids
      BY <2>3, ParamsThere
    <2>7. Held(p) = want[p]
      BY <1>1, <2>2, <2>4, <2>5, <2>6, SettlingNow DEF Settling
    <2> QED
      BY <1>1, <2>2, <2>6, <2>7, HeldSame
  <1>8. ASSUME NEW e \in Engines, Run(e)
        PROVE  Held(p)' = want'[p]
    <2>1. level = e /\ e = 1 /\ phase[1] # "idle"
      <3>1. level = e
        BY <1>8 DEF Run, CollectInput, CollectDone, Collecting, StartVisits, VisitNothing, VisitOp, Visiting,
                    EndVisits, Commit, Return, Runs
      <3> QED
        BY <1>2, <1>5, <3>1 DEF Engines, ContextInv
    <2>2. ~Commit(e) /\ ~Return(e)
      <3>1. Commit(e) => phase[1] = "commit" /\ phase' = phase
        BY <2>1 DEF Commit, Runs, engineVars
      <3>2. Return(e) => phase'[1] = "idle"
        BY <2>1 DEF Return, Gone, Engines
      <3> QED
        BY <3>1, <3>2
    <2>3. CollectInput(e) \/ CollectDone(e) \/ StartVisits(e) \/ VisitNothing(e) \/ VisitOp(e) \/ EndVisits(e)
      BY <1>8, <2>2 DEF Run
    <2>4. Longer(value', value) /\ grad' = grad /\ want' = want /\ tensor' = tensor /\ created' = created
      BY <1>1, <2>3, RunLonger
    <2>5. phase[1] \in {"collect", "visit"}
      BY <2>1, <2>3 DEF CollectInput, CollectDone, Collecting, StartVisits, VisitNothing, VisitOp, Visiting,
                   EndVisits, Runs
    <2>6. p \in Params
      BY <2>4 DEF Params
    <2>7. Held(p) = want[p]
      BY <1>1, <1>3, <2>5, <2>6 DEF Clean
    <2>8. p \in Ids
      BY <2>6, ParamsThere
    <2> QED
      BY <1>1, <2>4, <2>7, <2>8, HeldSame
  <1>9. CASE UNCHANGED vars
    <2>1. /\ value' = value /\ grad' = grad /\ want' = want /\ tensor' = tensor /\ created' = created
          /\ phase' = phase
      BY <1>9 DEF vars, graphVars, ghostVars, runVars, engineVars
    <2>2. p \in Params
      BY <2>1 DEF Params
    <2>3. Held(p) = want[p]
      BY <1>1, <1>3, <2>1, <2>2 DEF Clean
    <2> QED
      BY <2>1, <2>3 DEF Held
  <1>10. ~Build /\ ~SetEnabled /\ ~ZeroGrad /\ ~Scale
    <2>1. Build => phase' = phase /\ level = 0
      BY DEF Build, Op, Add, View, Reversible, Make, Builds, Does, Idle, runVars, engineVars
    <2>2. SetEnabled => phase' = phase /\ level = 0
      BY DEF SetEnabled, Does, Idle, engineVars
    <2>3. ZeroGrad => phase' = phase /\ level = 0
      BY DEF ZeroGrad, Does, Idle, runVars, engineVars
    <2>4. Scale => phase' = phase /\ level = 0
      BY DEF Scale, Does, Idle, runVars, engineVars
    <2> QED
      BY <1>6, <2>1, <2>2, <2>3, <2>4
  <1>11. ~VisitBlock
    <2> SUFFICES ASSUME VisitBlock PROVE FALSE
      OBVIOUS
    <2>1. PICK s, n, b, x : BlockVisit(s, n, b, x)
      BY <1>2, BlockVisits
    <2>2. arrived'[n] = arrived[n] + 1 /\ n \in Ids
      BY <1>2, <2>1 DEF BlockVisit, ArrivedInv
    <2> QED
      BY <1>3, <2>2
  <1>12. ~Recompute /\ ~(\E part \in {1, 2} : Nested(part)) /\ ~Dispatch
    BY <1>4 DEF Recompute, Nested, Dispatch, Recomputing
  <1>13. ~Throw
    BY DEF Throw, Gone, Engines
  <1> QED
    BY <1>7, <1>8, <1>9, <1>10, <1>11, <1>12, <1>13 DEF Next

\* Between calls, with the blocks paired, a parameter is even when it holds what it should.
LEMMA EvenAtRest ==
  ASSUME Ready', exact', level' = 0, BlocksPaired', NEW p \in Ids, Held(p)' = want'[p]
  PROVE  Even(p)'
  <1>1. Settling'
    BY SettlingNext
  <1>2. \A q \in Ids : Even(q)' <=> Held(q)' = want'[q]
    BY <1>1 DEF Settling
  <1> QED
    BY <1>2

\* At rest, with the blocks paired, parameters hold what they should.
LEMMA HeldAtRest ==
  ASSUME Ready, exact, Balance, level = 0, BlocksPaired, NEW p \in Params
  PROVE  Held(p) = want[p]
  <1>1. OnceEach
    BY PairingNow DEF Pairing
  <1>2. Even(p) /\ p \in Ids
    BY <1>1, ParamsThere DEF Balance
  <1> QED
    BY <1>2, SettlingNow DEF Settling

\* Whatever is scaled or dropped.
LEMMA EvenZeroGrad ==
  ASSUME Ready, Ready', exact', NEW p \in Params, ZeroGrad
  PROVE  Even(p)'
  <1>1. /\ level' = 0 /\ UNCHANGED <<tensor, created, arrived>>
        /\ grad' = [t \in Ids |-> IF t \in Params THEN 0 ELSE grad[t]]
        /\ want' = [t \in Ids |-> IF t \in Params THEN 0 ELSE want[t]]
        /\ exact' = (exact /\ BlocksPaired)
    BY DEF ZeroGrad, Does, Idle, graphVars, runVars, contextVars
  <1>2. p \in Ids
    BY ParamsThere
  <1>3. grad'[p] = 0 /\ want'[p] = 0
    BY <1>1, <1>2
  <1>4. Held(p)' = 0
    BY <1>3 DEF Held
  <1>5. BlocksPaired'
    BY <1>1, PairedSame
  <1> QED
    BY <1>1, <1>2, <1>3, <1>4, <1>5, EvenAtRest

\* Gradients are scaled where they are, when no two share a buffer.
LEMMA EvenScale ==
  ASSUME Ready, Ready', Balance, exact', exact, NEW p \in Params, Scale
  PROVE  Even(p)'
  <1>1. /\ level = 0 /\ level' = 0 /\ UNCHANGED <<tensor, created, arrived>>
        /\ want' = [t \in Ids |-> IF t \in Params THEN 2 * want[t] ELSE want[t]]
    BY DEF Scale, Does, Idle, graphVars, runVars, contextVars
  <1>2. p \in Ids
    BY ParamsThere
  <1>3. BufferInv /\ GraphInv /\ value \in Seq(Nat)
    BY ReadyFacts
  <1>4. BlocksPaired /\ Held(p)' = 2 * Held(p)
    BY <1>3, ScaleGains
  <1>5. Held(p) = want[p]
    BY <1>1, <1>4, HeldAtRest
  <1>6. want'[p] = 2 * want[p]
    BY <1>1, <1>2
  <1>7. Held(p)' = want'[p]
    BY <1>4, <1>5, <1>6
  <1>8. BlocksPaired'
    BY <1>1, <1>4, PairedSame
  <1> QED
    BY <1>1, <1>2, <1>7, <1>8, EvenAtRest

\* Whatever fails, before the first node of a block has run.
LEMMA EvenThrow ==
  ASSUME Ready, Ready', Clean, exact', exact, NEW p \in Params, Throw
  PROVE  Even(p)'
  <1>1. /\ level' = 0 /\ UNCHANGED <<tensor, created, arrived, want>>
        /\ phase[1] = "visit" /\ arrived = None
    BY DEF Throw, graphVars
  <1>2. p \in Ids /\ p <= MaxTensors
    BY ParamsThere
  <1>3. BufferInv /\ BufferInv' /\ value \in Seq(Nat)
    BY ReadyFacts DEF Ready
  <1>4. Held(p)' = Held(p)
    BY <1>2, <1>3, ThrowKeeps
  <1>5. \A t \in Ids : arrived[t] = 0
    BY <1>1 DEF None
  <1>6. Held(p) = want[p]
    BY <1>1, <1>5 DEF Clean
  <1>7. BlocksPaired'
    <2>1. BlocksPaired
      BY <1>5, PairingNow DEF Pairing
    <2> QED
      BY <1>1, <2>1, PairedSame
  <1> QED
    BY <1>1, <1>2, <1>4, <1>6, <1>7, EvenAtRest

\* What is built before the first gradient is made, and what was there then.
LEMMA BuildKeeps ==
  ASSUME AllInv, Build
  PROVE  /\ \A t \in 1 .. created : tensor'[t] = tensor[t]
         /\ value = <<>> /\ level = 0 /\ UNCHANGED <<grad, level, arrived, want, exact>>
  <1>1. GraphInv
    BY DEF AllInv, OrderInv
  <1>2. created \in Nat /\ tensor \in [Ids -> TensorType] /\ \A t \in 1 .. created : t \in Ids
    BY <1>1, CreatedFacts DEF GraphInv
  <1>3. ASSUME NEW call, NEW r, Make(call, r)
        PROVE  /\ \A t \in 1 .. created : tensor'[t] = tensor[t]
               /\ value = <<>> /\ level = 0 /\ UNCHANGED <<grad, level, arrived, want, exact>>
    <2>1. /\ tensor' = [tensor EXCEPT ![created + 1] = r] /\ value = <<>> /\ level = 0
          /\ UNCHANGED <<grad, level, arrived, want, exact>>
      BY <1>3 DEF Make, Builds, Does, Idle, runVars, contextVars
    <2>2. \A t \in 1 .. created : t # created + 1
      BY <1>2
    <2> QED
      BY <1>2, <2>1, <2>2
  <1>4. ASSUME NEW a, NEW b, Reversible(a, b)
        PROVE  /\ \A t \in 1 .. created : tensor'[t] = tensor[t]
               /\ value = <<>> /\ level = 0 /\ UNCHANGED <<grad, level, arrived, want, exact>>
    <2> DEFINE y1 == created + 3
               out(op, id) == Result(op, <<a, b>>, id, enabled, TRUE)
    <2>1. tensor' = [tensor EXCEPT ![y1 - 2] = Leaf(TRUE), ![y1 - 1] = Leaf(TRUE),
                                   ![y1] = out("rev1", y1), ![y1 + 1] = out("rev2", y1 + 1)]
      BY <1>4 DEF Reversible
    <2> HIDE DEF out
    <2>2. value = <<>> /\ level = 0 /\ UNCHANGED <<grad, level, arrived, want, exact>>
      BY <1>4 DEF Reversible, Builds, Does, Idle, runVars, contextVars
    <2>3. \A t \in 1 .. created :
             t # y1 - 2 /\ t # y1 - 1 /\ t # y1 /\ t # y1 + 1
      BY <1>2
    <2> HIDE DEF y1
    <2>4. \A t \in 1 .. created : tensor'[t] = tensor[t]
      BY <1>2, <2>1, <2>3, ZenonT(30)
    <2> QED
      BY <2>2, <2>4
  <1> QED
    BY <1>3, <1>4 DEF Build, Op, Add, View

\* Graphs are built before the first gradient: nothing is held, nothing is due.
LEMMA EvenBuild ==
  ASSUME Ready, Ready', Balance, exact, exact', Build, NEW p \in Params'
  PROVE  Even(p)'
  <1>1. /\ \A t \in 1 .. created : tensor'[t] = tensor[t]
        /\ value = <<>> /\ level = 0 /\ UNCHANGED <<grad, level, arrived, want, exact>>
    BY ReadyFacts, BuildKeeps
  <1>2. \A t \in Ids : arrived[t] = 0 /\ grad[t] = 0
    BY <1>1, ReadyFacts, NothingArrived
  <1>3. BlocksPaired /\ BlocksPaired'
    <2>1. \A t \in Ids : arrived'[t] = 0
      BY <1>1, <1>2
    <2>2. Pairing /\ Pairing'
      BY PairingNow, PairingNext
    <2> QED
      BY <1>2, <2>1, <2>2 DEF Pairing
  <1>4. p \in 1 .. created' /\ tensor'[p].op = "leaf" /\ tensor'[p].rg
    BY DEF Params
  <1>5. /\ created' \in Nat /\ created' <= MaxTensors /\ created \in Nat
    <2>1. GraphInv' /\ GraphInv
      BY ReadyFacts DEF Ready, AllInv, OrderInv
    <2>2. created' \in 2 .. MaxTensors /\ created \in 2 .. MaxTensors
      BY <2>1 DEF GraphInv
    <2> QED
      BY <2>2, IdsFacts
  <1>6. p \in Nat /\ 1 <= p /\ p <= MaxTensors
    BY <1>4, <1>5, IdsFacts
  <1>7. p \in Ids
    BY <1>6, IdsFacts
  <1>8. want[p] = 0
    <2>1. CASE p <= created
      <3>1. p \in 1 .. created
        BY <1>5, <1>6, <2>1
      <3>2. p \in Params
        BY <1>1, <1>4, <3>1 DEF Params
      <3>3. Held(p) = want[p]
        BY <1>1, <1>3, <3>2, HeldAtRest
      <3> QED
        BY <1>2, <1>7, <3>3 DEF Held
    <2>2. CASE created < p
      BY <1>6, <1>7, <2>2, ReadyFacts DEF AmountInv
    <2> QED
      BY <1>5, <1>6, <2>1, <2>2
  <1>9. Held(p)' = want'[p]
    BY <1>1, <1>2, <1>7, <1>8 DEF Held
  <1> QED
    BY <1>1, <1>3, <1>7, <1>9, EvenAtRest

\* Every step keeps the balance.
LEMMA BalanceStep ==
  ASSUME Ready, Ready', Balance, Clean, [Next]_vars
  PROVE  Balance'
  <1> SUFFICES ASSUME exact', OnceEach', NEW p \in Params'
               PROVE  Even(p)'
    BY DEF Balance
  <1>1. exact
    BY ExactBefore
  <1>2. AllInv /\ GraphShape /\ ArrivedInv /\ ContextInv /\ RecomputeInv /\ GraphInv /\ BufferInv
    BY ReadyFacts
  <1>3. OnceEach
    <2> SUFFICES ASSUME NEW t \in Ids PROVE arrived[t] <= 1
      BY DEF OnceEach
    <2>1. arrived[t] \in Nat /\ arrived[t] <= arrived'[t] /\ arrived'[t] <= 1 /\ arrived'[t] \in Nat
      <3>1. ArrivedInv'
        BY DEF Ready
      <3> QED
        BY <1>2, <3>1, ArrivedGrows DEF ArrivedInv, OnceEach
    <2> QED
      BY <2>1
  <1>4. CASE Build
    BY <1>1, <1>4, EvenBuild
  <1>5. CASE ~Build
    <2>1. p \in Params
      <3>1. CASE UNCHANGED <<tensor, created>>
        BY <3>1 DEF Params
      <3>2. CASE Recompute
        <4>1. step # "idle"
          BY <3>2 DEF Recompute, Recomputing
        <4>2. BlockThere
          BY <1>2, <4>1, RecomputeThere
        <4>3. created' = created /\ \A t \in Ids : t <= MaxTensors => tensor'[t] = tensor[t]
          BY <1>2, <3>2, <4>2, RecomputeGraph DEF Recompute
        <4>4. p \in 1 .. created /\ p \in Ids /\ p <= MaxTensors
          <5>1. p \in 1 .. created
            BY <4>3 DEF Params
          <5>2. created \in Nat /\ created <= MaxTensors /\ MaxTensors \in Nat
            BY <1>2, IdsFacts DEF GraphInv
          <5> QED
            BY <5>1, <5>2, IdsFacts
        <4> QED
          BY <4>3, <4>4 DEF Params
      <3> QED
        BY <1>5, <3>1, <3>2, GraphSteps
    <2>2. Even(p)
      BY <1>1, <1>3, <2>1 DEF Balance
    <2>3. Stepping(p)
      BY <1>1, <1>3, <2>1, <2>2 DEF Stepping
    <2>4. CASE SetEnabled \/ UNCHANGED vars
      BY <2>3, <2>4, EvenSetEnabled
    <2>5. CASE ZeroGrad
      BY <2>1, <2>5, EvenZeroGrad
    <2>6. CASE Scale
      BY <1>1, <2>1, <2>6, EvenScale
    <2>7. CASE Throw
      BY <1>1, <2>1, <2>7, EvenThrow
    <2>8. ASSUME NEW t \in 1 .. created, Backward(t)
          PROVE  Even(p)'
      BY <2>3, <2>8, EvenBackward
    <2>9. ASSUME NEW e \in Engines, Run(e)
          PROVE  Even(p)'
      BY <2>3, <2>9, EvenCollect, EvenStarts, EvenNothing, EvenVisitOp, EvenEnds, EvenCommits, EvenReturns
         DEF Run
    <2>10. CASE VisitBlock
      BY <2>3, <2>10, EvenVisitBlock
    <2>11. CASE Recompute
      BY <2>3, <2>11, EvenRecomputes
    <2>12. ASSUME NEW part \in {1, 2}, Nested(part)
           PROVE  Even(p)'
      BY <2>3, <2>12, EvenNested
    <2>13. CASE Dispatch
      BY <2>3, <2>13, EvenDispatch
    <2> QED
      BY <1>5, <2>4, <2>5, <2>6, <2>7, <2>8, <2>9, <2>10, <2>11, <2>12, <2>13 DEF Next
  <1> QED
    BY <1>4, <1>5

\* At first nothing is held, and nothing owed.
LEMMA ExactInit == Init => Ready /\ Balance /\ Clean
  <1> SUFFICES ASSUME Init PROVE Ready /\ Balance /\ Clean
    OBVIOUS
  <1>1. AllInv
    BY ContextInit, OrderInit DEF AllInv, Init
  <1>2. BufferInv
    BY BufferInit
  <1>3. \A t \in Ids : tensor[t] = Leaf(TRUE) \/ tensor[t] = Leaf(FALSE)
    BY DEF Init
  <1>4. \A t \in Ids : t # 2 => tensor[t] = Leaf(TRUE)
    BY DEF Init
  <1>5. \A t \in Ids : tensor[t].op = "leaf" /\ tensor[t].fn = 0
    BY <1>3, LeafFacts
  <1>6. GraphShape
    <2>1. \A t \in created + 1 .. MaxTensors : tensor[t] = Leaf(TRUE)
      <3> SUFFICES ASSUME NEW t \in created + 1 .. MaxTensors PROVE tensor[t] = Leaf(TRUE)
        OBVIOUS
      <3>1. created = 2
        BY DEF Init
      <3>2. t \in Ids /\ t # 2
        BY <3>1, IdsFacts
      <3> QED
        BY <1>4, <3>2
    <2> QED
      BY <1>5, <2>1 DEF GraphShape
  <1>7. RecomputeInv
    BY IdsFacts DEF Init, RecomputeInv, None
  <1>8. ArrivedInv
    <2>1. arrived = None /\ \A t \in Ids : arrived[t] = 0
      BY DEF Init, None
    <2> QED
      BY <1>5, <2>1 DEF ArrivedInv, None
  <1>9. WorkInv
    BY DEF Init, WorkInv, None, Engines
  <1>10. AmountInv
    BY DEF Init, AmountInv, None, Engines
  <1>11. Ready
    BY <1>1, <1>2, <1>6, <1>7, <1>8, <1>9, <1>10 DEF Ready
  <1>12. exact /\ level = 0 /\ (\A t \in Ids : arrived[t] = 0 /\ Held(t) = 0 /\ want[t] = 0)
         /\ phase[1] = "idle"
    BY DEF Init, None, Held, Engines
  <1>13. BlocksPaired
    BY <1>11, <1>12, PairingNow DEF Pairing
  <1>14. \A p \in Params : Even(p)
    BY <1>11, <1>12, <1>13, ParamsThere, SettlingNow DEF Settling
  <1> QED
    BY <1>11, <1>12, <1>14 DEF Balance, Clean

\* Every step keeps the invariant.
LEMMA ReadyStep ==
  ASSUME Ready, AllInv', [Next]_vars
  PROVE  Ready'
  <1>1. AllInv /\ BufferInv /\ GraphShape /\ RecomputeInv /\ ArrivedInv /\ WorkInv /\ AmountInv
    BY ReadyFacts
  <1>2. BufferInv'
    BY <1>1, BufferStep
  <1>3. GraphShape'
    BY <1>1, ShapeStep
  <1>4. ArrivedInv'
    BY <1>1, <1>3, ArrivedStep
  <1>5. RecomputeInv'
    BY <1>1, <1>4, RecomputeStep
  <1>6. WorkInv'
    BY <1>1, WorkStep
  <1>7. AmountInv'
    BY <1>1, <1>2, AmountStep
  <1> QED
    BY <1>2, <1>3, <1>4, <1>5, <1>6, <1>7 DEF Ready

\* The inductive invariant.
ExactInv == Ready /\ Balance /\ Clean

\* It holds of every behaviour.
LEMMA ExactAlways == Spec => []ExactInv
  <1>1. Init => ExactInv
    BY ExactInit DEF ExactInv
  <1>2. ExactInv /\ AllInv' /\ [Next]_vars => ExactInv'
    BY ReadyStep, BalanceStep, CleanStep DEF ExactInv
  <1> QED
    BY <1>1, <1>2, AllAlways, PTL DEF Spec

(* Between calls of backward, as long as no block has run by halves, every *)
(* parameter holds the sum of the derivatives of what backward was called  *)
(* on: through inputs shared or used twice, views, blocks and recomputes,  *)
(* after failures, dropped and scaled gradients, in every graph.           *)
THEOREM GradsExactAlways == Spec => []GradsExact
  <1>1. ExactInv => GradsExact
    BY HeldAtRest DEF ExactInv, GradsExact, Idle
  <1> QED
    BY <1>1, ExactAlways, PTL

(* A block of which only one output has passed its gradient on keeps       *)
(* gradients back, and never adds one that is not due.                     *)
THEOREM HalfBlockAlways == Spec => []HalfBlockOnlyLacks
  <1>1. ASSUME ExactInv, Idle, exact, \A t \in Ids : arrived[t] <= 1, NEW p \in Params
        PROVE  Held(p) <= want[p]
    <2>1. Ready /\ Balance /\ OnceEach /\ level = 0
      BY <1>1 DEF ExactInv, OnceEach, Idle
    <2>2. Even(p) /\ p \in Ids
      BY <1>1, <2>1, ParamsThere DEF Balance
    <2> QED
      BY <1>1, <2>1, <2>2, SettlingNow DEF Settling
  <1>2. ExactInv => HalfBlockOnlyLacks
    BY <1>1 DEF HalfBlockOnlyLacks
  <1> QED
    BY <1>2, ExactAlways, PTL

=============================================================================
