---------------------------- MODULE SetInduction ----------------------------
(***************************************************************************)
(* Induction over the natural numbers in the form the proofs of this       *)
(* project use: about sets of numbers, so that no step has to instantiate  *)
(* an operator.                                                            *)
(***************************************************************************)
EXTENDS Integers, FiniteSetsExt, WellFoundedInduction, TLAPS

(* A non-empty set of natural numbers has a least element. *)
LEMMA LeastNumber ==
    ASSUME NEW T, T \subseteq Nat, T # {}
    PROVE  \E m \in T : \A n \in T : m <= n
<1> DEFINE R == {ss \in Nat \X Nat : ss[1] < ss[2]}
<1>1. R = OpToRel(<, Nat)
  BY Zenon DEF OpToRel
<1>2. IsWellFoundedOn(R, Nat)
  BY <1>1, NatLessThanWellFounded, Zenon
<1>3. PICK x \in T : \A y \in T : ~ (<<y, x>> \in R)
  BY <1>2, WFMin, Zenon
<1>4. ASSUME NEW y \in T PROVE x <= y
  <2>1. <<y, x>> \in Nat \X Nat /\ x \in Nat /\ y \in Nat
    OBVIOUS
  <2>2. <<y, x>>[1] = y /\ <<y, x>>[2] = x
    OBVIOUS
  <2>3. ~(y < x)
    BY <1>3, <2>1, <2>2, Zenon
  <2> QED BY <2>1, <2>3
<1> QED BY <1>4

(* A set with 0 and with the successor of each of its numbers has them all.*)
LEMMA SetInduction ==
    ASSUME NEW S, 0 \in S, \A n \in Nat : n \in S => n + 1 \in S
    PROVE  Nat \subseteq S
<1> SUFFICES ASSUME Nat \ S # {} PROVE FALSE
  OBVIOUS
<1>1. PICK m \in Nat \ S : \A n \in Nat \ S : m <= n
  BY LeastNumber
<1>2. m # 0 /\ m - 1 \in Nat /\ m - 1 < m
  BY <1>1
<1>3. m - 1 \in S
  BY <1>1, <1>2
<1> QED BY <1>1, <1>2, <1>3

(* Max and Min of a non-empty bounded set of numbers are in it and bound it.*)
LEMMA MinBounds ==
    ASSUME NEW S, S \subseteq Nat, S # {}
    PROVE  Min(S) \in S /\ \A y \in S : Min(S) <= y
<1>1. \E x \in S : \A y \in S : x <= y
  BY LeastNumber
<1> QED BY <1>1 DEF Min

(* A bounded set of numbers has its greatest. *)
LEMMA MaxBounds ==
    ASSUME NEW n \in Nat, NEW S, S \subseteq 0 .. n, S # {}
    PROVE  Max(S) \in S /\ \A y \in S : Max(S) >= y
<1> DEFINE T == {m \in Nat : n - m \in S}
<1>1. PICK s : s \in S
  OBVIOUS
<1>2. n - s \in T
  BY <1>1
<1>3. PICK m \in T : \A k \in T : m <= k
  BY <1>2, LeastNumber
<1>4. ASSUME NEW y \in S PROVE n - m >= y
  <2>1. n - y \in T
    BY <1>4
  <2> QED BY <1>3, <1>4, <2>1
<1>5. \E x \in S : \A y \in S : x >= y
  BY <1>3, <1>4
<1> QED BY <1>5 DEF Max

-----------------------------------------------------------------------------
(* Recursion.  A sequence of numbers that starts with a and has step[k + 1] *)
(* of its number at k at k + 1, and its initial pieces.                    *)
Following(step, k, v) == step[k + 1][v]

Steps(step) == \A k, v \in Nat : Following(step, k, v) \in Nat

Piece(h, n, a, step) ==
    /\ h \in [0 .. n -> Nat] /\ h[0] = a
    /\ \A k \in Nat : k < n => h[k + 1] = Following(step, k, h[k])

(* There is a piece of every length ... *)
LEMMA PieceExists ==
    ASSUME NEW a \in Nat, NEW step, Steps(step), NEW n \in Nat
    PROVE  \E h : Piece(h, n, a, step)
<1> DEFINE S == {m \in Nat : \E h : Piece(h, m, a, step)}
<1>1. 0 \in S
  <2> DEFINE h == [k \in 0 .. 0 |-> a]
  <2>1. Piece(h, 0, a, step)
    BY DEF Piece
  <2> QED BY <2>1
<1>2. ASSUME NEW m \in Nat, m \in S PROVE m + 1 \in S
  <2>1. PICK h : Piece(h, m, a, step)
    BY <1>2
  <2> DEFINE g == [k \in 0 .. m + 1 |-> IF k <= m THEN h[k] ELSE Following(step, m, h[m])]
  <2>2. h[m] \in Nat /\ Following(step, m, h[m]) \in Nat
    BY <2>1 DEF Piece, Steps
  <2>3. g \in [0 .. m + 1 -> Nat] /\ g[0] = a
    BY <2>1, <2>2 DEF Piece
  <2>4. ASSUME NEW k \in Nat, k < m + 1 PROVE g[k + 1] = Following(step, k, g[k])
    <3>1. g[k] = h[k]
      BY <2>4
    <3>2. CASE k < m
      BY <2>1, <2>4, <3>1, <3>2 DEF Piece
    <3>3. CASE k = m
      BY <3>1, <3>3
    <3> QED BY <2>4, <3>2, <3>3
  <2> HIDE DEF g
  <2>5. Piece(g, m + 1, a, step)
    BY <2>3, <2>4 DEF Piece
  <2> QED BY <2>5
<1> HIDE DEF S
<1>3. Nat \subseteq S
  BY <1>1, <1>2, SetInduction
<1> QED BY <1>3 DEF S

(* ... and two pieces agree where both are. *)
LEMMA PiecesAgree ==
    ASSUME NEW a \in Nat, NEW step, Steps(step), NEW n \in Nat, NEW m \in Nat,
           NEW g, Piece(g, n, a, step), NEW h, Piece(h, m, a, step),
           NEW k \in Nat, k <= n, k <= m
    PROVE  g[k] = h[k]
<1> DEFINE S == {i \in Nat : i <= n /\ i <= m => g[i] = h[i]}
<1>1. 0 \in S
  BY DEF Piece
<1>2. ASSUME NEW i \in Nat, i \in S PROVE i + 1 \in S
  BY <1>2 DEF Piece, Steps
<1> HIDE DEF S
<1>3. Nat \subseteq S
  BY <1>1, <1>2, SetInduction
<1> QED BY <1>3 DEF S

Sequence(g, a, step) ==
    g \in [Nat -> Nat] /\ g[0] = a /\ \A k \in Nat : g[k + 1] = Following(step, k, g[k])

(* So the whole sequence exists. *)
LEMMA Recursion ==
    ASSUME NEW a \in Nat, NEW step, Steps(step)
    PROVE  \E g : Sequence(g, a, step)
<1> DEFINE P(n) == CHOOSE h : Piece(h, n, a, step)
           g == [n \in Nat |-> P(n)[n]]
<1>1. ASSUME NEW n \in Nat PROVE Piece(P(n), n, a, step)
  BY PieceExists
<1> HIDE DEF P
<1>2. g \in [Nat -> Nat]
  <2>1. ASSUME NEW n \in Nat PROVE P(n)[n] \in Nat
    BY <1>1 DEF Piece
  <2> QED BY <2>1
<1>3. g[0] = a
  BY <1>1 DEF Piece
<1>4. ASSUME NEW k \in Nat PROVE g[k + 1] = Following(step, k, g[k])
  <2>1. Piece(P(k), k, a, step) /\ Piece(P(k + 1), k + 1, a, step)
    BY <1>1
  <2>2. P(k)[k] = P(k + 1)[k]
    BY <2>1, PiecesAgree
  <2>3. P(k + 1)[k + 1] = Following(step, k, P(k + 1)[k])
    BY <2>1 DEF Piece
  <2> QED BY <2>2, <2>3
<1> HIDE DEF g
<1>5. Sequence(g, a, step)
  BY <1>2, <1>3, <1>4 DEF Sequence
<1> QED BY <1>5

=============================================================================
