--------------------------- MODULE ReadEpochProofs ---------------------------
(***************************************************************************)
(* Theorems about ReadEpoch for every window width, every modulus and      *)
(* every range of record numbers.                                          *)
(***************************************************************************)
EXTENDS ReadEpoch, TLAPS

(* The inductive invariant. *)
IInv == TypeOK /\ WindowMirrorsHistory /\ AtMostOnce

(* A record the window lets through has not been delivered: what check     *)
(* promises about the history.                                             *)
LEMMA CheckedIsNew ==
    ASSUME TypeOK, WindowMirrorsHistory, NEW n \in SeqNos, check(n)
    PROVE  delivered[n] = 0
<1> USE WindowAssumption, MaskAssumption DEF WindowAssumption, MaskAssumption
<1>1. CASE ~seeded
  BY <1>1 DEF WindowMirrorsHistory
<1>2. CASE seeded /\ n > highest
  BY <1>2 DEF WindowMirrorsHistory
<1>3. CASE seeded /\ n <= highest
  BY <1>3 DEF WindowMirrorsHistory, check, TypeOK, SeqNos
<1> QED BY <1>1, <1>2, <1>3 DEF TypeOK, SeqNos

(* Every step keeps the ranges. *)
LEMMA TypeStep == TypeOK /\ [Next]_vars => TypeOK'
<1> USE WindowAssumption, MaskAssumption DEF WindowAssumption, MaskAssumption
<1> SUFFICES ASSUME TypeOK, [Next]_vars PROVE TypeOK'
  OBVIOUS
<1>1. CASE Send
  BY <1>1 DEF Send, TypeOK, window, SeqNos
<1>2. ASSUME NEW n \in Sent, Receive(n) PROVE TypeOK'
  <2>1. n \in SeqNos
    BY DEF Sent, TypeOK, SeqNos
  <2>2. bitmap' \subseteq Distances
    <3>1. 0 \in Distances
      BY DEF Distances
    <3>2. Shifted(n - highest) \subseteq Distances
      BY DEF Shifted
    <3>3. bitmap \subseteq Distances
      BY DEF TypeOK
    <3>4. mark(n)
      BY <1>2 DEF Receive
    <3> QED BY <3>1, <3>2, <3>3, <3>4 DEF mark
  <2>3. highest' \in SeqNos /\ seeded' \in BOOLEAN /\ seq' \in SeqNos
    BY <1>2, <2>1 DEF Receive, mark, TypeOK
  <2>4. delivered' \in [SeqNos -> Nat] /\ next' = next
    BY <1>2, <2>1 DEF Receive, TypeOK
  <2> QED BY <2>2, <2>3, <2>4 DEF TypeOK
<1>3. ASSUME NEW low \in 0 .. SEQ_MODULUS - 1, RejectForged(low) PROVE TypeOK'
  BY <1>3 DEF RejectForged, vars, TypeOK
<1>4. CASE UNCHANGED vars
  BY <1>4 DEF vars, TypeOK
<1> QED BY <1>1, <1>2, <1>3, <1>4 DEF Next

(* Every step keeps the correspondence between the bits and the history,   *)
(* and delivers no record a second time.                                   *)
LEMMA MirrorStep == IInv /\ [Next]_vars => WindowMirrorsHistory' /\ AtMostOnce'
<1> USE WindowAssumption, MaskAssumption DEF WindowAssumption, MaskAssumption
<1> SUFFICES ASSUME IInv, [Next]_vars PROVE WindowMirrorsHistory' /\ AtMostOnce'
  OBVIOUS
<1>1. CASE Send
  BY <1>1 DEF Send, IInv, WindowMirrorsHistory, AtMostOnce, window
<1>2. ASSUME NEW n \in Sent, Receive(n)
      PROVE  WindowMirrorsHistory' /\ AtMostOnce'
  <2>1. n \in SeqNos
    BY DEF Sent, IInv, TypeOK, SeqNos
  <2>2. delivered[n] = 0
    BY <1>2, <2>1, CheckedIsNew DEF Receive, IInv
  <2>3. \A m \in SeqNos : delivered'[m] = IF m = n THEN 1 ELSE delivered[m]
    BY <1>2, <2>1, <2>2 DEF Receive, IInv, TypeOK
  <2>4. AtMostOnce'
    BY <2>3 DEF IInv, AtMostOnce
  <2>5. seeded' = TRUE
    BY <1>2 DEF Receive, mark
  <2>6. highest' = seq' /\ \A m \in SeqNos : m > highest' => delivered'[m] = 0
    <3>1. CASE ~seeded
      BY <1>2, <2>1, <2>3, <3>1
      DEF Receive, mark, IInv, WindowMirrorsHistory, TypeOK, SeqNos
    <3>2. CASE seeded
      BY <1>2, <2>1, <2>3, <3>2
      DEF Receive, mark, IInv, WindowMirrorsHistory, TypeOK, SeqNos
    <3> QED BY <3>1, <3>2
  <2>7. ASSUME NEW m \in SeqNos, m <= highest', highest' - m < WINDOW_BITS
        PROVE  highest' - m \in bitmap' <=> delivered'[m] > 0
    <3>1. CASE ~seeded
      BY <1>2, <2>1, <2>3, <2>7, <3>1
      DEF Receive, mark, IInv, WindowMirrorsHistory, TypeOK, SeqNos
    <3>2. CASE seeded /\ n > highest
      <4>1. highest' = n /\ bitmap' = Shifted(n - highest) \cup {0}
        BY <1>2, <2>1, <3>2 DEF Receive, mark, IInv, TypeOK, SeqNos
      <4>2. CASE m = n
        BY <2>1, <2>3, <4>1, <4>2 DEF SeqNos
      <4>3. CASE m # n /\ m > highest
        BY <2>1, <2>3, <2>7, <3>2, <4>1, <4>3
        DEF Shifted, Distances, IInv, TypeOK, SeqNos, WindowMirrorsHistory
      <4>4. CASE m <= highest
        <5>1. highest' - m \in Distances /\ highest' - m # 0
          BY <2>1, <2>7, <3>2, <4>1, <4>4 DEF Distances, IInv, TypeOK, SeqNos
        <5>2. (highest' - m) - (n - highest) = highest - m
          BY <2>1, <4>1 DEF IInv, TypeOK, SeqNos
        <5>3. highest' - m \in bitmap' <=> highest - m \in bitmap
          BY <4>1, <5>1, <5>2 DEF Shifted
        <5>4. highest - m < WINDOW_BITS /\ m # n
          BY <2>1, <2>7, <3>2, <4>1, <4>4 DEF IInv, TypeOK, SeqNos
        <5> QED BY <2>3, <3>2, <4>4, <5>3, <5>4 DEF IInv, WindowMirrorsHistory
      <4> QED BY <2>1, <4>2, <4>3, <4>4 DEF IInv, TypeOK, SeqNos
    <3>3. CASE seeded /\ n <= highest
      <4>1. highest' = highest /\ bitmap' = bitmap \cup ({highest - n} \cap Distances)
        BY <1>2, <2>1, <3>3 DEF Receive, mark, IInv, TypeOK, SeqNos
      <4>2. CASE m = n
        BY <2>1, <2>3, <2>7, <3>3, <4>1, <4>2 DEF IInv, TypeOK, SeqNos, Distances
      <4>3. CASE m # n
        <5>1. highest - m # highest - n
          BY <2>1, <4>3 DEF IInv, TypeOK, SeqNos
        <5> QED BY <2>3, <2>7, <3>3, <4>1, <4>3, <5>1 DEF IInv, WindowMirrorsHistory
      <4> QED BY <4>2, <4>3
    <3> QED BY <2>1, <3>1, <3>2, <3>3 DEF IInv, TypeOK, SeqNos
  <2> QED BY <2>4, <2>5, <2>6, <2>7 DEF WindowMirrorsHistory
<1>3. ASSUME NEW low \in 0 .. SEQ_MODULUS - 1, RejectForged(low)
      PROVE  WindowMirrorsHistory' /\ AtMostOnce'
  BY <1>3 DEF RejectForged, vars, IInv, WindowMirrorsHistory, AtMostOnce
<1>4. CASE UNCHANGED vars
  BY <1>4 DEF vars, IInv, WindowMirrorsHistory, AtMostOnce
<1> QED BY <1>1, <1>2, <1>3, <1>4 DEF Next

(* IInv holds in every reachable state. *)
THEOREM Invariance == Spec => []IInv
<1>1. Init => IInv
  <2> SUFFICES ASSUME Init PROVE IInv
    OBVIOUS
  <2>1. \A n \in SeqNos : delivered[n] = 0
    BY DEF Init
  <2>2. TypeOK
    <3>1. 0 \in SeqNos /\ 0 \in 0 .. SEQ_MASK + 1
      BY MaskAssumption DEF MaskAssumption, SeqNos
    <3>2. delivered \in [SeqNos -> Nat]
      BY DEF Init
    <3>3. seeded \in BOOLEAN /\ bitmap \subseteq Distances
      BY DEF Init
    <3> QED BY <3>1, <3>2, <3>3 DEF Init, TypeOK
  <2>3. WindowMirrorsHistory /\ AtMostOnce
    BY <2>1 DEF Init, WindowMirrorsHistory, AtMostOnce
  <2> QED BY <2>2, <2>3 DEF IInv
<1>2. IInv /\ [Next]_vars => IInv'
  BY TypeStep, MirrorStep DEF IInv
<1> QED BY <1>1, <1>2, PTL DEF Spec

(* The window's fields keep their ranges: the bitmap never outgrows the    *)
(* width that AntiReplayWindow gives it.                                   *)
THEOREM TypeCorrect == Spec => []TypeOK
BY Invariance, PTL DEF IInv

(* The sliding bitmap is the delivery history seen from the head: a bit is *)
(* set exactly where a record inside the window was delivered, whichever   *)
(* shifts brought it there (replay.rs, mark).                              *)
THEOREM BitmapIsHistory == Spec => []WindowMirrorsHistory
BY Invariance, PTL DEF IInv

(* No record is delivered twice, for every width of the window and every   *)
(* order, duplication and loss of records (replay.rs).                     *)
THEOREM ReplaySafety == Spec => []AtMostOnce
BY Invariance, PTL DEF IInv

(* A genuine undelivered record inside the window is never turned away,    *)
(* whatever forged records arrived before it.                              *)
THEOREM NoFalseRejection == Spec => []InWindowAccepted
<1> USE WindowAssumption, MaskAssumption DEF WindowAssumption, MaskAssumption
<1>1. IInv => InWindowAccepted
  BY DEF IInv, InWindowAccepted, WindowMirrorsHistory, check, Sent, TypeOK, SeqNos
<1> QED BY Invariance, <1>1, PTL

-----------------------------------------------------------------------------
(* Division with remainder by the modulus. *)
LEMMA DivMod ==
    ASSUME NEW n \in Nat
    PROVE  /\ n = SEQ_MODULUS * (n \div SEQ_MODULUS) + (n % SEQ_MODULUS)
           /\ n % SEQ_MODULUS \in 0 .. SEQ_MODULUS - 1
           /\ n \div SEQ_MODULUS \in Int
BY ModulusAssumption DEF ModulusAssumption

(* Two blocks apart is at least two moduli apart, above ... *)
LEMMA TwoBlocksAbove ==
    ASSUME NEW k \in Int, k >= 2
    PROVE  SEQ_MODULUS * k >= 2 * SEQ_MODULUS
BY ModulusAssumption DEF ModulusAssumption

(* ... and below. *)
LEMMA TwoBlocksBelow ==
    ASSUME NEW k \in Int, k <= -2
    PROVE  SEQ_MODULUS * k <= -(2 * SEQ_MODULUS)
BY ModulusAssumption DEF ModulusAssumption

(* reconstruct_seq inverts the truncation to the low bits for every number *)
(* fewer than half a modulus away from the expected one: the two lie in    *)
(* the same block or in neighbouring ones, and of the three candidates the *)
(* number itself is the closest.                                           *)
LEMMA ReconstructInverts ==
    ASSUME NEW n \in SeqNos, NEW e \in Nat, 2 * Abs(n - e) < SEQ_MODULUS
    PROVE  reconstruct_seq(n % SEQ_MODULUS, e) = n
<1> DEFINE k == (n \div SEQ_MODULUS) - (e \div SEQ_MODULUS)
           r == e % SEQ_MODULUS
           low == n % SEQ_MODULUS
           p == SEQ_MODULUS * k
<1>1. /\ SEQ_MODULUS \in Nat /\ SEQ_MODULUS > 0
      /\ SEQ_MASK \in Nat /\ n \in Nat /\ n <= SEQ_MASK
  BY ModulusAssumption, MaskAssumption DEF ModulusAssumption, MaskAssumption, SeqNos
<1>2. k \in Int /\ r \in 0 .. SEQ_MODULUS - 1 /\ low \in 0 .. SEQ_MODULUS - 1
  BY <1>1, DivMod
<1>3. n - e = p + (low - r)
  <2>1. /\ n = SEQ_MODULUS * (n \div SEQ_MODULUS) + low
        /\ e = SEQ_MODULUS * (e \div SEQ_MODULUS) + r
    BY <1>1, DivMod
  <2>2. p = SEQ_MODULUS * (n \div SEQ_MODULUS) - SEQ_MODULUS * (e \div SEQ_MODULUS)
    BY <1>1, DivMod
  <2> QED BY <1>1, <1>2, <2>1, <2>2
<1>4. p \in Int
  BY <1>1, <1>2
<1>5. k = 1 \/ k = 0 \/ k = -1
  <2>1. k >= 2 => p >= 2 * SEQ_MODULUS
    BY <1>2, TwoBlocksAbove
  <2>2. k <= -2 => p <= -(2 * SEQ_MODULUS)
    BY <1>2, TwoBlocksBelow
  <2> HIDE DEF p
  <2> QED BY <1>1, <1>2, <1>3, <1>4, <2>1, <2>2 DEF Abs
<1>6. p = SEQ_MODULUS \/ p = 0 \/ p = -SEQ_MODULUS
  BY <1>1, <1>5
<1> HIDE DEF p, k, r, low
<1>7. reconstruct_seq(low, e) = n
  BY <1>1, <1>2, <1>3, <1>6 DEF reconstruct_seq, Abs, r
<1> QED BY <1>7 DEF low

(* In every reachable state a genuine record fewer than half a modulus     *)
(* from the expected number is read under its own number, so the AEAD can  *)
(* open it: neither loss nor reordering inside that distance desynchronises*)
(* the reader (record13.rs, reconstruct_seq).                              *)
THEOREM Reconstruction == Spec => []NearbyReconstructs
<1>1. TypeOK => NearbyReconstructs
  <2> SUFFICES ASSUME TypeOK, NEW n \in Sent, 2 * Abs(n - (seq + 1)) < SEQ_MODULUS
               PROVE  Reconstructed(n) = n
    BY DEF NearbyReconstructs
  <2>1. n \in SeqNos /\ seq + 1 \in Nat
    BY MaskAssumption DEF MaskAssumption, TypeOK, Sent, SeqNos
  <2> QED BY <2>1, ReconstructInverts DEF Reconstructed
<1> QED BY TypeCorrect, <1>1, PTL

=============================================================================
