------------------------------ MODULE ReadEpoch ------------------------------
(***************************************************************************)
(* One read epoch of the DTLS 1.3 record layer: the sequence-number        *)
(* reconstruction of dtls/record13.rs, the sliding anti-replay window of   *)
(* dtls/replay.rs and the order in which process_protected_record of       *)
(* client13.rs and server13.rs uses them.                                  *)
(*                                                                         *)
(* The wire carries only the low bits of a record's number.  The receiver  *)
(* reconstructs the number, asks the window (check), opens the AEAD under  *)
(* the reconstructed number, and only then commits to the window (mark).   *)
(* The AEAD opens exactly when a genuine record's number was reconstructed *)
(* correctly: the number is the nonce.                                     *)
(***************************************************************************)
EXTENDS Integers, FiniteSets

CONSTANTS
    WINDOW_BITS,   \* width of the replay window (64 in the code)
    SEQ_MODULUS,   \* the wire carries seq % SEQ_MODULUS (2^16 in the code)
    SEQ_MASK       \* the highest record number there is (2^48 - 1 in the code)

ASSUME WindowAssumption == WINDOW_BITS \in Nat \ {0}
ASSUME ModulusAssumption == SEQ_MODULUS \in Nat \ {0}
ASSUME MaskAssumption == SEQ_MASK \in Nat

VARIABLES
    next,          \* the peer's next record number: it has sent 0 .. next - 1
    seq,           \* ReadEpoch.seq: the highest number authenticated
    highest,       \* AntiReplayWindow.highest
    bitmap,        \* AntiReplayWindow.bitmap: the distances whose bit is set
    seeded,        \* AntiReplayWindow.seeded
    delivered      \* history: how often each record number was delivered

window == <<highest, bitmap, seeded>>
vars == <<next, seq, highest, bitmap, seeded, delivered>>

SeqNos == 0 .. SEQ_MASK
Distances == 0 .. WINDOW_BITS - 1

Sent == 0 .. next - 1

-----------------------------------------------------------------------------
(* reconstruct_seq: of the numbers with these low bits one modulus below,  *)
(* at and one modulus above the expected number's block, the closest; the  *)
(* block's own candidate wins a tie, then the lower one.                   *)

Abs(n) == IF n < 0 THEN -n ELSE n

(* Mutant: never looks one modulus below, so a late record is misread.     *)
reconstruct_seq_forward(low, expected) ==
    LET base == (expected - (expected % SEQ_MODULUS)) + low
        above == base + SEQ_MODULUS
    IN  IF above <= SEQ_MASK /\ Abs(above - expected) < Abs(base - expected)
        THEN above ELSE base

reconstruct_seq(low, expected) ==
    LET base  == (expected - (expected % SEQ_MODULUS)) + low
        below == base - SEQ_MODULUS
        above == base + SEQ_MODULUS
        dist(c) == Abs(c - expected)
    IN  IF below >= 0 /\ dist(below) < dist(base) THEN below
        ELSE IF above <= SEQ_MASK /\ dist(above) < dist(base) THEN above
        ELSE base

(* The number the receiver takes the record n for. *)
Reconstructed(n) == reconstruct_seq(n % SEQ_MODULUS, seq + 1)

-----------------------------------------------------------------------------
(* Mutant: the window is one slot wider than the bitmap.                   *)
checkOffByOne(n) ==
    \/ ~seeded
    \/ n > highest
    \/ highest - n <= WINDOW_BITS /\ highest - n \notin bitmap

(* AntiReplayWindow::check *)
check(n) ==
    \/ ~seeded
    \/ n > highest
    \/ highest - n < WINDOW_BITS /\ highest - n \notin bitmap

(* bitmap << by: a distance grows by the shift, and falls out at the width.*)
Shifted(by) == {d \in Distances : d - by \in bitmap}

(* Mutant: advancing the window forgets to shift the bitmap.               *)
markWithoutShift(n) ==
    /\ seeded' = TRUE
    /\ highest' = IF seeded /\ n <= highest THEN highest ELSE n
    /\ bitmap' = IF seeded /\ n <= highest
                 THEN bitmap \cup ({highest - n} \cap Distances)
                 ELSE bitmap \cup {0}

(* AntiReplayWindow::mark *)
mark(n) ==
    /\ seeded' = TRUE
    /\ \/ /\ ~seeded
          /\ highest' = n
          /\ bitmap' = {0}
       \/ /\ seeded /\ n > highest
          /\ highest' = n
          /\ bitmap' = Shifted(n - highest) \cup {0}
       \/ /\ seeded /\ n <= highest
          /\ highest' = highest
          /\ bitmap' = bitmap \cup ({highest - n} \cap Distances)

-----------------------------------------------------------------------------
Init ==
    /\ next = 0
    /\ seq = 0
    /\ highest = 0 /\ bitmap = {} /\ seeded = FALSE
    /\ delivered = [n \in SeqNos |-> 0]

(* The peer protects one more record. *)
Send ==
    /\ next <= SEQ_MASK
    /\ next' = next + 1
    /\ UNCHANGED <<seq, window, delivered>>

(* A copy of the genuine record n arrives and opens. *)
Receive(n) ==
    /\ Reconstructed(n) = n
    /\ check(n)
    /\ mark(n)
    /\ seq' = IF n > seq THEN n ELSE seq
    /\ delivered' = [delivered EXCEPT ![n] = @ + 1]
    /\ UNCHANGED next

(* Mutant: commits to the window before the tag is verified.               *)
RejectForgedAfterMark(low) ==
    /\ check(reconstruct_seq(low, seq + 1))
    /\ mark(reconstruct_seq(low, seq + 1))
    /\ UNCHANGED <<next, seq, delivered>>

(* A record that passes the pre-check and then fails the AEAD, whoever     *)
(* made it, with any low bits: dropped, and the window is not touched.     *)
RejectForged(low) ==
    /\ check(reconstruct_seq(low, seq + 1))
    /\ UNCHANGED vars

Next ==
    \/ Send
    \/ \E n \in Sent : Receive(n)
    \/ \E low \in 0 .. SEQ_MODULUS - 1 : RejectForged(low)

Spec == Init /\ [][Next]_vars

-----------------------------------------------------------------------------
(* The ranges of the window's fields and of the history. *)
TypeOK ==
    /\ next \in 0 .. SEQ_MASK + 1
    /\ seq \in SeqNos
    /\ highest \in SeqNos
    /\ bitmap \subseteq Distances
    /\ seeded \in BOOLEAN
    /\ delivered \in [SeqNos -> Nat]

(* No record is delivered twice, whatever the network duplicates, reorders *)
(* or delays: the purpose of the window (replay.rs, check and mark).       *)
AtMostOnce == \A n \in SeqNos : delivered[n] <= 1

(* The window never turns away a genuine record it has not delivered and   *)
(* that is less than its width behind the highest delivered: neither the   *)
(* shift of mark loses a bit nor does a forged record burn a slot.         *)
InWindowAccepted ==
    \A n \in Sent :
        (delivered[n] = 0 /\ highest - n < WINDOW_BITS) => check(n)

(* A genuine record fewer than half a modulus away from the number the     *)
(* receiver expects is reconstructed to its own number, so it opens        *)
(* (record13.rs, reconstruct_seq).                                         *)
NearbyReconstructs ==
    \A n \in Sent : 2 * Abs(n - (seq + 1)) < SEQ_MODULUS => Reconstructed(n) = n

(* The strengthening that makes AtMostOnce inductive: the bits are exactly *)
(* the delivered numbers inside the window, and nothing above the highest  *)
(* was delivered.                                                          *)
WindowMirrorsHistory ==
    /\ ~seeded => seq = 0 /\ \A n \in SeqNos : delivered[n] = 0
    /\ seeded => /\ highest = seq
                 /\ \A n \in SeqNos : n > highest => delivered[n] = 0
                 /\ \A n \in SeqNos : (n <= highest /\ highest - n < WINDOW_BITS)
                        => (highest - n \in bitmap <=> delivered[n] > 0)

=============================================================================
