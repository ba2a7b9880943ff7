----------------------------- MODULE HashSigKey -----------------------------
(***************************************************************************)
(* The state of a stateful hash-based signing key (lms/mod.rs,             *)
(* xmss/mod.rs): which one-time keys are spent, and what signing,          *)
(* serialising and loading do to that.                                     *)
(*                                                                         *)
(* An HSS key has a tree per level and a leaf index q in each; a leaf of   *)
(* level i signs the public key of one tree of level i + 1, derived from   *)
(* that leaf, and a leaf of the last level signs a message.  LMS is HSS    *)
(* with one level.  XMSS and XMSS^MT keep one index over all leaves, which *)
(* is the one-level case too, but store it in a field that may be exactly  *)
(* as wide as the tree is high.  Hashes, seeds and node caches are left    *)
(* out: a one-time key is named by the leaves on the path to it.           *)
(***************************************************************************)
EXTENDS Integers, FiniteSets, FiniteSetsExt

CONSTANTS Schemes,     \* [depth, leaves, span, legacy]: levels, leaves of a tree
                       \*   of each level, values an index field holds, and
                       \*   whether the key file is in the format before v3
          U64_MAX      \* where counts of signatures saturate

(* Trees have two leaves at least.  In an HSS key every index is a u32,    *)
(* wider than any tree; only a one-level (XMSS^MT) field can be full.      *)
ASSUME SchemesAssumption ==
    \A s \in Schemes :
        /\ s.depth \in Nat \ {0}
        /\ s.leaves \in [1 .. s.depth -> Nat]
        /\ s.span \in Nat
        /\ \A i \in 1 .. s.depth : 2 <= s.leaves[i] /\ s.leaves[i] <= s.span
        /\ s.depth > 1 \/ s.legacy => \A i \in 1 .. s.depth : s.leaves[i] < s.span
        /\ s.legacy \in BOOLEAN
        /\ U64_MAX \in Nat

Level(s) == 1 .. s.depth

Upper(s) == 1 .. s.depth - 1

(* Mutant: the index may run to the number of leaves whatever its field.   *)
exhausted_index_wide(s, i) == s.leaves[i]

(* The index that marks a spent tree: the number of leaves, or one less    *)
(* when that does not fit the field.                                       *)
exhausted_index(s, i) == IF s.leaves[i] = s.span THEN s.leaves[i] - 1 ELSE s.leaves[i]

is_exhausted(s, k, i) == k.q[i] >= exhausted_index(s, i)

(* Mutant: an unused leaf of an upper level counts as one signature.       *)
remaining_flat(s, k) ==
    MapThenSumSet(LAMBDA i : exhausted_index(s, i) - k.q[i], Level(s))

Saturated(n) == Min({U64_MAX, n})

(* A level is added to what the levels below it count: every unused leaf   *)
(* is worth a whole subtree of fresh lower trees.                          *)
CountLevel(s, k, below, i) ==
    [total |-> Saturated(below.total
                         + Saturated((exhausted_index(s, i) - k.q[i]) * below.per_leaf)),
     per_leaf |-> Saturated(below.per_leaf * s.leaves[i])]

(* From the last level up.                                                 *)
remaining(s, k) ==
    LET counted[n \in 0 .. s.depth] ==
            IF n = 0 THEN [total |-> 0, per_leaf |-> 1]
            ELSE CountLevel(s, k, counted[n - 1], s.depth + 1 - n)
    IN  counted[s.depth].total

-----------------------------------------------------------------------------
(* Signing.                                                                *)

(* Mutant: the randomizer is drawn afresh for every signature.             *)
derive_c_random(msg) == msg

(* The randomizer of an upper signature depends on leaf and child alone,   *)
(* not on the message being signed.                                        *)
derive_c(msg) == 0

(* The signature of a tree's public key, by the leaf of the level above.   *)
SignedPub(leaf, msg) == [leaf |-> leaf, c |-> derive_c(msg)]

(* The lowest level with a leaf left, below which trees are replaced.      *)
IsLive(s, k, live) ==
    /\ ~is_exhausted(s, k, live)
    /\ \A j \in Level(s) : j > live => is_exhausted(s, k, j)

(* The leaf a level reserves: the first of a tree that was just replaced.  *)
Reserved(s, k, live, i) == IF i > live THEN 0 ELSE k.q[i]

(* An index as its field stores it.                                        *)
idx_to_bytes(s, idx) == idx % s.span

(* The index after the reservation.                                        *)
reserve_leaf(s, k, live, i) ==
    IF i < live THEN k.q[i] ELSE idx_to_bytes(s, Reserved(s, k, live, i) + 1)

(* The key after a signature: replace_exhausted down from the live level,  *)
(* then the last level's own leaf.                                         *)
signed_key(s, k, live, msg) ==
    [q |-> [i \in Level(s) |-> reserve_leaf(s, k, live, i)],
     pubs |-> [i \in Upper(s) |->
                  IF i < live THEN k.pubs[i] ELSE SignedPub(Reserved(s, k, live, i), msg)]]

(* The signature: the one-time key of every level, named by its leaf.      *)
assemble(s, k, live, msg) ==
    [msg |-> msg,
     path |-> [i \in Level(s) |->
                  IF i < live THEN k.pubs[i].leaf ELSE Reserved(s, k, live, i)],
     pubs |-> signed_key(s, k, live, msg).pubs]

-----------------------------------------------------------------------------
(* Serialisation.                                                          *)

(* A generated key: every upper level has signed its child with leaf 0.    *)
NewKey(s) ==
    [q |-> [i \in Level(s) |-> IF i < s.depth THEN 1 ELSE 0],
     pubs |-> [i \in Upper(s) |-> SignedPub(0, 0)]]

to_bytes(k) == [form |-> "tagged", q |-> k.q, pubs |-> k.pubs]

(* Before v3 only the last level's index ever moved, the signatures of the *)
(* upper levels were made again for every message, with a derived          *)
(* randomizer.                                                             *)
LegacyFile(s, n) ==
    [form |-> "legacy", q |-> [i \in Level(s) |-> IF i < s.depth THEN 0 ELSE n],
     pubs |-> << >>]

LegacySignature(s, n) ==
    [msg |-> -1 - n, path |-> [i \in Level(s) |-> IF i < s.depth THEN 0 ELSE n],
     pubs |-> [i \in Upper(s) |-> [leaf |-> 0, c |-> 0]]]

Torn == [form |-> "torn", q |-> << >>, pubs |-> << >>]

(* What from_bytes refuses: indices past the end, an upper signature whose *)
(* leaf was not reserved, an old file with an upper index.                 *)
Parses(s, f) ==
    /\ f.form # "torn"
    /\ \A i \in Level(s) : f.q[i] <= exhausted_index(s, i)
    /\ f.form = "tagged" => \A i \in Upper(s) : f.pubs[i].leaf < f.q[i]
    /\ f.form = "legacy" => \A i \in Upper(s) : f.q[i] = 0

(* An old file is brought to the present structure: every upper level      *)
(* signs its child with leaf 0.                                            *)
from_bytes(s, f, msg) ==
    IF f.form = "tagged" THEN [q |-> f.q, pubs |-> f.pubs]
    ELSE [q |-> [i \in Level(s) |-> IF i < s.depth THEN 1 ELSE f.q[i]],
          pubs |-> [i \in Upper(s) |-> SignedPub(0, msg)]]

=============================================================================
