-------------------------- MODULE MCStatefulSign --------------------------
(* Small trees, one of each kind the code treats differently.              *)
EXTENDS StatefulSign, TLC

CONSTANTS p1, p2

One(leaves, span) ==
    [depth |-> 1, leaves |-> [i \in 1 .. 1 |-> leaves], span |-> span, legacy |-> FALSE]

Hss(depth, legacy) ==
    [depth |-> depth, leaves |-> [i \in 1 .. depth |-> 2], span |-> 8, legacy |-> legacy]

MCProcess == {p1, p2}

(* XMSS^MT with a full index field; LMS; HSS of two and three levels, the  *)
(* latter with more signatures than U64_MAX; an HSS file of an old format. *)
MCSchemes ==
    {One(4, 4), One(3, 8), Hss(2, FALSE), Hss(3, FALSE), Hss(2, TRUE), Hss(3, TRUE)}

Processes == Permutations(MCProcess)

=============================================================================
