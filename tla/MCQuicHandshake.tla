-------------------------- MODULE MCQuicHandshake ---------------------------
(***************************************************************************)
(* The scenarios of the QUIC handshake, each small enough to exhaust.      *)
(***************************************************************************)
EXTENDS QuicHandshake

Scenario(hello, flight, coalesce, early, data, nfaults) ==
    [hello |-> hello, flight |-> flight, coalesce |-> coalesce, early |-> early,
     data |-> data, window |-> 2, faults |-> nfaults]

(* Short flights that share datagrams; three faults.                       *)
Short == Scenario(1, 1, TRUE, "none", {}, 3)

(* Flights the amplification limit cuts short, the ServerHello in the      *)
(* first datagram of the flight or in one of its own.                      *)
Limited == Scenario(1, 4, TRUE, "none", {}, 1)

LimitedAlone == Scenario(1, 3, FALSE, "none", {}, 1)

(* A ClientHello of two packets, and data of the server.                   *)
LongHello == Scenario(2, 1, TRUE, "none", {"s"}, 2)

(* Data of both sides, after the handshake or at once.                     *)
Late == Scenario(1, 2, TRUE, "none", {"c", "s"}, 2)

Accepted == Scenario(1, 1, TRUE, "accepted", {"c", "s"}, 2)

Rejected == Scenario(1, 1, TRUE, "rejected", {"c"}, 2)

MCConfigs == {Short, Limited, LimitedAlone, LongHello, Late, Accepted, Rejected}

(* Early data in flight while the amplification limit stops the server.    *)
EarlyLimited == {Scenario(1, 4, TRUE, "accepted", {"c"}, 1)}

=============================================================================
