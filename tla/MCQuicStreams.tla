--------------------------- MODULE MCQuicStreams ----------------------------
(***************************************************************************)
(* The scenarios of the QUIC stream layer, each small enough to exhaust.   *)
(***************************************************************************)
EXTENDS QuicStreams

Scenario(ids, bytes, stream_window, conn_window, max_streams, ops, flight, nfaults, npokes) ==
    [ids |-> ids, bytes |-> bytes, stream_window |-> stream_window,
     conn_window |-> conn_window, mtu |-> bytes, max_streams |-> max_streams, ops |-> ops,
     flight |-> flight, faults |-> nfaults, pokes |-> npokes, early |-> FALSE]

(* One stream longer than both windows: every byte needs credit.           *)
Transfer == Scenario({2}, 3, 2, 2, 2, {"finish"}, 2, 1, 1)

(* One stream in three frames that overtake each other.                    *)
Reordered == Scenario({2}, 3, 3, 3, 2, {"finish"}, 3, 1, 0)

(* One stream in four frames of one byte each, no credit needed: the       *)
(* fragment table of the receiver overflows.                               *)
Overfull == [Scenario({2}, 4, 8, 8, 2, {"finish"}, 4, 1, 0) EXCEPT !.mtu = 1]

(* Three streams where two may be open, sharing the connection window.     *)
Several == Scenario({2, 6, 10}, 1, 4, 2, 2, {"finish"}, 2, 1, 0)

(* The writer resets a stream at any point.                                *)
Aborted == Scenario({2}, 2, 2, 2, 2, {"finish", "reset"}, 2, 2, 1)

(* The reader asks the writer to stop; only the stream window limits.      *)
Stopped == Scenario({2}, 3, 2, 3, 2, {"stop", "finish"}, 2, 1, 1)

(* Both sides write on one stream, and may reset their half of it.         *)
BothWays == Scenario({0}, 1, 2, 2, 2, {"finish", "reset"}, 2, 1, 1)

(* What was sent in 0-RTT packets the server refuses.                      *)
Rejected == [Scenario({2}, 2, 2, 2, 2, {"finish"}, 3, 0, 0) EXCEPT !.early = TRUE]

MCConfigs == {Transfer, Reordered, Overfull, Several, Aborted, Stopped, BothWays, Rejected}

=============================================================================
