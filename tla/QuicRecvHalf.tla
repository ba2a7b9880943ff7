---------------------------- MODULE QuicRecvHalf ----------------------------
(***************************************************************************)
(* The receive half of a QUIC stream (quic/stream.rs, RecvStream): the     *)
(* bytes in order the application can read, the fragments behind a gap,    *)
(* the final size and the credit granted to the peer.  A fragment is the   *)
(* range [s, e) of offsets it holds.                                       *)
(***************************************************************************)
EXTENDS QuicSendHalf, FiniteSetsExt

(* The most fragments kept behind a gap (128 in the code).                 *)
CONSTANT MAX_PENDING_FRAGMENTS

NewRecvStream(max_data) ==
    [half |-> "recv", state |-> "Recv", delivered |-> 0, next_offset |-> 0, read_off |-> 0,
     pending |-> {}, fin_offset |-> None, max_data |-> max_data,
     max_data_announced |-> max_data, window |-> max_data, stop_sending_sent |-> FALSE,
     stop_sending_pending |-> FALSE, max_data_pending |-> FALSE, conn_fc_credited |-> 0]

Reset(r) == r.state \in {"ResetRecvd", "ResetRead"}

is_readable(r) == r.delivered > 0 \/ r.state \in {"DataRecvd", "ResetRecvd"}

recv_is_finished(r) == r.state \in {"DataRead", "ResetRead"} /\ r.delivered = 0

PendingBytes(r) == MapThenSumSet(LAMBDA f : f.e - f.s, r.pending)

HighestPending(r) == Max({0} \union {f.e : f \in r.pending})

(* Mutant: a FIN at the offset already reached counts as below it.         *)
DataError_off_by_one(r, off, len, fin) ==
    LET end == off + len
    IN  IF Reset(r)
        THEN IF r.fin_offset # None /\ end > r.fin_offset THEN "FinalSize" ELSE "none"
        ELSE IF end > r.max_data THEN "FlowControl"
        ELSE IF \/ r.fin_offset # None /\ (end > r.fin_offset \/ (fin /\ end # r.fin_offset))
                \/ fin /\ (end <= r.next_offset \/ end < HighestPending(r))
        THEN "FinalSize"
        ELSE "none"

(* Why on_data refuses the frame [off, off + len), if it does.             *)
DataError(r, off, len, fin) ==
    LET end == off + len
    IN  IF Reset(r)
        THEN IF r.fin_offset # None /\ end > r.fin_offset THEN "FinalSize" ELSE "none"
        ELSE IF end > r.max_data THEN "FlowControl"
        ELSE IF \/ r.fin_offset # None /\ (end > r.fin_offset \/ (fin /\ end # r.fin_offset))
                \/ fin /\ (end < r.next_offset \/ end < HighestPending(r))
        THEN "FinalSize"
        ELSE "none"

(* Mutant: the fragments that the new bytes reach are dropped.             *)
Absorbed_none(r, end) == end

(* Where the bytes in order end once [next_offset, end) has arrived, the   *)
(* fragments that reach it absorbed.                                       *)
Absorbed(r, end) ==
    CHOOSE x \in end..GreaterOf(end, HighestPending(r)) :
        /\ \A f \in r.pending : ~(f.s <= x /\ x < f.e)
        /\ \A y \in end..(x - 1) : \E f \in r.pending : f.s <= y /\ y < f.e

(* The sub-ranges of [off, end) that no fragment holds, in order.          *)
Pieces(r, off, end) ==
    LET Held(x) == \E f \in r.pending : f.s <= x /\ x < f.e
        starts == {x \in off..(end - 1) : ~Held(x) /\ (x = off \/ Held(x - 1))}
        Stop(x) == Min({y \in (x + 1)..end : y = end \/ Held(y)})
        ordered == SetToSortSeq(starts, <)
    IN  [i \in DOMAIN ordered |-> [s |-> ordered[i], e |-> Stop(ordered[i])]]

(* One piece: joined to the fragment it continues, or a fragment of its    *)
(* own while there is room.  A piece without room ends the frame.          *)
StorePiece(r, p) ==
    LET fits == PendingBytes(r) + (p.e - p.s) <= SatSub(r.max_data, r.next_offset)
        before == {f \in r.pending : f.e = p.s}
    IN  IF ~fits THEN r
        ELSE IF before # {}
        THEN [r EXCEPT !.pending =
                 (@ \ before) \union {[s |-> f.s, e |-> p.e] : f \in before}]
        ELSE IF Cardinality(r.pending) >= MAX_PENDING_FRAGMENTS THEN r
        ELSE [r EXCEPT !.pending = @ \union {p}]

StoreOutOfOrder(r, off, end) ==
    FoldLeft(LAMBDA acc, p :
                 IF acc.full THEN acc
                 ELSE LET r1 == StorePiece(acc.r, p)
                      IN  [r |-> r1, full |-> r1 = acc.r],
             [r |-> r, full |-> FALSE], Pieces(r, off, end)).r

(* The state once the final size is known.                                 *)
SizeState(r) ==
    IF r.fin_offset = None THEN r
    ELSE IF r.next_offset = r.fin_offset /\ r.pending = {}
    THEN [r EXCEPT !.state = "DataRecvd"]
    ELSE [r EXCEPT !.state = IF @ = "DataRecvd" THEN @ ELSE "SizeKnown"]

(* on_data for a frame DataError accepts.                                  *)
on_data(r, off, len, fin) ==
    LET end == off + len
        r1  == IF fin THEN [r EXCEPT !.fin_offset = end] ELSE r
    IN  IF Reset(r) THEN r
        ELSE IF r.stop_sending_sent THEN r1
        ELSE IF off < r.next_offset /\ end <= r.next_offset
        THEN IF fin /\ r.next_offset = end /\ r.pending = {}
             THEN [r1 EXCEPT !.state = "DataRecvd"]
             ELSE r1
        ELSE IF off <= r.next_offset
        THEN LET x == Absorbed(r, end)
             IN  SizeState([r1 EXCEPT !.delivered = @ + (x - r.next_offset),
                                      !.next_offset = x,
                                      !.pending = {f \in @ : f.s > x}])
        ELSE SizeState(StoreOutOfOrder(r1, off, end))

(* Why on_reset refuses a RESET_STREAM, if it does.                        *)
ResetError(r, final_size) ==
    IF final_size < r.next_offset THEN "FinalSize"
    ELSE IF final_size > r.max_data THEN "FlowControl"
    ELSE IF \/ final_size < HighestPending(r)
            \/ r.fin_offset # None /\ final_size # r.fin_offset
    THEN "FinalSize"
    ELSE "none"

(* on_reset for a RESET_STREAM ResetError accepts: unread data is dropped. *)
recv_on_reset(r, final_size) ==
    IF Reset(r) THEN r
    ELSE [r EXCEPT !.pending = {}, !.delivered = 0, !.fin_offset = final_size,
                   !.state = "ResetRecvd"]

(* ack_reset, then read of n of the bytes in order.                        *)
read(r, n) ==
    LET r1 == [r EXCEPT !.state = IF @ = "ResetRecvd" THEN "ResetRead" ELSE @,
                        !.delivered = @ - n, !.read_off = @ + n]
        fin_seen == /\ r1.fin_offset = r1.read_off
                    /\ r1.state \in {"DataRecvd", "SizeKnown", "DataRead"}
    IN  IF fin_seen /\ r1.delivered = 0 THEN [r1 EXCEPT !.state = "DataRead"] ELSE r1

=============================================================================
