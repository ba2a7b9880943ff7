---------------------------- MODULE QuicSendHalf ----------------------------
(***************************************************************************)
(* The send half of a QUIC stream (quic/stream.rs, SendStream): what the   *)
(* application wrote, what is on the wire, what waits to be sent again and *)
(* what the peer acknowledged.  Bytes are their offsets.  A chunk is the   *)
(* range [off, off + len) of one STREAM frame with its FIN bit.            *)
(***************************************************************************)
EXTENDS Integers, Sequences, FiniteSets, SequencesExt

None == -1

(* saturating_sub                                                          *)
SatSub(a, b) == IF a > b THEN a - b ELSE 0

LesserOf(a, b) == IF a < b THEN a ELSE b

GreaterOf(a, b) == IF a > b THEN a ELSE b

Chunk(off, len, fin) == [off |-> off, len |-> len, fin |-> fin]

Bytes(c) == c.off .. (c.off + c.len - 1)

NewSendStream(peer_max_data) ==
    [half |-> "send", state |-> "Ready", write_off |-> 0, write_buf |-> 0, sent_offset |-> 0,
     fin_offset |-> None, fin_sent |-> FALSE, peer_max_data |-> peer_max_data,
     blocked_at |-> None, reset_code |-> None, reset_pending |-> FALSE,
     sent_chunks |-> << >>, sent_sorted |-> TRUE, rtx_queue |-> << >>, acked |-> {},
     fin_acked |-> FALSE]

Writable(s) == s.state \in {"Ready", "Send"} /\ s.fin_offset = None

has_outbound(s) ==
    \/ s.rtx_queue # << >>
    \/ s.write_buf > 0
    \/ s.fin_offset # None /\ ~s.fin_sent

has_unacked(s) == s.sent_chunks # << >> \/ s.rtx_queue # << >>

(* The peer acknowledged all of the chunk, its FIN included.               *)
chunk_acked(s, c) == Bytes(c) \subseteq s.acked /\ (c.fin => s.fin_acked)

available_credit(s) == SatSub(s.peer_max_data, s.sent_offset)

(* What enqueue takes of n bytes offered.                                  *)
Take(s, n) ==
    IF s.state \notin {"Ready", "Send"} THEN 0
    ELSE LesserOf(SatSub(available_credit(s), s.write_buf), n)

enqueue(s, n) ==
    IF Take(s, n) = 0 THEN s
    ELSE [s EXCEPT !.write_buf = @ + Take(s, n), !.state = "Send"]

finish(s) ==
    IF s.fin_offset # None THEN s
    ELSE [s EXCEPT !.fin_offset = s.write_off + s.write_buf]

(* Every reset has the error code 0.  fin_offset and fin_sent stay: a      *)
(* stream finished before and with its FIN not yet carved still has        *)
(* something outbound.                                                     *)
enter_reset(s) ==
    [s EXCEPT !.write_buf = 0, !.rtx_queue = << >>, !.sent_chunks = << >>,
              !.sent_sorted = TRUE, !.reset_code = 0, !.reset_pending = TRUE,
              !.state = "ResetSent"]

(* A chunk goes on the wire, unless all of it is acknowledged already.     *)
push_sent(s, c) ==
    IF chunk_acked(s, c) THEN s
    ELSE [s EXCEPT !.sent_chunks = Append(@, c),
                   !.sent_sorted = IF s.sent_chunks = << >> THEN TRUE
                                   ELSE @ /\ Last(s.sent_chunks).off <= c.off]

(* The chunk carve_frame cuts from the front of write_buf.                 *)
Carved(s, cap) ==
    LET take == LesserOf(cap, s.write_buf)
        end  == s.write_off + take
    IN  Chunk(s.write_off, take,
              s.fin_offset = end /\ take = s.write_buf /\ ~s.fin_sent)

carve_frame(s, cap) ==
    LET c    == Carved(s, cap)
        end  == c.off + c.len
    IN  push_sent([s EXCEPT !.write_buf = @ - c.len,
                            !.write_off = end,
                            !.sent_offset = GreaterOf(@, end),
                            !.fin_sent = @ \/ c.fin,
                            !.state = IF c.fin THEN "DataSent"
                                      ELSE IF @ = "Ready" /\ c.len > 0 THEN "Send" ELSE @],
                  c)

(* The piece pop_rtx_frame sends of the front chunk: a split head has no   *)
(* FIN.                                                                    *)
Resent(s, cap) ==
    LET c == Head(s.rtx_queue)
    IN  IF c.len <= cap THEN c ELSE Chunk(c.off, cap, FALSE)

(* Mutant: the rest of a split chunk loses its FIN.                        *)
pop_rtx_frame_no_fin(s, cap) ==
    LET c == Head(s.rtx_queue)
        tail == Tail(s.rtx_queue)
    IN  push_sent([s EXCEPT !.rtx_queue =
                       IF c.len <= cap THEN tail
                       ELSE << Chunk(c.off + cap, c.len - cap, FALSE) >> \o tail],
                  Resent(s, cap))

pop_rtx_frame(s, cap) ==
    LET c == Head(s.rtx_queue)
        tail == Tail(s.rtx_queue)
    IN  push_sent([s EXCEPT !.rtx_queue =
                       IF c.len <= cap THEN tail
                       ELSE << Chunk(c.off + cap, c.len - cap, c.fin) >> \o tail],
                  Resent(s, cap))

(* The merged interval of acknowledged bytes that holds offset.            *)
MergedStart(acked, offset) ==
    CHOOSE m \in 0..offset : m..offset \subseteq acked /\ (m - 1) \notin acked

MergedEnd(acked, offset) ==
    CHOOSE m \in acked : /\ offset <= m /\ offset..m \subseteq acked
                         /\ (m + 1) \notin acked

(* prune_sorted_sent: with the chunks in order of offset, the ones inside  *)
(* the merged interval [ms, me) are a run found by binary search.          *)
prune_sorted_sent(s, ms, me) ==
    LET chunks == s.sent_chunks
        Covered(c) == ms <= c.off /\ c.off + c.len <= me /\ (c.fin => s.fin_acked)
        lo == Cardinality({i \in DOMAIN chunks : chunks[i].off < ms})
        top == Cardinality({i \in DOMAIN chunks : chunks[i].off < me})
        hi == CHOOSE h \in lo..GreaterOf(lo, top) :
                  /\ h = lo \/ Covered(chunks[h])
                  /\ \A i \in (h + 1)..top : ~Covered(chunks[i])
    IN  IF \A i \in (lo + 1)..hi : Covered(chunks[i])
        THEN SubSeq(chunks, 1, lo) \o SubSeq(chunks, hi + 1, Len(chunks))
        ELSE SelectSeq(chunks, LAMBDA c : ~Covered(c))

on_range_acked(s, a) ==
    LET fin_newly_acked == a.fin /\ ~s.fin_acked
        s1 == [s EXCEPT !.acked = @ \union Bytes(a), !.fin_acked = @ \/ a.fin]
        Kept(seq) == SelectSeq(seq, LAMBDA c : ~chunk_acked(s1, c))
        sent == IF a.len > 0 /\ ~fin_newly_acked /\ s.sent_sorted
                THEN prune_sorted_sent(s1, MergedStart(s1.acked, a.off),
                                       MergedEnd(s1.acked, a.off) + 1)
                ELSE Kept(s.sent_chunks)
        s2 == [s1 EXCEPT !.sent_chunks = sent,
                         !.sent_sorted = @ \/ sent = << >>,
                         !.rtx_queue = Kept(s.rtx_queue)]
    IN  IF /\ s2.fin_acked /\ s2.write_buf = 0 /\ ~has_unacked(s2)
           /\ s2.state \notin {"ResetSent", "ResetRecvd"}
        THEN [s2 EXCEPT !.state = "DataRecvd"]
        ELSE s2

(* The chunks on the wire that a lost or probed range overlaps wait to be  *)
(* sent again.                                                             *)
on_range_lost(s, a) ==
    LET Moves(c) ==
            /\ \/ c.off < a.off + a.len /\ a.off < c.off + c.len
               \/ c.len = 0 /\ c.fin /\ a.fin /\ c.off = a.off
            /\ ~chunk_acked(s, c)
        keep == SelectSeq(s.sent_chunks, LAMBDA c : ~Moves(c))
    IN  [s EXCEPT !.rtx_queue = @ \o SelectSeq(s.sent_chunks, Moves),
                  !.sent_chunks = keep,
                  !.sent_sorted = @ \/ keep = << >>]

(* requeue_all_sent: everything on the wire waits to be sent again.        *)
requeue_all_sent(s) ==
    [s EXCEPT !.rtx_queue = @ \o SelectSeq(s.sent_chunks, LAMBDA c : ~chunk_acked(s, c)),
              !.sent_chunks = << >>, !.sent_sorted = TRUE]

on_reset_acked(s) == IF s.state = "ResetSent" THEN [s EXCEPT !.state = "ResetRecvd"] ELSE s

send_is_finished(s) ==
    \/ s.state = "ResetRecvd" /\ ~s.reset_pending
    \/ s.state = "DataRecvd" /\ s.write_buf = 0 /\ ~has_unacked(s)

=============================================================================
