---------------------------- MODULE QuicRecovery ----------------------------
(***************************************************************************)
(* Loss recovery of one QUIC endpoint (quic/loss.rs, and the calls of      *)
(* quic/connection.rs that drive it): which packets are tracked in each    *)
(* packet-number space, what an acknowledgement, a loss and a discarded    *)
(* space do to them, and when the loss-detection timer is armed and for    *)
(* what.  An endpoint is a record; a handler maps it to its next value.    *)
(* Time is abstracted: a timer has a purpose, not a deadline.              *)
(***************************************************************************)
EXTENDS Integers, FiniteSets, FiniteSetsExt, Sequences, SequencesExt

CONSTANTS K_PACKET_THRESHOLD,   \* reordering, in packets, taken for a loss (3)
          K_PTO_PROBES          \* probe packets of one probe timeout (2)

Spaces == {"I", "H", "A"}       \* Initial, Handshake, Application

(* 0-RTT and 1-RTT packets share the Application space.                    *)
Levels == {"I", "0", "H", "A"}

SpaceOf(l) == IF l = "0" THEN "A" ELSE l

None == -1

(* What a tracked packet carried: a CRYPTO unit (None if none), the        *)
(* HANDSHAKE_DONE frame, the application's data.                           *)
SentPacket(pn, crypto, hd, data) == [pn |-> pn, crypto |-> crypto, hd |-> hd, data |-> data]

NewPerSpace == [sent |-> {}, largest_acked |-> None, loss_time |-> FALSE]

NewPnSpace == [next |-> 0, largest_rx |-> None, pending |-> {}, due |-> FALSE, eliciting |-> 0]

NewCryptoBuf == [fresh |-> << >>, rtx |-> << >>, history |-> {}, got |-> {}]

-----------------------------------------------------------------------------
(* The CRYPTO stream of a level, in units of one frame (crypto_buf.rs).    *)

outbound_pending(b) == b.rtx # << >> \/ b.fresh # << >>

CarvedUnit(b) == IF b.rtx # << >> THEN Head(b.rtx) ELSE Head(b.fresh)

carve(b) ==
    [b EXCEPT !.history = @ \union {CarvedUnit(b)},
              !.rtx = IF b.rtx # << >> THEN Tail(@) ELSE @,
              !.fresh = IF b.rtx # << >> THEN @ ELSE Tail(@)]

(* Ranges are queued in the order their packets were sent, none twice, and *)
(* none that was acknowledged.                                             *)
requeue_range(b, packets) ==
    LET wanted == {p.crypto : p \in packets} \intersect (b.history \ ToSet(b.rtx))
        first(u) == Min({p.pn : p \in {q \in packets : q.crypto = u}})
        order == CHOOSE q \in [1 .. Cardinality(wanted) -> wanted] :
                     /\ ToSet(q) = wanted
                     /\ \A i, j \in DOMAIN q : i < j => first(q[i]) < first(q[j])
    IN  [b EXCEPT !.rtx = @ \o order]

on_range_acked(b, packets) == [b EXCEPT !.history = @ \ {p.crypto : p \in packets}]

-----------------------------------------------------------------------------
(* The loss-detection timer.                                               *)

can_send(E, n) == E.validated \/ E.bytes_sent + n <= 3 * E.bytes_recv

sync_loss_context(E) ==
    [E EXCEPT !.ctx.handshake_confirmed = E.confirmed,
              !.ctx.has_handshake_keys = "H" \in E.tx,
              !.ctx.at_amplification_limit = E.role = "s" /\ ~can_send(E, 1)]

peer_completed_address_validation(E) ==
    E.role = "s" \/ E.ctx.peer_handshake_acked \/ E.ctx.handshake_confirmed

has_ack_eliciting_in_flight(E) == \E s \in Spaces : E.loss[s].sent # {}

(* Mutant: a client with nothing in flight does not probe.                 *)
pto_time_and_space_idle(E) ==
    {s \in Spaces : E.loss[s].sent # {} /\ (s = "A" => E.ctx.handshake_confirmed)}

(* The spaces a probe timeout may be for; which deadline comes first is    *)
(* left open.                                                              *)
pto_time_and_space(E) ==
    IF ~has_ack_eliciting_in_flight(E)
    THEN IF peer_completed_address_validation(E) THEN {}
         ELSE {IF E.ctx.has_handshake_keys THEN "H" ELSE "I"}
    ELSE {s \in Spaces : E.loss[s].sent # {} /\ (s = "A" => E.ctx.handshake_confirmed)}

TimerPurpose(E) ==
    IF \E s \in Spaces : E.loss[s].loss_time THEN "loss"
    ELSE IF \/ E.role = "s" /\ E.ctx.at_amplification_limit
            \/ ~has_ack_eliciting_in_flight(E) /\ peer_completed_address_validation(E)
            \/ pto_time_and_space(E) = {}
    THEN "none"
    ELSE "pto"

set_loss_detection_timer(E) == [E EXCEPT !.timer = TimerPurpose(E)]

refresh_loss_timer(E) == set_loss_detection_timer(sync_loss_context(E))

-----------------------------------------------------------------------------
(* Probes a timeout has armed and that are not sent yet.                   *)

arm_probe(E, s) == [E EXCEPT !.probe_space = s, !.probe_credit = K_PTO_PROBES]

clear_probe(E) == [E EXCEPT !.probe_space = "none", !.probe_credit = 0]

consume_probe_credit(E) ==
    [E EXCEPT !.probe_credit = @ - 1,
              !.probe_space = IF E.probe_credit = 1 THEN "none" ELSE @]

probe_needs_ping(E, s) == E.probe_space = s /\ E.probe_credit = K_PTO_PROBES

-----------------------------------------------------------------------------
(* What happens to a tracked packet.                                       *)

on_packet_sent(E, s, p) ==
    set_loss_detection_timer([E EXCEPT !.loss[s].sent = @ \union {p}, !.in_flight = @ + 1])

requeue_from_hint(E, s, packets) ==
    IF s = "A" THEN E ELSE [E EXCEPT !.bufs[s] = requeue_range(@, packets)]

prune_crypto_history_from_hint(E, s, packets) ==
    IF s = "A" THEN E ELSE [E EXCEPT !.bufs[s] = on_range_acked(@, packets)]

(* Mutant: a lost carrier of HANDSHAKE_DONE does not queue it again.       *)
note_handshake_done_fate_acked(E, acked, lost) ==
    [E EXCEPT !.handshake_done_acked = @ \/ \E p \in acked : p.hd]

note_handshake_done_fate(E, acked, lost) ==
    LET done == E.handshake_done_acked \/ \E p \in acked : p.hd
    IN  [E EXCEPT !.handshake_done_acked = done,
                  !.handshake_done_pending = @ \/ (~done /\ \E p \in lost : p.hd)]

(* The stream layer is told (module QuicStreams has what it does).         *)
on_chunks(E, acked, lost) ==
    LET done == E.data_acked \/ \E p \in acked : p.data
    IN  [E EXCEPT !.data_acked = done,
                  !.data_pending = @ \/ (~done /\ \E p \in lost : p.data)]

(* The packets declared lost are those of `lost', chosen by the caller     *)
(* among what is below the largest acknowledged.                           *)
detect_lost(E, s, lost) ==
    LET left == E.loss[s].sent \ lost
    IN  set_loss_detection_timer(
            [E EXCEPT !.loss[s].sent = left,
                      !.loss[s].loss_time = \E p \in left : p.pn <= E.loss[s].largest_acked,
                      !.in_flight = @ - Cardinality(lost)])

ThresholdLost(E, s) ==
    {p \in E.loss[s].sent : E.loss[s].largest_acked - p.pn >= K_PACKET_THRESHOLD}

on_ack_received(E, s, acked) ==
    LET newly == {p \in E.loss[s].sent : p.pn \in acked}
        removed == [E EXCEPT !.loss[s].sent = @ \ newly,
                             !.loss[s].largest_acked = Max(acked \union {@}),
                             !.in_flight = @ - Cardinality(newly)]
    IN  set_loss_detection_timer(
            IF newly = {} THEN removed
            ELSE clear_probe([removed EXCEPT !.ctx.peer_handshake_acked = @ \/ s = "H"]))

(* The ACK frame: loss detection runs if the frame said anything new.      *)
OnAckFrame(E, s, acked) ==
    LET newly == {p \in E.loss[s].sent : p.pn \in acked}
        A == on_ack_received(E, s, acked)
        news == newly # {} \/ A.loss[s].largest_acked # E.loss[s].largest_acked
        lost == IF news THEN ThresholdLost(A, s) ELSE {}
        B == IF news THEN requeue_from_hint(detect_lost(A, s, lost), s, lost) ELSE A
        C == note_handshake_done_fate(B, newly, lost)
        D == prune_crypto_history_from_hint(C, s, newly)
    IN  on_chunks(D, newly, lost)

handle_lost_packets(E, s, lost) ==
    on_chunks(note_handshake_done_fate(requeue_from_hint(E, s, lost), {}, lost), {}, lost)

(* Mutant: the packets of the discarded space stay counted in flight.      *)
discard_level_leak(E, l) ==
    LET F == [E EXCEPT !.tx = @ \ {l}, !.rx = @ \ {l},
                       !.bufs[l] = NewCryptoBuf,
                       !.loss[l] = NewPerSpace, !.pn[l] = NewPnSpace]
    IN  set_loss_detection_timer(IF E.probe_space = l THEN clear_probe(F) ELSE F)

(* A finished level goes with its keys, its CRYPTO stream, its packets and *)
(* the acknowledgements it owes.                                           *)
discard_level(E, l) ==
    LET F == [E EXCEPT !.tx = @ \ {l}, !.rx = @ \ {l},
                       !.bufs[l] = NewCryptoBuf,
                       !.loss[l] = NewPerSpace, !.pn[l] = NewPnSpace,
                       !.in_flight = @ - Cardinality(E.loss[l].sent)]
    IN  set_loss_detection_timer(IF E.probe_space = l THEN clear_probe(F) ELSE F)

-----------------------------------------------------------------------------
(* The timer expires.                                                      *)

(* Loss by time: packets are lost in the order they were sent, up to a     *)
(* packet the network could not have delayed this long.                    *)
detect_lost_on_timer(E, s, upto) ==
    LET lost == {p \in E.loss[s].sent : p.pn <= upto}
    IN  handle_lost_packets(detect_lost(E, s, lost), s, lost)

space_has_new_data(E, s) ==
    IF s = "A"
    THEN \/ E.data_pending \/ E.handshake_done_pending
         \/ E.complete /\ ~E.new_cids_issued
    ELSE outbound_pending(E.bufs[s])

Oldest(E, s, n) ==
    {p \in E.loss[s].sent : Cardinality({q \in E.loss[s].sent : q.pn < p.pn}) < n}

(* The contents of packets that stay in flight are sent again.             *)
requeue_for_probe(E, s, packets) == handle_lost_packets(E, s, packets)

send_pto_probes(E, s) ==
    LET own == IF space_has_new_data(E, s) THEN E
               ELSE requeue_for_probe(E, s, Oldest(E, s, K_PTO_PROBES))
        skipped(F, o) == o = s \/ (o = "A" /\ ~F.confirmed) \/ space_has_new_data(F, o)
        other(F, o) == IF skipped(F, o) THEN F ELSE requeue_for_probe(F, o, Oldest(F, o, 1))
        others == other(other(other(own, "I"), "H"), "A")
    IN  [others EXCEPT !.handshake_done_pending =
             @ \/ (~others.handshake_done_acked /\ \E p \in others.loss["A"].sent : p.hd)]

on_pto(E, s) == send_pto_probes(set_loss_detection_timer(arm_probe(E, s)), s)

=============================================================================
