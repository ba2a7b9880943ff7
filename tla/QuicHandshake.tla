---------------------------- MODULE QuicHandshake ---------------------------
(***************************************************************************)
(* The QUIC handshake (quic/connection.rs) between a client and a server   *)
(* over a network that loses and reorders datagrams: the three packet      *)
(* number spaces with their keys, CRYPTO streams and acknowledgements, the *)
(* server's anti-amplification limit, 0-RTT, HANDSHAKE_DONE, the levels    *)
(* that are discarded on the way, and the loss recovery of module          *)
(* QuicRecovery that has to bring it all to its end.                       *)
(*                                                                         *)
(* A CRYPTO unit is what one packet carries of a flight; the application's *)
(* data is one unit per side.  Sizes count half datagrams.  The congestion *)
(* window is a constant number of packets.  The TLS engine is external: it *)
(* answers a complete flight of the peer with its own flight and keys.     *)
(***************************************************************************)
EXTENDS QuicRecovery

CONSTANTS Configs,       \* the scenarios of a run
          MaxExpiries    \* bound: probe timeouts of an endpoint that hears nothing

(* The flights of a handshake are a number of units.                       *)
ASSUME ConfigsAssumption == \A c \in Configs : c.hello \in Nat /\ c.flight \in Nat

VARIABLES config,     \* the scenario
          ep,         \* endpoint -> its Connection
          net,        \* endpoint -> datagrams on their way to it, in order
          faults,     \* losses, reorderings and premature timeouts still allowed
          expiries    \* endpoint -> probe timeouts since it last heard from its peer

vars == << config, ep, net, faults, expiries >>

Endpoints == {"c", "s"}

Peer(e) == IF e = "c" THEN "s" ELSE "c"

NewContext == [handshake_confirmed |-> FALSE, has_handshake_keys |-> FALSE,
               peer_handshake_acked |-> FALSE, at_amplification_limit |-> FALSE]

Units(n) == [i \in 1 .. n |-> i]

(* A client starts with its ClientHello queued, and with 0-RTT keys if it  *)
(* resumes a session that allows early data.                               *)
NewConnection(e, cfg) ==
    [role |-> e,
     tx |-> {"I"} \union (IF e = "c" /\ cfg.early # "none" THEN {"0"} ELSE {}),
     rx |-> {"I"},
     engine |-> "hello",
     bufs |-> [l \in {"I", "H"} |->
                  IF e = "c" /\ l = "I" THEN [NewCryptoBuf EXCEPT !.fresh = Units(cfg.hello)]
                  ELSE NewCryptoBuf],
     loss |-> [s \in Spaces |-> NewPerSpace],
     pn |-> [s \in Spaces |-> NewPnSpace],
     ctx |-> NewContext, timer |-> "none",
     probe_space |-> "none", probe_credit |-> 0, in_flight |-> 0,
     complete |-> FALSE, confirmed |-> FALSE,
     handshake_done_pending |-> FALSE, handshake_done_acked |-> FALSE,
     new_cids_issued |-> FALSE,
     data_pending |-> e \in cfg.data, data_acked |-> FALSE, data_read |-> FALSE,
     validated |-> e = "c", bytes_recv |-> 0, bytes_sent |-> 0,
     sent_first_datagram |-> FALSE]

Init ==
    /\ config \in Configs
    /\ ep = [e \in Endpoints |-> NewConnection(e, config)]
    /\ net = [e \in Endpoints |-> << >>]
    /\ faults = config.faults
    /\ expiries = [e \in Endpoints |-> 0]

-----------------------------------------------------------------------------
(* Sending.                                                                *)

(* 0-RTT packets carry neither ACK nor CRYPTO nor probes.                  *)
level_has_pending(E, l) ==
    \/ l \in {"I", "H"} /\ outbound_pending(E.bufs[l])
    \/ l # "0" /\ E.pn[l].pending # {} /\ E.pn[l].due
    \/ l \in {"0", "A"} /\ E.data_pending
    \/ l = "A" /\ (E.handshake_done_pending \/ (E.complete /\ ~E.new_cids_issued))
    \/ l # "0" /\ probe_needs_ping(E, l)

(* A probe may be sent past the congestion window.                         *)
FullScope(E, l) ==
    l = "A" => E.in_flight < config.window \/ E.probe_space = "A"

(* The frames of the packet a level contributes to a datagram.             *)
assemble_payload(E, l) ==
    LET full == FullScope(E, l)
        crypto == IF l \in {"I", "H"} /\ outbound_pending(E.bufs[l])
                  THEN CarvedUnit(E.bufs[l]) ELSE None
        hd == l = "A" /\ full /\ E.handshake_done_pending
        cids == l = "A" /\ full /\ E.complete /\ ~E.new_cids_issued
        data == l \in {"0", "A"} /\ full /\ E.data_pending
        eliciting == crypto # None \/ hd \/ cids \/ data
    IN  [lvl |-> l, pn |-> E.pn[SpaceOf(l)].next,
         ack |-> IF l = "0" THEN {} ELSE E.pn[l].pending,
         crypto |-> crypto, hd |-> hd, cids |-> cids, data |-> data,
         ping |-> l # "0" /\ full /\ ~eliciting /\ probe_needs_ping(E, l)]

Eliciting(p) == p.crypto # None \/ p.hd \/ p.cids \/ p.data \/ p.ping

Buildable(E, l) ==
    /\ l \in E.tx /\ level_has_pending(E, l)
    /\ LET p == assemble_payload(E, l) IN p.ack # {} \/ Eliciting(p)

(* assemble_payload takes the frames of the packet out of their queues.    *)
TakeFrames(E, p) ==
    [E EXCEPT !.bufs = IF p.crypto = None THEN E.bufs ELSE [E.bufs EXCEPT ![p.lvl] = carve(@)],
              !.handshake_done_pending = @ /\ ~p.hd,
              !.new_cids_issued = @ \/ p.cids,
              !.data_pending = @ /\ ~p.data]

ChargeProbe(E, p) ==
    IF E.probe_space = p.lvl /\ Eliciting(p) THEN consume_probe_credit(E) ELSE E

(* An ACK that is sent is not repeated.                                    *)
seal_packet(E, p) ==
    LET s == SpaceOf(p.lvl)
        F == [E EXCEPT !.pn[s].next = @ + 1,
                       !.pn[s].pending = IF p.ack = {} THEN @ ELSE {},
                       !.pn[s].due = @ /\ p.ack = {},
                       !.pn[s].eliciting = IF p.ack = {} THEN @ ELSE 0]
    IN  IF Eliciting(p) THEN on_packet_sent(F, s, SentPacket(p.pn, p.crypto, p.hd, p.data))
        ELSE set_loss_detection_timer(F)

build_packet(E, p) == seal_packet(ChargeProbe(TakeFrames(E, p), p), p)

(* A level is coalesced behind another if the datagram has room for it.    *)
(* The client discards the Initial level when it sends a Handshake packet. *)
AddLevel(D, l) ==
    IF ~Buildable(D.E, l) \/ (D.packets # << >> /\ ~config.coalesce) THEN D
    ELSE LET p == assemble_payload(D.E, l)
             F == build_packet(D.E, p)
         IN  [E |-> IF F.role = "c" /\ l = "H" /\ "I" \in F.tx THEN discard_level(F, "I") ELSE F,
              packets |-> Append(D.packets, p)]

pop_datagram_inner(E) ==
    LET empty == [E |-> sync_loss_context(E), packets |-> << >>]
    IN  AddLevel(AddLevel(AddLevel(AddLevel(empty, "I"), "0"), "H"), "A")

(* Datagrams with a client's Initial, and those full of CRYPTO, count two. *)
Size(e, packets) ==
    IF \E p \in ToSet(packets) : p.crypto # None \/ (e = "c" /\ p.lvl = "I") THEN 2 ELSE 1

(* A datagram past the anti-amplification limit is built and thrown away:  *)
(* its packets count as sent, and only what is never sent again is put     *)
(* back.                                                                   *)
Send(e) ==
    LET D == pop_datagram_inner(ep[e])
        n == Size(e, D.packets)
    IN  /\ D.packets # << >>
        /\ IF can_send(D.E, n)
           THEN /\ net' = [net EXCEPT ![Peer(e)] = Append(@, D.packets)]
                /\ ep' = [ep EXCEPT ![e] = refresh_loss_timer(
                             [D.E EXCEPT !.bytes_sent = IF D.E.validated THEN @ ELSE @ + n,
                                         !.sent_first_datagram = TRUE])]
           ELSE /\ ep' = [ep EXCEPT ![e] =
                             [D.E EXCEPT !.new_cids_issued = ep[e].new_cids_issued]]
                /\ UNCHANGED net
        /\ UNCHANGED << config, faults, expiries >>

-----------------------------------------------------------------------------
(* The TLS engine, and what follows from its progress.                     *)

(* What the engine does when the peer's flight at a level is complete.     *)
drain_engine_outputs(E) ==
    IF E.role = "c"
    THEN IF E.engine = "hello" /\ E.bufs["I"].got = {1}
         THEN [E EXCEPT !.engine = "flight", !.tx = @ \union {"H"}, !.rx = @ \union {"H"}]
         ELSE IF E.engine = "flight" /\ E.bufs["H"].got = 1 .. config.flight
         THEN [E EXCEPT !.engine = "done", !.bufs["H"].fresh = Append(@, 1),
                        !.tx = @ \union {"A"}, !.rx = @ \union {"A"}]
         ELSE E
    ELSE IF E.engine = "hello" /\ E.bufs["I"].got = 1 .. config.hello
         THEN [E EXCEPT !.engine = "flight", !.bufs["I"].fresh = << 1 >>,
                        !.bufs["H"].fresh = Units(config.flight),
                        !.tx = @ \union {"H", "A"},
                        !.rx = @ \union {"H", "A"}
                                 \union (IF config.early = "accepted" THEN {"0"} ELSE {})]
         ELSE IF E.engine = "flight" /\ E.bufs["H"].got = {1}
         THEN [E EXCEPT !.engine = "done"]
         ELSE E

(* The client settles its early data: refused, all of it is sent again.    *)
resolve_early_data(E) ==
    IF E.role = "s" THEN E
    ELSE [E EXCEPT !.tx = @ \ {"0"},
                   !.data_pending = @ \/ (/\ config.early = "rejected"
                                          /\ E.role \in config.data /\ ~E.data_acked)]

(* Mutant: the client, too, discards the Handshake level at completion.    *)
discard_handshake_levels_both(E) == discard_level(discard_level(E, "I"), "H")

discard_handshake_levels(E) ==
    IF E.role = "s" THEN discard_level(discard_level(E, "I"), "H") ELSE discard_level(E, "I")

check_handshake_complete(E) ==
    IF E.engine # "done" \/ E.complete THEN E
    ELSE LET server == E.role = "s"
             F == [E EXCEPT !.complete = TRUE,
                            !.confirmed = @ \/ server,
                            !.ctx.handshake_confirmed = @ \/ server,
                            !.handshake_done_pending = server]
         IN  resolve_early_data(discard_handshake_levels(F))

-----------------------------------------------------------------------------
(* Receiving.                                                              *)

OnHandshakeDone(E) ==
    IF E.confirmed THEN E
    ELSE discard_level([E EXCEPT !.confirmed = TRUE, !.ctx.handshake_confirmed = TRUE], "H")

(* An ACK is due at once for Initial and Handshake packets, for a packet   *)
(* out of order and for every second one; otherwise it waits for the       *)
(* delay's timer or for a packet sent for another reason.                  *)
NotePn(E, p) ==
    LET s == SpaceOf(p.lvl)
        largest == E.pn[s].largest_rx
        n == E.pn[s].eliciting + 1
        due == \/ p.lvl \in {"I", "H"} \/ n >= 2
               \/ largest # None /\ (p.pn < largest \/ p.pn > largest + 1)
        F == [E EXCEPT !.pn[s].largest_rx = Max({largest, p.pn}),
                       !.pn[s].pending = @ \union {p.pn}]
    IN  IF Eliciting(p)
        THEN [F EXCEPT !.pn[s].eliciting = Min({n, 2}), !.pn[s].due = @ \/ due]
        ELSE F

(* A frame of a level just discarded by an earlier frame cannot occur: the *)
(* only frame that discards a level is HANDSHAKE_DONE, in a 1-RTT packet.  *)
dispatch_frames(E, p) ==
    LET s == SpaceOf(p.lvl)
        A == IF p.ack = {} THEN E ELSE OnAckFrame(E, s, p.ack)
        B == IF p.crypto = None THEN A ELSE [A EXCEPT !.bufs[s].got = @ \union {p.crypto}]
        C == IF p.hd THEN OnHandshakeDone(B) ELSE B
        D == IF p.data THEN [C EXCEPT !.data_read = TRUE] ELSE C
    IN  NotePn(D, p)

(* A server looks at no 1-RTT packet before the handshake is complete, and *)
(* drops its 0-RTT keys with the first; the client's Handshake packets     *)
(* validate the client's address.                                          *)
feed_one_packet(E, p) ==
    LET F == IF E.role = "s" /\ p.lvl = "A" THEN check_handshake_complete(E) ELSE E
        early == IF F.role = "s" /\ p.lvl = "A" THEN {"0"} ELSE {}
    IN  IF p.lvl \notin F.rx \/ (F.role = "s" /\ p.lvl = "A" /\ ~F.complete) THEN F
        ELSE dispatch_frames([F EXCEPT !.validated = @ \/ p.lvl = "H", !.rx = @ \ early], p)

(* The packets of a datagram, one after the other.                         *)
FeedPackets(E, packets) ==
    LET fed[i \in 0 .. Len(packets)] ==
            IF i = 0 THEN E ELSE drain_engine_outputs(feed_one_packet(fed[i - 1], packets[i]))
    IN  fed[Len(packets)]

note_recv(E, n) == IF E.validated THEN E ELSE [E EXCEPT !.bytes_recv = @ + n]

(* Mutant: the timer is not looked at again after a datagram.              *)
feed_datagram_unarmed(E, packets, n) ==
    check_handshake_complete(FeedPackets(note_recv(E, n), packets))

feed_datagram(E, packets, n) ==
    refresh_loss_timer(check_handshake_complete(FeedPackets(note_recv(E, n), packets)))

(* A datagram that overtakes another is a fault of the network.            *)
Deliver(e, i) ==
    /\ faults' = IF i = 1 THEN faults ELSE faults - 1
    /\ faults' >= 0
    /\ ep' = [ep EXCEPT ![e] = feed_datagram(@, net[e][i], Size(Peer(e), net[e][i]))]
    /\ net' = [net EXCEPT ![e] = RemoveAt(@, i)]
    /\ expiries' = [expiries EXCEPT ![e] = 0]
    /\ UNCHANGED config

Drop(e, i) ==
    /\ faults > 0
    /\ faults' = faults - 1
    /\ net' = [net EXCEPT ![e] = RemoveAt(@, i)]
    /\ UNCHANGED << config, ep, expiries >>

-----------------------------------------------------------------------------
(* Timers (on_timeout_inner).                                              *)

CanPop(e) == \E l \in Levels : Buildable(ep[e], l)

AckOwed(e) == ep[e].pn["A"].eliciting > 0 /\ ~ep[e].pn["A"].due

(* The delay of an acknowledgement runs out.                               *)
AckDelay(e) ==
    /\ AckOwed(e)
    /\ ep' = [ep EXCEPT ![e].pn["A"].due = TRUE]
    /\ UNCHANGED << config, net, faults, expiries >>

(* Probe and loss timeouts are longer than a round trip: they expire when  *)
(* nothing else can happen, or prematurely, which is a fault.              *)
Quiescent ==
    /\ \A e \in Endpoints : net[e] = << >>
    /\ \A e \in Endpoints : ~CanPop(e) /\ ~AckOwed(e)

LossTimeout(e) ==
    LET E == sync_loss_context(ep[e])
    IN  \E s \in Spaces :
            /\ E.loss[s].loss_time
            /\ \E p \in E.loss[s].sent :
                   /\ p.pn <= E.loss[s].largest_acked
                   /\ ep' = [ep EXCEPT ![e] = detect_lost_on_timer(E, s, p.pn)]

PtoTimeout(e) ==
    LET E == sync_loss_context(ep[e])
    IN  /\ expiries[e] < MaxExpiries
        /\ \E s \in pto_time_and_space(E) : ep' = [ep EXCEPT ![e] = on_pto(E, s)]

Expire(e) ==
    /\ Quiescent
    /\ \/ ep[e].timer = "loss" /\ LossTimeout(e) /\ UNCHANGED expiries
       \/ ep[e].timer = "pto" /\ PtoTimeout(e) /\ expiries' = [expiries EXCEPT ![e] = @ + 1]
    /\ UNCHANGED << config, net, faults >>

ExpireEarly(e) ==
    /\ faults > 0 /\ ~Quiescent
    /\ faults' = faults - 1
    /\ \/ ep[e].timer = "loss" /\ LossTimeout(e)
       \/ ep[e].timer = "pto" /\ PtoTimeout(e)
    /\ UNCHANGED << config, net, expiries >>

-----------------------------------------------------------------------------
Progress ==
    \E e \in Endpoints :
        \/ Send(e)
        \/ net[e] # << >> /\ Deliver(e, 1)
        \/ AckDelay(e)
        \/ Expire(e)

Interference ==
    \E e \in Endpoints :
        \/ \E i \in 2 .. Len(net[e]) : Deliver(e, i)
        \/ \E i \in 1 .. Len(net[e]) : Drop(e, i)
        \/ ExpireEarly(e)

Next == Progress \/ Interference

(* A step of Progress is possible.                                         *)
Busy ==
    \E e \in Endpoints :
        \/ CanPop(e) \/ net[e] # << >> \/ AckOwed(e) \/ ep[e].timer = "loss"
        \/ /\ ep[e].timer = "pto" /\ expiries[e] < MaxExpiries
           /\ pto_time_and_space(sync_loss_context(ep[e])) # {}

(* Weak fairness of Progress, with Busy for its ENABLED (which TLC is slow *)
(* to evaluate here): the applications drain pop_datagram and drive the    *)
(* timers, and a datagram that is not dropped arrives.                     *)
Spec == Init /\ [][Next]_vars /\ ([]<>~Busy \/ []<><<Progress>>_vars)

-----------------------------------------------------------------------------
(* Properties.                                                             *)

(* The congestion controller counts exactly the packets loss recovery      *)
(* tracks: none leaks when packets are acknowledged, declared lost, or     *)
(* stranded in a level that is discarded (discard_level, connection.rs).   *)
InFlightCounted ==
    \A e \in Endpoints :
        ep[e].in_flight = Cardinality(ep[e].loss["I"].sent) + Cardinality(ep[e].loss["H"].sent)
                            + Cardinality(ep[e].loss["A"].sent)

(* What was sent and not acknowledged is either queued again or carried by *)
(* a packet that can still be declared lost, for CRYPTO, HANDSHAKE_DONE    *)
(* and stream data alike: nothing is waited for that nobody will resend.   *)
NothingLost ==
    \A e \in Endpoints :
        LET E == ep[e]
        IN  /\ \A l \in {"I", "H"} : \A u \in E.bufs[l].history :
                   \/ u \in ToSet(E.bufs[l].rtx)
                   \/ \E p \in E.loss[l].sent : p.crypto = u
            /\ e = "s" /\ E.complete =>
                   \/ E.handshake_done_acked \/ E.handshake_done_pending
                   \/ \E p \in E.loss["A"].sent : p.hd
            /\ e \in config.data =>
                   \/ E.data_acked \/ E.data_pending
                   \/ \E p \in E.loss["A"].sent : p.data

(* The timer last stored is the one the present facts call for: whatever   *)
(* changed since (keys, confirmation, the amplification budget, a          *)
(* discarded level) has been followed by a recomputation.                  *)
TimerCurrent ==
    \A e \in Endpoints :
        ep[e].sent_first_datagram => ep[e].timer = TimerPurpose(sync_loss_context(ep[e]))

(* A level is discarded only once the peer holds everything sent in it:    *)
(* the client's Finished in particular outlives the client's completion    *)
(* (discard_handshake_levels).                                             *)
DiscardedIsDelivered ==
    /\ "I" \notin ep["c"].tx => ep["s"].engine # "hello"
    /\ "I" \notin ep["s"].tx => ep["c"].engine # "hello"
    /\ ep["c"].engine # "hello" /\ "H" \notin ep["c"].tx => ep["s"].engine = "done"
    /\ ep["s"].engine # "hello" /\ "H" \notin ep["s"].tx => ep["c"].engine = "done"

(* The handshake is confirmed at both ends, the data of both applications  *)
(* has arrived, and both sides know it.                                    *)
Done ==
    \A e \in Endpoints :
        /\ ep[e].confirmed
        /\ e \in config.data => ep[Peer(e)].data_read /\ ep[e].data_acked
        /\ ep[e].in_flight = 0

(* Whatever datagrams are lost, both sides get there: somebody's timer is  *)
(* always armed while something is missing.                                *)
EventuallyDone == <>Done

(* A client that nobody has told that its address is validated has a timer *)
(* when all is quiet (LossContext, loss.rs): "the client keeps probing     *)
(* even with nothing in flight".                                           *)
ClientKeepsProbing ==
    LET E == sync_loss_context(ep["c"])
    IN  Quiescent /\ ~peer_completed_address_validation(E) => E.timer # "none"

=============================================================================
