--------------------------- MODULE QuicKeyUpdate ----------------------------
(***************************************************************************)
(* Key updates of an established QUIC connection (quic/connection.rs, the  *)
(* 1-RTT keys of quic/crypto.rs) between two endpoints and a network that  *)
(* loses, repeats and reorders packets.                                    *)
(*                                                                         *)
(* A key is its generation: deriving the next secret adds one, and a       *)
(* packet opens under the key it was sealed with and no other.  The phase  *)
(* bit on the wire selects between two slots.  An endpoint is the record   *)
(* of its key state; a handler maps it to its next value.  What a packet   *)
(* carries is left out but for HANDSHAKE_DONE and its acknowledgement,     *)
(* which decide when updates are allowed.                                  *)
(***************************************************************************)
EXTENDS Integers, FiniteSets, FiniteSetsExt

CONSTANTS WINDOW,        \* packet numbers a replay window reaches back (128)
          USAGE_LIMIT,   \* packets one key may seal (2^23 for AES-GCM)
          MaxPn,         \* bound: packets of each endpoint
          MaxGen         \* bound: generation up to which the applications update

ASSUME KeyUpdateAssumption ==
    /\ WINDOW \in Nat \ {0} /\ USAGE_LIMIT \in Nat \ {0}
    /\ MaxPn \in [{"c", "s"} -> Nat] /\ MaxGen \in Nat

VARIABLES ep,           \* endpoint -> its keys
          net,          \* endpoint -> the packets it has sent, lost or not
          dispatched    \* endpoint -> packet number -> times its frames were handled (history)

vars == << ep, net, dispatched >>

Endpoints == {"c", "s"}

Peer(e) == IF e = "c" THEN "s" ELSE "c"

Phases == {0, 1}

None == -1

-----------------------------------------------------------------------------
(* PnReplayWindow: the packet numbers accepted under a key.                *)

is_fresh(w, pn) == w = {} \/ pn > Max(w) \/ (Max(w) - pn < WINDOW /\ pn \notin w)

record(w, pn) == w \union {pn}

-----------------------------------------------------------------------------
(* The keys of one endpoint.                                               *)

(* maybe_initialize_one_rtt_phases: generation 0 in use, 1 derived ahead.  *)
(* A server has confirmed the handshake when it completes it.              *)
NewKeys(e) ==
    [role |-> e, closed |-> "no",
     tx |-> 0, tx_by_phase |-> [h \in Phases |-> h], one_rtt_phase |-> 0,
     rx_by_phase |-> [h \in Phases |-> h], rx_phase |-> 0, rx_pn_window |-> {},
     prev_rx_keys |-> None, prev_rx_pn_window |-> {},
     tx_phase_pending_confirm |-> FALSE, tx_packets |-> 0, next_pn |-> 0,
     handshake_confirmed |-> e = "s", handshake_done_acked |-> FALSE]

(* Mutant: the slot that is vacated keeps its old key.                     *)
flip_tx_key_phase_stale(E, h) ==
    [E EXCEPT !.tx = E.tx_by_phase[h], !.tx_packets = 0, !.one_rtt_phase = h]

flip_tx_key_phase(E, h) ==
    [E EXCEPT !.tx = E.tx_by_phase[h],
              !.tx_by_phase[1 - h] = E.tx_by_phase[h] + 1,
              !.tx_packets = 0,
              !.one_rtt_phase = h]

(* Mutant: a server does not wait for HANDSHAKE_DONE to be acknowledged.   *)
may_update_early(E) ==
    E.closed = "no" /\ E.handshake_confirmed /\ ~E.tx_phase_pending_confirm

may_update(E) ==
    /\ E.closed = "no" /\ E.handshake_confirmed
    /\ E.role = "s" => E.handshake_done_acked
    /\ ~E.tx_phase_pending_confirm

initiate_key_update(E) ==
    IF may_update(E)
    THEN [flip_tx_key_phase(E, 1 - E.one_rtt_phase) EXCEPT !.tx_phase_pending_confirm = TRUE]
    ELSE E

(* The peer's update: its old key is kept aside, with the packets accepted *)
(* under it, and the sending direction follows unless it was first.        *)
commit_rx_key_phase_flip(E, h) ==
    LET F == [E EXCEPT !.prev_rx_keys = E.rx_by_phase[1 - h],
                       !.prev_rx_pn_window = E.rx_pn_window,
                       !.rx_by_phase[1 - h] = E.rx_by_phase[h] + 1,
                       !.rx_pn_window = {},
                       !.rx_phase = h]
    IN  IF E.tx_phase_pending_confirm THEN [F EXCEPT !.tx_phase_pending_confirm = FALSE]
        ELSE flip_tx_key_phase(F, h)

refresh_phase_chains_post_confirm(E, h) ==
    [E EXCEPT !.rx_by_phase[1 - h] = E.rx_by_phase[h] + 1,
              !.tx_by_phase[1 - h] = E.tx_by_phase[h] + 1]

-----------------------------------------------------------------------------
(* Receiving a short-header packet.                                        *)

(* The slot of the packet's phase is tried first, then the previous key if *)
(* the phase is not the current one.                                       *)
OpensCurrent(E, p) == E.rx_by_phase[p.phase] = p.gen

OpensPrevious(E, p) ==
    ~OpensCurrent(E, p) /\ p.phase # E.rx_phase /\ E.prev_rx_keys = p.gen

Opens(E, p) == OpensCurrent(E, p) \/ OpensPrevious(E, p)

(* A newer packet under an older key, or an older one under a newer key.   *)
KeysOutOfOrder(E, p) ==
    /\ E.rx_pn_window # {}
    /\ IF OpensPrevious(E, p) THEN p.pn > Min(E.rx_pn_window)
       ELSE p.phase # E.rx_phase /\ p.pn < Max(E.rx_pn_window)

WindowOf(E, p) == IF OpensPrevious(E, p) THEN E.prev_rx_pn_window ELSE E.rx_pn_window

Accepts(E, p) == Opens(E, p) /\ ~KeysOutOfOrder(E, p) /\ is_fresh(WindowOf(E, p), p.pn)

(* Mutant: the window that starts does not hold the committing packet.     *)
SettlePhase_unseeded(E, p) ==
    IF OpensPrevious(E, p) THEN [E EXCEPT !.prev_rx_pn_window = record(@, p.pn)]
    ELSE LET F == [E EXCEPT !.rx_pn_window = record(@, p.pn)]
         IN  IF p.phase # E.rx_phase THEN commit_rx_key_phase_flip(F, p.phase) ELSE F

(* The committing packet is recorded twice: in the window that is set      *)
(* aside, and in the one that starts.                                      *)
SettlePhase(E, p) ==
    IF OpensPrevious(E, p) THEN [E EXCEPT !.prev_rx_pn_window = record(@, p.pn)]
    ELSE LET F == [E EXCEPT !.rx_pn_window = record(@, p.pn)]
         IN  IF p.phase # E.rx_phase
             THEN [commit_rx_key_phase_flip(F, p.phase) EXCEPT !.rx_pn_window = record(@, p.pn)]
             ELSE IF p.phase = E.one_rtt_phase /\ E.tx_phase_pending_confirm
             THEN refresh_phase_chains_post_confirm(
                      [F EXCEPT !.tx_phase_pending_confirm = FALSE], E.rx_phase)
             ELSE F

feed_short_header_packet(E, p) ==
    IF Opens(E, p) /\ KeysOutOfOrder(E, p) THEN [E EXCEPT !.closed = "KEY_UPDATE_ERROR"]
    ELSE IF ~Accepts(E, p) THEN E
    ELSE [SettlePhase(E, p) EXCEPT
             !.handshake_confirmed = @ \/ p.handshake_done,
             !.handshake_done_acked = @ \/ p.acks_handshake_done]

-----------------------------------------------------------------------------
(* Sending a short-header packet.                                          *)

(* Three quarters of the limit are the time to update.                     *)
RotateIfWorn(E) ==
    IF E.tx_packets >= USAGE_LIMIT - USAGE_LIMIT \div 4 THEN initiate_key_update(E) ELSE E

(* A server repeats HANDSHAKE_DONE until it is acknowledged, as            *)
(* QuicHandshake shows.                                                    *)
Packet(E) ==
    [pn |-> E.next_pn, phase |-> E.one_rtt_phase, gen |-> E.tx,
     handshake_done |-> E.role = "s" /\ ~E.handshake_done_acked,
     acks_handshake_done |-> E.role = "c" /\ E.handshake_confirmed]

seal_packet(E) == [E EXCEPT !.tx_packets = @ + 1, !.next_pn = @ + 1]

-----------------------------------------------------------------------------
Init ==
    /\ ep = [e \in Endpoints |-> NewKeys(e)]
    /\ net = [e \in Endpoints |-> {}]
    /\ dispatched = [e \in Endpoints |-> [n \in 0 .. MaxPn[Peer(e)] - 1 |-> 0]]

Alive(e) == ep[e].closed = "no"

(* The application asks for an update.                                     *)
Update(e) ==
    /\ may_update(ep[e]) /\ ep[e].tx < MaxGen
    /\ ep' = [ep EXCEPT ![e] = initiate_key_update(@)]
    /\ UNCHANGED << net, dispatched >>

(* There is something to send: data, an ACK, a probe or the PING of an     *)
(* update.  A worn key that cannot be replaced ends the connection.        *)
Send(e) ==
    LET E == RotateIfWorn(ep[e])
    IN  /\ Alive(e) /\ E.next_pn < MaxPn[e]
        /\ IF E.tx_packets >= USAGE_LIMIT
           THEN /\ ep' = [ep EXCEPT ![e] = [E EXCEPT !.closed = "AEAD_LIMIT_REACHED"]]
                /\ UNCHANGED net
           ELSE /\ ep' = [ep EXCEPT ![e] = seal_packet(E)]
                /\ net' = [net EXCEPT ![e] = @ \union {Packet(E)}]
        /\ UNCHANGED dispatched

(* Any packet sent so far arrives, again or for the first time.            *)
Receive(e, p) ==
    /\ Alive(e)
    /\ ep' = [ep EXCEPT ![e] = feed_short_header_packet(@, p)]
    /\ dispatched' = IF Accepts(ep[e], p) THEN [dispatched EXCEPT ![e][p.pn] = @ + 1]
                     ELSE dispatched
    /\ UNCHANGED net

(* Three probe timeouts after an update the previous key is dropped.       *)
maybe_discard_prev_rx_keys(e) ==
    /\ Alive(e) /\ ep[e].prev_rx_keys # None
    /\ ep' = [ep EXCEPT ![e].prev_rx_keys = None, ![e].prev_rx_pn_window = {}]
    /\ UNCHANGED << net, dispatched >>

Next ==
    \E e \in Endpoints :
        \/ Update(e) \/ Send(e) \/ maybe_discard_prev_rx_keys(e)
        \/ \E p \in net[Peer(e)] : Receive(e, p)

Spec == Init /\ [][Next]_vars

-----------------------------------------------------------------------------
(* Properties.                                                             *)

(* Updates are made only when both sides may make them: no order of        *)
(* arrival has an endpoint accuse its honest peer of mixing up keys and    *)
(* packet numbers (the KEY_UPDATE_ERROR of feed_short_header_packet), and  *)
(* an endpoint that has left the first key has a peer that knows the       *)
(* handshake to be confirmed, so that it may take the update               *)
(* (initiate_key_update).                                                  *)
UpdatesLegal ==
    \A e \in Endpoints :
        /\ ep[e].closed # "KEY_UPDATE_ERROR"
        /\ ep[e].tx > 0 => ep[Peer(e)].handshake_confirmed

(* The frames of a packet are handled at most once, however often it       *)
(* arrives and whichever keys have come and gone in between: the window    *)
(* that is set aside with a key, and the one that starts with the next,    *)
(* leave no gap (commit_rx_key_phase_flip, prev_rx_pn_window).             *)
DispatchedOnce == \A e \in Endpoints : \A n \in DOMAIN dispatched[e] : dispatched[e][n] <= 1

(* e went on to a further update while its peer's is not confirmed.        *)
RanAhead(e) == ep[Peer(e)].tx_phase_pending_confirm /\ ep[e].tx > ep[Peer(e)].tx

(* The next packet an endpoint sends opens at its peer, with the slot its  *)
(* one phase bit selects: the chains of tx_by_phase and rx_by_phase, moved *)
(* by four different events at the two ends, stay in step.  The exception  *)
(* is an endpoint that has run ahead of its peer's own update.             *)
NextOpens == \A e \in Endpoints : RanAhead(e) \/ Opens(ep[Peer(e)], Packet(ep[e]))

(* "An endpoint MUST NOT initiate a subsequent key update until it has     *)
(* received an acknowledgment for a packet sent at the current key phase"  *)
(* (initiate_key_update): it is never two generations past what its peer   *)
(* has opened.                                                             *)
SubsequentAfterAcknowledged ==
    \A e \in Endpoints : LET P == ep[Peer(e)] IN ep[e].tx <= P.rx_by_phase[P.rx_phase] + 1

=============================================================================
