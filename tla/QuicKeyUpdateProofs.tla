------------------------ MODULE QuicKeyUpdateProofs -------------------------
(***************************************************************************)
(* Theorems about QuicKeyUpdate for every window width, every usage limit  *)
(* and any number of packets and updates.                                  *)
(***************************************************************************)
EXTENDS QuicKeyUpdate, SetInduction

(* The generation an endpoint reads under. *)
Reading(E) == E.rx_by_phase[E.rx_phase]

Fields ==
    {"role", "closed", "tx", "tx_by_phase", "one_rtt_phase", "rx_by_phase", "rx_phase",
     "rx_pn_window", "prev_rx_keys", "prev_rx_pn_window", "tx_phase_pending_confirm",
     "tx_packets", "next_pn", "handshake_confirmed", "handshake_done_acked"}

(* The ranges of an endpoint's fields. *)
KeyState(E) ==
    /\ DOMAIN E = Fields
    /\ E.role \in Endpoints
    /\ E.closed \in {"no", "AEAD_LIMIT_REACHED"}
    /\ E.tx \in Nat /\ E.tx_by_phase \in [Phases -> Nat] /\ E.one_rtt_phase \in Phases
    /\ E.rx_by_phase \in [Phases -> Nat] /\ E.rx_phase \in Phases
    /\ E.rx_pn_window \in SUBSET Nat
    /\ E.prev_rx_keys \in Nat \cup {None} /\ E.prev_rx_pn_window \in SUBSET Nat
    /\ E.tx_phase_pending_confirm \in BOOLEAN /\ E.tx_packets \in Nat /\ E.next_pn \in Nat
    /\ E.handshake_confirmed \in BOOLEAN /\ E.handshake_done_acked \in BOOLEAN

(* The chains of one endpoint: each slot holds the generation of its       *)
(* parity, the vacated one is a generation ahead, the previous key is the  *)
(* one before, and the sending side is ahead by the pending update.        *)
KeysOK(E) ==
    /\ E.tx_by_phase[E.one_rtt_phase] = E.tx
    /\ E.tx_by_phase[1 - E.one_rtt_phase] = E.tx + 1
    /\ E.one_rtt_phase = E.tx % 2
    /\ E.rx_by_phase[1 - E.rx_phase] = Reading(E) + 1
    /\ E.rx_phase = Reading(E) % 2
    /\ E.prev_rx_keys \in {None, Reading(E) - 1}
    /\ E.tx = IF E.tx_phase_pending_confirm THEN Reading(E) + 1 ELSE Reading(E)

PacketOK(p) ==
    /\ p.pn \in Nat /\ p.gen \in Nat /\ p.phase = p.gen % 2
    /\ p.handshake_done \in BOOLEAN /\ p.acks_handshake_done \in BOOLEAN

(* An operation on the sending side leaves these alone ... *)
SameReading(E, F) ==
    /\ F.rx_by_phase = E.rx_by_phase /\ F.rx_phase = E.rx_phase
    /\ F.rx_pn_window = E.rx_pn_window
    /\ F.prev_rx_keys = E.prev_rx_keys /\ F.prev_rx_pn_window = E.prev_rx_pn_window

(* ... and every operation on the keys these. *)
SameRest(E, F) ==
    /\ F.role = E.role /\ F.closed = E.closed /\ F.next_pn = E.next_pn
    /\ F.handshake_confirmed = E.handshake_confirmed
    /\ F.handshake_done_acked = E.handshake_done_acked

-----------------------------------------------------------------------------
(* What the operations on the keys do.                                     *)

(* Consecutive generations have the two phases. *)
LEMMA Parity ==
    ASSUME NEW n \in Nat
    PROVE  n % 2 \in Phases /\ (n + 1) % 2 = 1 - (n % 2)
BY DEF Phases

(* The Key Phase bit has two values. *)
LEMMA OtherPhase ==
    ASSUME NEW h \in Phases
    PROVE  /\ 1 - h \in Phases /\ 1 - h # h /\ 1 - (1 - h) = h
           /\ \A g \in Phases : g = h \/ g = 1 - h
BY DEF Phases

(* flip_tx_key_phase moves the sending side and nothing else. *)
LEMMA FlipTx ==
    ASSUME NEW E, KeyState(E), NEW h \in Phases
    PROVE  LET F == flip_tx_key_phase(E, h)
           IN  /\ KeyState(F)
               /\ F.tx = E.tx_by_phase[h] /\ F.one_rtt_phase = h
               /\ F.tx_by_phase[h] = F.tx /\ F.tx_by_phase[1 - h] = F.tx + 1
               /\ F.tx_phase_pending_confirm = E.tx_phase_pending_confirm
               /\ SameReading(E, F) /\ SameRest(E, F)
<1>1. 1 - h \in Phases /\ 1 - h # h
  BY OtherPhase
<1> QED BY <1>1 DEF flip_tx_key_phase, KeyState, Fields, SameReading, SameRest

(* initiate_key_update does nothing, or moves the sending side to the next *)
(* generation and makes the update pending.                                *)
LEMMA Initiate ==
    ASSUME NEW E, KeyState(E), KeysOK(E)
    PROVE  LET F == initiate_key_update(E)
           IN  /\ KeyState(F) /\ KeysOK(F) /\ SameReading(E, F) /\ SameRest(E, F)
               /\ F = E \/ (may_update(E) /\ F.tx = E.tx + 1)
<1> DEFINE F == initiate_key_update(E)
           h == 1 - E.one_rtt_phase
           G == flip_tx_key_phase(E, h)
<1>1. CASE ~may_update(E)
  <2>1. F = E
    BY <1>1 DEF initiate_key_update
  <2> QED BY <2>1 DEF SameReading, SameRest
<1>2. CASE may_update(E)
  <2>1. h \in Phases /\ 1 - h = E.one_rtt_phase
    BY OtherPhase DEF KeyState
  <2>2. /\ KeyState(G) /\ G.tx = E.tx + 1 /\ G.one_rtt_phase = h
        /\ G.tx_by_phase[h] = G.tx /\ G.tx_by_phase[1 - h] = G.tx + 1
        /\ SameReading(E, G) /\ SameRest(E, G)
    BY <2>1, FlipTx DEF KeysOK
  <2>3. F = [G EXCEPT !.tx_phase_pending_confirm = TRUE]
    BY <1>2 DEF initiate_key_update
  <2> HIDE DEF G, F
  <2>4. /\ KeyState(F) /\ F.tx = G.tx /\ F.one_rtt_phase = h /\ F.tx_by_phase = G.tx_by_phase
        /\ F.tx_phase_pending_confirm = TRUE /\ SameReading(E, F) /\ SameRest(E, F)
    BY <2>2, <2>3 DEF KeyState, Fields, SameReading, SameRest
  <2>5. h = (E.tx + 1) % 2
    BY Parity DEF KeyState, KeysOK
  <2>6. ~E.tx_phase_pending_confirm
    BY <1>2 DEF may_update
  <2>7. KeysOK(F)
    BY <2>1, <2>2, <2>4, <2>5, <2>6 DEF KeysOK, SameReading, Reading, KeyState
  <2> QED BY <1>2, <2>2, <2>4, <2>7 DEF F
<1> QED BY <1>1, <1>2

(* commit_rx_key_phase_flip: the next generation is read, the one before   *)
(* is kept aside, and the sending side is on the same generation after it. *)
LEMMA CommitRx ==
    ASSUME NEW E, KeyState(E), KeysOK(E)
    PROVE  LET F == commit_rx_key_phase_flip(E, 1 - E.rx_phase)
           IN  /\ KeyState(F) /\ KeysOK(F) /\ SameRest(E, F)
               /\ Reading(F) = Reading(E) + 1 /\ F.tx = Reading(E) + 1
               /\ F.rx_pn_window = {}
               /\ F.prev_rx_keys = Reading(E) /\ F.prev_rx_pn_window = E.rx_pn_window
<1> DEFINE h == 1 - E.rx_phase
           F == commit_rx_key_phase_flip(E, h)
           G == [E EXCEPT !.prev_rx_keys = E.rx_by_phase[1 - h],
                          !.prev_rx_pn_window = E.rx_pn_window,
                          !.rx_by_phase[1 - h] = E.rx_by_phase[h] + 1,
                          !.rx_pn_window = {},
                          !.rx_phase = h]
<1>1. h \in Phases /\ 1 - h \in Phases /\ 1 - h = E.rx_phase /\ 1 - h # h
  BY OtherPhase DEF KeyState
<1>2. E.rx_by_phase[1 - h] = Reading(E) /\ E.rx_by_phase[h] = Reading(E) + 1 /\ Reading(E) \in Nat
  BY <1>1 DEF KeysOK, KeyState, Reading
<1>3. /\ KeyState(G) /\ SameRest(E, G) /\ Reading(G) = Reading(E) + 1
      /\ G.rx_phase = h /\ G.rx_by_phase[1 - h] = Reading(E) + 2 /\ G.rx_by_phase[h] = Reading(E) + 1
      /\ G.rx_pn_window = {} /\ G.prev_rx_keys = Reading(E)
      /\ G.prev_rx_pn_window = E.rx_pn_window /\ G.tx = E.tx
      /\ G.tx_by_phase = E.tx_by_phase /\ G.one_rtt_phase = E.one_rtt_phase
      /\ G.tx_phase_pending_confirm = E.tx_phase_pending_confirm
  BY <1>1, <1>2 DEF KeyState, Fields, SameRest, Reading
<1>4. h = (Reading(E) + 1) % 2
  BY <1>2, Parity DEF KeysOK
<1>5. CASE E.tx_phase_pending_confirm
  <2>1. F = [G EXCEPT !.tx_phase_pending_confirm = FALSE]
    BY <1>5 DEF commit_rx_key_phase_flip
  <2> HIDE DEF G, F
  <2>2. /\ KeyState(F) /\ SameRest(E, F) /\ SameReading(G, F) /\ F.tx = E.tx
        /\ F.tx_by_phase = E.tx_by_phase /\ F.one_rtt_phase = E.one_rtt_phase
        /\ F.tx_phase_pending_confirm = FALSE
    BY <1>3, <2>1 DEF KeyState, Fields, SameRest, SameReading
  <2>3. F.tx = Reading(E) + 1 /\ Reading(F) = Reading(E) + 1
    BY <1>3, <1>5, <2>2 DEF KeysOK, SameReading, Reading
  <2>4. KeysOK(F)
    BY <1>1, <1>2, <1>3, <1>4, <2>2, <2>3 DEF KeysOK, SameReading, Reading
  <2> QED BY <1>3, <2>2, <2>3, <2>4 DEF F, h, SameReading
<1>6. CASE ~E.tx_phase_pending_confirm
  <2>1. F = flip_tx_key_phase(G, h)
    BY <1>6 DEF commit_rx_key_phase_flip
  <2> HIDE DEF G, F
  <2>2. /\ KeyState(F) /\ F.tx = G.tx_by_phase[h] /\ F.one_rtt_phase = h
        /\ F.tx_by_phase[h] = F.tx /\ F.tx_by_phase[1 - h] = F.tx + 1
        /\ F.tx_phase_pending_confirm = FALSE
        /\ SameReading(G, F) /\ SameRest(G, F)
    <3>1. G.tx_phase_pending_confirm = FALSE
      BY <1>3, <1>6 DEF KeyState
    <3> QED BY <1>1, <1>3, <2>1, <3>1, FlipTx
  <2>3. E.one_rtt_phase = E.rx_phase /\ E.tx = Reading(E)
    BY <1>6 DEF KeysOK
  <2>4. F.tx = Reading(E) + 1 /\ Reading(F) = Reading(E) + 1
    BY <1>1, <1>3, <2>2, <2>3 DEF KeysOK, SameReading, Reading
  <2>5. KeysOK(F)
    BY <1>1, <1>2, <1>3, <1>4, <2>2, <2>4 DEF KeysOK, SameReading, Reading
  <2> QED BY <1>3, <2>2, <2>4, <2>5 DEF F, h, SameReading, SameRest
<1> QED BY <1>5, <1>6

(* The packet an endpoint opens is of the generation it reads, the next or *)
(* the one before, and its phase tells which.                              *)
LEMMA OpensWhich ==
    ASSUME NEW E, KeyState(E), KeysOK(E), NEW p, PacketOK(p)
    PROVE  /\ Reading(E) \in Nat
           /\ OpensCurrent(E, p) /\ p.phase = E.rx_phase => p.gen = Reading(E)
           /\ OpensCurrent(E, p) /\ p.phase # E.rx_phase
                => p.gen = Reading(E) + 1 /\ p.phase = 1 - E.rx_phase
           /\ OpensPrevious(E, p) => p.gen = E.prev_rx_keys /\ p.gen = Reading(E) - 1
<1>1. p.phase \in Phases /\ E.rx_phase \in Phases
  BY Parity DEF PacketOK, KeyState
<1>2. p.phase # E.rx_phase => p.phase = 1 - E.rx_phase
  BY <1>1, OtherPhase
<1>3. Reading(E) \in Nat
  BY <1>1 DEF KeyState, Reading
<1>4. OpensPrevious(E, p) => p.gen = E.prev_rx_keys /\ p.gen = Reading(E) - 1
  BY DEF OpensPrevious, PacketOK, KeysOK, None
<1> QED BY <1>2, <1>3, <1>4 DEF OpensCurrent, KeysOK, Reading

(* What an accepted packet does to the keys: it is recorded with the key   *)
(* that opened it, and one of the next generation moves the reader.        *)
Recorded(E, F, p) ==
    \/ /\ p.gen = E.prev_rx_keys
       /\ Reading(F) = Reading(E) /\ F.rx_pn_window = E.rx_pn_window
       /\ F.prev_rx_keys = E.prev_rx_keys
       /\ F.prev_rx_pn_window = E.prev_rx_pn_window \cup {p.pn}
    \/ /\ p.gen = Reading(E)
       /\ Reading(F) = Reading(E) /\ F.rx_pn_window = E.rx_pn_window \cup {p.pn}
       /\ F.prev_rx_keys = E.prev_rx_keys /\ F.prev_rx_pn_window = E.prev_rx_pn_window
    \/ /\ p.gen = Reading(E) + 1
       /\ Reading(F) = Reading(E) + 1 /\ F.rx_pn_window = {p.pn}
       /\ F.prev_rx_keys = Reading(E)
       /\ F.prev_rx_pn_window = E.rx_pn_window \cup {p.pn}

(* What opening a packet does to the keys. *)
LEMMA Settle ==
    ASSUME NEW E, KeyState(E), KeysOK(E), NEW p, PacketOK(p), Opens(E, p)
    PROVE  LET F == SettlePhase(E, p)
           IN  /\ KeyState(F) /\ KeysOK(F) /\ SameRest(E, F)
               /\ F.tx >= E.tx /\ (F.tx > E.tx => p.gen > 0)
               /\ Recorded(E, F, p)
<1> DEFINE F == SettlePhase(E, p)
           G == [E EXCEPT !.rx_pn_window = record(@, p.pn)]
<1>1. p.pn \in Nat /\ Reading(E) \in Nat /\ E.tx \in Nat
  BY OpensWhich DEF PacketOK, KeyState
<1>2. CASE OpensPrevious(E, p)
  <2>1. F = [E EXCEPT !.prev_rx_pn_window = record(@, p.pn)]
    BY <1>2 DEF SettlePhase
  <2> HIDE DEF F
  <2>2. KeyState(F) /\ SameRest(E, F)
    BY <1>1, <2>1 DEF KeyState, Fields, SameRest, record
  <2>3. /\ Reading(F) = Reading(E) /\ F.rx_pn_window = E.rx_pn_window
        /\ F.prev_rx_keys = E.prev_rx_keys
        /\ F.prev_rx_pn_window = E.prev_rx_pn_window \cup {p.pn}
        /\ F.tx = E.tx
    BY <2>1 DEF KeyState, Fields, record, Reading
  <2>4. KeysOK(F)
    BY <2>1 DEF KeyState, Fields, KeysOK, Reading
  <2> QED BY <1>1, <1>2, <2>2, <2>3, <2>4, OpensWhich DEF F, Recorded
<1>3. ASSUME ~OpensPrevious(E, p)
      PROVE  /\ OpensCurrent(E, p) /\ KeyState(G) /\ KeysOK(G) /\ SameRest(E, G)
             /\ Reading(G) = Reading(E) /\ G.tx = E.tx /\ G.rx_phase = E.rx_phase
             /\ G.rx_pn_window = E.rx_pn_window \cup {p.pn}
             /\ G.prev_rx_keys = E.prev_rx_keys
             /\ G.prev_rx_pn_window = E.prev_rx_pn_window
  <2>1. OpensCurrent(E, p)
    BY <1>3 DEF Opens
  <2>2. KeyState(G) /\ SameRest(E, G)
    BY <1>1 DEF KeyState, Fields, SameRest, record
  <2>3. KeysOK(G)
    BY DEF KeyState, Fields, KeysOK, Reading
  <2> QED BY <2>1, <2>2, <2>3 DEF KeyState, Fields, record, Reading
<1>4. CASE ~OpensPrevious(E, p) /\ p.phase = E.rx_phase
  <2>1. ~(p.phase = E.one_rtt_phase /\ E.tx_phase_pending_confirm)
    BY <1>1, <1>4, Parity, OtherPhase DEF KeysOK, KeyState
  <2>2. F = G
    BY <1>4, <2>1 DEF SettlePhase
  <2> HIDE DEF F, G
  <2> QED BY <1>1, <1>3, <1>4, <2>2, OpensWhich DEF F, Recorded
<1>5. CASE ~OpensPrevious(E, p) /\ p.phase # E.rx_phase
  <2> DEFINE H == commit_rx_key_phase_flip(G, p.phase)
  <2>1. F = [H EXCEPT !.rx_pn_window = record(@, p.pn)]
    BY <1>5 DEF SettlePhase
  <2>2. p.phase = 1 - G.rx_phase /\ p.gen = Reading(E) + 1
    BY <1>3, <1>5, OpensWhich
  <2> HIDE DEF G
  <2>3. /\ KeyState(H) /\ KeysOK(H) /\ SameRest(G, H)
        /\ Reading(H) = Reading(G) + 1 /\ H.tx = Reading(G) + 1
        /\ H.rx_pn_window = {} /\ H.prev_rx_keys = Reading(G)
        /\ H.prev_rx_pn_window = G.rx_pn_window
    BY <1>3, <1>5, <2>2, CommitRx
  <2> HIDE DEF F, H
  <2>4. KeyState(F) /\ SameRest(H, F)
    BY <1>1, <2>1, <2>3 DEF KeyState, Fields, SameRest, record
  <2>5. KeysOK(F)
    BY <2>1, <2>3 DEF KeyState, Fields, KeysOK, Reading
  <2>6. /\ Reading(F) = Reading(H) /\ F.tx = H.tx /\ F.rx_pn_window = {p.pn}
        /\ F.prev_rx_keys = H.prev_rx_keys /\ F.prev_rx_pn_window = H.prev_rx_pn_window
    BY <2>1, <2>3 DEF KeyState, Fields, record, Reading
  <2>7. SameRest(E, F)
    BY <1>3, <1>5, <2>3, <2>4 DEF SameRest
  <2>8. F.tx >= E.tx
    BY <1>1, <1>3, <1>5, <2>3, <2>6 DEF KeysOK
  <2> QED BY <1>1, <1>3, <1>5, <2>2, <2>3, <2>4, <2>5, <2>6, <2>7, <2>8 DEF F, Recorded
<1> QED BY <1>2, <1>4, <1>5

(* feed_short_header_packet, when the packet is no KEY_UPDATE_ERROR. *)
LEMMA Feed ==
    ASSUME NEW E, KeyState(E), KeysOK(E), NEW p, PacketOK(p),
           ~(Opens(E, p) /\ KeysOutOfOrder(E, p))
    PROVE  LET F == feed_short_header_packet(E, p)
           IN  /\ KeyState(F) /\ KeysOK(F)
               /\ F.role = E.role /\ F.closed = E.closed /\ F.next_pn = E.next_pn
               /\ F.tx >= E.tx /\ (F.tx > E.tx => p.gen > 0 /\ Accepts(E, p))
               /\ E.handshake_confirmed => F.handshake_confirmed
               /\ F.handshake_done_acked => E.handshake_done_acked \/ p.acks_handshake_done
               /\ ~Accepts(E, p) => F = E
               /\ Accepts(E, p) => Recorded(E, F, p)
<1> DEFINE F == feed_short_header_packet(E, p)
           G == SettlePhase(E, p)
<1>1. CASE ~Accepts(E, p)
  <2>1. F = E
    BY <1>1 DEF feed_short_header_packet
  <2> QED BY <1>1, <2>1 DEF KeyState
<1>2. CASE Accepts(E, p)
  <2>1. F = [G EXCEPT !.handshake_confirmed = @ \/ p.handshake_done,
                      !.handshake_done_acked = @ \/ p.acks_handshake_done]
    BY <1>2 DEF feed_short_header_packet, Accepts
  <2>2. /\ KeyState(G) /\ KeysOK(G) /\ SameRest(E, G)
        /\ G.tx >= E.tx /\ (G.tx > E.tx => p.gen > 0) /\ Recorded(E, G, p)
    BY <1>2, Settle DEF Accepts
  <2> HIDE DEF F, G
  <2>3. /\ DOMAIN F = Fields /\ F.role = G.role /\ F.closed = G.closed
        /\ F.next_pn = G.next_pn /\ F.tx = G.tx /\ F.tx_by_phase = G.tx_by_phase
        /\ F.one_rtt_phase = G.one_rtt_phase /\ SameReading(G, F)
        /\ F.tx_packets = G.tx_packets
        /\ F.tx_phase_pending_confirm = G.tx_phase_pending_confirm
    BY <2>1, <2>2 DEF KeyState, Fields, SameReading
  <2>4. /\ F.handshake_confirmed = (G.handshake_confirmed \/ p.handshake_done)
        /\ F.handshake_done_acked = (G.handshake_done_acked \/ p.acks_handshake_done)
    BY <2>1, <2>2 DEF KeyState, Fields
  <2>5. KeyState(F)
    BY <2>2, <2>3, <2>4 DEF KeyState, SameReading
  <2>6. KeysOK(F)
    BY <2>2, <2>3 DEF KeysOK, SameReading, Reading
  <2>7. Recorded(E, F, p)
    BY <2>2, <2>3 DEF Recorded, SameReading, Reading
  <2> QED BY <1>2, <2>2, <2>3, <2>4, <2>5, <2>6, <2>7 DEF F, SameRest
<1> QED BY <1>1, <1>2

-----------------------------------------------------------------------------
(* The inductive invariant, for a sender E, its packets N, the reader P of *)
(* them and how often P handled each, D.                                   *)

(* A packet number names one packet, and generations grow with numbers.    *)
NetOK(E, N) ==
    /\ \A p \in N : PacketOK(p) /\ p.pn < E.next_pn /\ p.gen <= E.tx
    /\ \A p, q \in N : p.pn = q.pn => p = q
    /\ \A p, q \in N : p.gen < q.gen => p.pn < q.pn

(* The reader is not ahead of the sender; what it recorded was sent, under *)
(* the key it reads with.                                                  *)
WindowOK(E, N, P) ==
    /\ Reading(P) <= E.tx
    /\ \A n \in P.rx_pn_window : \E q \in N : q.pn = n /\ q.gen = Reading(P)
    /\ \A n \in P.prev_rx_pn_window : n < E.next_pn

(* A packet that was handled is recorded with the key that opened it, for  *)
(* as long as that key is there.                                           *)
OnceOK(E, N, P, D) ==
    /\ \A n \in DOMAIN D : D[n] \in {0, 1} /\ (n >= E.next_pn => D[n] = 0)
    /\ \A p \in N :
          D[p.pn] # 0 =>
              /\ p.gen <= Reading(P)
              /\ p.gen = Reading(P) => p.pn \in P.rx_pn_window
              /\ p.gen = P.prev_rx_keys => p.pn \in P.prev_rx_pn_window

(* Nobody leaves the first generation before both know that the handshake  *)
(* is confirmed.                                                           *)
ConfirmedOK(C, S, N) ==
    /\ S.handshake_confirmed
    /\ C.tx > 0 \/ S.tx > 0 \/ S.handshake_done_acked => C.handshake_confirmed
    /\ \A p \in N : p.acks_handshake_done => C.handshake_confirmed

Shape ==
    /\ DOMAIN ep = Endpoints /\ DOMAIN net = Endpoints /\ DOMAIN dispatched = Endpoints
    /\ \A e \in Endpoints :
          /\ KeyState(ep[e]) /\ KeysOK(ep[e]) /\ ep[e].role = e
          /\ ep[e].next_pn <= MaxPn[e]
          /\ DOMAIN dispatched[e] = 0 .. MaxPn[Peer(e)] - 1

Directions ==
    \A e \in Endpoints :
        /\ NetOK(ep[e], net[e])
        /\ WindowOK(ep[e], net[e], ep[Peer(e)])
        /\ OnceOK(ep[e], net[e], ep[Peer(e)], dispatched[Peer(e)])

IInv == Shape /\ Directions /\ ConfirmedOK(ep["c"], ep["s"], net["c"])

(* Each endpoint is the other's peer. *)
LEMMA Peers ==
    ASSUME NEW e \in Endpoints
    PROVE  /\ Peer(e) \in Endpoints /\ Peer(e) # e /\ Peer(Peer(e)) = e
           /\ \A d \in Endpoints : d = e \/ d = Peer(e)
BY DEF Endpoints, Peer

-----------------------------------------------------------------------------
(* The reader's side of a direction.                                       *)

(* An honest peer's packet is never taken for a KEY_UPDATE_ERROR. *)
LEMMA InOrder ==
    ASSUME NEW E, KeyState(E), NEW N, NEW P, KeyState(P), KeysOK(P), NetOK(E, N),
           WindowOK(E, N, P), NEW p \in N
    PROVE  ~(Opens(P, p) /\ KeysOutOfOrder(P, p))
<1> SUFFICES ASSUME Opens(P, p), KeysOutOfOrder(P, p) PROVE FALSE
  OBVIOUS
<1>1. PacketOK(p) /\ Reading(P) \in Nat
  BY OpensWhich DEF NetOK
<1>2. P.rx_pn_window # {} /\ P.rx_pn_window \subseteq Nat /\ E.next_pn \in Nat
  BY DEF KeysOutOfOrder, KeyState
<1>3. P.rx_pn_window \subseteq 0 .. E.next_pn
  <2>1. ASSUME NEW n \in P.rx_pn_window PROVE n < E.next_pn
    BY <2>1 DEF WindowOK, NetOK
  <2> QED BY <1>2, <2>1
<1>4. /\ Min(P.rx_pn_window) \in P.rx_pn_window
      /\ Max(P.rx_pn_window) \in P.rx_pn_window
  BY <1>2, <1>3, MinBounds, MaxBounds
<1>5. CASE OpensPrevious(P, p)
  <2>1. p.gen < Reading(P) /\ p.pn > Min(P.rx_pn_window)
    BY <1>1, <1>5, OpensWhich DEF KeysOutOfOrder, PacketOK
  <2>2. PICK q \in N : q.pn = Min(P.rx_pn_window) /\ q.gen = Reading(P)
    BY <1>4 DEF WindowOK
  <2>3. p.pn < q.pn /\ p.pn \in Nat /\ q.pn \in Nat
    BY <2>1, <2>2 DEF NetOK, PacketOK
  <2> QED BY <2>1, <2>2, <2>3
<1>6. CASE ~OpensPrevious(P, p)
  <2>1. p.gen = Reading(P) + 1 /\ p.pn < Max(P.rx_pn_window)
    BY <1>1, <1>6, OpensWhich DEF KeysOutOfOrder, Opens
  <2>2. PICK q \in N : q.pn = Max(P.rx_pn_window) /\ q.gen = Reading(P)
    BY <1>4 DEF WindowOK
  <2>3. q.pn < p.pn /\ p.pn \in Nat /\ q.pn \in Nat
    BY <1>1, <2>1, <2>2 DEF NetOK, PacketOK
  <2> QED BY <2>1, <2>2, <2>3
<1> QED BY <1>5, <1>6

(* A window holds none of the numbers it calls fresh. *)
LEMMA FreshIsNew ==
    ASSUME NEW n \in Nat, NEW w, w \subseteq 0 .. n, NEW pn \in Nat, is_fresh(w, pn)
    PROVE  pn \notin w
<1> SUFFICES ASSUME pn \in w PROVE FALSE
  OBVIOUS
<1>1. Max(w) \in w /\ Max(w) >= pn
  BY MaxBounds
<1>2. \A x \in w : x \in Nat
  OBVIOUS
<1>3. Max(w) \in Nat
  BY <1>1, <1>2, Zenon
<1> QED BY <1>1, <1>3 DEF is_fresh

(* An accepted packet was not handled before. *)
LEMMA AcceptedIsNew ==
    ASSUME NEW E, KeyState(E), NEW N, NEW P, KeyState(P), KeysOK(P), NEW D,
           NetOK(E, N), WindowOK(E, N, P), OnceOK(E, N, P, D),
           NEW p \in N, Accepts(P, p)
    PROVE  D[p.pn] = 0
<1> SUFFICES ASSUME D[p.pn] # 0 PROVE FALSE
  OBVIOUS
<1>1. PacketOK(p) /\ p.pn \in Nat /\ E.next_pn \in Nat
  BY DEF NetOK, PacketOK, KeyState
<1>2. P.rx_pn_window \subseteq 0 .. E.next_pn /\ P.prev_rx_pn_window \subseteq 0 .. E.next_pn
  <2>1. ASSUME NEW n \in P.rx_pn_window PROVE n < E.next_pn
    BY <2>1 DEF WindowOK, NetOK
  <2> QED BY <1>1, <2>1 DEF KeyState, WindowOK
<1>3. p.pn \notin WindowOf(P, p)
  BY <1>1, <1>2, FreshIsNew DEF Accepts, WindowOf
<1>4. CASE OpensPrevious(P, p)
  BY <1>1, <1>3, <1>4, OpensWhich DEF WindowOf, OnceOK
<1>5. CASE ~OpensPrevious(P, p)
  <2>1. p.gen = Reading(P) \/ p.gen = Reading(P) + 1
    BY <1>1, <1>5, OpensWhich DEF Accepts, Opens
  <2>2. Reading(P) \in Nat
    BY <1>1, OpensWhich
  <2> QED BY <1>3, <1>5, <2>1, <2>2 DEF WindowOf, OnceOK
<1> QED BY <1>4, <1>5

(* Handling it keeps the reader's side in order. *)
LEMMA ReadStep ==
    ASSUME NEW E, KeyState(E), NEW N, NEW P, KeyState(P), KeysOK(P), NEW D,
           NetOK(E, N), WindowOK(E, N, P), OnceOK(E, N, P, D),
           NEW p \in N, Accepts(P, p), \A q \in N : q.pn \in DOMAIN D,
           NEW Q, KeyState(Q), Recorded(P, Q, p)
    PROVE  WindowOK(E, N, Q) /\ OnceOK(E, N, Q, [D EXCEPT ![p.pn] = @ + 1])
<1> DEFINE C == [D EXCEPT ![p.pn] = @ + 1]
<1>1. PacketOK(p) /\ p.pn \in Nat /\ p.gen \in Nat /\ p.gen <= E.tx /\ p.pn < E.next_pn
  BY DEF NetOK, PacketOK
<1>2. Reading(P) \in Nat
  BY <1>1, OpensWhich
<1>3. \A n \in P.rx_pn_window : n < E.next_pn
  BY DEF WindowOK, NetOK
<1>4. WindowOK(E, N, Q)
  BY <1>1, <1>3 DEF WindowOK, Recorded
<1>5. D[p.pn] = 0
  BY AcceptedIsNew
<1>6. DOMAIN C = DOMAIN D /\ C[p.pn] = 1 /\ \A n \in DOMAIN D : n # p.pn => C[n] = D[n]
  BY <1>5
<1> HIDE DEF C
<1>7. \A n \in DOMAIN C : C[n] \in {0, 1} /\ (n >= E.next_pn => C[n] = 0)
  BY <1>1, <1>6 DEF OnceOK, KeyState
<1>8. ASSUME NEW q \in N, C[q.pn] # 0
      PROVE  /\ q.gen <= Reading(Q)
             /\ q.gen = Reading(Q) => q.pn \in Q.rx_pn_window
             /\ q.gen = Q.prev_rx_keys => q.pn \in Q.prev_rx_pn_window
  <2>1. q.gen \in Nat
    BY DEF NetOK, PacketOK
  <2>2. CASE q = p
    BY <1>1, <1>2, <2>2 DEF Recorded, KeyState, KeysOK, None
  <2>3. CASE q # p
    <3>1. q.pn # p.pn
      BY <2>3 DEF NetOK
    <3>2. D[q.pn] # 0
      BY <1>6, <1>8, <3>1
    <3>3. /\ q.gen <= Reading(P)
          /\ q.gen = Reading(P) => q.pn \in P.rx_pn_window
          /\ q.gen = P.prev_rx_keys => q.pn \in P.prev_rx_pn_window
      BY <3>2 DEF OnceOK
    <3> QED BY <1>2, <2>1, <3>3 DEF Recorded
  <2> QED BY <2>2, <2>3
<1> QED BY <1>4, <1>7, <1>8 DEF OnceOK, C

-----------------------------------------------------------------------------
(* The sender's side: its keys may move on and its numbers grow. *)
LEMMA SenderMoves ==
    ASSUME NEW E, KeyState(E), NEW N, NEW P, NEW D,
           NetOK(E, N), WindowOK(E, N, P), OnceOK(E, N, P, D), KeyState(P),
           NEW F, KeyState(F), F.tx >= E.tx, F.next_pn >= E.next_pn, DOMAIN D \subseteq Nat
    PROVE  NetOK(F, N) /\ WindowOK(F, N, P) /\ OnceOK(F, N, P, D)
<1>1. E.tx \in Nat /\ F.tx \in Nat /\ E.next_pn \in Nat /\ F.next_pn \in Nat
  BY DEF KeyState
<1>2. Reading(P) \in Nat /\ P.prev_rx_pn_window \subseteq Nat
  BY DEF KeyState, Reading
<1>3. NetOK(F, N)
  BY <1>1 DEF NetOK, PacketOK
<1>4. WindowOK(F, N, P)
  BY <1>1, <1>2 DEF WindowOK
<1>5. OnceOK(F, N, P, D)
  BY <1>1 DEF OnceOK
<1> QED BY <1>3, <1>4, <1>5

(* A packet goes out under the present key and the next number. *)
LEMMA SenderSends ==
    ASSUME NEW E, KeyState(E), KeysOK(E), NEW N, NEW P, KeyState(P), NEW D,
           NetOK(E, N), WindowOK(E, N, P), OnceOK(E, N, P, D),
           DOMAIN D \subseteq Nat, E.next_pn \in DOMAIN D,
           \A q \in N : q.pn \in DOMAIN D
    PROVE  LET F == seal_packet(E)
               M == N \cup {Packet(E)}
           IN  /\ KeyState(F) /\ KeysOK(F) /\ SameReading(E, F)
               /\ F.tx = E.tx /\ F.role = E.role /\ F.next_pn = E.next_pn + 1
               /\ F.handshake_confirmed = E.handshake_confirmed
               /\ F.handshake_done_acked = E.handshake_done_acked
               /\ NetOK(F, M) /\ WindowOK(F, M, P) /\ OnceOK(F, M, P, D)
<1> DEFINE F == seal_packet(E)
           p == Packet(E)
           M == N \cup {p}
<1>1. /\ E.tx \in Nat /\ E.next_pn \in Nat /\ E.one_rtt_phase = E.tx % 2
      /\ Reading(P) \in Nat
  BY DEF KeyState, KeysOK, Reading
<1>2. p.pn = E.next_pn /\ p.gen = E.tx /\ PacketOK(p)
  <2>1. p.pn = E.next_pn /\ p.gen = E.tx /\ p.phase = E.one_rtt_phase
    BY DEF Packet
  <2>2. p.handshake_done \in BOOLEAN /\ p.acks_handshake_done \in BOOLEAN
    BY DEF Packet, KeyState
  <2> QED BY <1>1, <2>1, <2>2 DEF PacketOK
<1>3. /\ KeyState(F) /\ F.tx = E.tx /\ F.role = E.role /\ F.next_pn = E.next_pn + 1
      /\ F.handshake_confirmed = E.handshake_confirmed
      /\ F.handshake_done_acked = E.handshake_done_acked /\ SameReading(E, F)
  BY DEF seal_packet, KeyState, Fields, SameReading
<1>4. KeysOK(F)
  BY DEF seal_packet, KeyState, Fields, KeysOK, Reading
<1> HIDE DEF F, p
<1>5. NetOK(F, M)
  <2>1. \A q \in N : PacketOK(q) /\ q.pn < E.next_pn /\ q.gen <= E.tx /\ q.pn \in Nat /\ q.gen \in Nat
    BY DEF NetOK, PacketOK
  <2>2. \A q \in M : PacketOK(q) /\ q.pn < F.next_pn /\ q.gen <= F.tx
    BY <1>1, <1>2, <1>3, <2>1
  <2>3. \A q, r \in M : q.pn = r.pn => q = r
    BY <1>1, <1>2, <2>1 DEF NetOK
  <2>4. \A q, r \in M : q.gen < r.gen => q.pn < r.pn
    BY <1>1, <1>2, <2>1 DEF NetOK
  <2> QED BY <2>2, <2>3, <2>4 DEF NetOK
<1>6. WindowOK(F, M, P)
  BY <1>1, <1>3 DEF WindowOK, KeyState
<1>7. OnceOK(F, M, P, D)
  <2>1. \A n \in DOMAIN D : D[n] \in {0, 1} /\ (n >= F.next_pn => D[n] = 0)
    BY <1>1, <1>3 DEF OnceOK
  <2>2. D[p.pn] = 0
    BY <1>1, <1>2 DEF OnceOK
  <2> QED BY <2>1, <2>2 DEF OnceOK
<1> QED BY <1>3, <1>4, <1>5, <1>6, <1>7 DEF F, p

-----------------------------------------------------------------------------
(* Every step keeps the invariant.                                         *)

(* The facts about the two directions at e that the steps start from. *)
LEMMA AtEndpoint ==
    ASSUME IInv, NEW e \in Endpoints
    PROVE  /\ KeyState(ep[e]) /\ KeysOK(ep[e]) /\ ep[e].role = e /\ ep[e].next_pn <= MaxPn[e]
           /\ KeyState(ep[Peer(e)]) /\ KeysOK(ep[Peer(e)])
           /\ NetOK(ep[e], net[e]) /\ WindowOK(ep[e], net[e], ep[Peer(e)])
           /\ OnceOK(ep[e], net[e], ep[Peer(e)], dispatched[Peer(e)])
           /\ NetOK(ep[Peer(e)], net[Peer(e)])
           /\ WindowOK(ep[Peer(e)], net[Peer(e)], ep[e])
           /\ OnceOK(ep[Peer(e)], net[Peer(e)], ep[e], dispatched[e])
           /\ DOMAIN dispatched[e] \subseteq Nat /\ DOMAIN dispatched[Peer(e)] \subseteq Nat
           /\ MaxPn[e] \in Nat
           /\ \A q \in net[e] : q.pn \in DOMAIN dispatched[Peer(e)]
           /\ \A q \in net[Peer(e)] : q.pn \in DOMAIN dispatched[e]
           /\ DOMAIN dispatched[Peer(e)] = 0 .. MaxPn[e] - 1
<1>1. Peer(e) \in Endpoints /\ Peer(Peer(e)) = e
  BY Peers
<1>2. \A x \in Endpoints : MaxPn[x] \in Nat
  BY KeyUpdateAssumption DEF KeyUpdateAssumption, Endpoints
<1>3. ASSUME NEW x \in Endpoints
      PROVE  /\ KeyState(ep[x]) /\ KeysOK(ep[x]) /\ ep[x].next_pn <= MaxPn[x] /\ ep[x].role = x
             /\ NetOK(ep[x], net[x]) /\ WindowOK(ep[x], net[x], ep[Peer(x)])
             /\ OnceOK(ep[x], net[x], ep[Peer(x)], dispatched[Peer(x)])
             /\ DOMAIN dispatched[x] = 0 .. MaxPn[Peer(x)] - 1
  BY DEF IInv, Shape, Directions
<1>4. \A x \in Endpoints : \A q \in net[x] : q.pn \in 0 .. MaxPn[x] - 1
  <2> TAKE x \in Endpoints
  <2> TAKE q \in net[x]
  <2>1. q.pn \in Nat /\ q.pn < ep[x].next_pn /\ ep[x].next_pn <= MaxPn[x] /\ ep[x].next_pn \in Nat
    BY <1>3 DEF NetOK, PacketOK, KeyState
  <2> QED BY <1>2, <2>1
<1> QED BY <1>1, <1>2, <1>3, <1>4

(* What is known of the handshake grows as it should. *)
LEMMA ConfirmStep ==
    ASSUME IInv, NEW e \in Endpoints, NEW F, KeyState(F), NEW M,
           ep'[e] = F, ep'[Peer(e)] = ep[Peer(e)], net'[e] = M, net'[Peer(e)] = net[Peer(e)],
           ep[e].handshake_confirmed => F.handshake_confirmed,
           F.tx > ep[e].tx => may_update(ep[e]) \/ \E p \in net[Peer(e)] : p.gen > 0,
           F.handshake_done_acked =>
               ep[e].handshake_done_acked \/ \E p \in net[Peer(e)] : p.acks_handshake_done,
           \A p \in M : p.acks_handshake_done => p \in net[e] \/ (e = "c" /\ F.handshake_confirmed)
    PROVE  ConfirmedOK(ep'["c"], ep'["s"], net'["c"])
<1>1. \A x \in Endpoints : ep[x].tx \in Nat /\ F.tx \in Nat /\ ep[x].role = x
  BY AtEndpoint DEF KeyState
<1>2. \A x \in Endpoints : (\E p \in net[x] : p.gen > 0) => ep[x].tx > 0
  <2> SUFFICES ASSUME NEW x \in Endpoints, NEW p \in net[x], p.gen > 0 PROVE ep[x].tx > 0
    OBVIOUS
  <2>1. p.gen \in Nat /\ p.gen <= ep[x].tx
    BY AtEndpoint DEF NetOK, PacketOK
  <2> QED BY <1>1, <2>1
<1>3. ConfirmedOK(ep["c"], ep["s"], net["c"])
  BY DEF IInv
<1>4. CASE e = "c"
  <2>1. Peer(e) = "s" /\ "s" \in Endpoints
    BY <1>4 DEF Peer, Endpoints
  <2>2. F.tx > 0 => F.handshake_confirmed
    BY <1>1, <1>2, <1>3, <1>4, <2>1 DEF ConfirmedOK, may_update
  <2> QED BY <1>3, <1>4, <2>1, <2>2 DEF ConfirmedOK
<1>5. CASE e = "s"
  <2>1. Peer(e) = "c" /\ "c" \in Endpoints
    BY <1>5 DEF Peer, Endpoints
  <2>2. F.tx > 0 => ep["c"].handshake_confirmed
    BY <1>1, <1>2, <1>3, <1>5, <2>1 DEF ConfirmedOK, may_update
  <2>3. F.handshake_done_acked => ep["c"].handshake_confirmed
    BY <1>3, <1>5, <2>1 DEF ConfirmedOK
  <2> QED BY <1>3, <1>5, <2>1, <2>2, <2>3 DEF ConfirmedOK
<1> QED BY <1>4, <1>5 DEF Endpoints

(* What a step of e has to show: its keys are in order, both directions    *)
(* are, and so is what is known of the handshake.                          *)
LEMMA EndpointStep ==
    ASSUME IInv, NEW e \in Endpoints, NEW F, NEW M, NEW D,
           DOMAIN ep' = Endpoints, ep'[e] = F, ep'[Peer(e)] = ep[Peer(e)],
           DOMAIN net' = Endpoints, net'[e] = M, net'[Peer(e)] = net[Peer(e)],
           DOMAIN dispatched' = Endpoints, dispatched'[e] = D,
           dispatched'[Peer(e)] = dispatched[Peer(e)],
           KeyState(F), KeysOK(F), F.role = e, F.next_pn <= MaxPn[e],
           DOMAIN D = DOMAIN dispatched[e],
           NetOK(F, M), WindowOK(F, M, ep[Peer(e)]),
           OnceOK(F, M, ep[Peer(e)], dispatched[Peer(e)]),
           WindowOK(ep[Peer(e)], net[Peer(e)], F),
           OnceOK(ep[Peer(e)], net[Peer(e)], F, D),
           ConfirmedOK(ep'["c"], ep'["s"], net'["c"])
    PROVE  IInv'
<1> DEFINE d == Peer(e)
<1>1. d \in Endpoints /\ d # e /\ Peer(d) = e /\ \A x \in Endpoints : x = e \/ x = d
  BY Peers
<1>2. /\ ep'[e] = F /\ net'[e] = M /\ dispatched'[e] = D
      /\ ep'[d] = ep[d] /\ net'[d] = net[d] /\ dispatched'[d] = dispatched[d]
  OBVIOUS
<1> HIDE DEF d
<1>3. Shape'
  <2>1. \A x \in Endpoints :
          /\ KeyState(ep'[x]) /\ KeysOK(ep'[x]) /\ ep'[x].role = x
          /\ ep'[x].next_pn <= MaxPn[x]
          /\ DOMAIN dispatched'[x] = 0 .. MaxPn[Peer(x)] - 1
    BY <1>1, <1>2 DEF IInv, Shape
  <2> QED BY <1>2, <2>1 DEF Shape
<1>4. Directions'
  <2>1. /\ NetOK(ep'[e], net'[e]) /\ WindowOK(ep'[e], net'[e], ep'[d])
        /\ OnceOK(ep'[e], net'[e], ep'[d], dispatched'[d])
    BY <1>2 DEF d
  <2>2. /\ NetOK(ep'[d], net'[d]) /\ WindowOK(ep'[d], net'[d], ep'[e])
        /\ OnceOK(ep'[d], net'[d], ep'[e], dispatched'[e])
    BY <1>1, <1>2 DEF d, IInv, Directions
  <2>3. ASSUME NEW x \in Endpoints
        PROVE  /\ NetOK(ep'[x], net'[x]) /\ WindowOK(ep'[x], net'[x], ep'[Peer(x)])
               /\ OnceOK(ep'[x], net'[x], ep'[Peer(x)], dispatched'[Peer(x)])
    BY <1>1, <2>1, <2>2 DEF d
  <2> QED BY <2>3 DEF Directions
<1> QED BY <1>3, <1>4 DEF IInv

(* A reader whose receiving side did not change reads as before. *)
LEMMA SameReader ==
    ASSUME NEW E, NEW N, NEW P, NEW Q, NEW D, SameReading(P, Q),
           WindowOK(E, N, P), OnceOK(E, N, P, D)
    PROVE  WindowOK(E, N, Q) /\ OnceOK(E, N, Q, D)
BY DEF SameReading, WindowOK, OnceOK, Reading

(* An endpoint starts an update by itself. *)
LEMMA UpdateStep ==
    ASSUME IInv, NEW e \in Endpoints, Update(e)
    PROVE  IInv'
<1> DEFINE F == initiate_key_update(ep[e])
<1>1. /\ DOMAIN ep' = Endpoints /\ ep'[e] = F /\ ep'[Peer(e)] = ep[Peer(e)]
      /\ UNCHANGED <<net, dispatched>>
  BY Peers DEF Update, IInv, Shape
<1>2. DOMAIN net = Endpoints /\ DOMAIN dispatched = Endpoints
  BY DEF IInv, Shape
<1>3. /\ KeyState(F) /\ KeysOK(F) /\ SameReading(ep[e], F) /\ SameRest(ep[e], F)
      /\ F.tx >= ep[e].tx /\ (F.tx > ep[e].tx => may_update(ep[e]))
  <2>1. ep[e].tx \in Nat
    BY AtEndpoint DEF KeyState
  <2> QED BY <2>1, AtEndpoint, Initiate
<1> HIDE DEF F
<1>4. F.role = e /\ F.next_pn = ep[e].next_pn /\ F.next_pn <= MaxPn[e] /\ F.next_pn \in Nat
  BY <1>3, AtEndpoint DEF SameRest, KeyState
<1>5. /\ NetOK(F, net[e]) /\ WindowOK(F, net[e], ep[Peer(e)])
      /\ OnceOK(F, net[e], ep[Peer(e)], dispatched[Peer(e)])
  BY <1>3, <1>4, AtEndpoint, SenderMoves
<1>6. /\ WindowOK(ep[Peer(e)], net[Peer(e)], F)
      /\ OnceOK(ep[Peer(e)], net[Peer(e)], F, dispatched[e])
  BY <1>3, AtEndpoint, SameReader
<1>7. ConfirmedOK(ep'["c"], ep'["s"], net'["c"])
  BY <1>1, <1>3, ConfirmStep DEF SameRest
<1> QED BY <1>1, <1>2, <1>3, <1>4, <1>5, <1>6, <1>7, EndpointStep

(* An endpoint sends a packet. *)
LEMMA SendStep ==
    ASSUME IInv, NEW e \in Endpoints, Send(e)
    PROVE  IInv'
<1> DEFINE E == RotateIfWorn(ep[e])
           d == Peer(e)
<1>1. /\ KeyState(E) /\ KeysOK(E) /\ SameReading(ep[e], E) /\ SameRest(ep[e], E)
      /\ E.tx >= ep[e].tx /\ (E.tx > ep[e].tx => may_update(ep[e]))
  <2>1. ep[e].tx \in Nat
    BY AtEndpoint DEF KeyState
  <2>2. E = ep[e] \/ E = initiate_key_update(ep[e])
    BY DEF RotateIfWorn
  <2> HIDE DEF E
  <2> QED BY <2>1, <2>2, AtEndpoint, Initiate DEF SameReading, SameRest
<1>2. /\ DOMAIN ep = Endpoints /\ DOMAIN net = Endpoints /\ DOMAIN dispatched = Endpoints
      /\ d \in Endpoints /\ d # e /\ E.next_pn < MaxPn[e] /\ UNCHANGED dispatched
  BY Peers DEF IInv, Shape, Send
<1>3. CASE E.tx_packets >= USAGE_LIMIT
  <2> DEFINE F == [E EXCEPT !.closed = "AEAD_LIMIT_REACHED"]
  <2>1. DOMAIN ep' = Endpoints /\ ep'[e] = F /\ ep'[d] = ep[d] /\ UNCHANGED net
    BY <1>2, <1>3 DEF Send
  <2> HIDE DEF E
  <2>2. /\ KeyState(F) /\ SameReading(E, F) /\ F.tx = E.tx /\ F.role = E.role
        /\ F.next_pn = E.next_pn /\ F.handshake_confirmed = E.handshake_confirmed
        /\ F.handshake_done_acked = E.handshake_done_acked
    BY <1>1 DEF KeyState, Fields, SameReading
  <2>3. KeysOK(F)
    BY <1>1 DEF KeyState, Fields, KeysOK, Reading
  <2> HIDE DEF F
  <2>4. F.role = e /\ F.next_pn = ep[e].next_pn /\ F.next_pn <= MaxPn[e] /\ F.next_pn \in Nat
    BY <1>1, <2>2, AtEndpoint DEF SameRest, KeyState
  <2>5. /\ NetOK(F, net[e]) /\ WindowOK(F, net[e], ep[d])
        /\ OnceOK(F, net[e], ep[d], dispatched[d])
    BY <1>1, <2>2, <2>4, AtEndpoint, SenderMoves
  <2>6. WindowOK(ep[d], net[d], F) /\ OnceOK(ep[d], net[d], F, dispatched[e])
    <3>1. SameReading(ep[e], F)
      BY <1>1, <2>2 DEF SameReading
    <3> QED BY <3>1, AtEndpoint, SameReader
  <2>7. ConfirmedOK(ep'["c"], ep'["s"], net'["c"])
    BY <1>1, <2>1, <2>2, ConfirmStep DEF SameRest
  <2> QED BY <1>2, <2>1, <2>2, <2>3, <2>4, <2>5, <2>6, <2>7, EndpointStep
<1>4. CASE ~(E.tx_packets >= USAGE_LIMIT)
  <2> DEFINE F == seal_packet(E)
             p == Packet(E)
             M == net[e] \cup {p}
  <2>1. /\ DOMAIN ep' = Endpoints /\ ep'[e] = F /\ ep'[d] = ep[d]
        /\ DOMAIN net' = Endpoints /\ net'[e] = M /\ net'[d] = net[d]
    BY <1>2, <1>4 DEF Send
  <2> HIDE DEF E
  <2>2. E.next_pn = ep[e].next_pn /\ E.role = e /\ E.next_pn \in Nat /\ MaxPn[e] \in Nat
    BY <1>1, AtEndpoint DEF SameRest, KeyState
  <2>3. /\ NetOK(E, net[e]) /\ WindowOK(E, net[e], ep[d])
        /\ OnceOK(E, net[e], ep[d], dispatched[d])
    BY <1>1, <2>2, AtEndpoint, SenderMoves
  <2>4. E.next_pn \in DOMAIN dispatched[d]
    BY <1>2, <2>2, AtEndpoint
  <2>5. /\ KeyState(F) /\ KeysOK(F) /\ SameReading(E, F)
        /\ F.tx = E.tx /\ F.role = E.role /\ F.next_pn = E.next_pn + 1
        /\ F.handshake_confirmed = E.handshake_confirmed
        /\ F.handshake_done_acked = E.handshake_done_acked
        /\ NetOK(F, M) /\ WindowOK(F, M, ep[d]) /\ OnceOK(F, M, ep[d], dispatched[d])
    BY <1>1, <2>3, <2>4, AtEndpoint, SenderSends
  <2>6. p.acks_handshake_done => e = "c" /\ F.handshake_confirmed
    BY <2>2, <2>5 DEF Packet
  <2> HIDE DEF F, p
  <2>7. F.role = e /\ F.next_pn <= MaxPn[e]
    BY <1>2, <2>2, <2>5
  <2>8. WindowOK(ep[d], net[d], F) /\ OnceOK(ep[d], net[d], F, dispatched[e])
    <3>1. SameReading(ep[e], F)
      BY <1>1, <2>5 DEF SameReading
    <3> QED BY <3>1, AtEndpoint, SameReader
  <2>9. ConfirmedOK(ep'["c"], ep'["s"], net'["c"])
    BY <1>1, <2>1, <2>5, <2>6, ConfirmStep DEF SameRest
  <2> QED BY <1>2, <2>1, <2>5, <2>7, <2>8, <2>9, EndpointStep
<1> QED BY <1>3, <1>4

(* A packet arrives, in any order and any number of times. *)
LEMMA ReceiveStep ==
    ASSUME IInv, NEW e \in Endpoints, NEW p \in net[Peer(e)], Receive(e, p)
    PROVE  IInv'
<1> DEFINE F == feed_short_header_packet(ep[e], p)
           d == Peer(e)
           D == IF Accepts(ep[e], p) THEN [dispatched[e] EXCEPT ![p.pn] = @ + 1]
                ELSE dispatched[e]
<1>1. /\ DOMAIN ep = Endpoints /\ DOMAIN net = Endpoints /\ DOMAIN dispatched = Endpoints
      /\ d \in Endpoints /\ d # e
  BY Peers DEF IInv, Shape
<1>2. DOMAIN ep' = Endpoints /\ ep'[e] = F /\ ep'[d] = ep[d] /\ UNCHANGED net
  BY <1>1 DEF Receive
<1>3. DOMAIN dispatched' = Endpoints /\ dispatched'[e] = D /\ dispatched'[d] = dispatched[d]
  BY <1>1 DEF Receive
<1>4. PacketOK(p) /\ ~(Opens(ep[e], p) /\ KeysOutOfOrder(ep[e], p))
  BY AtEndpoint, InOrder DEF NetOK
<1>5. /\ KeyState(F) /\ KeysOK(F)
      /\ F.role = ep[e].role /\ F.closed = ep[e].closed /\ F.next_pn = ep[e].next_pn
      /\ F.tx >= ep[e].tx /\ (F.tx > ep[e].tx => p.gen > 0)
      /\ ep[e].handshake_confirmed => F.handshake_confirmed
      /\ F.handshake_done_acked => ep[e].handshake_done_acked \/ p.acks_handshake_done
      /\ ~Accepts(ep[e], p) => F = ep[e]
      /\ Accepts(ep[e], p) => Recorded(ep[e], F, p)
  BY <1>4, AtEndpoint, Feed
<1> HIDE DEF F
<1>6. F.role = e /\ F.next_pn <= MaxPn[e] /\ F.next_pn \in Nat
  BY <1>5, AtEndpoint DEF KeyState
<1>7. /\ NetOK(F, net[e]) /\ WindowOK(F, net[e], ep[d])
      /\ OnceOK(F, net[e], ep[d], dispatched[d])
  BY <1>5, <1>6, AtEndpoint, SenderMoves
<1>8. /\ WindowOK(ep[d], net[d], F) /\ OnceOK(ep[d], net[d], F, D)
      /\ DOMAIN D = DOMAIN dispatched[e]
  <2>1. CASE Accepts(ep[e], p)
    BY <1>5, <2>1, AtEndpoint, ReadStep
  <2>2. CASE ~Accepts(ep[e], p)
    BY <1>5, <2>2, AtEndpoint
  <2> QED BY <2>1, <2>2
<1>9. ConfirmedOK(ep'["c"], ep'["s"], net'["c"])
  BY <1>2, <1>5, ConfirmStep
<1> HIDE DEF D
<1> QED BY <1>1, <1>2, <1>3, <1>5, <1>6, <1>7, <1>8, <1>9, EndpointStep

(* The previous keys are discarded. *)
LEMMA DiscardStep ==
    ASSUME IInv, NEW e \in Endpoints, maybe_discard_prev_rx_keys(e)
    PROVE  IInv'
<1> DEFINE E == ep[e]
           F == [E EXCEPT !.prev_rx_keys = None, !.prev_rx_pn_window = {}]
           d == Peer(e)
<1>1. /\ DOMAIN ep = Endpoints /\ DOMAIN net = Endpoints /\ DOMAIN dispatched = Endpoints
      /\ d \in Endpoints /\ d # e
  BY Peers DEF IInv, Shape
<1>2. KeyState(E) /\ KeysOK(E) /\ E.role = e
  BY AtEndpoint
<1>3. /\ DOMAIN ep' = Endpoints /\ ep'[e] = F /\ ep'[d] = ep[d]
      /\ UNCHANGED <<net, dispatched>>
  BY <1>1, <1>2 DEF maybe_discard_prev_rx_keys, KeyState, Fields
<1> HIDE DEF E
<1>4. /\ KeyState(F) /\ F.tx = E.tx /\ F.role = e /\ F.next_pn = E.next_pn
      /\ F.handshake_confirmed = E.handshake_confirmed
      /\ F.handshake_done_acked = E.handshake_done_acked
      /\ Reading(F) = Reading(E) /\ F.rx_pn_window = E.rx_pn_window
      /\ F.prev_rx_keys = None /\ F.prev_rx_pn_window = {}
  BY <1>2 DEF KeyState, Fields, Reading
<1>5. KeysOK(F)
  BY <1>2 DEF KeyState, Fields, KeysOK, Reading
<1> HIDE DEF F
<1>6. F.next_pn <= MaxPn[e] /\ F.next_pn \in Nat /\ F.tx \in Nat
  BY <1>4, AtEndpoint DEF E, KeyState
<1>7. /\ NetOK(F, net[e]) /\ WindowOK(F, net[e], ep[d])
      /\ OnceOK(F, net[e], ep[d], dispatched[d])
  BY <1>4, <1>6, AtEndpoint, SenderMoves DEF E
<1>8. WindowOK(ep[d], net[d], F) /\ OnceOK(ep[d], net[d], F, dispatched[e])
  <2>1. WindowOK(ep[d], net[d], E) /\ OnceOK(ep[d], net[d], E, dispatched[e])
    BY AtEndpoint DEF E
  <2>2. \A q \in net[d] : q.gen \in Nat
    BY AtEndpoint DEF NetOK, PacketOK
  <2> QED BY <1>4, <2>1, <2>2 DEF WindowOK, OnceOK, None
<1>9. ConfirmedOK(ep'["c"], ep'["s"], net'["c"])
  BY <1>3, <1>4, <1>6, ConfirmStep DEF E
<1> QED BY <1>1, <1>3, <1>4, <1>5, <1>6, <1>7, <1>8, <1>9, EndpointStep

(* IInv holds in every reachable state. *)
LEMMA Invariance == Spec => []IInv
<1>1. Init => IInv
  <2> SUFFICES ASSUME Init PROVE IInv
    OBVIOUS
  <2>1. ASSUME NEW e \in Endpoints
        PROVE  /\ KeyState(NewKeys(e)) /\ KeysOK(NewKeys(e)) /\ NewKeys(e).role = e
               /\ NewKeys(e).tx = 0 /\ NewKeys(e).next_pn = 0 /\ Reading(NewKeys(e)) = 0
               /\ NewKeys(e).rx_pn_window = {} /\ NewKeys(e).prev_rx_pn_window = {}
               /\ NewKeys(e).handshake_done_acked = FALSE
               /\ NewKeys(e).handshake_confirmed = (e = "s")
    <3>1. NewKeys(e).handshake_confirmed = (e = "s")
      BY DEF NewKeys
    <3>2. KeyState(NewKeys(e))
      BY <3>1 DEF NewKeys, KeyState, Fields, Phases, None
    <3> QED BY <3>1, <3>2 DEF NewKeys, KeysOK, Reading, Phases, None
  <2>2. \A e \in Endpoints :
          /\ ep[e] = NewKeys(e) /\ net[e] = {}
          /\ dispatched[e] = [n \in 0 .. MaxPn[Peer(e)] - 1 |-> 0]
    BY DEF Init
  <2>3. /\ DOMAIN ep = Endpoints /\ DOMAIN net = Endpoints /\ DOMAIN dispatched = Endpoints
        /\ \A e \in Endpoints : DOMAIN dispatched[e] = 0 .. MaxPn[Peer(e)] - 1
    BY <2>2, Zenon DEF Init
  <2>4. ASSUME NEW e \in Endpoints
        PROVE  /\ KeyState(ep[e]) /\ KeysOK(ep[e]) /\ ep[e].role = e
               /\ ep[e].tx = 0 /\ ep[e].next_pn = 0 /\ Reading(ep[e]) = 0
               /\ ep[e].rx_pn_window = {} /\ ep[e].prev_rx_pn_window = {}
               /\ ep[e].handshake_done_acked = FALSE
               /\ ep[e].handshake_confirmed = (e = "s")
    <3>1. ep[e] = NewKeys(e)
      BY <2>2
    <3> QED BY <2>1, <3>1
  <2>5. Shape
    <3>1. \A e \in Endpoints : MaxPn[e] \in Nat
      BY KeyUpdateAssumption DEF KeyUpdateAssumption, Endpoints
    <3>2. ASSUME NEW e \in Endpoints
          PROVE  ep[e].next_pn <= MaxPn[e]
      <4>1. ep[e].next_pn = 0
        BY <2>4, Zenon
      <4>2. MaxPn[e] \in Nat
        BY <3>1
      <4> QED BY <4>1, <4>2
    <3> QED BY <2>3, <2>4, <3>2, Zenon DEF Shape
  <2>6. Directions
    <3> SUFFICES ASSUME NEW e \in Endpoints
                 PROVE  /\ NetOK(ep[e], net[e])
                        /\ WindowOK(ep[e], net[e], ep[Peer(e)])
                        /\ OnceOK(ep[e], net[e], ep[Peer(e)], dispatched[Peer(e)])
      BY DEF Directions
    <3> DEFINE d == Peer(e)
               E == ep[e]
               P == ep[d]
    <3>1. d \in Endpoints
      BY Peers
    <3>2. net[e] = {}
      BY <2>2
    <3>3. \A n \in DOMAIN dispatched[d] : dispatched[d][n] = 0
      BY <2>2, <3>1
    <3>4. Reading(P) = 0 /\ P.rx_pn_window = {} /\ P.prev_rx_pn_window = {} /\ E.tx = 0
      BY <2>4, <3>1
    <3> HIDE DEF d, E, P
    <3>5. NetOK(E, net[e])
      BY <3>2 DEF NetOK
    <3>6. WindowOK(E, net[e], P)
      BY <3>4 DEF WindowOK
    <3>7. OnceOK(E, net[e], P, dispatched[d])
      BY <3>2, <3>3 DEF OnceOK
    <3> QED BY <3>5, <3>6, <3>7 DEF d, E, P
  <2>7. ConfirmedOK(ep["c"], ep["s"], net["c"])
    <3>1. /\ ep["c"].tx = 0 /\ ep["s"].tx = 0 /\ ep["s"].handshake_done_acked = FALSE
          /\ net["c"] = {} /\ ep["s"].handshake_confirmed = ("s" = "s")
      BY <2>2, <2>4, Zenon DEF Endpoints
    <3>2. ~(ep["c"].tx > 0 \/ ep["s"].tx > 0)
      BY <3>1
    <3> QED BY <3>1, <3>2, Zenon DEF ConfirmedOK
  <2> QED BY <2>5, <2>6, <2>7 DEF IInv
<1>2. IInv /\ [Next]_vars => IInv'
  <2> SUFFICES ASSUME IInv, [Next]_vars PROVE IInv'
    OBVIOUS
  <2>1. ASSUME NEW e \in Endpoints,
               Update(e) \/ Send(e) \/ maybe_discard_prev_rx_keys(e)
                 \/ \E p \in net[Peer(e)] : Receive(e, p)
        PROVE  IInv'
    BY <2>1, UpdateStep, SendStep, DiscardStep, ReceiveStep
  <2>2. CASE UNCHANGED vars
    BY <2>2 DEF vars, IInv, Shape, Directions
  <2> QED BY <2>1, <2>2 DEF Next
<1> QED BY <1>1, <1>2, PTL DEF Spec

(* No order of arrival makes an endpoint take its honest peer's packet for *)
(* a KEY_UPDATE_ERROR, and none leaves the first key before its peer knows *)
(* the handshake to be confirmed (initiate_key_update).                    *)
THEOREM UpdatesStayLegal == Spec => []UpdatesLegal
<1>1. IInv => UpdatesLegal
  <2> SUFFICES ASSUME IInv, NEW e \in Endpoints
               PROVE  /\ ep[e].closed # "KEY_UPDATE_ERROR"
                      /\ ep[e].tx > 0 => ep[Peer(e)].handshake_confirmed
    BY DEF UpdatesLegal
  <2>1. ep[e].closed # "KEY_UPDATE_ERROR"
    BY AtEndpoint DEF KeyState
  <2>2. ep[e].tx > 0 => ep[Peer(e)].handshake_confirmed
    BY DEF IInv, ConfirmedOK, Endpoints, Peer
  <2> QED BY <2>1, <2>2
<1> QED BY <1>1, Invariance, PTL

(* The frames of a packet are handled at most once, whichever keys and     *)
(* windows have come and gone between two copies of it                     *)
(* (commit_rx_key_phase_flip, prev_rx_pn_window).                          *)
THEOREM NoDoubleDispatch == Spec => []DispatchedOnce
<1>1. IInv => DispatchedOnce
  <2> SUFFICES ASSUME IInv, NEW e \in Endpoints, NEW n \in DOMAIN dispatched[e]
               PROVE  dispatched[e][n] <= 1
    BY DEF DispatchedOnce
  <2>1. dispatched[e][n] \in {0, 1}
    BY AtEndpoint DEF OnceOK
  <2> QED BY <2>1
<1> QED BY <1>1, Invariance, PTL

(* The two chains stay in step: what an endpoint sends next opens at its   *)
(* peer, unless it has updated again while the peer's update is pending.   *)
THEOREM NextPacketOpens == Spec => []NextOpens
<1>1. IInv => NextOpens
  <2> SUFFICES ASSUME IInv, NEW e \in Endpoints, ~RanAhead(e)
               PROVE  Opens(ep[Peer(e)], Packet(ep[e]))
    BY DEF NextOpens
  <2> DEFINE E == ep[e]
             P == ep[Peer(e)]
  <2>1. /\ KeyState(E) /\ KeysOK(E) /\ KeyState(P) /\ KeysOK(P)
        /\ Reading(P) <= E.tx /\ Reading(E) <= P.tx
    BY AtEndpoint DEF WindowOK
  <2>2. ~(P.tx_phase_pending_confirm /\ E.tx > P.tx)
    BY DEF RanAhead
  <2> HIDE DEF E, P
  <2>3. Reading(P) \in Nat /\ Reading(E) \in Nat /\ E.tx \in Nat /\ P.tx \in Nat
    BY <2>1 DEF KeyState, Reading
  <2>4. E.tx = Reading(P) \/ E.tx = Reading(P) + 1
    BY <2>1, <2>2, <2>3 DEF KeysOK
  <2>5. P.rx_by_phase[E.one_rtt_phase] = E.tx
    BY <2>1, <2>3, <2>4, Parity DEF KeysOK, Reading
  <2>6. OpensCurrent(P, Packet(E))
    BY <2>5 DEF OpensCurrent, Packet
  <2> QED BY <2>6 DEF Opens, E, P
<1> QED BY <1>1, Invariance, PTL

=============================================================================
