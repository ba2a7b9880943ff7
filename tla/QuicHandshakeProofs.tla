------------------------ MODULE QuicHandshakeProofs -------------------------
(***************************************************************************)
(* Theorems about QuicHandshake for every scenario: flights of any length, *)
(* any number of faults, any window.                                       *)
(*                                                                         *)
(* A handler maps the record of an endpoint to its next value, so most of  *)
(* the argument is about one record (Local): every handler keeps it.  The  *)
(* two ends are tied together by what a packet on its way says about its   *)
(* sender (PacketOK) and by what an endpoint has heard (Heard).            *)
(***************************************************************************)
EXTENDS QuicHandshake, SetInduction, FiniteSetTheorems

Fields ==
    {"role", "tx", "rx", "engine", "bufs", "loss", "pn", "ctx", "timer", "probe_space",
     "probe_credit", "in_flight", "complete", "confirmed", "handshake_done_pending",
     "handshake_done_acked", "new_cids_issued", "data_pending", "data_acked", "data_read",
     "validated", "bytes_recv", "bytes_sent", "sent_first_datagram"}

CtxFields == {"handshake_confirmed", "has_handshake_keys", "peer_handshake_acked",
              "at_amplification_limit"}

CryptoLevels == {"I", "H"}

(* The records an endpoint is made of. *)
Shape(E) ==
    /\ DOMAIN E = Fields
    /\ DOMAIN E.ctx = CtxFields
    /\ DOMAIN E.bufs = CryptoLevels
    /\ \A l \in CryptoLevels : DOMAIN E.bufs[l] = {"fresh", "rtx", "history", "got"}
    /\ DOMAIN E.loss = Spaces
    /\ \A s \in Spaces : DOMAIN E.loss[s] = {"sent", "largest_acked", "loss_time"}
    /\ DOMAIN E.pn = Spaces
    /\ \A s \in Spaces :
          DOMAIN E.pn[s] = {"next", "largest_rx", "pending", "due", "eliciting"}

(* The tracked packets of a space have numbers of their own, below the     *)
(* next one. *)
Tracked(L, n) ==
    /\ n \in Nat
    /\ IsFiniteSet(L.sent)
    /\ \A p \in L.sent : p.pn \in Nat /\ p.pn < n
    /\ \A p, q \in L.sent : p.pn = q.pn => p = q

(* A unit that was sent and not acknowledged is queued or carried by a     *)
(* tracked packet. *)
CryptoKept(b, L) ==
    /\ b.fresh \in Seq(Nat) /\ b.rtx \in Seq(Nat) /\ b.history \subseteq Nat
    /\ \A u \in b.history : u \in ToSet(b.rtx) \/ \E p \in L.sent : p.crypto = u

Count(loss) ==
    Cardinality(loss["I"].sent) + Cardinality(loss["H"].sent) + Cardinality(loss["A"].sent)

(* Nothing was ever sent in the level. *)
Silent(b) == b.fresh = << >> /\ b.rtx = << >> /\ b.history = {}

(* Recovery keeps what it must. *)
RecoveryOK(E) ==
    /\ \A s \in Spaces : Tracked(E.loss[s], E.pn[s].next)
    /\ \A l \in CryptoLevels : CryptoKept(E.bufs[l], E.loss[l])
    /\ E.in_flight = Count(E.loss)

(* HANDSHAKE_DONE and the data are acknowledged, queued or carried. *)
FramesKept(E) ==
    /\ E.role = "s" /\ E.complete =>
           \/ E.handshake_done_acked \/ E.handshake_done_pending
           \/ \E p \in E.loss["A"].sent : p.hd
    /\ E.role \in config.data =>
           E.data_acked \/ E.data_pending \/ \E p \in E.loss["A"].sent : p.data

(* What an endpoint cannot have sent before its engine has come so far,    *)
(* and which levels it has by then. *)
EngineOK(E) ==
    /\ E.role = "s" /\ E.engine = "hello" => \A l \in CryptoLevels : Silent(E.bufs[l])
    /\ E.role = "c" /\ E.engine # "done" => Silent(E.bufs["H"])
    /\ E.role = "c" \/ E.engine # "done" =>
           ~E.handshake_done_pending /\ \A s \in Spaces : \A p \in E.loss[s].sent : ~p.hd
    /\ E.role = "s" /\ E.engine # "done" => ~E.complete
    /\ E.role = "c" =>
           /\ E.engine = "hello" => "I" \in E.tx /\ "H" \notin E.tx
           /\ E.engine # "hello" /\ "H" \notin E.tx => E.confirmed
    /\ E.role = "s" =>
           /\ "I" \notin E.tx => E.engine = "done"
           /\ E.engine # "hello" /\ "H" \notin E.tx => E.engine = "done"

Local(E) == Shape(E) /\ RecoveryOK(E) /\ FramesKept(E) /\ EngineOK(E)

(* What a packet says of its sender's engine. *)
PacketOK(role, engine, p) ==
    /\ p.lvl \in Levels
    /\ p.crypto = None \/ (p.lvl \in CryptoLevels /\ p.crypto \in Nat)
    /\ p.crypto # None /\ role = "s" => engine # "hello"
    /\ p.crypto # None /\ role = "c" /\ p.lvl = "H" => engine = "done"
    /\ p.hd => role = "s" /\ engine = "done" /\ p.lvl = "A"
    /\ p.pn \in Nat

(* s is a sequence. *)
Listed(s) == s \in Seq(ToSet(s))

DatagramOK(role, engine, packets) ==
    Listed(packets) /\ \A p \in ToSet(packets) : PacketOK(role, engine, p)

(* What an endpoint has heard of its peer's engine. *)
Heard(E, engine) ==
    /\ E.role = "c" /\ (E.engine # "hello" \/ E.bufs["I"].got # {}) => engine # "hello"
    /\ E.role = "c" /\ E.confirmed => engine = "done"
    /\ E.role = "s" /\ (E.engine = "done" \/ E.bufs["H"].got # {}) => engine = "done"

IInv ==
    /\ config \in Configs
    /\ ep = [e \in Endpoints |-> ep[e]] /\ DOMAIN net = Endpoints
    /\ \A e \in Endpoints :
          /\ Local(ep[e]) /\ ep[e].role = e
          /\ Heard(ep[e], ep[Peer(e)].engine)
          /\ ep[e].sent_first_datagram => ep[e].timer = TimerPurpose(sync_loss_context(ep[e]))
          /\ Listed(net[e])
          /\ \A d \in ToSet(net[e]) : DatagramOK(Peer(e), ep[Peer(e)].engine, d)

-----------------------------------------------------------------------------
(* Handlers that touch only timers, probes and budgets.                    *)

(* F is E as far as the invariant looks. *)
Same(E, F) ==
    /\ F.role = E.role /\ F.tx = E.tx /\ F.engine = E.engine
    /\ F.complete = E.complete /\ F.confirmed = E.confirmed
    /\ F.bufs = E.bufs /\ F.loss = E.loss /\ F.pn = E.pn /\ F.in_flight = E.in_flight
    /\ F.handshake_done_pending = E.handshake_done_pending
    /\ F.handshake_done_acked = E.handshake_done_acked
    /\ F.data_pending = E.data_pending /\ F.data_acked = E.data_acked

(* The invariant of an endpoint depends on those fields alone. *)
LEMMA SameLocal ==
    ASSUME NEW E, NEW F, Local(E), Shape(F), Same(E, F)
    PROVE  Local(F)
<1>1. RecoveryOK(F)
  BY DEF Local, Same, RecoveryOK
<1>2. FramesKept(F)
  BY DEF Local, Same, FramesKept
<1>3. EngineOK(F)
  BY DEF Local, Same, EngineOK
<1> QED BY <1>1, <1>2, <1>3 DEF Local

(* The timer's purpose depends on what is tracked, on the role and on the  *)
(* context. *)
LEMMA PurposeDepends ==
    ASSUME NEW E, NEW F, F.loss = E.loss, F.role = E.role,
           \A f \in CtxFields : F.ctx[f] = E.ctx[f]
    PROVE  TimerPurpose(F) = TimerPurpose(E)
BY DEF CtxFields, TimerPurpose, has_ack_eliciting_in_flight, peer_completed_address_validation,
   pto_time_and_space

(* Setting the timer. *)
LEMMA SetTimer ==
    ASSUME NEW E, Shape(E)
    PROVE  /\ Shape(set_loss_detection_timer(E))
           /\ Same(E, set_loss_detection_timer(E))
           /\ set_loss_detection_timer(E).timer = TimerPurpose(E)
           /\ set_loss_detection_timer(E).ctx = E.ctx
BY DEF set_loss_detection_timer, Shape, Same, Fields

(* Bringing the context up to date. *)
LEMMA SyncContext ==
    ASSUME NEW E, Shape(E)
    PROVE  Shape(sync_loss_context(E)) /\ Same(E, sync_loss_context(E))
BY DEF sync_loss_context, Shape, Same, Fields, CtxFields

(* Probes. *)
LEMMA Probes ==
    ASSUME NEW E, Shape(E), NEW s
    PROVE  /\ Shape(arm_probe(E, s)) /\ Same(E, arm_probe(E, s))
           /\ Shape(clear_probe(E)) /\ Same(E, clear_probe(E))
           /\ Shape(consume_probe_credit(E)) /\ Same(E, consume_probe_credit(E))
BY DEF arm_probe, clear_probe, consume_probe_credit, Shape, Same, Fields

-----------------------------------------------------------------------------
(* Queues of CRYPTO units.                                                 *)

BufFields == {"fresh", "rtx", "history", "got"}

(* q lists W, each element once, in the order of its key. *)
Sorts(q, W, key) ==
    /\ q \in [1 .. Cardinality(W) -> W]
    /\ ToSet(q) = W
    /\ \A i, j \in DOMAIN q : i < j => key[q[i]] < key[q[j]]

(* A finite set can be listed in the order of keys that tell its elements  *)
(* apart: the one with the greatest key goes last. *)
LEMMA SortedByKey ==
    ASSUME NEW W, IsFiniteSet(W), NEW key \in [W -> Nat], NEW m \in Nat,
           \A w \in W : key[w] < m,
           \A v, w \in W : key[v] = key[w] => v = w
    PROVE  \E q : Sorts(q, W, key)
<1> DEFINE Below(n) == {w \in W : key[w] < n}
           S == {n \in Nat : \E q : Sorts(q, Below(n), key)}
<1>1. 0 \in S
  <2>1. Below(0) = {}
    OBVIOUS
  <2>2. Cardinality({}) = 0
    BY FS_EmptySet
  <2>3. Sorts(<< >>, {}, key)
    BY <2>2 DEF Sorts, ToSet
  <2> QED BY <2>1, <2>3
<1>2. ASSUME NEW n \in Nat, n \in S PROVE n + 1 \in S
  <2> DEFINE V == Below(n)
             U == Below(n + 1)
  <2>1. PICK q : Sorts(q, V, key)
    BY <1>2
  <2>2. IsFiniteSet(V) /\ Cardinality(V) \in Nat
    <3>1. V \in SUBSET W
      OBVIOUS
    <3>2. IsFiniteSet(V)
      BY <3>1, FS_Subset
    <3> QED BY <3>2, FS_CardinalityType
  <2>3. CASE \E w \in W : key[w] = n
    <3>1. PICK w \in W : key[w] = n
      BY <2>3
    <3>2. U = V \cup {w} /\ w \notin V
      BY <3>1
    <3> DEFINE c == Cardinality(V)
               r == [i \in 1 .. c + 1 |-> IF i = c + 1 THEN w ELSE q[i]]
    <3>3. Cardinality(U) = c + 1
      BY <2>2, <3>2, FS_AddElement
    <3>4. \A v \in V : key[v] \in Nat /\ key[v] < n
      OBVIOUS
    <3> HIDE DEF V, U
    <3>5. q \in [1 .. c -> V] /\ ToSet(q) = V
          /\ \A i, j \in DOMAIN q : i < j => key[q[i]] < key[q[j]]
      BY <2>1 DEF Sorts
    <3> HIDE DEF c
    <3>6. c \in Nat
      BY <2>2 DEF c
    <3>7. r \in [1 .. c + 1 -> U]
      BY <3>2, <3>5, <3>6
    <3>8. \A u \in U : \E i \in 1 .. c + 1 : r[i] = u
      <4> SUFFICES ASSUME NEW u \in U PROVE \E i \in 1 .. c + 1 : r[i] = u
        OBVIOUS
      <4>1. CASE u = w
        BY <3>6, <4>1
      <4>2. CASE u \in V
        <5>1. PICK i \in 1 .. c : q[i] = u
          BY <3>5, <4>2 DEF ToSet
        <5>2. i \in 1 .. c + 1 /\ i # c + 1
          BY <3>6, <5>1
        <5> QED BY <5>1, <5>2
      <4> QED BY <3>2, <4>1, <4>2
    <3>9. ToSet(r) = U
      BY <3>7, <3>8 DEF ToSet
    <3>10. ASSUME NEW i \in 1 .. c + 1, NEW j \in 1 .. c + 1, i < j
           PROVE  key[r[i]] < key[r[j]]
      <4>1. i \in 1 .. c /\ i # c + 1
        BY <3>6, <3>10
      <4>2. CASE j = c + 1
        <5>1. r[i] = q[i] /\ r[j] = w /\ q[i] \in V
          BY <3>5, <4>1, <4>2
        <5> QED BY <3>1, <3>4, <5>1
      <4>3. CASE j # c + 1
        <5>1. j \in 1 .. c
          BY <3>6, <4>3
        <5> QED BY <3>5, <3>10, <4>1, <4>3, <5>1
      <4> QED BY <4>2, <4>3
    <3>11. DOMAIN r = 1 .. c + 1
      OBVIOUS
    <3> HIDE DEF r
    <3>12. Sorts(r, U, key)
      BY <3>3, <3>7, <3>9, <3>10, <3>11 DEF Sorts
    <3> QED BY <3>12 DEF U
  <2>4. CASE ~\E w \in W : key[w] = n
    <3>1. U = V
      BY <2>4
    <3> QED BY <2>1, <3>1
  <2> QED BY <2>3, <2>4
<1> HIDE DEF S
<1>3. m \in S
  BY <1>1, <1>2, SetInduction
<1>4. Below(m) = W
  OBVIOUS
<1> QED BY <1>3, <1>4 DEF S

(* The elements of a sequence that grows at its end. *)
LEMMA ConcatElements ==
    ASSUME NEW S, NEW a \in Seq(S), NEW b \in Seq(S)
    PROVE  a \o b \in Seq(S) /\ ToSet(a \o b) = ToSet(a) \cup ToSet(b)
<1>1. ASSUME NEW x \in ToSet(a \o b) PROVE x \in ToSet(a) \cup ToSet(b)
  BY DEF ToSet
<1>2. ASSUME NEW x \in ToSet(a) PROVE x \in ToSet(a \o b)
  <2>1. PICK i \in 1 .. Len(a) : x = a[i]
    BY DEF ToSet
  <2>2. i \in 1 .. Len(a \o b) /\ (a \o b)[i] = x
    BY <2>1
  <2> QED BY <2>2 DEF ToSet
<1>3. ASSUME NEW x \in ToSet(b) PROVE x \in ToSet(a \o b)
  <2>1. PICK i \in 1 .. Len(b) : x = b[i]
    BY DEF ToSet
  <2>2. Len(a) + i \in 1 .. Len(a \o b) /\ (a \o b)[Len(a) + i] = x
    BY <2>1
  <2> QED BY <2>2 DEF ToSet
<1> QED BY <1>1, <1>2, <1>3

(* requeue_range queues what the packets carried and nobody acknowledged,  *)
(* and nothing else. *)
LEMMA Requeue ==
    ASSUME NEW b, DOMAIN b = BufFields, b.rtx \in Seq(Nat), b.history \subseteq Nat,
           NEW packets, NEW n \in Nat, IsFiniteSet(packets),
           \A p \in packets : p.pn \in Nat /\ p.pn < n,
           \A p, q \in packets : p.pn = q.pn => p = q
    PROVE  /\ DOMAIN requeue_range(b, packets) = BufFields
           /\ requeue_range(b, packets).fresh = b.fresh
           /\ requeue_range(b, packets).history = b.history
           /\ requeue_range(b, packets).got = b.got
           /\ requeue_range(b, packets).rtx \in Seq(Nat)
           /\ ToSet(requeue_range(b, packets).rtx)
                = ToSet(b.rtx) \cup ({p.crypto : p \in packets} \cap b.history)
<1> DEFINE carried == {p.crypto : p \in packets}
           wanted == carried \cap (b.history \ ToSet(b.rtx))
           first(u) == Min({p.pn : p \in {q \in packets : q.crypto = u}})
           order == CHOOSE q \in [1 .. Cardinality(wanted) -> wanted] :
                        /\ ToSet(q) = wanted
                        /\ \A i, j \in DOMAIN q : i < j => first(q[i]) < first(q[j])
           key == [u \in wanted |-> first(u)]
<1>1. IsFiniteSet(wanted) /\ Cardinality(wanted) \in Nat
  <2> DEFINE f == [p \in packets |-> p.crypto]
  <2>1. f \in Surjection(packets, carried)
    BY DEF Surjection
  <2>2. IsFiniteSet(carried)
    BY <2>1, FS_Surjection
  <2>3. wanted \in SUBSET carried
    OBVIOUS
  <2>4. IsFiniteSet(wanted)
    BY <2>2, <2>3, FS_Subset
  <2> QED BY <2>4, FS_CardinalityType
<1>2. ASSUME NEW u \in wanted
      PROVE  \E p \in packets : p.crypto = u /\ p.pn = first(u)
  <2> DEFINE P == {p.pn : p \in {q \in packets : q.crypto = u}}
  <2>1. P \subseteq Nat /\ P # {}
    OBVIOUS
  <2>2. Min(P) \in P
    BY <2>1, MinBounds
  <2> QED BY <2>2
<1> HIDE DEF first, wanted
<1>3. \E q : Sorts(q, wanted, key)
  <2>1. key \in [wanted -> Nat] /\ \A u \in wanted : key[u] < n
    BY <1>2
  <2>2. ASSUME NEW u \in wanted, NEW v \in wanted, key[u] = key[v] PROVE u = v
    <3>1. first(u) = first(v)
      BY <2>2
    <3>2. PICK p \in packets : p.crypto = u /\ p.pn = first(u)
      BY <1>2
    <3>3. PICK q \in packets : q.crypto = v /\ q.pn = first(v)
      BY <1>2
    <3> QED BY <3>1, <3>2, <3>3
  <2> HIDE DEF key
  <2> QED BY <1>1, <2>1, <2>2, SortedByKey
<1>4. PICK q : Sorts(q, wanted, key)
  BY <1>3
<1>5. /\ q \in [1 .. Cardinality(wanted) -> wanted] /\ ToSet(q) = wanted
      /\ \A i, j \in DOMAIN q : i < j => first(q[i]) < first(q[j])
  <2>1. \A i \in DOMAIN q : key[q[i]] = first(q[i])
    BY <1>4 DEF Sorts
  <2> QED BY <1>4, <2>1 DEF Sorts
<1>6. order \in [1 .. Cardinality(wanted) -> wanted] /\ ToSet(order) = wanted
  BY <1>5
<1> HIDE DEF order
<1>7. wanted \subseteq Nat
  BY DEF wanted
<1>8. order \in Seq(Nat)
  <2> DEFINE c == Cardinality(wanted)
  <2>1. order \in [1 .. c -> Nat] /\ c \in Nat
    BY <1>1, <1>6, <1>7
  <2> HIDE DEF c
  <2> QED BY <2>1
<1>9. requeue_range(b, packets) = [b EXCEPT !.rtx = b.rtx \o order]
  BY DEF requeue_range, order, first, wanted
<1>10. b.rtx \o order \in Seq(Nat) /\ ToSet(b.rtx \o order) = ToSet(b.rtx) \cup wanted
  BY <1>6, <1>8, ConcatElements
<1>11. ToSet(b.rtx) \cup wanted = ToSet(b.rtx) \cup (carried \cap b.history)
  BY DEF wanted
<1> QED BY <1>9, <1>10, <1>11 DEF BufFields

(* A sequence without elements is empty. *)
LEMMA NoElements ==
    ASSUME NEW S, NEW q \in Seq(S), ToSet(q) = {}
    PROVE  q = << >>
<1>1. ASSUME Len(q) # 0 PROVE q[1] \in ToSet(q)
  BY <1>1 DEF ToSet
<1>2. Len(q) = 0
  BY <1>1
<1> QED BY <1>2

(* Nothing is requeued in a level where nothing was sent. *)
LEMMA RequeueSilent ==
    ASSUME NEW b, DOMAIN b = BufFields, Silent(b),
           NEW packets, NEW n \in Nat, IsFiniteSet(packets),
           \A p \in packets : p.pn \in Nat /\ p.pn < n,
           \A p, q \in packets : p.pn = q.pn => p = q
    PROVE  Silent(requeue_range(b, packets))
<1>1. b.rtx \in Seq(Nat) /\ b.history \subseteq Nat /\ ToSet(b.rtx) = {}
  BY DEF Silent, ToSet
<1>2. /\ requeue_range(b, packets).fresh = b.fresh
      /\ requeue_range(b, packets).history = b.history
      /\ requeue_range(b, packets).rtx \in Seq(Nat)
      /\ ToSet(requeue_range(b, packets).rtx)
            = ToSet(b.rtx) \cup ({p.crypto : p \in packets} \cap b.history)
  BY <1>1, Requeue
<1>3. ToSet(requeue_range(b, packets).rtx) = {}
  BY <1>1, <1>2 DEF Silent
<1>4. requeue_range(b, packets).rtx = << >>
  BY <1>2, <1>3, NoElements
<1> QED BY <1>2, <1>4 DEF Silent

(* What carve takes from the queues, it adds to the history. *)
LEMMA Carve ==
    ASSUME NEW b, DOMAIN b = BufFields, b.fresh \in Seq(Nat), b.rtx \in Seq(Nat),
           b.history \subseteq Nat, outbound_pending(b)
    PROVE  /\ CarvedUnit(b) \in Nat
           /\ DOMAIN carve(b) = BufFields
           /\ carve(b).fresh \in Seq(Nat) /\ carve(b).rtx \in Seq(Nat)
           /\ carve(b).history = b.history \cup {CarvedUnit(b)}
           /\ carve(b).got = b.got
           /\ ToSet(b.rtx) \subseteq ToSet(carve(b).rtx) \cup {CarvedUnit(b)}
<1>1. /\ DOMAIN carve(b) = BufFields
      /\ carve(b).history = b.history \cup {CarvedUnit(b)} /\ carve(b).got = b.got
      /\ carve(b).rtx = IF b.rtx # << >> THEN Tail(b.rtx) ELSE b.rtx
      /\ carve(b).fresh = IF b.rtx # << >> THEN b.fresh ELSE Tail(b.fresh)
  BY DEF carve, BufFields
<1>2. CASE b.rtx # << >>
  <2>1. CarvedUnit(b) = b.rtx[1] /\ b.rtx[1] \in Nat /\ Tail(b.rtx) \in Seq(Nat)
    BY <1>2 DEF CarvedUnit
  <2>2. ASSUME NEW u \in ToSet(b.rtx) PROVE u \in ToSet(Tail(b.rtx)) \cup {b.rtx[1]}
    <3>1. PICK i \in 1 .. Len(b.rtx) : u = b.rtx[i]
      BY DEF ToSet
    <3>2. CASE i = 1
      BY <3>1, <3>2
    <3>3. CASE i # 1
      <4>1. i - 1 \in 1 .. Len(Tail(b.rtx)) /\ Tail(b.rtx)[i - 1] = u
        BY <1>2, <3>1, <3>3
      <4> DEFINE t == Tail(b.rtx)
      <4>2. t \in Seq(Nat)
        BY <2>1
      <4> HIDE DEF t
      <4>3. DOMAIN t = 1 .. Len(t)
        BY <4>2
      <4>4. i - 1 \in DOMAIN t /\ t[i - 1] = u
        BY <4>1, <4>3 DEF t
      <4>5. u \in ToSet(t)
        BY <4>4 DEF ToSet
      <4> QED BY <4>5 DEF t
    <3> QED BY <3>2, <3>3
  <2> QED BY <1>1, <1>2, <2>1, <2>2
<1>3. CASE b.rtx = << >>
  <2>1. b.fresh # << >>
    BY <1>3 DEF outbound_pending
  <2>2. CarvedUnit(b) = Head(b.fresh) /\ Head(b.fresh) \in Nat /\ Tail(b.fresh) \in Seq(Nat)
    BY <1>3, <2>1 DEF CarvedUnit
  <2> QED BY <1>1, <1>3, <2>2 DEF ToSet
<1> QED BY <1>2, <1>3

-----------------------------------------------------------------------------
(* Sending.                                                                *)

(* What building a packet changes of an endpoint. *)
Built(E, p, F) ==
    /\ Shape(F)
    /\ F.role = E.role /\ F.tx = E.tx /\ F.engine = E.engine
    /\ F.complete = E.complete /\ F.confirmed = E.confirmed
    /\ F.handshake_done_acked = E.handshake_done_acked
    /\ F.data_acked = E.data_acked
    /\ F.handshake_done_pending = (E.handshake_done_pending /\ ~p.hd)
    /\ F.data_pending = (E.data_pending /\ ~p.data)
    /\ \A k \in CryptoLevels :
          F.bufs[k] = IF p.crypto # None /\ k = p.lvl THEN carve(E.bufs[k]) ELSE E.bufs[k]
    /\ \A r \in Spaces :
          F.loss[r].sent = IF Eliciting(p) /\ r = SpaceOf(p.lvl)
                           THEN E.loss[r].sent \cup {SentPacket(p.pn, p.crypto, p.hd, p.data)}
                           ELSE E.loss[r].sent
    /\ F.in_flight = IF Eliciting(p) THEN E.in_flight + 1 ELSE E.in_flight
    /\ \A r \in Spaces :
          F.pn[r].next = IF r = SpaceOf(p.lvl) THEN E.pn[r].next + 1 ELSE E.pn[r].next
    /\ F.ctx = E.ctx
    /\ F.timer = TimerPurpose(F)
    /\ F.validated = E.validated /\ F.bytes_sent = E.bytes_sent
    /\ F.bytes_recv = E.bytes_recv

(* build_packet, field by field. *)
LEMMA BuildFields ==
    ASSUME NEW E, Shape(E), NEW p, p.lvl \in Levels,
           p.crypto # None => p.lvl \in CryptoLevels
    PROVE  Built(E, p, build_packet(E, p))
<1> DEFINE s == SpaceOf(p.lvl)
           A == TakeFrames(E, p)
           B == ChargeProbe(A, p)
           C == [B EXCEPT !.pn[s].next = @ + 1,
                          !.pn[s].pending = IF p.ack = {} THEN @ ELSE {},
                          !.pn[s].due = @ /\ p.ack = {},
                          !.pn[s].eliciting = IF p.ack = {} THEN @ ELSE 0]
           x == SentPacket(p.pn, p.crypto, p.hd, p.data)
           G == IF Eliciting(p)
                THEN [C EXCEPT !.loss[s].sent = @ \union {x}, !.in_flight = @ + 1] ELSE C
           F == build_packet(E, p)
<1>0. s \in Spaces
  BY DEF SpaceOf, Levels, Spaces
<1>1. /\ Shape(A)
      /\ A.role = E.role /\ A.tx = E.tx /\ A.engine = E.engine
      /\ A.complete = E.complete /\ A.confirmed = E.confirmed
      /\ A.handshake_done_acked = E.handshake_done_acked /\ A.data_acked = E.data_acked
      /\ A.handshake_done_pending = (E.handshake_done_pending /\ ~p.hd)
      /\ A.data_pending = (E.data_pending /\ ~p.data)
      /\ A.loss = E.loss /\ A.in_flight = E.in_flight /\ A.pn = E.pn
      /\ A.bufs = IF p.crypto = None THEN E.bufs
                  ELSE [E.bufs EXCEPT ![p.lvl] = carve(E.bufs[p.lvl])]
      /\ A.ctx = E.ctx /\ A.validated = E.validated /\ A.bytes_sent = E.bytes_sent
      /\ A.bytes_recv = E.bytes_recv
  <2>1. p.crypto # None => DOMAIN carve(E.bufs[p.lvl]) = {"fresh", "rtx", "history", "got"}
    BY DEF Shape, carve
  <2> QED BY <2>1 DEF Shape, Fields, TakeFrames
<1> HIDE DEF A
<1>2. /\ Shape(B) /\ Same(A, B)
      /\ B.ctx = A.ctx /\ B.validated = A.validated /\ B.bytes_sent = A.bytes_sent
      /\ B.bytes_recv = A.bytes_recv
  BY <1>1, Probes DEF Same, ChargeProbe, consume_probe_credit, Shape, Fields
<1> HIDE DEF B, s
<1>3. /\ Shape(C)
      /\ C.role = B.role /\ C.tx = B.tx /\ C.engine = B.engine
      /\ C.complete = B.complete /\ C.confirmed = B.confirmed
      /\ C.handshake_done_acked = B.handshake_done_acked /\ C.data_acked = B.data_acked
      /\ C.handshake_done_pending = B.handshake_done_pending
      /\ C.data_pending = B.data_pending
      /\ C.bufs = B.bufs /\ C.loss = B.loss /\ C.in_flight = B.in_flight
      /\ \A r \in Spaces : C.pn[r].next = IF r = s THEN B.pn[r].next + 1 ELSE B.pn[r].next
      /\ C.ctx = B.ctx /\ C.validated = B.validated /\ C.bytes_sent = B.bytes_sent
      /\ C.bytes_recv = B.bytes_recv
  <2>1. DOMAIN B = Fields /\ DOMAIN B.pn = Spaces
        /\ \A r \in Spaces : DOMAIN B.pn[r] = {"next", "largest_rx", "pending", "due", "eliciting"}
    BY <1>2 DEF Shape
  <2>2. /\ DOMAIN C.pn = Spaces /\ \A r \in Spaces : r # s => C.pn[r] = B.pn[r]
        /\ DOMAIN C.pn[s] = {"next", "largest_rx", "pending", "due", "eliciting"}
        /\ C.pn[s].next = B.pn[s].next + 1
    <3>1. DOMAIN C.pn = Spaces
      BY <1>0, <2>1 DEF Fields
    <3>2. \A r \in Spaces : r # s => C.pn[r] = B.pn[r]
      BY <1>0, <2>1 DEF Fields
    <3>3. DOMAIN C.pn[s] = {"next", "largest_rx", "pending", "due", "eliciting"}
      BY <1>0, <2>1 DEF Fields
    <3>4. C.pn[s].next = B.pn[s].next + 1
      BY <1>0, <2>1 DEF Fields
    <3> QED BY <3>1, <3>2, <3>3, <3>4
  <2>3. /\ DOMAIN C = Fields
        /\ C.role = B.role /\ C.tx = B.tx /\ C.engine = B.engine
        /\ C.complete = B.complete /\ C.confirmed = B.confirmed
        /\ C.handshake_done_acked = B.handshake_done_acked /\ C.data_acked = B.data_acked
        /\ C.handshake_done_pending = B.handshake_done_pending
        /\ C.data_pending = B.data_pending
        /\ C.bufs = B.bufs /\ C.loss = B.loss /\ C.in_flight = B.in_flight
        /\ C.ctx = B.ctx /\ C.validated = B.validated /\ C.bytes_sent = B.bytes_sent
        /\ C.bytes_recv = B.bytes_recv
    BY <2>1 DEF Fields
  <2> HIDE DEF C
  <2> QED BY <1>0, <1>2, <2>1, <2>2, <2>3 DEF Shape
<1>4. F = set_loss_detection_timer(G)
  BY DEF build_packet, seal_packet, on_packet_sent, A, B, s
<1> HIDE DEF C, x
<1>5. /\ Shape(G)
      /\ G.role = C.role /\ G.tx = C.tx /\ G.engine = C.engine
      /\ G.complete = C.complete /\ G.confirmed = C.confirmed
      /\ G.handshake_done_acked = C.handshake_done_acked /\ G.data_acked = C.data_acked
      /\ G.handshake_done_pending = C.handshake_done_pending
      /\ G.data_pending = C.data_pending
      /\ G.bufs = C.bufs /\ G.pn = C.pn
      /\ G.loss = IF Eliciting(p) THEN [C.loss EXCEPT ![s].sent = C.loss[s].sent \cup {x}]
                  ELSE C.loss
      /\ G.in_flight = IF Eliciting(p) THEN C.in_flight + 1 ELSE C.in_flight
      /\ G.ctx = C.ctx /\ G.validated = C.validated /\ G.bytes_sent = C.bytes_sent
      /\ G.bytes_recv = C.bytes_recv
  BY <1>0, <1>3 DEF Shape, Fields
<1> HIDE DEF G, F
<1>6. /\ Shape(F) /\ Same(G, F) /\ F.timer = TimerPurpose(G) /\ F.ctx = G.ctx
      /\ F.validated = G.validated /\ F.bytes_sent = G.bytes_sent /\ F.bytes_recv = G.bytes_recv
  BY <1>4, <1>5, SetTimer DEF set_loss_detection_timer, Shape, Fields
<1>7. TimerPurpose(F) = TimerPurpose(G)
  BY <1>6, PurposeDepends DEF Same
<1>8. /\ Shape(F)
      /\ F.role = E.role /\ F.tx = E.tx /\ F.engine = E.engine
      /\ F.complete = E.complete /\ F.confirmed = E.confirmed
      /\ F.handshake_done_acked = E.handshake_done_acked
      /\ F.data_acked = E.data_acked
      /\ F.handshake_done_pending = (E.handshake_done_pending /\ ~p.hd)
      /\ F.data_pending = (E.data_pending /\ ~p.data)
      /\ F.bufs = IF p.crypto = None THEN E.bufs
                  ELSE [E.bufs EXCEPT ![p.lvl] = carve(E.bufs[p.lvl])]
      /\ F.loss = IF Eliciting(p)
                  THEN [E.loss EXCEPT ![s].sent = E.loss[s].sent \cup {x}]
                  ELSE E.loss
      /\ F.in_flight = IF Eliciting(p) THEN E.in_flight + 1 ELSE E.in_flight
      /\ \A r \in Spaces :
            F.pn[r].next = IF r = s THEN E.pn[r].next + 1 ELSE E.pn[r].next
      /\ F.ctx = E.ctx
      /\ F.timer = TimerPurpose(F)
      /\ F.validated = E.validated /\ F.bytes_sent = E.bytes_sent
      /\ F.bytes_recv = E.bytes_recv
  BY <1>1, <1>2, <1>3, <1>5, <1>6, <1>7 DEF Same
<1>9. \A k \in CryptoLevels :
          F.bufs[k] = IF p.crypto # None /\ k = p.lvl THEN carve(E.bufs[k]) ELSE E.bufs[k]
  BY <1>8 DEF Shape
<1>10. \A r \in Spaces :
           F.loss[r].sent = IF Eliciting(p) /\ r = s THEN E.loss[r].sent \cup {x}
                            ELSE E.loss[r].sent
  <2>1. DOMAIN E.loss = Spaces /\ DOMAIN E.loss[s] = {"sent", "largest_acked", "loss_time"}
    BY <1>0 DEF Shape
  <2>2. CASE Eliciting(p)
    <3>1. F.loss = [E.loss EXCEPT ![s].sent = E.loss[s].sent \cup {x}]
      BY <1>8, <2>2
    <3> QED BY <1>0, <2>1, <2>2, <3>1
  <2>3. CASE ~Eliciting(p)
    BY <1>8, <2>3
  <2> QED BY <2>2, <2>3
<1> QED BY <1>8, <1>9, <1>10 DEF Built, F, s, x

(* The count changes by what one space gains or loses. *)
LEMMA CountChange ==
    ASSUME NEW L, NEW M, NEW s \in Spaces,
           \A r \in Spaces : IsFiniteSet(L[r].sent) /\ IsFiniteSet(M[r].sent),
           \A r \in Spaces : r # s => M[r].sent = L[r].sent
    PROVE  /\ Count(M) = Count(L) - Cardinality(L[s].sent) + Cardinality(M[s].sent)
           /\ Count(L) \in Nat /\ Count(M) \in Nat
<1>1. \A r \in Spaces : Cardinality(L[r].sent) \in Nat /\ Cardinality(M[r].sent) \in Nat
  BY FS_CardinalityType
<1> QED BY <1>1 DEF Count, Spaces

(* The packet assemble_payload makes of what is pending. *)
LEMMA Assembled ==
    ASSUME NEW E, NEW l \in Levels
    PROVE  LET p == assemble_payload(E, l)
           IN  /\ p.lvl = l /\ p.pn = E.pn[SpaceOf(l)].next
               /\ p.crypto # None => /\ l \in CryptoLevels /\ outbound_pending(E.bufs[l])
                                     /\ p.crypto = CarvedUnit(E.bufs[l])
               /\ p.hd => l = "A" /\ E.handshake_done_pending
               /\ p.data => SpaceOf(l) = "A" /\ E.data_pending
BY DEF assemble_payload, SpaceOf, CryptoLevels

(* Building a packet keeps an endpoint's invariant, and the packet says    *)
(* the truth about its sender. *)
LEMMA Build ==
    ASSUME NEW E, Local(E), E.role \in Endpoints, NEW l \in Levels
    PROVE  LET p == assemble_payload(E, l)
               F == build_packet(E, p)
           IN  Local(F) /\ PacketOK(E.role, E.engine, p)
<1> DEFINE p == assemble_payload(E, l)
           F == build_packet(E, p)
           s == SpaceOf(l)
           x == SentPacket(p.pn, p.crypto, p.hd, p.data)
<1>1. /\ p.lvl = l /\ p.pn = E.pn[s].next
      /\ p.crypto # None => /\ l \in CryptoLevels /\ outbound_pending(E.bufs[l])
                            /\ p.crypto = CarvedUnit(E.bufs[l])
      /\ p.hd => l = "A" /\ E.handshake_done_pending
      /\ p.data => s = "A" /\ E.data_pending
  BY Assembled
<1>2. Shape(E) /\ RecoveryOK(E) /\ FramesKept(E) /\ EngineOK(E)
  BY DEF Local
<1>3. s \in Spaces /\ (l \in CryptoLevels => s = l)
  BY DEF SpaceOf, Levels, Spaces, CryptoLevels
<1> HIDE DEF p
<1>4. /\ Shape(F)
      /\ F.role = E.role /\ F.tx = E.tx /\ F.engine = E.engine
      /\ F.complete = E.complete /\ F.confirmed = E.confirmed
      /\ F.handshake_done_acked = E.handshake_done_acked
      /\ F.data_acked = E.data_acked
      /\ F.handshake_done_pending = (E.handshake_done_pending /\ ~p.hd)
      /\ F.data_pending = (E.data_pending /\ ~p.data)
      /\ \A k \in CryptoLevels :
            F.bufs[k] = IF p.crypto # None /\ k = l THEN carve(E.bufs[k]) ELSE E.bufs[k]
      /\ \A r \in Spaces :
            F.loss[r].sent = IF Eliciting(p) /\ r = s THEN E.loss[r].sent \cup {x}
                             ELSE E.loss[r].sent
      /\ F.in_flight = IF Eliciting(p) THEN E.in_flight + 1 ELSE E.in_flight
      /\ \A r \in Spaces :
            F.pn[r].next = IF r = s THEN E.pn[r].next + 1 ELSE E.pn[r].next
  <2>1. /\ Shape(F)
        /\ F.role = E.role /\ F.tx = E.tx /\ F.engine = E.engine
        /\ F.complete = E.complete /\ F.confirmed = E.confirmed
        /\ F.handshake_done_acked = E.handshake_done_acked
        /\ F.data_acked = E.data_acked
        /\ F.handshake_done_pending = (E.handshake_done_pending /\ ~p.hd)
        /\ F.data_pending = (E.data_pending /\ ~p.data)
        /\ \A k \in CryptoLevels :
              F.bufs[k] = IF p.crypto # None /\ k = p.lvl THEN carve(E.bufs[k]) ELSE E.bufs[k]
        /\ \A r \in Spaces :
              F.loss[r].sent = IF Eliciting(p) /\ r = SpaceOf(p.lvl) THEN E.loss[r].sent \cup {x}
                               ELSE E.loss[r].sent
        /\ F.in_flight = IF Eliciting(p) THEN E.in_flight + 1 ELSE E.in_flight
        /\ \A r \in Spaces :
              F.pn[r].next = IF r = SpaceOf(p.lvl) THEN E.pn[r].next + 1 ELSE E.pn[r].next
    <3>1. p.lvl \in Levels /\ (p.crypto # None => p.lvl \in CryptoLevels)
      BY <1>1
    <3>2. Built(E, p, F)
      BY <1>2, <3>1, BuildFields
    <3> QED BY <3>2 DEF Built
  <2> HIDE DEF F, x
  <2> QED BY <1>1, <2>1
<1>5. x.pn = p.pn /\ x.crypto = p.crypto /\ x.hd = p.hd /\ x.data = p.data
  BY DEF SentPacket
<1> HIDE DEF F, x, s
<1>6. \A r \in Spaces : F.loss[r].sent = IF Eliciting(p) /\ r = s THEN E.loss[r].sent \cup {x}
                                          ELSE E.loss[r].sent
  BY <1>4
<1>7. \A r \in Spaces : E.pn[r].next \in Nat /\ Tracked(E.loss[r], E.pn[r].next)
  BY <1>2 DEF RecoveryOK, Tracked
<1>8. x \notin E.loss[s].sent
  BY <1>1, <1>3, <1>5, <1>7 DEF Tracked
<1>9. ASSUME NEW r \in Spaces PROVE Tracked(F.loss[r], F.pn[r].next)
  <2>1. Tracked(E.loss[r], E.pn[r].next) /\ E.pn[r].next \in Nat
    BY <1>7
  <2>2. CASE Eliciting(p) /\ r = s
    <3>1. IsFiniteSet(E.loss[r].sent \cup {x})
      BY <2>1, FS_AddElement DEF Tracked
    <3>2. F.loss[r].sent = E.loss[r].sent \cup {x} /\ F.pn[r].next = E.pn[r].next + 1
          /\ x.pn = E.pn[r].next
      BY <1>1, <1>4, <1>5, <1>6, <2>2
    <3> QED BY <2>1, <3>1, <3>2 DEF Tracked
  <2>3. CASE ~(Eliciting(p) /\ r = s)
    <3>1. F.loss[r].sent = E.loss[r].sent
          /\ (F.pn[r].next = E.pn[r].next \/ F.pn[r].next = E.pn[r].next + 1)
      BY <1>4, <1>6, <2>3
    <3> QED BY <2>1, <3>1 DEF Tracked
  <2> QED BY <2>2, <2>3
<1>10. F.in_flight = Count(F.loss)
  <2>1. \A r \in Spaces : IsFiniteSet(E.loss[r].sent) /\ IsFiniteSet(F.loss[r].sent)
    BY <1>7, <1>9 DEF Tracked
  <2>7. \A r \in Spaces : r # s => F.loss[r].sent = E.loss[r].sent
    BY <1>6
  <2>2. Count(F.loss) = Count(E.loss) - Cardinality(E.loss[s].sent) + Cardinality(F.loss[s].sent)
        /\ Count(E.loss) \in Nat
    BY <1>3, <2>1, <2>7, CountChange
  <2>3. Cardinality(E.loss[s].sent) \in Nat
    BY <1>3, <2>1, FS_CardinalityType
  <2>4. Eliciting(p) => Cardinality(F.loss[s].sent) = Cardinality(E.loss[s].sent) + 1
    BY <1>3, <1>6, <1>8, <2>1, FS_AddElement
  <2>5. ~Eliciting(p) => F.loss[s].sent = E.loss[s].sent
    BY <1>3, <1>6
  <2>6. E.in_flight = Count(E.loss)
    BY <1>2 DEF RecoveryOK
  <2> QED BY <1>4, <2>2, <2>3, <2>4, <2>5, <2>6
<1>11. ASSUME NEW k \in CryptoLevels PROVE CryptoKept(F.bufs[k], F.loss[k])
  <2>1. k \in Spaces /\ CryptoKept(E.bufs[k], E.loss[k]) /\ E.loss[k].sent \subseteq F.loss[k].sent
    BY <1>2, <1>6 DEF RecoveryOK, CryptoLevels, Spaces
  <2>2. CASE p.crypto = None \/ k # l
    <3>1. F.bufs[k] = E.bufs[k]
      BY <1>2, <1>4, <2>2 DEF Shape
    <3> QED BY <2>1, <3>1 DEF CryptoKept
  <2>3. CASE p.crypto # None /\ k = l
    <3>1. F.bufs[k] = carve(E.bufs[k]) /\ outbound_pending(E.bufs[k])
          /\ p.crypto = CarvedUnit(E.bufs[k])
      BY <1>1, <1>2, <1>4, <2>3 DEF Shape
    <3> DEFINE b == E.bufs[k]
    <3>2. DOMAIN b = BufFields /\ b.fresh \in Seq(Nat) /\ b.rtx \in Seq(Nat) /\ b.history \subseteq Nat
      BY <1>2, <2>1 DEF CryptoKept, Shape, BufFields
    <3>3. /\ CarvedUnit(b) \in Nat
          /\ carve(b).fresh \in Seq(Nat) /\ carve(b).rtx \in Seq(Nat)
          /\ carve(b).history = b.history \cup {CarvedUnit(b)}
          /\ ToSet(b.rtx) \subseteq ToSet(carve(b).rtx) \cup {CarvedUnit(b)}
      BY <3>1, <3>2, Carve
    <3>4. x \in F.loss[k].sent /\ x.crypto = CarvedUnit(b)
      BY <1>3, <1>5, <1>6, <2>1, <2>3, <3>1 DEF Eliciting
    <3> QED BY <2>1, <3>1, <3>2, <3>3, <3>4 DEF CryptoKept
  <2> QED BY <2>2, <2>3
<1>12. RecoveryOK(F)
  BY <1>9, <1>10, <1>11 DEF RecoveryOK
<1>13. FramesKept(F)
  <2>1. p.hd \/ p.data => s = "A" /\ x \in F.loss["A"].sent
    BY <1>1, <1>3, <1>6 DEF Eliciting, SpaceOf, s
  <2>2. E.loss["A"].sent \subseteq F.loss["A"].sent
    BY <1>6 DEF Spaces
  <2> QED BY <1>2, <1>4, <1>5, <2>1, <2>2 DEF FramesKept
<1>14. \A k \in CryptoLevels : Silent(E.bufs[k]) => F.bufs[k] = E.bufs[k] /\ ~(p.crypto # None /\ k = l)
  BY <1>1, <1>2, <1>4 DEF Silent, outbound_pending, Shape
<1>15. EngineOK(F)
  <2>1. ~E.handshake_done_pending /\ (\A r \in Spaces : \A q \in E.loss[r].sent : ~q.hd)
          => ~F.handshake_done_pending /\ \A r \in Spaces : \A q \in F.loss[r].sent : ~q.hd
    <3> SUFFICES ASSUME ~E.handshake_done_pending,
                        \A r \in Spaces : \A q \in E.loss[r].sent : ~q.hd
                 PROVE  /\ ~F.handshake_done_pending
                        /\ \A r \in Spaces : \A q \in F.loss[r].sent : ~q.hd
      OBVIOUS
    <3>1. ~p.hd /\ ~x.hd
      BY <1>1, <1>5
    <3>2. ~F.handshake_done_pending
      BY <1>4
    <3>3. ASSUME NEW r \in Spaces, NEW q \in F.loss[r].sent PROVE ~q.hd
      BY <1>6, <3>1
    <3> QED BY <3>2, <3>3
  <2> QED BY <1>2, <1>4, <1>14, <2>1 DEF EngineOK, CryptoLevels
<1>16. PacketOK(E.role, E.engine, p)
  <2>1. p.crypto = None \/ (p.lvl \in CryptoLevels /\ p.crypto \in Nat)
    <3>1. ASSUME l \in CryptoLevels, outbound_pending(E.bufs[l]) PROVE CarvedUnit(E.bufs[l]) \in Nat
      <4> DEFINE b == E.bufs[l]
      <4>1. DOMAIN b = BufFields /\ b.fresh \in Seq(Nat) /\ b.rtx \in Seq(Nat) /\ b.history \subseteq Nat
        BY <1>2, <3>1 DEF CryptoKept, Shape, BufFields, RecoveryOK
      <4> QED BY <3>1, <4>1, Carve
    <3> QED BY <1>1, <3>1
  <2>2. p.crypto # None => ~Silent(E.bufs[l]) /\ l \in CryptoLevels
    BY <1>1 DEF Silent, outbound_pending
  <2>3. p.pn \in Nat
    BY <1>1, <1>3, <1>7
  <2> QED BY <1>1, <1>2, <2>1, <2>2, <2>3 DEF PacketOK, EngineOK, Endpoints
<1>17. Local(F)
  BY <1>4, <1>12, <1>13, <1>15 DEF Local
<1> QED BY <1>16, <1>17 DEF F, p

(* F has heard of its peer nothing that E has not. *)
NoNews(E, F) ==
    /\ F.role = E.role /\ F.engine = E.engine /\ F.confirmed = E.confirmed
    /\ \A k \in CryptoLevels : F.bufs[k].got \subseteq E.bufs[k].got

(* The facts the timer's context is made of are the same. *)
SameFacts(E, F) ==
    /\ F.role = E.role /\ F.confirmed = E.confirmed /\ F.ctx = E.ctx
    /\ ("H" \in F.tx) = ("H" \in E.tx)
    /\ F.validated = E.validated /\ F.bytes_sent = E.bytes_sent /\ F.bytes_recv = E.bytes_recv

(* The context is up to date. *)
InSync(E) ==
    /\ E.ctx.handshake_confirmed = E.confirmed
    /\ E.ctx.has_handshake_keys = ("H" \in E.tx)
    /\ E.ctx.at_amplification_limit = (E.role = "s" /\ ~can_send(E, 1))

(* The timer is the one the present facts call for. *)
Current(E) == E.timer = TimerPurpose(sync_loss_context(E))

(* What sync_loss_context does. *)
LEMMA Sync ==
    ASSUME NEW E, Shape(E)
    PROVE  LET F == sync_loss_context(E)
           IN  /\ Shape(F) /\ Same(E, F) /\ InSync(F)
               /\ F.validated = E.validated /\ F.bytes_sent = E.bytes_sent
               /\ F.bytes_recv = E.bytes_recv /\ F.timer = E.timer
               /\ F.sent_first_datagram = E.sent_first_datagram
               /\ F.ctx.peer_handshake_acked = E.ctx.peer_handshake_acked
<1> DEFINE F == sync_loss_context(E)
<1>1. Shape(F) /\ Same(E, F)
  BY SyncContext
<1>2. /\ F.validated = E.validated /\ F.bytes_sent = E.bytes_sent
      /\ F.bytes_recv = E.bytes_recv /\ F.timer = E.timer
      /\ F.sent_first_datagram = E.sent_first_datagram
  BY DEF sync_loss_context, Shape, Fields
<1>3. /\ F.ctx.handshake_confirmed = E.confirmed
      /\ F.ctx.has_handshake_keys = ("H" \in E.tx)
      /\ F.ctx.at_amplification_limit = (E.role = "s" /\ ~can_send(E, 1))
      /\ F.ctx.peer_handshake_acked = E.ctx.peer_handshake_acked
  BY DEF sync_loss_context, Shape, Fields, CtxFields
<1> HIDE DEF F
<1>4. can_send(F, 1) = can_send(E, 1)
  BY <1>2 DEF can_send
<1>5. InSync(F)
  BY <1>1, <1>3, <1>4 DEF InSync, Same
<1> QED BY <1>1, <1>2, <1>3, <1>5 DEF F

(* Synchronising again changes nothing. *)
LEMMA SyncedContext ==
    ASSUME NEW E, Shape(E), InSync(E)
    PROVE  \A f \in CtxFields : sync_loss_context(E).ctx[f] = E.ctx[f]
<1> DEFINE F == sync_loss_context(E)
<1>1. F.ctx = [E.ctx EXCEPT !.handshake_confirmed = E.confirmed,
                            !.has_handshake_keys = "H" \in E.tx,
                            !.at_amplification_limit = E.role = "s" /\ ~can_send(E, 1)]
  BY DEF sync_loss_context, Shape, Fields
<1> QED BY <1>1 DEF InSync, Shape, CtxFields

(* A timer set in an up-to-date context is current. *)
LEMMA SyncedTimer ==
    ASSUME NEW E, Shape(E), InSync(E), E.timer = TimerPurpose(E)
    PROVE  Current(E)
<1> DEFINE F == sync_loss_context(E)
<1>1. \A f \in CtxFields : F.ctx[f] = E.ctx[f]
  BY SyncedContext
<1>2. F.loss = E.loss /\ F.role = E.role
  BY Sync DEF Same
<1>3. TimerPurpose(F) = TimerPurpose(E)
  BY <1>1, <1>2, PurposeDepends
<1> QED BY <1>3 DEF Current

(* The context stays up to date while the facts are the same. *)
LEMMA StaysInSync ==
    ASSUME NEW E, NEW F, InSync(E), SameFacts(E, F)
    PROVE  InSync(F)
<1>1. can_send(F, 1) = can_send(E, 1)
  BY DEF can_send, SameFacts
<1> QED BY <1>1 DEF InSync, SameFacts

(* refresh_loss_timer makes the timer current. *)
LEMMA Refresh ==
    ASSUME NEW E, Shape(E)
    PROVE  /\ Shape(refresh_loss_timer(E)) /\ Same(E, refresh_loss_timer(E))
           /\ Current(refresh_loss_timer(E))
<1> DEFINE F == sync_loss_context(E)
           G == refresh_loss_timer(E)
<1>1. /\ Shape(F) /\ Same(E, F) /\ InSync(F)
  BY Sync
<1>2. G = set_loss_detection_timer(F)
  BY DEF refresh_loss_timer
<1> HIDE DEF F, G
<1>3. /\ Shape(G) /\ Same(F, G) /\ G.timer = TimerPurpose(F) /\ G.ctx = F.ctx
      /\ G.validated = F.validated /\ G.bytes_sent = F.bytes_sent /\ G.bytes_recv = F.bytes_recv
  BY <1>1, <1>2, SetTimer DEF set_loss_detection_timer, Shape, Fields
<1>4. InSync(G)
  BY <1>1, <1>3, StaysInSync DEF SameFacts, Same
<1>5. G.timer = TimerPurpose(G)
  BY <1>3, PurposeDepends DEF Same
<1>6. Current(G)
  BY <1>3, <1>4, <1>5, SyncedTimer
<1> QED BY <1>1, <1>3, <1>6 DEF G, Same

(* Building a packet brings no news, and the timer is set for what is in   *)
(* flight with it. *)
LEMMA BuildQuiet ==
    ASSUME NEW E, Local(E), NEW l \in Levels
    PROVE  LET F == build_packet(E, assemble_payload(E, l))
           IN  NoNews(E, F) /\ SameFacts(E, F) /\ F.timer = TimerPurpose(F) /\ F.tx = E.tx
<1> DEFINE p == assemble_payload(E, l)
           F == build_packet(E, p)
<1>1. /\ p.lvl = l
      /\ p.crypto # None => l \in CryptoLevels /\ outbound_pending(E.bufs[l])
  BY Assembled
<1> HIDE DEF p
<1>2. Shape(E)
  BY DEF Local
<1>3. Built(E, p, F)
  BY <1>1, <1>2, BuildFields
<1> HIDE DEF F
<1>4. ASSUME NEW k \in CryptoLevels PROVE F.bufs[k].got \subseteq E.bufs[k].got
  <2>1. carve(E.bufs[k]).got = E.bufs[k].got
    BY <1>2 DEF carve, Shape
  <2> QED BY <1>3, <2>1 DEF Built
<1>5. /\ NoNews(E, F) /\ SameFacts(E, F) /\ F.timer = TimerPurpose(F) /\ F.tx = E.tx
  BY <1>3, <1>4 DEF Built, NoNews, SameFacts
<1> QED BY <1>5 DEF F, p

-----------------------------------------------------------------------------
(* Discarding a level.                                                     *)

(* What discarding level l changes of an endpoint. *)
Discarded(E, l, F) ==
    /\ Shape(F)
    /\ F.role = E.role /\ F.tx = E.tx \ {l} /\ F.engine = E.engine
    /\ F.complete = E.complete /\ F.confirmed = E.confirmed
    /\ F.handshake_done_acked = E.handshake_done_acked /\ F.data_acked = E.data_acked
    /\ F.handshake_done_pending = E.handshake_done_pending /\ F.data_pending = E.data_pending
    /\ \A k \in CryptoLevels : F.bufs[k] = IF k = l THEN NewCryptoBuf ELSE E.bufs[k]
    /\ \A r \in Spaces : F.loss[r] = IF r = l THEN NewPerSpace ELSE E.loss[r]
    /\ \A r \in Spaces : F.pn[r] = IF r = l THEN NewPnSpace ELSE E.pn[r]
    /\ F.in_flight = E.in_flight - Cardinality(E.loss[l].sent)
    /\ F.ctx = E.ctx /\ F.timer = TimerPurpose(F)
    /\ F.validated = E.validated /\ F.bytes_sent = E.bytes_sent /\ F.bytes_recv = E.bytes_recv
    /\ F.sent_first_datagram = E.sent_first_datagram

(* discard_level, field by field. *)
LEMMA DiscardFields ==
    ASSUME NEW E, Shape(E), NEW l \in CryptoLevels
    PROVE  Discarded(E, l, discard_level(E, l))
<1> DEFINE A == [E EXCEPT !.tx = @ \ {l}, !.rx = @ \ {l},
                          !.bufs[l] = NewCryptoBuf,
                          !.loss[l] = NewPerSpace, !.pn[l] = NewPnSpace,
                          !.in_flight = @ - Cardinality(E.loss[l].sent)]
           B == IF E.probe_space = l THEN clear_probe(A) ELSE A
           F == discard_level(E, l)
<1>1. l \in Spaces /\ DOMAIN E = Fields /\ DOMAIN E.bufs = CryptoLevels
      /\ DOMAIN E.loss = Spaces /\ DOMAIN E.pn = Spaces
  BY DEF CryptoLevels, Spaces, Shape
<1>2. /\ DOMAIN A = Fields
      /\ A.role = E.role /\ A.tx = E.tx \ {l} /\ A.engine = E.engine
      /\ A.complete = E.complete /\ A.confirmed = E.confirmed
      /\ A.handshake_done_acked = E.handshake_done_acked /\ A.data_acked = E.data_acked
      /\ A.handshake_done_pending = E.handshake_done_pending /\ A.data_pending = E.data_pending
      /\ A.bufs = [E.bufs EXCEPT ![l] = NewCryptoBuf]
      /\ A.loss = [E.loss EXCEPT ![l] = NewPerSpace]
      /\ A.pn = [E.pn EXCEPT ![l] = NewPnSpace]
      /\ A.in_flight = E.in_flight - Cardinality(E.loss[l].sent)
      /\ A.ctx = E.ctx
      /\ A.validated = E.validated /\ A.bytes_sent = E.bytes_sent /\ A.bytes_recv = E.bytes_recv
      /\ A.sent_first_datagram = E.sent_first_datagram
  BY <1>1 DEF Fields
<1>3. F = set_loss_detection_timer(B)
  BY DEF discard_level
<1> HIDE DEF A, F
<1>4. Shape(A)
  <2>1. /\ DOMAIN NewCryptoBuf = {"fresh", "rtx", "history", "got"}
        /\ DOMAIN NewPerSpace = {"sent", "largest_acked", "loss_time"}
        /\ DOMAIN NewPnSpace = {"next", "largest_rx", "pending", "due", "eliciting"}
    BY DEF NewCryptoBuf, NewPerSpace, NewPnSpace
  <2> QED BY <1>1, <1>2, <2>1 DEF Shape
<1>5. /\ Shape(B) /\ Same(A, B) /\ B.ctx = A.ctx
      /\ B.validated = A.validated /\ B.bytes_sent = A.bytes_sent /\ B.bytes_recv = A.bytes_recv
      /\ B.sent_first_datagram = A.sent_first_datagram
  BY <1>4, Probes DEF Same, clear_probe, Shape, Fields
<1> HIDE DEF B
<1>6. /\ Shape(F) /\ Same(B, F) /\ F.ctx = B.ctx /\ F.timer = TimerPurpose(B)
      /\ F.validated = B.validated /\ F.bytes_sent = B.bytes_sent /\ F.bytes_recv = B.bytes_recv
      /\ F.sent_first_datagram = B.sent_first_datagram
  BY <1>3, <1>5, SetTimer DEF set_loss_detection_timer, Shape, Fields
<1>7. TimerPurpose(F) = TimerPurpose(B)
  BY <1>6, PurposeDepends DEF Same
<1>8. /\ F.bufs = [E.bufs EXCEPT ![l] = NewCryptoBuf]
      /\ F.loss = [E.loss EXCEPT ![l] = NewPerSpace]
      /\ F.pn = [E.pn EXCEPT ![l] = NewPnSpace]
  BY <1>2, <1>5, <1>6 DEF Same
<1>9. /\ \A k \in CryptoLevels : F.bufs[k] = IF k = l THEN NewCryptoBuf ELSE E.bufs[k]
      /\ \A r \in Spaces : F.loss[r] = IF r = l THEN NewPerSpace ELSE E.loss[r]
      /\ \A r \in Spaces : F.pn[r] = IF r = l THEN NewPnSpace ELSE E.pn[r]
  BY <1>1, <1>8
<1>10. Discarded(E, l, F)
  BY <1>2, <1>5, <1>6, <1>7, <1>9 DEF Discarded, Same
<1> QED BY <1>10 DEF F

(* When a level may be discarded: what the code waits for. *)
MayDiscard(E, l) ==
    /\ E.role = "s" => E.engine = "done"
    /\ E.role = "c" /\ l = "I" => E.engine # "hello"
    /\ E.role = "c" /\ l = "H" => E.confirmed

(* Discarding a level then keeps the invariant. *)
LEMMA Discard ==
    ASSUME NEW E, Local(E), NEW l \in CryptoLevels, MayDiscard(E, l), E.role \in Endpoints
    PROVE  LET F == discard_level(E, l)
           IN  Local(F) /\ NoNews(E, F)
<1> DEFINE F == discard_level(E, l)
<1>1. Shape(E) /\ RecoveryOK(E) /\ FramesKept(E) /\ EngineOK(E)
  BY DEF Local
<1>2. Discarded(E, l, F)
  BY <1>1, DiscardFields
<1> HIDE DEF F
<1>3. /\ NewPerSpace.sent = {} /\ NewPnSpace.next = 0
      /\ NewCryptoBuf.fresh = << >> /\ NewCryptoBuf.rtx = << >>
      /\ NewCryptoBuf.history = {} /\ NewCryptoBuf.got = {}
  BY DEF NewPerSpace, NewPnSpace, NewCryptoBuf
<1>4. IsFiniteSet({}) /\ Cardinality({}) = 0
  BY FS_EmptySet
<1>5. ASSUME NEW r \in Spaces PROVE Tracked(F.loss[r], F.pn[r].next)
  <2>1. CASE r = l
    <3>1. F.loss[r].sent = {} /\ F.pn[r].next = 0
      BY <1>2, <1>3, <2>1 DEF Discarded
    <3> QED BY <1>4, <3>1 DEF Tracked
  <2>2. CASE r # l
    BY <1>1, <1>2, <2>2 DEF Discarded, RecoveryOK
  <2> QED BY <2>1, <2>2
<1>6. ASSUME NEW k \in CryptoLevels PROVE CryptoKept(F.bufs[k], F.loss[k])
  <2>1. k \in Spaces
    BY DEF CryptoLevels, Spaces
  <2>2. CASE k = l
    <3>1. F.bufs[k].fresh = << >> /\ F.bufs[k].rtx = << >> /\ F.bufs[k].history = {}
      BY <1>2, <1>3, <2>2 DEF Discarded
    <3> QED BY <3>1 DEF CryptoKept
  <2>3. CASE k # l
    BY <1>1, <1>2, <2>1, <2>3 DEF Discarded, RecoveryOK
  <2> QED BY <2>2, <2>3
<1>7. F.in_flight = Count(F.loss)
  <2>1. l \in Spaces
    BY DEF CryptoLevels, Spaces
  <2>2. \A r \in Spaces : IsFiniteSet(E.loss[r].sent) /\ IsFiniteSet(F.loss[r].sent)
    BY <1>1, <1>5 DEF Tracked, RecoveryOK
  <2>3. \A r \in Spaces : r # l => F.loss[r].sent = E.loss[r].sent
    BY <1>2 DEF Discarded
  <2>4. Count(F.loss) = Count(E.loss) - Cardinality(E.loss[l].sent) + Cardinality(F.loss[l].sent)
        /\ Count(E.loss) \in Nat
    BY <2>1, <2>2, <2>3, CountChange
  <2>5. F.loss[l].sent = {}
    BY <1>2, <1>3, <2>1 DEF Discarded
  <2>6. Cardinality(E.loss[l].sent) \in Nat
    BY <2>1, <2>2, FS_CardinalityType
  <2>7. E.in_flight = Count(E.loss)
    BY <1>1 DEF RecoveryOK
  <2>8. F.in_flight = E.in_flight - Cardinality(E.loss[l].sent)
    BY <1>2 DEF Discarded
  <2> QED BY <1>4, <2>4, <2>5, <2>6, <2>7, <2>8
<1>8. RecoveryOK(F)
  BY <1>5, <1>6, <1>7 DEF RecoveryOK
<1>9. F.loss["A"] = E.loss["A"]
  BY <1>2 DEF Discarded, CryptoLevels, Spaces
<1>10. FramesKept(F)
  BY <1>1, <1>2, <1>9 DEF FramesKept, Discarded
<1>11. \A k \in CryptoLevels : Silent(E.bufs[k]) => Silent(F.bufs[k])
  BY <1>2, <1>3 DEF Silent, Discarded
<1>12. EngineOK(F)
  <2>1. \A k \in CryptoLevels : k # l => (k \in F.tx) = (k \in E.tx)
    BY <1>2 DEF Discarded
  <2>2. \A r \in Spaces : F.loss[r].sent \subseteq E.loss[r].sent
    BY <1>2, <1>3 DEF Discarded
  <2> QED BY <1>1, <1>2, <1>11, <2>1, <2>2 DEF EngineOK, Discarded, MayDiscard, CryptoLevels
<1>13. NoNews(E, F)
  BY <1>2, <1>3 DEF NoNews, Discarded
<1>14. Local(F)
  BY <1>2, <1>8, <1>10, <1>12 DEF Local, Discarded
<1> QED BY <1>13, <1>14 DEF F

-----------------------------------------------------------------------------
(* Datagrams.                                                              *)

(* A sequence and one more element. *)
LEMMA ListedAppend ==
    ASSUME NEW q, Listed(q), NEW x
    PROVE  Listed(Append(q, x)) /\ ToSet(Append(q, x)) = ToSet(q) \cup {x}
           /\ Append(q, x) # << >>
<1> DEFINE S == ToSet(q) \cup {x}
           r == Append(q, x)
<1>1. q \in Seq(S) /\ x \in S
  BY DEF Listed
<1>2. ToSet(q) = {q[i] : i \in 1 .. Len(q)} /\ Len(q) \in Nat
  BY <1>1 DEF ToSet
<1> HIDE DEF S
<1>3. /\ r \in Seq(S) /\ Len(r) = Len(q) + 1 /\ r[Len(q) + 1] = x
      /\ \A i \in 1 .. Len(q) : r[i] = q[i]
  BY <1>1
<1> HIDE DEF r
<1>4. ToSet(r) = {r[i] : i \in 1 .. Len(q) + 1}
  BY <1>3 DEF ToSet
<1>5. ASSUME NEW y \in ToSet(r) PROVE y \in ToSet(q) \cup {x}
  BY <1>2, <1>3, <1>4
<1>6. ASSUME NEW y \in ToSet(q) PROVE y \in ToSet(r)
  BY <1>2, <1>3, <1>4
<1>7. x \in ToSet(r)
  BY <1>2, <1>3, <1>4
<1>8. ToSet(r) = ToSet(q) \cup {x}
  BY <1>5, <1>6, <1>7
<1>9. Listed(r)
  BY <1>3, <1>8 DEF Listed, S
<1> QED BY <1>2, <1>3, <1>8, <1>9 DEF r

(* A sequence and one element less. *)
LEMMA ListedRemove ==
    ASSUME NEW q, Listed(q), NEW i \in 1 .. Len(q)
    PROVE  Listed(RemoveAt(q, i)) /\ ToSet(RemoveAt(q, i)) \subseteq ToSet(q)
<1> DEFINE r == RemoveAt(q, i)
           S == ToSet(q)
           a == SubSeq(q, 1, i - 1)
           b == SubSeq(q, i + 1, Len(q))
<1>1. q \in Seq(S)
  BY DEF Listed
<1> HIDE DEF S
<1>2. a \in Seq(S) /\ b \in Seq(S)
  BY <1>1
<1>3. r = a \o b
  BY DEF RemoveAt
<1> HIDE DEF a, b, r
<1>4. r \in Seq(S)
  BY <1>2, <1>3
<1>5. ToSet(r) \subseteq S
  BY <1>4 DEF ToSet
<1>6. r \in Seq(ToSet(r))
  BY <1>4 DEF ToSet
<1> QED BY <1>5, <1>6 DEF Listed, r, S

(* A datagram under construction: E is the endpoint it was begun with. *)
Draft(E, D) ==
    /\ Local(D.E) /\ NoNews(E, D.E) /\ InSync(D.E)
    /\ DatagramOK(E.role, E.engine, D.packets)
    /\ D.packets # << >> => D.E.timer = TimerPurpose(D.E)

(* A level is added to it. *)
LEMMA Added ==
    ASSUME NEW E, E.role \in Endpoints, NEW D, Draft(E, D), NEW l \in Levels
    PROVE  Draft(E, AddLevel(D, l))
<1> DEFINE p == assemble_payload(D.E, l)
           F == build_packet(D.E, p)
           discards == F.role = "c" /\ l = "H" /\ "I" \in F.tx
           G == IF discards THEN discard_level(F, "I") ELSE F
           R == [E |-> G, packets |-> Append(D.packets, p)]
<1> SUFFICES ASSUME Buildable(D.E, l) PROVE Draft(E, R)
  BY DEF AddLevel
<1>1. l \in D.E.tx
  BY DEF Buildable
<1>2. D.E.role = E.role /\ D.E.engine = E.engine
  BY DEF Draft, NoNews
<1>3. Local(D.E) /\ InSync(D.E)
  BY DEF Draft
<1>4. Local(F) /\ PacketOK(D.E.role, D.E.engine, p)
  BY <1>2, <1>3, Build
<1>5. NoNews(D.E, F) /\ SameFacts(D.E, F) /\ F.timer = TimerPurpose(F) /\ F.tx = D.E.tx
  BY <1>3, BuildQuiet
<1> HIDE DEF F, p
<1>6. /\ Local(G) /\ NoNews(F, G) /\ SameFacts(F, G) /\ G.timer = TimerPurpose(G)
  <2>1. CASE discards
    <3>1. "H" \in F.tx /\ F.role \in Endpoints
      BY <1>1, <1>2, <1>5, <2>1 DEF NoNews
    <3>2. MayDiscard(F, "I")
      BY <1>4, <2>1, <3>1 DEF MayDiscard, Local, EngineOK
    <3>3. Local(G) /\ NoNews(F, G)
      BY <1>4, <2>1, <3>1, <3>2, Discard DEF CryptoLevels
    <3>4. Discarded(F, "I", G)
      BY <1>4, <2>1, DiscardFields DEF CryptoLevels, Local
    <3>5. SameFacts(F, G) /\ G.timer = TimerPurpose(G)
      BY <3>4 DEF Discarded, SameFacts
    <3> QED BY <3>3, <3>5
  <2>2. CASE ~discards
    BY <1>4, <1>5, <2>2 DEF NoNews, SameFacts
  <2> QED BY <2>1, <2>2
<1> HIDE DEF G
<1>7. InSync(G)
  <2>1. InSync(F)
    BY <1>3, <1>5, StaysInSync
  <2> QED BY <1>6, <2>1, StaysInSync
<1>8. NoNews(E, G)
  BY <1>5, <1>6 DEF Draft, NoNews
<1>9. DatagramOK(E.role, E.engine, Append(D.packets, p))
  BY <1>2, <1>4, ListedAppend DEF DatagramOK, Draft
<1> QED BY <1>6, <1>7, <1>8, <1>9 DEF Draft

(* So what pop_datagram_inner makes is right. *)
LEMMA Popped ==
    ASSUME NEW E, Local(E), E.role \in Endpoints
    PROVE  Draft(E, pop_datagram_inner(E))
<1> DEFINE S == sync_loss_context(E)
           D0 == [E |-> S, packets |-> << >>]
           D1 == AddLevel(D0, "I")
           D2 == AddLevel(D1, "0")
           D3 == AddLevel(D2, "H")
           D4 == AddLevel(D3, "A")
<1>1. Shape(E)
  BY DEF Local
<1>2. Shape(S) /\ Same(E, S) /\ InSync(S)
  BY <1>1, Sync
<1> HIDE DEF S
<1>3. Local(S)
  BY <1>2, SameLocal
<1>4. NoNews(E, S)
  BY <1>2 DEF NoNews, Same
<1>5. DatagramOK(E.role, E.engine, << >>)
  BY DEF DatagramOK, Listed, ToSet
<1>6. Draft(E, D0)
  BY <1>2, <1>3, <1>4, <1>5 DEF Draft
<1> HIDE DEF D0
<1>7. Draft(E, D1)
  BY <1>6, Added DEF Levels
<1> HIDE DEF D1
<1>8. Draft(E, D2)
  BY <1>7, Added DEF Levels
<1> HIDE DEF D2
<1>9. Draft(E, D3)
  BY <1>8, Added DEF Levels
<1> HIDE DEF D3
<1>10. Draft(E, D4)
  BY <1>9, Added DEF Levels
<1>11. pop_datagram_inner(E) = D4
  BY DEF pop_datagram_inner, D0, D1, D2, D3, S
<1> QED BY <1>10, <1>11

-----------------------------------------------------------------------------
(* Acknowledged and lost packets.                                          *)

(* What the packets `acked' and `lost' of a space carried is done with or  *)
(* queued again. *)
Queues(E, s, acked, lost, F) ==
    /\ \A l \in CryptoLevels :
          /\ F.bufs[l].fresh = E.bufs[l].fresh /\ F.bufs[l].got = E.bufs[l].got
          /\ F.bufs[l].rtx \in Seq(Nat)
          /\ F.bufs[l].history =
                IF l = s THEN E.bufs[l].history \ {p.crypto : p \in acked} ELSE E.bufs[l].history
          /\ ToSet(F.bufs[l].rtx) =
                IF l = s THEN ToSet(E.bufs[l].rtx) \cup ({p.crypto : p \in lost} \cap E.bufs[l].history)
                ELSE ToSet(E.bufs[l].rtx)
    /\ F.handshake_done_acked = (E.handshake_done_acked \/ \E p \in acked : p.hd)
    /\ F.handshake_done_pending =
          (E.handshake_done_pending \/ (~F.handshake_done_acked /\ \E p \in lost : p.hd))
    /\ F.data_acked = (E.data_acked \/ \E p \in acked : p.data)
    /\ F.data_pending = (E.data_pending \/ (~F.data_acked /\ \E p \in lost : p.data))

(* And they may have left the tracked ones. *)
Settled(E, s, acked, lost, F) ==
    /\ Shape(F)
    /\ F.role = E.role /\ F.tx = E.tx /\ F.engine = E.engine
    /\ F.complete = E.complete /\ F.confirmed = E.confirmed /\ F.pn = E.pn
    /\ \A r \in Spaces :
          /\ F.loss[r].sent \subseteq E.loss[r].sent
          /\ E.loss[r].sent \subseteq F.loss[r].sent \cup (IF r = s THEN acked \cup lost ELSE {})
    /\ F.in_flight = Count(F.loss)
    /\ Queues(E, s, acked, lost, F)

(* That keeps the invariant. *)
LEMMA Settles ==
    ASSUME NEW E, Local(E), NEW s \in Spaces, NEW acked, NEW lost, NEW F,
           acked \subseteq E.loss[s].sent, lost \subseteq E.loss[s].sent,
           Settled(E, s, acked, lost, F)
    PROVE  Local(F) /\ NoNews(E, F)
<1>1. Shape(E) /\ RecoveryOK(E) /\ FramesKept(E) /\ EngineOK(E)
  BY DEF Local
<1>2. ASSUME NEW r \in Spaces PROVE Tracked(F.loss[r], F.pn[r].next)
  <2>1. Tracked(E.loss[r], E.pn[r].next)
    BY <1>1 DEF RecoveryOK
  <2>2. F.loss[r].sent \in SUBSET E.loss[r].sent /\ F.pn[r].next = E.pn[r].next
    BY DEF Settled, Queues
  <2>3. IsFiniteSet(F.loss[r].sent)
    BY <2>1, <2>2, FS_Subset DEF Tracked
  <2> QED BY <2>1, <2>2, <2>3 DEF Tracked
<1>3. ASSUME NEW l \in CryptoLevels PROVE CryptoKept(F.bufs[l], F.loss[l])
  <2> DEFINE b == E.bufs[l]
             c == F.bufs[l]
  <2>1. l \in Spaces /\ CryptoKept(b, E.loss[l])
    BY <1>1 DEF RecoveryOK, CryptoLevels, Spaces
  <2>2. /\ c.fresh = b.fresh /\ c.rtx \in Seq(Nat)
        /\ c.history = IF l = s THEN b.history \ {p.crypto : p \in acked} ELSE b.history
        /\ ToSet(c.rtx) = IF l = s THEN ToSet(b.rtx) \cup ({p.crypto : p \in lost} \cap b.history)
                          ELSE ToSet(b.rtx)
    BY DEF Settled, Queues
  <2>3. E.loss[l].sent \subseteq F.loss[l].sent \cup (IF l = s THEN acked \cup lost ELSE {})
    BY <2>1 DEF Settled, Queues
  <2> HIDE DEF b, c
  <2>4. ASSUME NEW u \in c.history
        PROVE  u \in ToSet(c.rtx) \/ \E p \in F.loss[l].sent : p.crypto = u
    <3>1. u \in b.history
      BY <2>2, <2>4
    <3>2. CASE u \in ToSet(b.rtx)
      BY <2>2, <3>2
    <3>3. CASE \E p \in E.loss[l].sent : p.crypto = u
      <4>1. PICK p \in E.loss[l].sent : p.crypto = u
        BY <3>3
      <4>2. CASE l = s /\ p \in acked
        BY <2>2, <2>4, <4>1, <4>2
      <4>3. CASE l = s /\ p \in lost
        BY <2>2, <3>1, <4>1, <4>3
      <4>4. CASE p \in F.loss[l].sent
        BY <4>1, <4>4
      <4> QED BY <2>3, <4>2, <4>3, <4>4
    <3> QED BY <2>1, <3>1, <3>2, <3>3 DEF CryptoKept
  <2>5. c.fresh \in Seq(Nat) /\ c.history \subseteq Nat
    BY <2>1, <2>2 DEF CryptoKept
  <2>6. CryptoKept(c, F.loss[l])
    BY <2>2, <2>4, <2>5 DEF CryptoKept
  <2> QED BY <2>6 DEF c
<1>4. RecoveryOK(F)
  BY <1>2, <1>3 DEF RecoveryOK, Settled, Queues
<1>5. "A" \in Spaces
  BY DEF Spaces
<1>6. FramesKept(F)
  <2>1. E.loss["A"].sent \subseteq F.loss["A"].sent \cup (acked \cup lost)
    BY <1>5 DEF Settled, Queues
  <2>2. ASSUME F.role = "s", F.complete
        PROVE  \/ F.handshake_done_acked \/ F.handshake_done_pending
               \/ \E p \in F.loss["A"].sent : p.hd
    <3>1. \/ E.handshake_done_acked \/ E.handshake_done_pending
          \/ \E p \in E.loss["A"].sent : p.hd
      BY <1>1, <2>2 DEF FramesKept, Settled, Queues
    <3>2. /\ F.handshake_done_acked = (E.handshake_done_acked \/ \E p \in acked : p.hd)
          /\ F.handshake_done_pending =
                (E.handshake_done_pending \/ (~F.handshake_done_acked /\ \E p \in lost : p.hd))
      BY DEF Settled, Queues
    <3> QED BY <2>1, <3>1, <3>2
  <2>3. ASSUME F.role \in config.data
        PROVE  F.data_acked \/ F.data_pending \/ \E p \in F.loss["A"].sent : p.data
    <3>1. E.data_acked \/ E.data_pending \/ \E p \in E.loss["A"].sent : p.data
      BY <1>1, <2>3 DEF FramesKept, Settled, Queues
    <3>2. /\ F.data_acked = (E.data_acked \/ \E p \in acked : p.data)
          /\ F.data_pending = (E.data_pending \/ (~F.data_acked /\ \E p \in lost : p.data))
      BY DEF Settled, Queues
    <3> QED BY <2>1, <3>1, <3>2
  <2> QED BY <2>2, <2>3 DEF FramesKept
<1>7. ASSUME NEW l \in CryptoLevels, Silent(E.bufs[l]) PROVE Silent(F.bufs[l])
  <2>1. /\ F.bufs[l].fresh = << >> /\ F.bufs[l].history = {} /\ F.bufs[l].rtx \in Seq(Nat)
        /\ ToSet(F.bufs[l].rtx) = ToSet(E.bufs[l].rtx) /\ E.bufs[l].rtx = << >>
    BY <1>7 DEF Silent, Settled, Queues
  <2>2. ToSet(F.bufs[l].rtx) = {}
    <3>1. ToSet(<< >>) = {}
      BY DEF ToSet
    <3> QED BY <2>1, <3>1
  <2>3. F.bufs[l].rtx = << >>
    BY <2>1, <2>2, NoElements
  <2> QED BY <2>1, <2>3 DEF Silent
<1>8. EngineOK(F)
  <2>1. ~E.handshake_done_pending /\ (\A r \in Spaces : \A q \in E.loss[r].sent : ~q.hd)
          => ~F.handshake_done_pending /\ \A r \in Spaces : \A q \in F.loss[r].sent : ~q.hd
    BY DEF Settled, Queues
  <2>2. F.role = E.role /\ F.tx = E.tx /\ F.engine = E.engine
        /\ F.complete = E.complete /\ F.confirmed = E.confirmed
    BY DEF Settled, Queues
  <2> QED BY <1>1, <1>7, <2>1, <2>2 DEF EngineOK, CryptoLevels
<1>9. Local(F)
  BY <1>4, <1>6, <1>8 DEF Local, Settled, Queues
<1>10. NoNews(E, F)
  BY DEF NoNews, Settled, Queues
<1> QED BY <1>9, <1>10

(* The packets `gone' are no longer tracked nor counted. *)
Frees(E, s, gone, F) ==
    /\ Shape(F)
    /\ F.role = E.role /\ F.tx = E.tx /\ F.engine = E.engine
    /\ F.complete = E.complete /\ F.confirmed = E.confirmed
    /\ F.bufs = E.bufs /\ F.pn = E.pn
    /\ F.handshake_done_pending = E.handshake_done_pending
    /\ F.handshake_done_acked = E.handshake_done_acked
    /\ F.data_pending = E.data_pending /\ F.data_acked = E.data_acked
    /\ \A r \in Spaces : F.loss[r].sent = IF r = s THEN E.loss[r].sent \ gone ELSE E.loss[r].sent
    /\ F.in_flight = E.in_flight - Cardinality(gone)

(* The count stays right. *)
LEMMA FreesCount ==
    ASSUME NEW E, NEW s \in Spaces, NEW gone, NEW F, Frees(E, s, gone, F),
           \A r \in Spaces : IsFiniteSet(E.loss[r].sent), E.in_flight = Count(E.loss),
           gone \subseteq E.loss[s].sent
    PROVE  F.in_flight = Count(F.loss) /\ \A r \in Spaces : IsFiniteSet(F.loss[r].sent)
<1> DEFINE S == E.loss[s].sent
<1>1. F.loss[s].sent = S \ gone
  BY DEF Frees
<1>2. S \cap gone = gone /\ IsFiniteSet(S)
  OBVIOUS
<1>3. IsFiniteSet(S \ gone) /\ Cardinality(S \ gone) = Cardinality(S) - Cardinality(S \cap gone)
  BY <1>2, FS_Difference
<1>4. IsFiniteSet(gone) /\ Cardinality(gone) \in Nat /\ Cardinality(S) \in Nat
  <2>1. gone \in SUBSET S
    OBVIOUS
  <2>2. IsFiniteSet(gone)
    BY <1>2, <2>1, FS_Subset
  <2> QED BY <1>2, <2>2, FS_CardinalityType
<1> HIDE DEF S
<1>5. ASSUME NEW r \in Spaces PROVE IsFiniteSet(F.loss[r].sent)
  BY <1>1, <1>3 DEF Frees
<1>6. \A r \in Spaces : r # s => F.loss[r].sent = E.loss[r].sent
  BY DEF Frees
<1>7. Count(F.loss) = Count(E.loss) - Cardinality(S) + Cardinality(F.loss[s].sent)
      /\ Count(E.loss) \in Nat
  BY <1>5, <1>6, CountChange DEF S
<1>8. Cardinality(F.loss[s].sent) = Cardinality(S) - Cardinality(gone)
  BY <1>1, <1>2, <1>3
<1>9. F.in_flight = E.in_flight - Cardinality(gone)
  BY DEF Frees
<1> QED BY <1>4, <1>5, <1>7, <1>8, <1>9

(* detect_lost frees the packets it is given. *)
LEMMA DetectLost ==
    ASSUME NEW E, Shape(E), NEW s \in Spaces, NEW lost
    PROVE  LET F == detect_lost(E, s, lost)
           IN  Frees(E, s, lost, F) /\ SameFacts(E, F) /\ F.timer = TimerPurpose(F)
<1> DEFINE left == E.loss[s].sent \ lost
           G == [E EXCEPT !.loss[s].sent = left,
                          !.loss[s].loss_time = \E p \in left : p.pn <= E.loss[s].largest_acked,
                          !.in_flight = @ - Cardinality(lost)]
           F == detect_lost(E, s, lost)
<1>1. F = set_loss_detection_timer(G)
  BY DEF detect_lost
<1>2. DOMAIN E = Fields /\ DOMAIN E.loss = Spaces
      /\ \A r \in Spaces : DOMAIN E.loss[r] = {"sent", "largest_acked", "loss_time"}
  BY DEF Shape
<1> HIDE DEF F
<1>3. /\ DOMAIN G = Fields
      /\ G.role = E.role /\ G.tx = E.tx /\ G.engine = E.engine
      /\ G.complete = E.complete /\ G.confirmed = E.confirmed
      /\ G.bufs = E.bufs /\ G.pn = E.pn
      /\ G.handshake_done_pending = E.handshake_done_pending
      /\ G.handshake_done_acked = E.handshake_done_acked
      /\ G.data_pending = E.data_pending /\ G.data_acked = E.data_acked
      /\ G.in_flight = E.in_flight - Cardinality(lost)
      /\ G.ctx = E.ctx
      /\ G.validated = E.validated /\ G.bytes_sent = E.bytes_sent /\ G.bytes_recv = E.bytes_recv
  BY <1>2 DEF Fields
<1>4. DOMAIN G.loss = Spaces
  BY <1>2 DEF Fields
<1>5. \A r \in Spaces : r # s => G.loss[r] = E.loss[r]
  BY <1>2 DEF Fields
<1>6. DOMAIN G.loss[s] = {"sent", "largest_acked", "loss_time"}
  BY <1>2 DEF Fields
<1>7. G.loss[s].sent = left
  BY <1>2 DEF Fields
<1> HIDE DEF G
<1>8. Shape(G)
  BY <1>3, <1>4, <1>5, <1>6 DEF Shape
<1>9. /\ Shape(F) /\ Same(G, F) /\ F.timer = TimerPurpose(G) /\ F.ctx = G.ctx
      /\ F.validated = G.validated /\ F.bytes_sent = G.bytes_sent /\ F.bytes_recv = G.bytes_recv
  BY <1>1, <1>8, SetTimer DEF set_loss_detection_timer, Shape, Fields
<1>10. TimerPurpose(F) = TimerPurpose(G)
  BY <1>9, PurposeDepends DEF Same
<1>11. Frees(E, s, lost, F)
  BY <1>3, <1>5, <1>7, <1>9 DEF Frees, Same
<1>12. SameFacts(E, F)
  BY <1>3, <1>9 DEF SameFacts, Same
<1> QED BY <1>9, <1>10, <1>11, <1>12 DEF F

(* on_ack_received frees the packets newly acknowledged. *)
LEMMA AckReceived ==
    ASSUME NEW E, Shape(E), NEW s \in Spaces, NEW acked
    PROVE  Frees(E, s, {p \in E.loss[s].sent : p.pn \in acked}, on_ack_received(E, s, acked))
<1> DEFINE newly == {p \in E.loss[s].sent : p.pn \in acked}
           A == [E EXCEPT !.loss[s].sent = @ \ newly,
                          !.loss[s].largest_acked = Max(acked \union {@}),
                          !.in_flight = @ - Cardinality(newly)]
           B == [A EXCEPT !.ctx.peer_handshake_acked = @ \/ s = "H"]
           C == clear_probe(B)
           G == IF newly = {} THEN A ELSE C
           F == on_ack_received(E, s, acked)
<1>1. F = set_loss_detection_timer(G)
  BY DEF on_ack_received
<1>2. DOMAIN E = Fields /\ DOMAIN E.loss = Spaces
      /\ \A r \in Spaces : DOMAIN E.loss[r] = {"sent", "largest_acked", "loss_time"}
  BY DEF Shape
<1> HIDE DEF F, newly
<1>3. /\ DOMAIN A = Fields
      /\ A.role = E.role /\ A.tx = E.tx /\ A.engine = E.engine
      /\ A.complete = E.complete /\ A.confirmed = E.confirmed
      /\ A.bufs = E.bufs /\ A.pn = E.pn
      /\ A.handshake_done_pending = E.handshake_done_pending
      /\ A.handshake_done_acked = E.handshake_done_acked
      /\ A.data_pending = E.data_pending /\ A.data_acked = E.data_acked
      /\ A.in_flight = E.in_flight - Cardinality(newly)
      /\ A.ctx = E.ctx
  BY <1>2 DEF Fields
<1>4. DOMAIN A.loss = Spaces
  BY <1>2 DEF Fields
<1>5. \A r \in Spaces : r # s => A.loss[r] = E.loss[r]
  BY <1>2 DEF Fields
<1>6. DOMAIN A.loss[s] = {"sent", "largest_acked", "loss_time"}
  BY <1>2 DEF Fields
<1>7. A.loss[s].sent = E.loss[s].sent \ newly
  BY <1>2 DEF Fields
<1> HIDE DEF A
<1>8. Shape(A)
  BY <1>3, <1>4, <1>5, <1>6 DEF Shape
<1>9. Shape(B) /\ Same(A, B)
  BY <1>8 DEF Shape, Same, Fields, CtxFields
<1> HIDE DEF B
<1>10. Shape(C) /\ Same(B, C)
  BY <1>9, Probes
<1> HIDE DEF C
<1>11. Shape(G) /\ Same(A, G)
  BY <1>8, <1>9, <1>10 DEF Same
<1> HIDE DEF G
<1>12. Shape(F) /\ Same(G, F)
  BY <1>1, <1>11, SetTimer
<1>13. F.loss = A.loss /\ F.in_flight = A.in_flight
  BY <1>11, <1>12 DEF Same
<1>14. \A r \in Spaces :
           F.loss[r].sent = IF r = s THEN E.loss[r].sent \ newly ELSE E.loss[r].sent
  BY <1>5, <1>7, <1>13
<1>15. Frees(E, s, newly, F)
  BY <1>3, <1>11, <1>12, <1>13, <1>14 DEF Frees, Same
<1> QED BY <1>15 DEF F, newly

(* Everything but the queues of frames is the same. *)
Rest(E, F) ==
    /\ F.role = E.role /\ F.tx = E.tx /\ F.engine = E.engine
    /\ F.complete = E.complete /\ F.confirmed = E.confirmed
    /\ F.pn = E.pn /\ F.loss = E.loss /\ F.in_flight = E.in_flight
    /\ F.ctx = E.ctx /\ F.timer = E.timer
    /\ F.validated = E.validated /\ F.bytes_sent = E.bytes_sent /\ F.bytes_recv = E.bytes_recv

(* HANDSHAKE_DONE and stream data are noted as acknowledged or queued. *)
LEMMA Noted ==
    ASSUME NEW E, Shape(E), NEW acked, NEW lost
    PROVE  LET F == note_handshake_done_fate(E, acked, lost)
               G == on_chunks(E, acked, lost)
           IN  /\ Shape(F) /\ Rest(E, F) /\ F.bufs = E.bufs
               /\ F.data_pending = E.data_pending /\ F.data_acked = E.data_acked
               /\ F.handshake_done_acked = (E.handshake_done_acked \/ \E p \in acked : p.hd)
               /\ F.handshake_done_pending =
                     (E.handshake_done_pending \/ (~F.handshake_done_acked /\ \E p \in lost : p.hd))
               /\ Shape(G) /\ Rest(E, G) /\ G.bufs = E.bufs
               /\ G.handshake_done_pending = E.handshake_done_pending
               /\ G.handshake_done_acked = E.handshake_done_acked
               /\ G.data_acked = (E.data_acked \/ \E p \in acked : p.data)
               /\ G.data_pending = (E.data_pending \/ (~G.data_acked /\ \E p \in lost : p.data))
<1> DEFINE F == note_handshake_done_fate(E, acked, lost)
           G == on_chunks(E, acked, lost)
<1>1. /\ Shape(F) /\ Rest(E, F) /\ F.bufs = E.bufs
      /\ F.data_pending = E.data_pending /\ F.data_acked = E.data_acked
      /\ F.handshake_done_acked = (E.handshake_done_acked \/ \E p \in acked : p.hd)
      /\ F.handshake_done_pending =
            (E.handshake_done_pending \/ (~F.handshake_done_acked /\ \E p \in lost : p.hd))
  BY DEF note_handshake_done_fate, Shape, Rest, Fields
<1>2. /\ Shape(G) /\ Rest(E, G) /\ G.bufs = E.bufs
      /\ G.handshake_done_pending = E.handshake_done_pending
      /\ G.handshake_done_acked = E.handshake_done_acked
      /\ G.data_acked = (E.data_acked \/ \E p \in acked : p.data)
      /\ G.data_pending = (E.data_pending \/ (~G.data_acked /\ \E p \in lost : p.data))
  BY DEF on_chunks, Shape, Rest, Fields
<1> QED BY <1>1, <1>2

(* Only the CRYPTO queues differ. *)
OnlyBufs(E, F) ==
    /\ Shape(F) /\ Rest(E, F)
    /\ F.data_pending = E.data_pending /\ F.data_acked = E.data_acked
    /\ F.handshake_done_acked = E.handshake_done_acked
    /\ F.handshake_done_pending = E.handshake_done_pending

(* What the lost packets carried is queued again. *)
Requeued(E, s, lost, F) ==
    /\ OnlyBufs(E, F)
    /\ \A l \in CryptoLevels :
          /\ F.bufs[l].fresh = E.bufs[l].fresh /\ F.bufs[l].got = E.bufs[l].got
          /\ F.bufs[l].rtx \in Seq(Nat) /\ F.bufs[l].history = E.bufs[l].history
          /\ ToSet(F.bufs[l].rtx) =
                IF l = s THEN ToSet(E.bufs[l].rtx) \cup ({p.crypto : p \in lost} \cap E.bufs[l].history)
                ELSE ToSet(E.bufs[l].rtx)

(* requeue_from_hint does that. *)
LEMMA Requeues ==
    ASSUME NEW E, Shape(E), NEW s \in Spaces, NEW lost, NEW n \in Nat, IsFiniteSet(lost),
           \A p \in lost : p.pn \in Nat /\ p.pn < n,
           \A p, q \in lost : p.pn = q.pn => p = q,
           \A l \in CryptoLevels : E.bufs[l].rtx \in Seq(Nat) /\ E.bufs[l].history \subseteq Nat
    PROVE  Requeued(E, s, lost, requeue_from_hint(E, s, lost))
<1> DEFINE F == requeue_from_hint(E, s, lost)
<1>1. CASE s = "A"
  <2>1. F = E /\ s \notin CryptoLevels
    BY <1>1 DEF requeue_from_hint, CryptoLevels
  <2> QED BY <2>1 DEF OnlyBufs, Rest, Requeued
<1>2. CASE s # "A"
  <2> DEFINE c == requeue_range(E.bufs[s], lost)
  <2>1. s \in CryptoLevels
    BY <1>2 DEF Spaces, CryptoLevels
  <2>2. DOMAIN E.bufs[s] = BufFields
    BY <2>1 DEF Shape, BufFields
  <2>3. /\ DOMAIN c = BufFields
        /\ c.fresh = E.bufs[s].fresh /\ c.history = E.bufs[s].history /\ c.got = E.bufs[s].got
        /\ c.rtx \in Seq(Nat)
        /\ ToSet(c.rtx) = ToSet(E.bufs[s].rtx)
                            \cup ({p.crypto : p \in lost} \cap E.bufs[s].history)
    BY <2>1, <2>2, Requeue
  <2>4. F = [E EXCEPT !.bufs[s] = c]
    BY <1>2 DEF requeue_from_hint
  <2> HIDE DEF c, F
  <2>5. /\ DOMAIN F = Fields /\ Rest(E, F)
        /\ F.data_pending = E.data_pending /\ F.data_acked = E.data_acked
        /\ F.handshake_done_acked = E.handshake_done_acked
        /\ F.handshake_done_pending = E.handshake_done_pending
        /\ F.bufs = [E.bufs EXCEPT ![s] = c]
    BY <2>4 DEF Shape, Fields, Rest
  <2>6. DOMAIN F.bufs = CryptoLevels /\ \A l \in CryptoLevels : F.bufs[l] = IF l = s THEN c ELSE E.bufs[l]
    BY <2>1, <2>5 DEF Shape
  <2>7. Shape(F)
    BY <2>3, <2>5, <2>6 DEF Shape, BufFields, Rest
  <2>8. OnlyBufs(E, F)
    BY <2>5, <2>7 DEF OnlyBufs
  <2>9. ASSUME NEW l \in CryptoLevels
        PROVE  /\ F.bufs[l].fresh = E.bufs[l].fresh /\ F.bufs[l].got = E.bufs[l].got
               /\ F.bufs[l].rtx \in Seq(Nat) /\ F.bufs[l].history = E.bufs[l].history
               /\ ToSet(F.bufs[l].rtx) =
                     IF l = s
                     THEN ToSet(E.bufs[l].rtx) \cup ({p.crypto : p \in lost} \cap E.bufs[l].history)
                     ELSE ToSet(E.bufs[l].rtx)
    BY <2>3, <2>6
  <2> QED BY <2>8, <2>9 DEF F, Requeued
<1> QED BY <1>1, <1>2

(* What the acknowledged packets carried is forgotten. *)
Pruned(E, s, acked, F) ==
    /\ OnlyBufs(E, F)
    /\ \A l \in CryptoLevels :
          /\ F.bufs[l].fresh = E.bufs[l].fresh /\ F.bufs[l].got = E.bufs[l].got
          /\ F.bufs[l].rtx = E.bufs[l].rtx
          /\ F.bufs[l].history = IF l = s THEN E.bufs[l].history \ {p.crypto : p \in acked}
                                 ELSE E.bufs[l].history

(* prune_crypto_history_from_hint does that. *)
LEMMA Prunes ==
    ASSUME NEW E, Shape(E), NEW s \in Spaces, NEW acked
    PROVE  Pruned(E, s, acked, prune_crypto_history_from_hint(E, s, acked))
<1> DEFINE F == prune_crypto_history_from_hint(E, s, acked)
<1>1. CASE s = "A"
  <2>1. F = E /\ s \notin CryptoLevels
    BY <1>1 DEF prune_crypto_history_from_hint, CryptoLevels
  <2> QED BY <2>1 DEF OnlyBufs, Rest, Pruned
<1>2. CASE s # "A"
  <2> DEFINE c == on_range_acked(E.bufs[s], acked)
  <2>1. s \in CryptoLevels
    BY <1>2 DEF Spaces, CryptoLevels
  <2>2. DOMAIN E.bufs[s] = BufFields
    BY <2>1 DEF Shape, BufFields
  <2>3. /\ DOMAIN c = BufFields
        /\ c.fresh = E.bufs[s].fresh /\ c.rtx = E.bufs[s].rtx /\ c.got = E.bufs[s].got
        /\ c.history = E.bufs[s].history \ {p.crypto : p \in acked}
    BY <2>2 DEF on_range_acked, BufFields
  <2>4. F = [E EXCEPT !.bufs[s] = c]
    BY <1>2 DEF prune_crypto_history_from_hint
  <2> HIDE DEF c, F
  <2>5. /\ DOMAIN F = Fields /\ Rest(E, F)
        /\ F.data_pending = E.data_pending /\ F.data_acked = E.data_acked
        /\ F.handshake_done_acked = E.handshake_done_acked
        /\ F.handshake_done_pending = E.handshake_done_pending
        /\ F.bufs = [E.bufs EXCEPT ![s] = c]
    BY <2>4 DEF Shape, Fields, Rest
  <2>6. DOMAIN F.bufs = CryptoLevels /\ \A l \in CryptoLevels : F.bufs[l] = IF l = s THEN c ELSE E.bufs[l]
    BY <2>1, <2>5 DEF Shape
  <2>7. Shape(F)
    BY <2>3, <2>5, <2>6 DEF Shape, BufFields, Rest
  <2>8. OnlyBufs(E, F)
    BY <2>5, <2>7 DEF OnlyBufs
  <2>9. ASSUME NEW l \in CryptoLevels
        PROVE  /\ F.bufs[l].fresh = E.bufs[l].fresh /\ F.bufs[l].got = E.bufs[l].got
               /\ F.bufs[l].rtx = E.bufs[l].rtx
               /\ F.bufs[l].history = IF l = s THEN E.bufs[l].history \ {p.crypto : p \in acked}
                                      ELSE E.bufs[l].history
    BY <2>3, <2>6
  <2> QED BY <2>8, <2>9 DEF F, Pruned
<1> QED BY <1>1, <1>2

(* What recovery needs to know of the packets it gives up. *)
Packets(lost) ==
    /\ IsFiniteSet(lost)
    /\ \A p, q \in lost : p.pn = q.pn => p = q
    /\ \E n \in Nat : \A p \in lost : p.pn \in Nat /\ p.pn < n

(* The queues of CRYPTO units are well formed. *)
BufsOK(E) ==
    \A l \in CryptoLevels : E.bufs[l].rtx \in Seq(Nat) /\ E.bufs[l].history \subseteq Nat

(* Part of what is tracked is such a set. *)
LEMMA TrackedPackets ==
    ASSUME NEW L, NEW n, Tracked(L, n), NEW X, X \subseteq L.sent
    PROVE  Packets(X)
<1>1. X \in SUBSET L.sent
  OBVIOUS
<1>2. IsFiniteSet(X)
  BY <1>1, FS_Subset DEF Tracked
<1> QED BY <1>2 DEF Packets, Tracked

(* handle_lost_packets. *)
LEMMA HandleLost ==
    ASSUME NEW E, Shape(E), BufsOK(E), NEW s \in Spaces, NEW lost, Packets(lost)
    PROVE  LET F == handle_lost_packets(E, s, lost)
           IN  Shape(F) /\ Rest(E, F) /\ Queues(E, s, {}, lost, F)
<1> DEFINE A == requeue_from_hint(E, s, lost)
           B == note_handshake_done_fate(A, {}, lost)
           F == on_chunks(B, {}, lost)
<1>1. Requeued(E, s, lost, A)
  <2>1. PICK n \in Nat : \A p \in lost : p.pn \in Nat /\ p.pn < n
    BY DEF Packets
  <2> QED BY <2>1, Requeues DEF Packets, BufsOK
<1> HIDE DEF A
<1>2. /\ Shape(B) /\ Rest(A, B) /\ B.bufs = A.bufs
      /\ B.data_pending = A.data_pending /\ B.data_acked = A.data_acked
      /\ B.handshake_done_acked = (A.handshake_done_acked \/ \E p \in {} : p.hd)
      /\ B.handshake_done_pending =
            (A.handshake_done_pending \/ (~B.handshake_done_acked /\ \E p \in lost : p.hd))
  BY <1>1, Noted DEF OnlyBufs, Requeued
<1> HIDE DEF B
<1>3. /\ Shape(F) /\ Rest(B, F) /\ F.bufs = B.bufs
      /\ F.handshake_done_pending = B.handshake_done_pending
      /\ F.handshake_done_acked = B.handshake_done_acked
      /\ F.data_acked = (B.data_acked \/ \E p \in {} : p.data)
      /\ F.data_pending = (B.data_pending \/ (~F.data_acked /\ \E p \in lost : p.data))
  BY <1>2, Noted
<1> HIDE DEF F
<1>4. Rest(E, F)
  BY <1>1, <1>2, <1>3 DEF Rest, OnlyBufs, Requeued
<1>5. F.bufs = A.bufs
  BY <1>2, <1>3
<1>6. /\ F.handshake_done_acked = (E.handshake_done_acked \/ \E p \in {} : p.hd)
      /\ F.handshake_done_pending =
            (E.handshake_done_pending \/ (~F.handshake_done_acked /\ \E p \in lost : p.hd))
      /\ F.data_acked = (E.data_acked \/ \E p \in {} : p.data)
      /\ F.data_pending = (E.data_pending \/ (~F.data_acked /\ \E p \in lost : p.data))
  BY <1>1, <1>2, <1>3 DEF OnlyBufs, Requeued
<1>7. {p.crypto : p \in {}} = {}
  OBVIOUS
<1>8. Queues(E, s, {}, lost, F)
  BY <1>1, <1>5, <1>6, <1>7 DEF Queues, Requeued
<1>9. F = handle_lost_packets(E, s, lost)
  BY DEF handle_lost_packets, F, B, A
<1> QED BY <1>3, <1>4, <1>8, <1>9

(* The frames of an ACK. *)
LEMMA AckFrame ==
    ASSUME NEW E, Local(E), NEW s \in Spaces, NEW acked
    PROVE  LET F == OnAckFrame(E, s, acked) IN Local(F) /\ NoNews(E, F)
<1> DEFINE newly == {p \in E.loss[s].sent : p.pn \in acked}
           A == on_ack_received(E, s, acked)
           news == newly # {} \/ A.loss[s].largest_acked # E.loss[s].largest_acked
           lost == IF news THEN ThresholdLost(A, s) ELSE {}
           A2 == IF news THEN detect_lost(A, s, lost) ELSE A
           B == IF news THEN requeue_from_hint(detect_lost(A, s, lost), s, lost) ELSE A
           C == note_handshake_done_fate(B, newly, lost)
           D == prune_crypto_history_from_hint(C, s, newly)
           F == on_chunks(D, newly, lost)
<1>1. F = OnAckFrame(E, s, acked)
  BY DEF OnAckFrame
<1>2. Shape(E) /\ RecoveryOK(E)
  BY DEF Local
<1>3. Frees(E, s, newly, A)
  BY <1>2, AckReceived
<1>4. newly \subseteq E.loss[s].sent
  OBVIOUS
<1>5. lost \subseteq A.loss[s].sent
  BY DEF ThresholdLost
<1>6. ~news => lost = {}
  OBVIOUS
<1>7. \A r \in Spaces : IsFiniteSet(E.loss[r].sent) /\ Tracked(E.loss[r], E.pn[r].next)
  BY <1>2 DEF RecoveryOK, Tracked
<1>8. E.in_flight = Count(E.loss)
  BY <1>2 DEF RecoveryOK
<1> HIDE DEF A, lost, newly
<1>9. A.in_flight = Count(A.loss) /\ \A r \in Spaces : IsFiniteSet(A.loss[r].sent)
  BY <1>3, <1>4, <1>7, <1>8, FreesCount
<1>10. Frees(A, s, lost, A2)
  <2>1. CASE news
    <3>1. Shape(A)
      BY <1>3 DEF Frees
    <3>2. Frees(A, s, lost, detect_lost(A, s, lost))
      BY <3>1, DetectLost
    <3> QED BY <2>1, <3>2
  <2>2. CASE ~news
    <3>1. Cardinality(lost) = 0
      BY <1>6, <2>2, FS_EmptySet
    <3>2. A.in_flight \in Nat
      BY <1>9, CountChange
    <3>3. A2 = A /\ lost = {} /\ Shape(A)
      BY <1>3, <1>6, <2>2 DEF Frees
    <3> HIDE DEF A2
    <3>4. \A r \in Spaces : A.loss[r].sent \ lost = A.loss[r].sent
      BY <3>3
    <3>5. A.in_flight - Cardinality(lost) = A.in_flight
      BY <3>1, <3>2
    <3> QED BY <3>3, <3>4, <3>5 DEF Frees
  <2> QED BY <2>1, <2>2
<1>11. A2.in_flight = Count(A2.loss)
  BY <1>5, <1>9, <1>10, FreesCount
<1>12. Packets(lost)
  <2>1. lost \subseteq E.loss[s].sent
    BY <1>3, <1>5 DEF Frees
  <2> QED BY <1>7, <2>1, TrackedPackets
<1>13. BufsOK(A2) /\ A2.bufs = E.bufs
  BY <1>2, <1>3, <1>10 DEF BufsOK, Frees, RecoveryOK, CryptoKept
<1>14. Requeued(A2, s, lost, B)
  <2>1. CASE news
    <3>1. PICK n \in Nat : \A p \in lost : p.pn \in Nat /\ p.pn < n
      BY <1>12 DEF Packets
    <3>2. B = requeue_from_hint(A2, s, lost)
      BY <2>1
    <3>3. Shape(A2)
      BY <1>10 DEF Frees
    <3> HIDE DEF A2, B
    <3> QED BY <1>12, <1>13, <3>1, <3>2, <3>3, Requeues DEF Packets, BufsOK
  <2>2. CASE ~news
    <3>1. B = A2 /\ lost = {} /\ {p.crypto : p \in lost} = {}
      BY <1>6, <2>2
    <3> HIDE DEF A2, B
    <3> QED BY <1>10, <1>13, <3>1 DEF Requeued, OnlyBufs, Rest, Frees, BufsOK
  <2> QED BY <2>1, <2>2
<1> HIDE DEF A2, B, news
<1>15. /\ Shape(C) /\ Rest(B, C) /\ C.bufs = B.bufs
       /\ C.data_pending = B.data_pending /\ C.data_acked = B.data_acked
       /\ C.handshake_done_acked = (B.handshake_done_acked \/ \E p \in newly : p.hd)
       /\ C.handshake_done_pending =
             (B.handshake_done_pending \/ (~C.handshake_done_acked /\ \E p \in lost : p.hd))
  BY <1>14, Noted DEF Requeued, OnlyBufs
<1> HIDE DEF C
<1>16. Pruned(C, s, newly, D)
  BY <1>15, Prunes
<1> HIDE DEF D
<1>17. /\ Shape(F) /\ Rest(D, F) /\ F.bufs = D.bufs
       /\ F.handshake_done_pending = D.handshake_done_pending
       /\ F.handshake_done_acked = D.handshake_done_acked
       /\ F.data_acked = (D.data_acked \/ \E p \in newly : p.data)
       /\ F.data_pending = (D.data_pending \/ (~F.data_acked /\ \E p \in lost : p.data))
  BY <1>16, Noted DEF OnlyBufs, Pruned
<1> HIDE DEF F
<1>18. Rest(A2, F)
  BY <1>14, <1>15, <1>16, <1>17 DEF Rest, Requeued, OnlyBufs, Pruned
<1>19. Queues(E, s, newly, lost, F)
  <2>1. /\ F.handshake_done_acked = (E.handshake_done_acked \/ \E p \in newly : p.hd)
        /\ F.handshake_done_pending =
              (E.handshake_done_pending \/ (~F.handshake_done_acked /\ \E p \in lost : p.hd))
    BY <1>3, <1>10, <1>14, <1>15, <1>16, <1>17 DEF Requeued, OnlyBufs, Frees, Pruned
  <2>2. /\ F.data_acked = (E.data_acked \/ \E p \in newly : p.data)
        /\ F.data_pending = (E.data_pending \/ (~F.data_acked /\ \E p \in lost : p.data))
    BY <1>3, <1>10, <1>14, <1>15, <1>16, <1>17 DEF Requeued, OnlyBufs, Frees, Pruned
  <2>3. \A l \in CryptoLevels :
           /\ F.bufs[l].fresh = E.bufs[l].fresh /\ F.bufs[l].got = E.bufs[l].got
           /\ F.bufs[l].rtx \in Seq(Nat)
           /\ F.bufs[l].history =
                 IF l = s THEN E.bufs[l].history \ {p.crypto : p \in newly} ELSE E.bufs[l].history
           /\ ToSet(F.bufs[l].rtx) =
                 IF l = s THEN ToSet(E.bufs[l].rtx) \cup ({p.crypto : p \in lost} \cap E.bufs[l].history)
                 ELSE ToSet(E.bufs[l].rtx)
    <3> SUFFICES ASSUME NEW l \in CryptoLevels
                 PROVE  /\ F.bufs[l].fresh = E.bufs[l].fresh /\ F.bufs[l].got = E.bufs[l].got
                        /\ F.bufs[l].rtx \in Seq(Nat)
                        /\ F.bufs[l].history =
                              IF l = s THEN E.bufs[l].history \ {p.crypto : p \in newly}
                              ELSE E.bufs[l].history
                        /\ ToSet(F.bufs[l].rtx) =
                              IF l = s
                              THEN ToSet(E.bufs[l].rtx)
                                     \cup ({p.crypto : p \in lost} \cap E.bufs[l].history)
                              ELSE ToSet(E.bufs[l].rtx)
      OBVIOUS
    <3>1. F.bufs = D.bufs /\ C.bufs = B.bufs /\ A2.bufs = E.bufs
      BY <1>13, <1>15, <1>17
    <3>2. /\ D.bufs[l].fresh = B.bufs[l].fresh /\ D.bufs[l].got = B.bufs[l].got
          /\ D.bufs[l].rtx = B.bufs[l].rtx
          /\ D.bufs[l].history = IF l = s THEN B.bufs[l].history \ {p.crypto : p \in newly}
                                 ELSE B.bufs[l].history
      BY <1>16, <3>1 DEF Pruned
    <3>3. /\ B.bufs[l].fresh = E.bufs[l].fresh /\ B.bufs[l].got = E.bufs[l].got
          /\ B.bufs[l].rtx \in Seq(Nat) /\ B.bufs[l].history = E.bufs[l].history
          /\ ToSet(B.bufs[l].rtx) =
                IF l = s THEN ToSet(E.bufs[l].rtx) \cup ({p.crypto : p \in lost} \cap E.bufs[l].history)
                ELSE ToSet(E.bufs[l].rtx)
      BY <1>14, <3>1 DEF Requeued
    <3> QED BY <3>1, <3>2, <3>3
  <2> QED BY <2>1, <2>2, <2>3 DEF Queues
<1>20. ASSUME NEW r \in Spaces
       PROVE  /\ F.loss[r].sent \subseteq E.loss[r].sent
              /\ E.loss[r].sent \subseteq F.loss[r].sent \cup (IF r = s THEN newly \cup lost ELSE {})
  BY <1>3, <1>10, <1>18 DEF Frees, Rest
<1>21. Settled(E, s, newly, lost, F)
  <2>1. F.in_flight = Count(F.loss)
    BY <1>11, <1>18 DEF Rest
  <2>2. /\ F.role = E.role /\ F.tx = E.tx /\ F.engine = E.engine
        /\ F.complete = E.complete /\ F.confirmed = E.confirmed /\ F.pn = E.pn
    BY <1>3, <1>10, <1>18 DEF Frees, Rest
  <2> QED BY <1>17, <1>19, <1>20, <2>1, <2>2 DEF Settled
<1>22. lost \subseteq E.loss[s].sent
  BY <1>3, <1>5 DEF Frees
<1>23. Local(F) /\ NoNews(E, F)
  BY <1>4, <1>21, <1>22, Settles
<1> QED BY <1>1, <1>23

(* Loss by time. *)
LEMMA LossTimer ==
    ASSUME NEW E, Local(E), NEW s \in Spaces, NEW upto
    PROVE  LET F == detect_lost_on_timer(E, s, upto)
           IN  Local(F) /\ NoNews(E, F) /\ SameFacts(E, F) /\ F.timer = TimerPurpose(F)
<1> DEFINE lost == {p \in E.loss[s].sent : p.pn <= upto}
           A == detect_lost(E, s, lost)
           F == handle_lost_packets(A, s, lost)
<1>1. F = detect_lost_on_timer(E, s, upto)
  BY DEF detect_lost_on_timer
<1>2. Shape(E) /\ RecoveryOK(E)
  BY DEF Local
<1>3. lost \subseteq E.loss[s].sent
  OBVIOUS
<1>4. \A r \in Spaces : IsFiniteSet(E.loss[r].sent) /\ Tracked(E.loss[r], E.pn[r].next)
  BY <1>2 DEF RecoveryOK, Tracked
<1>5. E.in_flight = Count(E.loss)
  BY <1>2 DEF RecoveryOK
<1> HIDE DEF lost
<1>6. Frees(E, s, lost, A) /\ SameFacts(E, A) /\ A.timer = TimerPurpose(A)
  BY <1>2, DetectLost
<1> HIDE DEF A
<1>7. A.in_flight = Count(A.loss)
  BY <1>3, <1>4, <1>5, <1>6, FreesCount
<1>8. Packets(lost)
  BY <1>3, <1>4, TrackedPackets
<1>9. BufsOK(A) /\ A.bufs = E.bufs /\ Shape(A)
  BY <1>2, <1>6 DEF BufsOK, Frees, RecoveryOK, CryptoKept
<1>10. Shape(F) /\ Rest(A, F) /\ Queues(A, s, {}, lost, F)
  BY <1>8, <1>9, HandleLost
<1> HIDE DEF F
<1>11. Queues(E, s, {}, lost, F)
  BY <1>6, <1>9, <1>10 DEF Queues, Frees
<1>12. ASSUME NEW r \in Spaces
       PROVE  /\ F.loss[r].sent \subseteq E.loss[r].sent
              /\ E.loss[r].sent \subseteq F.loss[r].sent \cup (IF r = s THEN {} \cup lost ELSE {})
  BY <1>6, <1>10 DEF Frees, Rest
<1>13. Settled(E, s, {}, lost, F)
  <2>1. F.in_flight = Count(F.loss)
    BY <1>7, <1>10 DEF Rest
  <2>2. /\ F.role = E.role /\ F.tx = E.tx /\ F.engine = E.engine
        /\ F.complete = E.complete /\ F.confirmed = E.confirmed /\ F.pn = E.pn
    BY <1>6, <1>10 DEF Frees, Rest
  <2> QED BY <1>10, <1>11, <1>12, <2>1, <2>2 DEF Settled
<1>14. Local(F) /\ NoNews(E, F)
  BY <1>3, <1>13, Settles
<1>15. SameFacts(E, F)
  BY <1>6, <1>10 DEF SameFacts, Rest
<1>16. F.timer = TimerPurpose(F)
  <2>1. TimerPurpose(F) = TimerPurpose(A)
    BY <1>10, PurposeDepends DEF Rest
  <2> QED BY <1>6, <1>10, <2>1 DEF Rest
<1> QED BY <1>1, <1>14, <1>15, <1>16

(* The invariant is kept, and only queues of frames may have changed. *)
Probed(E, F) == Local(F) /\ NoNews(E, F) /\ Rest(E, F)

(* The contents of packets in flight are queued again. *)
LEMMA ProbeKeeps ==
    ASSUME NEW E, Local(E), NEW s \in Spaces, NEW n
    PROVE  Probed(E, requeue_for_probe(E, s, Oldest(E, s, n)))
<1> DEFINE lost == Oldest(E, s, n)
           F == requeue_for_probe(E, s, lost)
<1>1. F = handle_lost_packets(E, s, lost)
  BY DEF requeue_for_probe
<1>2. Shape(E) /\ RecoveryOK(E)
  BY DEF Local
<1>3. lost \subseteq E.loss[s].sent
  BY DEF Oldest
<1> HIDE DEF lost, F
<1>4. Packets(lost)
  BY <1>2, <1>3, TrackedPackets DEF RecoveryOK
<1>5. BufsOK(E)
  BY <1>2 DEF BufsOK, RecoveryOK, CryptoKept
<1>6. Shape(F) /\ Rest(E, F) /\ Queues(E, s, {}, lost, F)
  BY <1>1, <1>2, <1>4, <1>5, HandleLost
<1>7. Settled(E, s, {}, lost, F)
  BY <1>2, <1>6 DEF Settled, Rest, RecoveryOK
<1>8. Local(F) /\ NoNews(E, F)
  BY <1>3, <1>7, Settles
<1>9. Probed(E, F)
  BY <1>6, <1>8 DEF Probed
<1> QED BY <1>9 DEF F, lost

(* One after the other. *)
LEMMA ProbedTwice ==
    ASSUME NEW E, NEW F, NEW G, Probed(E, F), Probed(F, G)
    PROVE  Probed(E, G)
<1>1. NoNews(E, G)
  BY DEF Probed, NoNews
<1>2. Rest(E, G)
  BY DEF Probed, Rest
<1> QED BY <1>1, <1>2 DEF Probed

(* The probes of a timeout. *)
LEMMA SendProbes ==
    ASSUME NEW E, Local(E), NEW s \in Spaces
    PROVE  Probed(E, send_pto_probes(E, s))
<1> DEFINE own == IF space_has_new_data(E, s) THEN E
                  ELSE requeue_for_probe(E, s, Oldest(E, s, K_PTO_PROBES))
           skipped(F, o) == o = s \/ (o = "A" /\ ~F.confirmed) \/ space_has_new_data(F, o)
           other(F, o) == IF skipped(F, o) THEN F ELSE requeue_for_probe(F, o, Oldest(F, o, 1))
           X == other(own, "I")
           Y == other(X, "H")
           Z == other(Y, "A")
           R == [Z EXCEPT !.handshake_done_pending =
                    @ \/ (~Z.handshake_done_acked /\ \E p \in Z.loss["A"].sent : p.hd)]
<1>1. R = send_pto_probes(E, s)
  BY DEF send_pto_probes
<1>2. ASSUME NEW F, Local(F) PROVE Probed(F, F)
  BY <1>2 DEF Probed, NoNews, Rest
<1>3. Probed(E, own)
  BY <1>2, ProbeKeeps
<1> HIDE DEF own
<1>4. ASSUME NEW F, Probed(E, F), NEW o \in Spaces PROVE Probed(E, other(F, o))
  <2>1. Local(F)
    BY <1>4 DEF Probed
  <2>2. Probed(F, requeue_for_probe(F, o, Oldest(F, o, 1)))
    BY <2>1, ProbeKeeps
  <2>3. Probed(E, requeue_for_probe(F, o, Oldest(F, o, 1)))
    BY <1>4, <2>2, ProbedTwice
  <2> QED BY <1>4, <2>3
<1> HIDE DEF other
<1>5. "I" \in Spaces /\ "H" \in Spaces /\ "A" \in Spaces
  BY DEF Spaces
<1>6. Probed(E, X)
  BY <1>3, <1>4, <1>5
<1> HIDE DEF X
<1>7. Probed(E, Y)
  BY <1>4, <1>5, <1>6
<1> HIDE DEF Y
<1>8. Probed(E, Z)
  BY <1>4, <1>5, <1>7
<1> HIDE DEF Z
<1>9. Local(Z) /\ Shape(Z) /\ RecoveryOK(Z) /\ FramesKept(Z) /\ EngineOK(Z)
  BY <1>8 DEF Probed, Local
<1>10. /\ Shape(R) /\ Rest(Z, R) /\ R.bufs = Z.bufs
       /\ R.handshake_done_acked = Z.handshake_done_acked
       /\ R.data_acked = Z.data_acked /\ R.data_pending = Z.data_pending
       /\ R.handshake_done_pending =
             (Z.handshake_done_pending
                \/ (~Z.handshake_done_acked /\ \E p \in Z.loss["A"].sent : p.hd))
  BY <1>9 DEF Shape, Rest, Fields
<1> HIDE DEF R
<1>11. RecoveryOK(R)
  BY <1>9, <1>10 DEF RecoveryOK, Rest
<1>12. FramesKept(R)
  BY <1>9, <1>10 DEF FramesKept, Rest
<1>13. EngineOK(R)
  <2>1. R.role = Z.role /\ R.tx = Z.tx /\ R.engine = Z.engine /\ R.complete = Z.complete
        /\ R.confirmed = Z.confirmed /\ R.loss = Z.loss /\ R.bufs = Z.bufs
    BY <1>10 DEF Rest
  <2>2. ~Z.handshake_done_pending /\ (\A r \in Spaces : \A p \in Z.loss[r].sent : ~p.hd)
           => ~R.handshake_done_pending
    BY <1>5, <1>10
  <2> QED BY <1>9, <2>1, <2>2 DEF EngineOK
<1>14. Probed(Z, R)
  BY <1>10, <1>11, <1>12, <1>13 DEF Probed, Local, NoNews, Rest
<1>15. Probed(E, R)
  BY <1>8, <1>14, ProbedTwice
<1> QED BY <1>1, <1>15

(* A probe timeout. *)
LEMMA ProbeTimeout ==
    ASSUME NEW E, Local(E), NEW s \in Spaces
    PROVE  LET F == on_pto(E, s)
           IN  Local(F) /\ NoNews(E, F) /\ SameFacts(E, F) /\ F.timer = TimerPurpose(F)
<1> DEFINE A == arm_probe(E, s)
           B == set_loss_detection_timer(A)
           F == send_pto_probes(B, s)
<1>1. F = on_pto(E, s)
  BY DEF on_pto
<1>2. Shape(E)
  BY DEF Local
<1>3. /\ Shape(A) /\ Same(E, A) /\ A.ctx = E.ctx
      /\ A.validated = E.validated /\ A.bytes_sent = E.bytes_sent /\ A.bytes_recv = E.bytes_recv
  BY <1>2, Probes DEF arm_probe, Shape, Fields
<1> HIDE DEF A
<1>4. /\ Shape(B) /\ Same(A, B) /\ B.ctx = A.ctx /\ B.timer = TimerPurpose(A)
      /\ B.validated = A.validated /\ B.bytes_sent = A.bytes_sent /\ B.bytes_recv = A.bytes_recv
  BY <1>3, SetTimer DEF set_loss_detection_timer, Shape, Fields
<1> HIDE DEF B
<1>5. Same(E, B)
  BY <1>3, <1>4 DEF Same
<1>6. Local(B)
  BY <1>4, <1>5, SameLocal
<1>7. Probed(B, F)
  BY <1>6, SendProbes
<1> HIDE DEF F
<1>8. F.timer = TimerPurpose(F)
  <2>1. TimerPurpose(B) = TimerPurpose(A)
    BY <1>4, PurposeDepends DEF Same
  <2>2. TimerPurpose(F) = TimerPurpose(B)
    BY <1>7, PurposeDepends DEF Rest, Probed
  <2> QED BY <1>4, <1>7, <2>1, <2>2 DEF Rest, Probed
<1>9. NoNews(E, F)
  BY <1>5, <1>7 DEF Same, Probed, NoNews
<1>10. SameFacts(E, F)
  BY <1>3, <1>4, <1>7 DEF Same, Probed, SameFacts, Rest
<1> QED BY <1>1, <1>7, <1>8, <1>9, <1>10 DEF Probed

-----------------------------------------------------------------------------
(* Receiving.                                                              *)

(* An engine does not go back. *)
Advances(E, F) ==
    /\ F.role = E.role
    /\ E.engine # "hello" => F.engine # "hello"
    /\ E.engine = "done" => F.engine = "done"

(* E becomes F, hearing from a peer whose engine is at g. *)
Receives(E, g, F) == Local(F) /\ Heard(F, g) /\ Advances(E, F)

(* Handlers that bring no news. *)
LEMMA QuietReceives ==
    ASSUME NEW E, NEW F, NEW g, Heard(E, g), NoNews(E, F), Local(F)
    PROVE  Receives(E, g, F)
<1>1. Heard(F, g)
  BY DEF Heard, NoNews, CryptoLevels
<1>2. Advances(E, F)
  BY DEF Advances, NoNews
<1> QED BY <1>1, <1>2 DEF Receives

(* One after the other. *)
LEMMA ReceivesTwice ==
    ASSUME NEW E, NEW F, NEW G, NEW g, Receives(E, g, F), Receives(F, g, G)
    PROVE  Receives(E, g, G)
<1>1. Advances(E, G)
  BY DEF Receives, Advances
<1> QED BY <1>1 DEF Receives

(* HANDSHAKE_DONE reaches the client from a server that is done. *)
LEMMA HandshakeDone ==
    ASSUME NEW E, Local(E), NEW g, Heard(E, g), E.role = "c", g = "done"
    PROVE  Receives(E, g, OnHandshakeDone(E))
<1> DEFINE A == [E EXCEPT !.confirmed = TRUE, !.ctx.handshake_confirmed = TRUE]
           F == discard_level(A, "H")
<1>1. CASE E.confirmed
  <2>1. OnHandshakeDone(E) = E
    BY <1>1 DEF OnHandshakeDone
  <2> QED BY <2>1 DEF Receives, Advances
<1>2. CASE ~E.confirmed
  <2>1. OnHandshakeDone(E) = F
    BY <1>2 DEF OnHandshakeDone
  <2>2. Shape(E) /\ RecoveryOK(E) /\ FramesKept(E) /\ EngineOK(E)
    BY DEF Local
  <2>3. /\ Shape(A) /\ A.role = E.role /\ A.tx = E.tx /\ A.engine = E.engine
        /\ A.complete = E.complete /\ A.confirmed = TRUE
        /\ A.bufs = E.bufs /\ A.loss = E.loss /\ A.pn = E.pn /\ A.in_flight = E.in_flight
        /\ A.handshake_done_pending = E.handshake_done_pending
        /\ A.handshake_done_acked = E.handshake_done_acked
        /\ A.data_pending = E.data_pending /\ A.data_acked = E.data_acked
    BY <2>2 DEF Shape, Fields, CtxFields
  <2> HIDE DEF A
  <2>4. RecoveryOK(A) /\ FramesKept(A)
    BY <2>2, <2>3 DEF RecoveryOK, FramesKept
  <2>5. EngineOK(A)
    BY <2>2, <2>3 DEF EngineOK
  <2>6. Local(A)
    BY <2>3, <2>4, <2>5 DEF Local
  <2>7. Heard(A, g)
    BY <2>3 DEF Heard
  <2>8. MayDiscard(A, "H") /\ A.role \in Endpoints /\ "H" \in CryptoLevels
    BY <2>3 DEF MayDiscard, Endpoints, CryptoLevels
  <2>9. Local(F) /\ NoNews(A, F)
    BY <2>6, <2>8, Discard
  <2>10. Receives(A, g, F)
    BY <2>7, <2>9, QuietReceives
  <2>11. Receives(E, g, A)
    BY <2>3, <2>6, <2>7 DEF Receives, Advances
  <2> QED BY <2>1, <2>10, <2>11, ReceivesTwice
<1> QED BY <1>1, <1>2

(* A packet number is noted. *)
LEMMA PnNoted ==
    ASSUME NEW E, Local(E), NEW p, p.lvl \in Levels
    PROVE  LET F == NotePn(E, p) IN Local(F) /\ NoNews(E, F)
<1> DEFINE s == SpaceOf(p.lvl)
           largest == E.pn[s].largest_rx
           n == E.pn[s].eliciting + 1
           due == \/ p.lvl \in {"I", "H"} \/ n >= 2
                  \/ largest # None /\ (p.pn < largest \/ p.pn > largest + 1)
           A == [E EXCEPT !.pn[s].largest_rx = Max({largest, p.pn}),
                          !.pn[s].pending = @ \union {p.pn}]
           B == [A EXCEPT !.pn[s].eliciting = Min({n, 2}), !.pn[s].due = @ \/ due]
           F == IF Eliciting(p) THEN B ELSE A
<1>1. F = NotePn(E, p)
  BY DEF NotePn
<1>2. s \in Spaces
  BY DEF SpaceOf, Levels, Spaces
<1>3. Shape(E) /\ RecoveryOK(E) /\ FramesKept(E) /\ EngineOK(E)
  BY DEF Local
<1> DEFINE PnFields == {"next", "largest_rx", "pending", "due", "eliciting"}
           Kept(G, H) ==
               /\ DOMAIN H = Fields
               /\ H.role = G.role /\ H.tx = G.tx /\ H.engine = G.engine
               /\ H.complete = G.complete /\ H.confirmed = G.confirmed
               /\ H.bufs = G.bufs /\ H.loss = G.loss /\ H.in_flight = G.in_flight
               /\ H.handshake_done_pending = G.handshake_done_pending
               /\ H.handshake_done_acked = G.handshake_done_acked
               /\ H.data_pending = G.data_pending /\ H.data_acked = G.data_acked
               /\ H.ctx = G.ctx
               /\ DOMAIN H.pn = Spaces
               /\ \A r \in Spaces : H.pn[r].next = G.pn[r].next /\ DOMAIN H.pn[r] = PnFields
<1>4. DOMAIN E = Fields /\ DOMAIN E.pn = Spaces /\ \A r \in Spaces : DOMAIN E.pn[r] = PnFields
  BY <1>3 DEF Shape
<1> HIDE DEF due, n, largest, s
<1>5. Kept(E, A)
  <2>1. DOMAIN A.pn = Spaces
    BY <1>2, <1>4 DEF Fields
  <2>2. \A r \in Spaces : r # s => A.pn[r] = E.pn[r]
    BY <1>2, <1>4 DEF Fields
  <2>3. DOMAIN A.pn[s] = PnFields
    BY <1>2, <1>4 DEF Fields
  <2>4. A.pn[s].next = E.pn[s].next
    BY <1>2, <1>4 DEF Fields
  <2>5. /\ DOMAIN A = Fields
        /\ A.role = E.role /\ A.tx = E.tx /\ A.engine = E.engine
        /\ A.complete = E.complete /\ A.confirmed = E.confirmed
        /\ A.bufs = E.bufs /\ A.loss = E.loss /\ A.in_flight = E.in_flight
        /\ A.handshake_done_pending = E.handshake_done_pending
        /\ A.handshake_done_acked = E.handshake_done_acked
        /\ A.data_pending = E.data_pending /\ A.data_acked = E.data_acked
        /\ A.ctx = E.ctx
    BY <1>4 DEF Fields
  <2> HIDE DEF A
  <2> QED BY <1>4, <2>1, <2>2, <2>3, <2>4, <2>5
<1> HIDE DEF A
<1>6. Kept(E, B)
  <2>0. DOMAIN A = Fields /\ DOMAIN A.pn = Spaces /\ DOMAIN A.pn[s] = PnFields
    BY <1>2, <1>5
  <2>1. DOMAIN B.pn = Spaces
    BY <1>2, <2>0 DEF Fields
  <2>2. \A r \in Spaces : r # s => B.pn[r] = A.pn[r]
    BY <1>2, <2>0 DEF Fields
  <2>3. DOMAIN B.pn[s] = PnFields
    BY <1>2, <2>0 DEF Fields
  <2>4. B.pn[s].next = A.pn[s].next
    BY <1>2, <2>0 DEF Fields
  <2>5. /\ DOMAIN B = Fields
        /\ B.role = A.role /\ B.tx = A.tx /\ B.engine = A.engine
        /\ B.complete = A.complete /\ B.confirmed = A.confirmed
        /\ B.bufs = A.bufs /\ B.loss = A.loss /\ B.in_flight = A.in_flight
        /\ B.handshake_done_pending = A.handshake_done_pending
        /\ B.handshake_done_acked = A.handshake_done_acked
        /\ B.data_pending = A.data_pending /\ B.data_acked = A.data_acked
        /\ B.ctx = A.ctx
    BY <2>0 DEF Fields
  <2> HIDE DEF B
  <2> QED BY <1>5, <2>1, <2>2, <2>3, <2>4, <2>5
<1> HIDE DEF B
<1>7. Kept(E, F)
  BY <1>5, <1>6
<1> HIDE DEF F
<1>8. Shape(F)
  BY <1>3, <1>7 DEF Shape
<1>9. RecoveryOK(F)
  BY <1>3, <1>7 DEF RecoveryOK
<1>10. FramesKept(F)
  BY <1>3, <1>7 DEF FramesKept
<1>11. EngineOK(F)
  BY <1>3, <1>7 DEF EngineOK
<1>12. NoNews(E, F)
  BY <1>7 DEF NoNews
<1> QED BY <1>1, <1>8, <1>9, <1>10, <1>11, <1>12 DEF Local

(* A CRYPTO frame is kept. *)
LEMMA CryptoReceived ==
    ASSUME NEW E, Local(E), NEW g, Heard(E, g), E.role \in Endpoints,
           NEW p, PacketOK(Peer(E.role), g, p), p.crypto # None
    PROVE  Receives(E, g, [E EXCEPT !.bufs[SpaceOf(p.lvl)].got = @ \union {p.crypto}])
<1> DEFINE s == SpaceOf(p.lvl)
           F == [E EXCEPT !.bufs[s].got = @ \union {p.crypto}]
<1>1. s = p.lvl /\ s \in CryptoLevels
  BY DEF PacketOK, SpaceOf, CryptoLevels
<1>2. Shape(E) /\ RecoveryOK(E) /\ FramesKept(E) /\ EngineOK(E)
  BY DEF Local
<1> HIDE DEF s
<1>3. /\ DOMAIN F = Fields
      /\ F.role = E.role /\ F.tx = E.tx /\ F.engine = E.engine
      /\ F.complete = E.complete /\ F.confirmed = E.confirmed
      /\ F.loss = E.loss /\ F.pn = E.pn /\ F.in_flight = E.in_flight
      /\ F.handshake_done_pending = E.handshake_done_pending
      /\ F.handshake_done_acked = E.handshake_done_acked
      /\ F.data_pending = E.data_pending /\ F.data_acked = E.data_acked
      /\ F.ctx = E.ctx
  BY <1>2 DEF Shape, Fields
<1>4. DOMAIN F.bufs = CryptoLevels
  BY <1>1, <1>2 DEF Shape, Fields
<1>5. \A l \in CryptoLevels : l # s => F.bufs[l] = E.bufs[l]
  BY <1>1, <1>2 DEF Shape, Fields
<1>6. /\ DOMAIN F.bufs[s] = {"fresh", "rtx", "history", "got"}
      /\ F.bufs[s].fresh = E.bufs[s].fresh /\ F.bufs[s].rtx = E.bufs[s].rtx
      /\ F.bufs[s].history = E.bufs[s].history
  BY <1>1, <1>2 DEF Shape, Fields
<1> HIDE DEF F
<1>7. Shape(F)
  BY <1>2, <1>3, <1>4, <1>5, <1>6 DEF Shape
<1>8. \A l \in CryptoLevels :
          /\ F.bufs[l].fresh = E.bufs[l].fresh /\ F.bufs[l].rtx = E.bufs[l].rtx
          /\ F.bufs[l].history = E.bufs[l].history
  BY <1>5, <1>6
<1>9. RecoveryOK(F)
  <2>1. ASSUME NEW l \in CryptoLevels PROVE CryptoKept(F.bufs[l], F.loss[l])
    BY <1>2, <1>3, <1>8 DEF RecoveryOK, CryptoKept
  <2> QED BY <1>2, <1>3, <2>1 DEF RecoveryOK
<1>10. FramesKept(F)
  BY <1>2, <1>3 DEF FramesKept
<1>11. EngineOK(F)
  <2>1. \A l \in CryptoLevels : Silent(E.bufs[l]) => Silent(F.bufs[l])
    BY <1>8 DEF Silent
  <2> QED BY <1>2, <1>3, <2>1 DEF EngineOK, CryptoLevels
<1>12. Heard(F, g)
  <2>1. CASE E.role = "c"
    <3>1. g # "hello"
      BY <2>1 DEF PacketOK, Peer
    <3> QED BY <1>3, <2>1, <3>1 DEF Heard
  <2>2. CASE E.role = "s"
    <3>1. s = "H" => g = "done"
      BY <1>1, <2>2 DEF PacketOK, Peer
    <3>2. s # "H" => F.bufs["H"] = E.bufs["H"]
      BY <1>5 DEF CryptoLevels
    <3> QED BY <1>3, <2>2, <3>1, <3>2 DEF Heard
  <2> QED BY <2>1, <2>2 DEF Endpoints
<1>13. Receives(E, g, F)
  BY <1>3, <1>7, <1>9, <1>10, <1>11, <1>12 DEF Receives, Local, Advances
<1> QED BY <1>13 DEF F, s

(* A handler the invariant does not see. *)
LEMMA SameReceives ==
    ASSUME NEW E, Local(E), NEW g, Heard(E, g), NEW F, Shape(F), Same(E, F)
    PROVE  Receives(E, g, F)
<1>1. Local(F)
  BY SameLocal
<1>2. NoNews(E, F)
  BY DEF Same, NoNews
<1> QED BY <1>1, <1>2, QuietReceives

(* The frames of a packet. *)
LEMMA Dispatched ==
    ASSUME NEW E, Local(E), NEW g, Heard(E, g), E.role \in Endpoints,
           NEW p, PacketOK(Peer(E.role), g, p)
    PROVE  Receives(E, g, dispatch_frames(E, p))
<1> DEFINE s == SpaceOf(p.lvl)
           A == IF p.ack = {} THEN E ELSE OnAckFrame(E, s, p.ack)
           B == IF p.crypto = None THEN A ELSE [A EXCEPT !.bufs[s].got = @ \union {p.crypto}]
           C == IF p.hd THEN OnHandshakeDone(B) ELSE B
           D == IF p.data THEN [C EXCEPT !.data_read = TRUE] ELSE C
           F == NotePn(D, p)
<1>1. F = dispatch_frames(E, p)
  BY DEF dispatch_frames
<1>2. s \in Spaces /\ p.lvl \in Levels
  BY DEF PacketOK, SpaceOf, Levels, Spaces
<1>3. Receives(E, g, A)
  <2>1. CASE p.ack = {}
    BY <2>1 DEF Receives, Advances
  <2>2. CASE p.ack # {}
    <3>1. Local(OnAckFrame(E, s, p.ack)) /\ NoNews(E, OnAckFrame(E, s, p.ack))
      BY <1>2, AckFrame
    <3>2. Receives(E, g, OnAckFrame(E, s, p.ack))
      BY <3>1, QuietReceives
    <3> QED BY <2>2, <3>2
  <2> QED BY <2>1, <2>2
<1> HIDE DEF A
<1>4. A.role = E.role /\ Local(A) /\ Heard(A, g)
  BY <1>3 DEF Receives, Advances
<1>5. Receives(A, g, B)
  <2>1. CASE p.crypto = None
    BY <1>4, <2>1 DEF Receives, Advances
  <2>2. CASE p.crypto # None
    <3>1. PacketOK(Peer(A.role), g, p) /\ A.role \in Endpoints
      BY <1>4
    <3>2. Receives(A, g, [A EXCEPT !.bufs[SpaceOf(p.lvl)].got = @ \union {p.crypto}])
      BY <1>4, <2>2, <3>1, CryptoReceived
    <3> QED BY <2>2, <3>2
  <2> QED BY <2>1, <2>2
<1> HIDE DEF B
<1>6. B.role = E.role /\ Local(B) /\ Heard(B, g)
  BY <1>4, <1>5 DEF Receives, Advances
<1>7. Receives(B, g, C)
  <2>1. CASE ~p.hd
    BY <1>6, <2>1 DEF Receives, Advances
  <2>2. CASE p.hd
    <3>1. E.role = "c" /\ g = "done"
      BY <2>2 DEF PacketOK, Peer, Endpoints
    <3> QED BY <1>6, <2>2, <3>1, HandshakeDone
  <2> QED BY <2>1, <2>2
<1> HIDE DEF C
<1>8. Local(C) /\ Heard(C, g) /\ Shape(C)
  BY <1>7 DEF Receives, Local
<1>9. Receives(C, g, D)
  <2>1. Shape(D) /\ Same(C, D)
    BY <1>8 DEF Shape, Same, Fields
  <2> HIDE DEF D
  <2> QED BY <1>8, <2>1, SameReceives
<1> HIDE DEF D
<1>10. Local(D) /\ Heard(D, g)
  BY <1>9 DEF Receives
<1>11. Receives(D, g, F)
  BY <1>2, <1>10, PnNoted, QuietReceives
<1> HIDE DEF F
<1>12. Receives(E, g, B)
  BY <1>3, <1>5, ReceivesTwice
<1>13. Receives(E, g, C)
  BY <1>7, <1>12, ReceivesTwice
<1>14. Receives(E, g, D)
  BY <1>9, <1>13, ReceivesTwice
<1>15. Receives(E, g, F)
  BY <1>11, <1>14, ReceivesTwice
<1> QED BY <1>1, <1>15

(* The engine moves on: levels and flights are added. *)
Drained(E, F) ==
    /\ Shape(F)
    /\ F.role = E.role /\ F.complete = E.complete /\ F.confirmed = E.confirmed
    /\ F.loss = E.loss /\ F.pn = E.pn /\ F.in_flight = E.in_flight
    /\ F.handshake_done_pending = E.handshake_done_pending
    /\ F.handshake_done_acked = E.handshake_done_acked
    /\ F.data_pending = E.data_pending /\ F.data_acked = E.data_acked
    /\ \A l \in CryptoLevels :
          /\ F.bufs[l].fresh \in Seq(Nat) /\ F.bufs[l].rtx = E.bufs[l].rtx
          /\ F.bufs[l].history = E.bufs[l].history /\ F.bufs[l].got = E.bufs[l].got

(* Recovery is not concerned. *)
LEMMA DrainedKeeps ==
    ASSUME NEW E, Local(E), NEW F, Drained(E, F), EngineOK(F)
    PROVE  Local(F)
<1>1. RecoveryOK(E) /\ FramesKept(E)
  BY DEF Local
<1>2. ASSUME NEW l \in CryptoLevels PROVE CryptoKept(F.bufs[l], F.loss[l])
  BY <1>1 DEF Drained, RecoveryOK, CryptoKept
<1>3. RecoveryOK(F)
  BY <1>1, <1>2 DEF RecoveryOK, Drained
<1>4. FramesKept(F)
  BY <1>1 DEF FramesKept, Drained
<1> QED BY <1>3, <1>4 DEF Local, Drained

(* A flight is a sequence of units. *)
LEMMA Flights ==
    ASSUME config \in Configs
    PROVE  /\ Units(config.flight) \in Seq(Nat) /\ << 1 >> \in Seq(Nat)
           /\ \A q \in Seq(Nat) : Append(q, 1) \in Seq(Nat)
<1>1. config.flight \in Nat
  BY ConfigsAssumption
<1> DEFINE n == config.flight
           u == Units(n)
<1> HIDE DEF n
<1>2. n \in Nat
  BY <1>1 DEF n
<1>3. u = [i \in 1 .. n |-> i]
  BY DEF Units
<1> HIDE DEF u
<1>4. u \in [1 .. n -> Nat]
  BY <1>2, <1>3
<1>5. u \in Seq(Nat)
  BY <1>2, <1>4
<1> QED BY <1>5 DEF u, n

(* The engine's progress. *)
LEMMA Drains ==
    ASSUME NEW E, Local(E), NEW g, Heard(E, g), E.role \in Endpoints, config \in Configs
    PROVE  Receives(E, g, drain_engine_outputs(E))
<1> DEFINE F == drain_engine_outputs(E)
<1>1. Shape(E) /\ RecoveryOK(E) /\ EngineOK(E)
  BY DEF Local
<1>2. /\ DOMAIN E = Fields /\ DOMAIN E.bufs = CryptoLevels
      /\ \A l \in CryptoLevels : DOMAIN E.bufs[l] = {"fresh", "rtx", "history", "got"}
  BY <1>1 DEF Shape
<1>3. \A l \in CryptoLevels : E.bufs[l].fresh \in Seq(Nat)
  BY <1>1 DEF RecoveryOK, CryptoKept
<1>4. CASE F = E
  BY <1>4 DEF Receives, Advances
<1>5. CASE E.role = "c" /\ E.engine = "hello" /\ E.bufs["I"].got = {1}
  <2>1. F = [E EXCEPT !.engine = "flight", !.tx = @ \union {"H"}, !.rx = @ \union {"H"}]
    BY <1>5 DEF drain_engine_outputs
  <2> HIDE DEF F
  <2>2. Drained(E, F) /\ F.engine = "flight" /\ F.tx = E.tx \cup {"H"} /\ F.bufs = E.bufs
    BY <1>1, <1>3, <2>1 DEF Drained, Shape, Fields
  <2>3. EngineOK(F)
    BY <1>1, <1>5, <2>2 DEF EngineOK, Drained
  <2>4. Heard(F, g)
    BY <1>5, <2>2 DEF Heard, Drained
  <2>5. Local(F)
    BY <2>2, <2>3, <2>4, DrainedKeeps
  <2>6. Receives(E, g, F)
    BY <1>5, <2>2, <2>3, <2>4, <2>5 DEF Receives, Advances, Drained
  <2> QED BY <2>6 DEF F
<1>6. CASE E.role = "c" /\ E.engine = "flight" /\ E.bufs["H"].got = 1 .. config.flight
  <2>1. F = [E EXCEPT !.engine = "done", !.bufs["H"].fresh = Append(@, 1),
                      !.tx = @ \union {"A"}, !.rx = @ \union {"A"}]
    BY <1>6 DEF drain_engine_outputs
  <2> HIDE DEF F
  <2>2. /\ DOMAIN F = Fields /\ F.engine = "done" /\ F.tx = E.tx \cup {"A"}
        /\ F.role = E.role /\ F.complete = E.complete /\ F.confirmed = E.confirmed
        /\ F.loss = E.loss /\ F.pn = E.pn /\ F.in_flight = E.in_flight
        /\ F.handshake_done_pending = E.handshake_done_pending
        /\ F.handshake_done_acked = E.handshake_done_acked
        /\ F.data_pending = E.data_pending /\ F.data_acked = E.data_acked /\ F.ctx = E.ctx
    BY <1>2, <2>1 DEF Fields
  <2>3. F.bufs = [E.bufs EXCEPT !["H"].fresh = Append(E.bufs["H"].fresh, 1)]
    BY <1>2, <2>1 DEF Fields
  <2>4. /\ DOMAIN F.bufs = CryptoLevels /\ F.bufs["I"] = E.bufs["I"]
        /\ DOMAIN F.bufs["H"] = {"fresh", "rtx", "history", "got"}
        /\ F.bufs["H"].fresh = Append(E.bufs["H"].fresh, 1) /\ F.bufs["H"].rtx = E.bufs["H"].rtx
        /\ F.bufs["H"].history = E.bufs["H"].history /\ F.bufs["H"].got = E.bufs["H"].got
    BY <1>2, <2>3 DEF CryptoLevels
  <2>5. F.bufs["H"].fresh \in Seq(Nat) /\ F.bufs["I"].fresh \in Seq(Nat)
    BY <1>3, <2>4, Flights DEF CryptoLevels
  <2>6. Shape(F)
    BY <1>1, <2>2, <2>4 DEF Shape, CryptoLevels
  <2>7. Drained(E, F)
    BY <2>2, <2>4, <2>5, <2>6 DEF Drained, CryptoLevels
  <2>8. EngineOK(F)
    BY <1>1, <1>6, <2>2 DEF EngineOK
  <2>9. Heard(F, g)
    BY <1>6, <2>2 DEF Heard
  <2>10. Local(F)
    BY <2>2, <2>7, <2>8, <2>9, DrainedKeeps
  <2>11. Receives(E, g, F)
    BY <1>6, <2>2, <2>7, <2>8, <2>9, <2>10 DEF Receives, Advances
  <2> QED BY <2>11 DEF F
<1>7. CASE E.role = "s" /\ E.engine = "hello" /\ E.bufs["I"].got = 1 .. config.hello
  <2>1. F = [E EXCEPT !.engine = "flight", !.bufs["I"].fresh = << 1 >>,
                      !.bufs["H"].fresh = Units(config.flight),
                      !.tx = @ \union {"H", "A"},
                      !.rx = @ \union {"H", "A"}
                               \union (IF config.early = "accepted" THEN {"0"} ELSE {})]
    BY <1>7 DEF drain_engine_outputs
  <2> DEFINE u == Units(config.flight)
  <2> HIDE DEF F, u
  <2>2. /\ DOMAIN F = Fields /\ F.engine = "flight" /\ F.tx = E.tx \cup {"H", "A"}
        /\ F.role = E.role /\ F.complete = E.complete /\ F.confirmed = E.confirmed
        /\ F.loss = E.loss /\ F.pn = E.pn /\ F.in_flight = E.in_flight
        /\ F.handshake_done_pending = E.handshake_done_pending
        /\ F.handshake_done_acked = E.handshake_done_acked
        /\ F.data_pending = E.data_pending /\ F.data_acked = E.data_acked /\ F.ctx = E.ctx
    BY <1>2, <2>1 DEF Fields
  <2>3. F.bufs = [E.bufs EXCEPT !["I"].fresh = << 1 >>, !["H"].fresh = u]
    BY <1>2, <2>1 DEF Fields, u
  <2>4. /\ DOMAIN F.bufs = CryptoLevels
        /\ DOMAIN F.bufs["I"] = {"fresh", "rtx", "history", "got"}
        /\ F.bufs["I"].fresh = << 1 >> /\ F.bufs["I"].rtx = E.bufs["I"].rtx
        /\ F.bufs["I"].history = E.bufs["I"].history /\ F.bufs["I"].got = E.bufs["I"].got
    BY <1>2, <2>3 DEF CryptoLevels
  <2>5. /\ DOMAIN F.bufs["H"] = {"fresh", "rtx", "history", "got"}
        /\ F.bufs["H"].fresh = u /\ F.bufs["H"].rtx = E.bufs["H"].rtx
        /\ F.bufs["H"].history = E.bufs["H"].history /\ F.bufs["H"].got = E.bufs["H"].got
    BY <1>2, <2>3 DEF CryptoLevels
  <2>6. F.bufs["H"].fresh \in Seq(Nat) /\ F.bufs["I"].fresh \in Seq(Nat)
    BY <2>4, <2>5, Flights DEF u
  <2>7. Shape(F)
    BY <1>1, <2>2, <2>4, <2>5 DEF Shape, CryptoLevels
  <2>8. Drained(E, F)
    BY <2>2, <2>4, <2>5, <2>6, <2>7 DEF Drained, CryptoLevels
  <2>9. EngineOK(F)
    BY <1>1, <1>7, <2>2 DEF EngineOK
  <2>10. Heard(F, g)
    BY <1>7, <2>2, <2>5 DEF Heard
  <2>11. Local(F)
    BY <2>2, <2>8, <2>9, <2>10, DrainedKeeps
  <2>12. Receives(E, g, F)
    BY <1>7, <2>2, <2>8, <2>9, <2>10, <2>11 DEF Receives, Advances
  <2> QED BY <2>12 DEF F
<1>8. CASE E.role = "s" /\ E.engine = "flight" /\ E.bufs["H"].got = {1}
  <2>1. F = [E EXCEPT !.engine = "done"]
    BY <1>8 DEF drain_engine_outputs
  <2> HIDE DEF F
  <2>2. Drained(E, F) /\ F.engine = "done" /\ F.tx = E.tx /\ F.bufs = E.bufs
    BY <1>1, <1>3, <2>1 DEF Drained, Shape, Fields
  <2>3. EngineOK(F)
    BY <1>1, <1>8, <2>2 DEF EngineOK, Drained
  <2>4. Heard(F, g)
    BY <1>8, <2>2 DEF Heard, Drained
  <2>5. Local(F)
    BY <2>2, <2>3, <2>4, DrainedKeeps
  <2>6. Receives(E, g, F)
    BY <1>8, <2>2, <2>3, <2>4, <2>5 DEF Receives, Advances, Drained
  <2> QED BY <2>6 DEF F
<1> QED BY <1>4, <1>5, <1>6, <1>7, <1>8 DEF drain_engine_outputs, Endpoints

-----------------------------------------------------------------------------
(* A datagram is processed.                                                *)

(* The handshake completes: the server is done with both levels, the       *)
(* client with the first. *)
LEMMA LevelsDiscarded ==
    ASSUME NEW E, Local(E), NEW g, Heard(E, g), E.role \in Endpoints, E.engine = "done"
    PROVE  Receives(E, g, discard_handshake_levels(E))
<1> DEFINE A == discard_level(E, "I")
           B == discard_level(A, "H")
<1>0. "I" \in CryptoLevels /\ "H" \in CryptoLevels
  BY DEF CryptoLevels
<1>1. MayDiscard(E, "I")
  BY DEF MayDiscard
<1>2. Local(A) /\ NoNews(E, A)
  BY <1>0, <1>1, Discard
<1> HIDE DEF A
<1>3. Receives(E, g, A)
  BY <1>2, QuietReceives
<1>4. A.role = E.role /\ A.engine = "done" /\ Heard(A, g)
  BY <1>2, <1>3 DEF NoNews, Receives
<1>5. CASE E.role = "c"
  BY <1>3, <1>5 DEF discard_handshake_levels, A
<1>6. CASE E.role = "s"
  <2>1. MayDiscard(A, "H")
    BY <1>4, <1>6 DEF MayDiscard
  <2>2. Local(B) /\ NoNews(A, B)
    BY <1>0, <1>2, <1>4, <2>1, Discard
  <2> HIDE DEF B
  <2>3. Receives(A, g, B)
    BY <1>4, <2>2, QuietReceives
  <2>4. Receives(E, g, B)
    BY <1>3, <2>3, ReceivesTwice
  <2> QED BY <1>6, <2>4 DEF discard_handshake_levels, A, B
<1> QED BY <1>5, <1>6 DEF Endpoints

(* The client has no more early data; refused, it is pending again. *)
LEMMA EarlyDataResolved ==
    ASSUME NEW E, Local(E), NEW g, Heard(E, g)
    PROVE  Receives(E, g, resolve_early_data(E))
<1> DEFINE F == resolve_early_data(E)
<1>1. Shape(E) /\ RecoveryOK(E) /\ FramesKept(E) /\ EngineOK(E)
  BY DEF Local
<1>2. CASE E.role = "s"
  BY <1>2 DEF Receives, Advances, resolve_early_data
<1>3. CASE E.role # "s"
  <2>1. F = [E EXCEPT !.tx = @ \ {"0"},
                      !.data_pending = @ \/ (/\ config.early = "rejected"
                                             /\ E.role \in config.data /\ ~E.data_acked)]
    BY <1>3 DEF resolve_early_data
  <2> HIDE DEF F
  <2>2. /\ DOMAIN F = Fields
        /\ F.role = E.role /\ F.tx = E.tx \ {"0"} /\ F.engine = E.engine
        /\ F.complete = E.complete /\ F.confirmed = E.confirmed
        /\ F.bufs = E.bufs /\ F.loss = E.loss /\ F.pn = E.pn /\ F.in_flight = E.in_flight
        /\ F.handshake_done_pending = E.handshake_done_pending
        /\ F.handshake_done_acked = E.handshake_done_acked
        /\ (E.data_pending => F.data_pending) /\ F.data_acked = E.data_acked
        /\ F.ctx = E.ctx
    BY <1>1, <2>1 DEF Shape, Fields
  <2>3. Shape(F)
    BY <1>1, <2>2 DEF Shape
  <2>4. RecoveryOK(F)
    BY <1>1, <2>2 DEF RecoveryOK
  <2>5. FramesKept(F)
    BY <1>1, <2>2 DEF FramesKept
  <2>6. EngineOK(F)
    BY <1>1, <2>2 DEF EngineOK
  <2>7. NoNews(E, F)
    BY <2>2 DEF NoNews
  <2>8. Receives(E, g, F)
    BY <2>3, <2>4, <2>5, <2>6, <2>7, QuietReceives DEF Local
  <2> QED BY <2>8 DEF F
<1> QED BY <1>2, <1>3

(* check_handshake_complete. *)
LEMMA Completes ==
    ASSUME NEW E, Local(E), NEW g, Heard(E, g), E.role \in Endpoints
    PROVE  Receives(E, g, check_handshake_complete(E))
<1>1. CASE E.engine # "done" \/ E.complete
  BY <1>1 DEF Receives, Advances, check_handshake_complete
<1>2. CASE E.engine = "done" /\ ~E.complete
  <2> DEFINE server == E.role = "s"
             F == [E EXCEPT !.complete = TRUE,
                            !.confirmed = @ \/ server,
                            !.ctx.handshake_confirmed = @ \/ server,
                            !.handshake_done_pending = server]
             G == discard_handshake_levels(F)
             H == resolve_early_data(G)
  <2>1. H = check_handshake_complete(E)
    BY <1>2 DEF check_handshake_complete
  <2>2. Shape(E) /\ RecoveryOK(E) /\ FramesKept(E) /\ EngineOK(E)
    BY DEF Local
  <2>3. /\ DOMAIN F = Fields
        /\ F.role = E.role /\ F.tx = E.tx /\ F.engine = E.engine
        /\ F.complete = TRUE /\ F.confirmed = (E.confirmed \/ E.role = "s")
        /\ F.bufs = E.bufs /\ F.loss = E.loss /\ F.pn = E.pn /\ F.in_flight = E.in_flight
        /\ F.handshake_done_pending = (E.role = "s")
        /\ F.handshake_done_acked = E.handshake_done_acked
        /\ F.data_pending = E.data_pending /\ F.data_acked = E.data_acked
    BY <2>2 DEF Shape, Fields
  <2>4. DOMAIN F.ctx = CtxFields
    BY <2>2 DEF Shape, Fields
  <2> HIDE DEF F
  <2>5. Shape(F)
    BY <2>2, <2>3, <2>4 DEF Shape
  <2>6. RecoveryOK(F)
    BY <2>2, <2>3 DEF RecoveryOK
  <2>7. FramesKept(F)
    BY <2>2, <2>3 DEF FramesKept
  <2>8. EngineOK(F)
    BY <1>2, <2>2, <2>3 DEF EngineOK
  <2>9. Heard(F, g)
    BY <2>3 DEF Heard
  <2>10. Receives(E, g, F)
    BY <2>3, <2>5, <2>6, <2>7, <2>8, <2>9 DEF Receives, Local, Advances
  <2>11. Local(F) /\ F.role \in Endpoints /\ F.engine = "done"
    BY <1>2, <2>3, <2>10 DEF Receives
  <2>12. Receives(F, g, G)
    BY <2>9, <2>11, LevelsDiscarded
  <2> HIDE DEF G
  <2>13. Receives(G, g, H)
    BY <2>12, EarlyDataResolved DEF Receives
  <2> HIDE DEF H
  <2>14. Receives(E, g, G)
    BY <2>10, <2>12, ReceivesTwice
  <2>15. Receives(E, g, H)
    BY <2>13, <2>14, ReceivesTwice
  <2> QED BY <2>1, <2>15
<1> QED BY <1>1, <1>2

(* One packet. *)
LEMMA Fed ==
    ASSUME NEW E, Local(E), NEW g, Heard(E, g), E.role \in Endpoints,
           NEW p, PacketOK(Peer(E.role), g, p)
    PROVE  Receives(E, g, feed_one_packet(E, p))
<1> DEFINE F == IF E.role = "s" /\ p.lvl = "A" THEN check_handshake_complete(E) ELSE E
           early == IF F.role = "s" /\ p.lvl = "A" THEN {"0"} ELSE {}
           G == [F EXCEPT !.validated = @ \/ p.lvl = "H", !.rx = @ \ early]
           skip == p.lvl \notin F.rx \/ (F.role = "s" /\ p.lvl = "A" /\ ~F.complete)
<1>1. feed_one_packet(E, p) = IF skip THEN F ELSE dispatch_frames(G, p)
  BY DEF feed_one_packet
<1>2. Receives(E, g, F)
  BY Completes DEF Receives, Advances
<1> HIDE DEF F, early
<1>3. Local(F) /\ Heard(F, g) /\ Shape(F) /\ F.role = E.role
  BY <1>2 DEF Receives, Local, Advances
<1>4. Shape(G) /\ Same(F, G)
  BY <1>3 DEF Shape, Same, Fields
<1> HIDE DEF G
<1>5. Receives(F, g, G)
  BY <1>3, <1>4, SameReceives
<1>6. Local(G) /\ Heard(G, g) /\ G.role = E.role
  BY <1>3, <1>5 DEF Receives, Advances
<1> DEFINE H == dispatch_frames(G, p)
<1>7. Receives(G, g, H)
  BY <1>6, Dispatched
<1> HIDE DEF H
<1>8. Receives(E, g, G)
  BY <1>2, <1>5, ReceivesTwice
<1>9. Receives(E, g, H)
  BY <1>7, <1>8, ReceivesTwice
<1> QED BY <1>1, <1>2, <1>9 DEF H

(* h holds the endpoint after each of the first n packets. *)
FedSoFar(E, packets, n, h) ==
    h = [i \in 0 .. n |->
            IF i = 0 THEN E ELSE drain_engine_outputs(feed_one_packet(h[i - 1], packets[i]))]

(* There is such a function, however many packets there are. *)
LEMMA FeedExists ==
    ASSUME NEW E, NEW packets, NEW n \in Nat
    PROVE  \E h : FedSoFar(E, packets, n, h)
<1> DEFINE Upshot(F, i) == drain_engine_outputs(feed_one_packet(F, packets[i]))
           S == {m \in Nat : \E h : FedSoFar(E, packets, m, h)}
<1>1. 0 \in S
  <2> DEFINE h == [i \in 0 .. 0 |-> E]
  <2>1. FedSoFar(E, packets, 0, h)
    BY DEF FedSoFar
  <2> QED BY <2>1
<1>2. ASSUME NEW m \in Nat, m \in S PROVE m + 1 \in S
  <2>1. PICK h : FedSoFar(E, packets, m, h)
    BY <1>2
  <2>2. h = [i \in 0 .. m |-> IF i = 0 THEN E ELSE Upshot(h[i - 1], i)]
    BY <2>1 DEF FedSoFar
  <2> HIDE DEF Upshot
  <2> DEFINE f == [i \in 0 .. m + 1 |-> IF i <= m THEN h[i] ELSE Upshot(h[m], m + 1)]
             r == [i \in 0 .. m + 1 |-> IF i = 0 THEN E ELSE Upshot(f[i - 1], i)]
  <2>3. ASSUME NEW i \in 0 .. m + 1 PROVE f[i] = r[i]
    <3>1. CASE i = 0
      <4>1. f[i] = h[0] /\ h[0] = E
        BY <2>2, <3>1
      <4> QED BY <3>1, <4>1
    <3>2. CASE i # 0 /\ i <= m
      <4>1. f[i] = h[i] /\ i - 1 \in 0 .. m + 1 /\ i - 1 <= m /\ i \in 0 .. m
        BY <3>2
      <4>2. f[i - 1] = h[i - 1]
        BY <4>1
      <4>3. h[i] = Upshot(h[i - 1], i)
        BY <2>2, <3>2, <4>1
      <4> QED BY <3>2, <4>1, <4>2, <4>3
    <3>3. CASE i = m + 1
      <4>1. f[i] = Upshot(h[m], m + 1) /\ m \in 0 .. m + 1 /\ i - 1 = m
        BY <3>3
      <4>2. f[i - 1] = h[m]
        BY <4>1
      <4> QED BY <3>3, <4>1, <4>2
    <3> QED BY <3>1, <3>2, <3>3
  <2>4. f = r
    BY <2>3
  <2> HIDE DEF f
  <2>5. FedSoFar(E, packets, m + 1, f)
    BY <2>4 DEF FedSoFar, Upshot
  <2> QED BY <2>5
<1> HIDE DEF S
<1>3. n \in S
  BY <1>1, <1>2, SetInduction
<1> QED BY <1>3 DEF S

(* The packets of a datagram. *)
LEMMA AllFed ==
    ASSUME NEW E, Local(E), NEW g, Heard(E, g), E.role \in Endpoints, config \in Configs,
           NEW packets, DatagramOK(Peer(E.role), g, packets)
    PROVE  Receives(E, g, FeedPackets(E, packets))
<1> DEFINE n == Len(packets)
           h == CHOOSE f : FedSoFar(E, packets, n, f)
<1>1. n \in Nat /\ \A i \in 1 .. n : PacketOK(Peer(E.role), g, packets[i])
  <2>1. packets \in Seq(ToSet(packets))
    BY DEF DatagramOK, Listed
  <2>2. n \in Nat /\ \A i \in 1 .. n : packets[i] \in ToSet(packets)
    BY <2>1
  <2> QED BY <2>2 DEF DatagramOK
<1>2. FeedPackets(E, packets) = h[n]
  BY DEF FeedPackets, FedSoFar
<1> HIDE DEF n
<1>3. FedSoFar(E, packets, n, h)
  BY <1>1, FeedExists
<1> HIDE DEF h
<1>4. h[0] = E
  BY <1>1, <1>3 DEF FedSoFar
<1>5. ASSUME NEW i \in 1 .. n
      PROVE  h[i] = drain_engine_outputs(feed_one_packet(h[i - 1], packets[i]))
  BY <1>1, <1>3 DEF FedSoFar
<1> DEFINE S == {i \in Nat : i <= n => Receives(E, g, h[i])}
<1>6. 0 \in S
  BY <1>4 DEF Receives, Advances
<1>7. ASSUME NEW i \in Nat, i \in S PROVE i + 1 \in S
  <2> SUFFICES ASSUME i + 1 <= n PROVE Receives(E, g, h[i + 1])
    OBVIOUS
  <2> DEFINE A == h[i]
             B == feed_one_packet(A, packets[i + 1])
             C == drain_engine_outputs(B)
  <2>1. i + 1 \in 1 .. n /\ (i + 1) - 1 = i /\ i <= n
    BY <1>1
  <2>2. h[i + 1] = C
    BY <1>5, <2>1
  <2>3. Receives(E, g, A)
    BY <1>7, <2>1
  <2> HIDE DEF A
  <2>4. Local(A) /\ Heard(A, g) /\ A.role = E.role
    BY <2>3 DEF Receives, Advances
  <2>5. PacketOK(Peer(A.role), g, packets[i + 1])
    BY <1>1, <2>1, <2>4
  <2>6. Receives(A, g, B)
    BY <2>4, <2>5, Fed
  <2> HIDE DEF B
  <2>7. Local(B) /\ Heard(B, g) /\ B.role = E.role
    BY <2>4, <2>6 DEF Receives, Advances
  <2>8. Receives(B, g, C)
    BY <2>7, Drains
  <2> HIDE DEF C
  <2>9. Receives(E, g, B)
    BY <2>3, <2>6, ReceivesTwice
  <2> QED BY <2>2, <2>8, <2>9, ReceivesTwice
<1> HIDE DEF S
<1>8. n \in S
  BY <1>1, <1>6, <1>7, SetInduction
<1>9. Receives(E, g, h[n])
  BY <1>1, <1>8 DEF S
<1> QED BY <1>2, <1>9

(* A whole datagram; the timer is looked at last. *)
LEMMA DatagramFed ==
    ASSUME NEW E, Local(E), NEW g, Heard(E, g), E.role \in Endpoints, config \in Configs,
           NEW packets, DatagramOK(Peer(E.role), g, packets), NEW n
    PROVE  LET F == feed_datagram(E, packets, n) IN Receives(E, g, F) /\ Current(F)
<1> DEFINE A == note_recv(E, n)
           B == FeedPackets(A, packets)
           C == check_handshake_complete(B)
           F == refresh_loss_timer(C)
<1>1. F = feed_datagram(E, packets, n)
  BY DEF feed_datagram
<1>2. Receives(E, g, A)
  <2>1. Shape(E)
    BY DEF Local
  <2>2. Shape(A) /\ Same(E, A)
    BY <2>1 DEF Shape, Same, Fields, note_recv
  <2> HIDE DEF A
  <2> QED BY <2>2, SameReceives
<1> HIDE DEF A
<1>3. Local(A) /\ Heard(A, g) /\ A.role = E.role
  BY <1>2 DEF Receives, Advances
<1>4. Receives(A, g, B)
  BY <1>3, AllFed
<1> HIDE DEF B
<1>5. Local(B) /\ Heard(B, g) /\ B.role = E.role
  BY <1>3, <1>4 DEF Receives, Advances
<1>6. Receives(B, g, C)
  BY <1>5, Completes
<1> HIDE DEF C
<1>7. Local(C) /\ Heard(C, g) /\ Shape(C)
  BY <1>6 DEF Receives, Local
<1>8. Shape(F) /\ Same(C, F) /\ Current(F)
  BY <1>7, Refresh
<1> HIDE DEF F
<1>9. Receives(C, g, F)
  BY <1>7, <1>8, SameReceives
<1>10. Receives(E, g, B)
  BY <1>2, <1>4, ReceivesTwice
<1>11. Receives(E, g, C)
  BY <1>6, <1>10, ReceivesTwice
<1>12. Receives(E, g, F)
  BY <1>9, <1>11, ReceivesTwice
<1> QED BY <1>1, <1>8, <1>12

-----------------------------------------------------------------------------
(* Steps.                                                                  *)

(* What the invariant says of one endpoint. *)
LEMMA LocalNext ==
    ASSUME config' = config, NEW e \in Endpoints, Local(ep'[e])
    PROVE  Local(ep[e])'
<1>1. FramesKept(ep[e])'
  BY DEF Local, FramesKept
<1>2. Shape(ep[e])'
  BY DEF Local
<1>3. RecoveryOK(ep[e])'
  BY DEF Local
<1>4. EngineOK(ep[e])'
  BY DEF Local
<1> QED BY <1>1, <1>2, <1>3, <1>4 DEF Local

(* A packet says no more of an engine that has gone further. *)
LEMMA StillOK ==
    ASSUME NEW E, NEW F, Advances(E, F), NEW d, DatagramOK(E.role, E.engine, d)
    PROVE  DatagramOK(F.role, F.engine, d)
<1>1. ASSUME NEW p, PacketOK(E.role, E.engine, p) PROVE PacketOK(F.role, F.engine, p)
  BY <1>1 DEF PacketOK, Advances
<1> QED BY <1>1 DEF DatagramOK

(* Nor does what was heard of it. *)
LEMMA StillHeard ==
    ASSUME NEW E, NEW F, Advances(E, F), NEW P, Heard(P, E.engine)
    PROVE  Heard(P, F.engine)
BY DEF Heard, Advances

(* A step of one endpoint: it turns into F, and its datagrams are new at   *)
(* most. *)
LEMMA EndpointStep ==
    ASSUME IInv, config' = config, NEW e \in Endpoints, NEW F,
           ep' = [ep EXCEPT ![e] = F],
           Receives(ep[e], ep[Peer(e)].engine, F),
           F.sent_first_datagram => Current(F),
           DOMAIN net' = Endpoints,
           \A k \in Endpoints :
              /\ Listed(net'[k])
              /\ \A d \in ToSet(net'[k]) :
                    d \in ToSet(net[k]) \/ (k = Peer(e) /\ DatagramOK(e, ep[e].engine, d))
    PROVE  IInv'
<1> DEFINE o == Peer(e)
<1>1. o \in Endpoints /\ o # e /\ Peer(o) = e /\ Endpoints = {e, o}
  BY DEF Peer, Endpoints
<1> HIDE DEF o
<1>2. ep'[e] = F /\ ep'[o] = ep[o] /\ ep' = [k \in Endpoints |-> ep'[k]]
  <2>1. DOMAIN ep = Endpoints
    BY DEF IInv
  <2> QED BY <1>1, <2>1
<1>3. /\ Local(F) /\ Heard(F, ep[o].engine) /\ Advances(ep[e], F)
      /\ F.role = e /\ ep[e].role = e /\ ep[o].role = o
  BY <1>1 DEF IInv, Receives, Advances, o
<1>4. \A k \in Endpoints :
          Local(ep[k]) /\ Heard(ep[k], ep[Peer(k)].engine)
          /\ (ep[k].sent_first_datagram => Current(ep[k]))
          /\ \A d \in ToSet(net[k]) : DatagramOK(Peer(k), ep[Peer(k)].engine, d)
  BY DEF IInv, Current
<1>5. Local(ep[e])' /\ Local(ep[o])'
  BY <1>1, <1>2, <1>3, <1>4, LocalNext
<1>6. Heard(ep'[o], ep'[e].engine) /\ Heard(ep'[e], ep'[o].engine)
  BY <1>1, <1>2, <1>3, <1>4, StillHeard
<1>7. /\ ep'[e].sent_first_datagram => Current(ep'[e])
      /\ ep'[o].sent_first_datagram => Current(ep'[o])
  BY <1>1, <1>2, <1>4
<1>8. ASSUME NEW d \in ToSet(net'[o]) PROVE DatagramOK(e, ep'[e].engine, d)
  <2>1. DatagramOK(ep[e].role, ep[e].engine, d)
    BY <1>1, <1>3, <1>4, <1>8
  <2> QED BY <1>2, <1>3, <2>1, StillOK
<1>9. ASSUME NEW d \in ToSet(net'[e]) PROVE DatagramOK(o, ep'[o].engine, d)
  BY <1>1, <1>2, <1>4, <1>9 DEF o
<1>10. config' \in Configs
  BY DEF IInv
<1>11. ASSUME NEW k \in Endpoints
       PROVE  /\ Local(ep[k])' /\ ep'[k].role = k
              /\ Heard(ep'[k], ep'[Peer(k)].engine)
              /\ ep'[k].sent_first_datagram => Current(ep'[k])
              /\ Listed(net'[k])
              /\ \A d \in ToSet(net'[k]) : DatagramOK(Peer(k), ep'[Peer(k)].engine, d)
  <2>1. CASE k = e
    <3>1. Peer(k) = o
      BY <2>1 DEF o
    <3> QED BY <1>2, <1>3, <1>5, <1>6, <1>7, <1>9, <2>1, <3>1
  <2>2. CASE k = o
    <3>1. Peer(k) = e
      BY <1>1, <2>2
    <3> QED BY <1>1, <1>2, <1>3, <1>5, <1>6, <1>7, <1>8, <2>2, <3>1
  <2> QED BY <1>1, <2>1, <2>2
<1> QED BY <1>2, <1>10, <1>11 DEF IInv, Current

(* Where an endpoint stands. *)
LEMMA Stands ==
    ASSUME IInv, NEW e \in Endpoints
    PROVE  /\ Local(ep[e]) /\ Shape(ep[e]) /\ ep[e].role = e /\ ep[e].role \in Endpoints
           /\ Heard(ep[e], ep[Peer(e)].engine)
           /\ ep[e].sent_first_datagram => Current(ep[e])
           /\ config \in Configs /\ DOMAIN net = Endpoints /\ Peer(e) \in Endpoints
           /\ \A k \in Endpoints : Listed(net[k])
           /\ \A d \in ToSet(net[e]) : DatagramOK(Peer(e), ep[Peer(e)].engine, d)
<1>1. Peer(e) \in Endpoints
  BY DEF Peer, Endpoints
<1>2. /\ Local(ep[e]) /\ ep[e].role = e /\ Heard(ep[e], ep[Peer(e)].engine)
      /\ config \in Configs /\ DOMAIN net = Endpoints
      /\ \A k \in Endpoints : Listed(net[k])
      /\ \A d \in ToSet(net[e]) : DatagramOK(Peer(e), ep[Peer(e)].engine, d)
  BY DEF IInv
<1>3. ep[e].sent_first_datagram => Current(ep[e])
  BY DEF IInv, Current
<1> QED BY <1>1, <1>2, <1>3 DEF Local

(* A step of one endpoint that leaves the network alone. *)
LEMMA QuietStep ==
    ASSUME IInv, NEW e \in Endpoints, NEW F, ep' = [ep EXCEPT ![e] = F],
           config' = config, net' = net, Local(F), NoNews(ep[e], F),
           F.sent_first_datagram => Current(F)
    PROVE  IInv'
<1>1. Receives(ep[e], ep[Peer(e)].engine, F)
  BY Stands, QuietReceives
<1>2. DOMAIN net' = Endpoints /\ \A k \in Endpoints : Listed(net'[k])
  BY Stands
<1> QED BY <1>1, <1>2, EndpointStep

(* A datagram is sent, or built and thrown away. *)
LEMMA SendStep ==
    ASSUME IInv, NEW e \in Endpoints, Send(e)
    PROVE  IInv'
<1> DEFINE E == ep[e]
           D == pop_datagram_inner(E)
           n == Size(e, D.packets)
           o == Peer(e)
<1>1. Draft(E, D)
  BY Stands, Popped
<1>2. /\ D.packets # << >> /\ config' = config
      /\ \/ /\ net' = [net EXCEPT ![o] = Append(net[o], D.packets)]
            /\ ep' = [ep EXCEPT ![e] = refresh_loss_timer(
                         [D.E EXCEPT !.bytes_sent = IF D.E.validated THEN @ ELSE @ + n,
                                     !.sent_first_datagram = TRUE])]
         \/ /\ ep' = [ep EXCEPT ![e] = [D.E EXCEPT !.new_cids_issued = E.new_cids_issued]]
            /\ net' = net
  BY DEF Send
<1>0. o \in Endpoints
  BY Stands
<1> HIDE DEF E, D, n, o
<1>3. /\ Local(D.E) /\ Shape(D.E) /\ NoNews(E, D.E) /\ InSync(D.E)
      /\ DatagramOK(e, E.engine, D.packets) /\ D.E.timer = TimerPurpose(D.E)
  BY <1>1, <1>2, Stands DEF Draft, Local, E
<1>4. CASE /\ net' = [net EXCEPT ![o] = Append(net[o], D.packets)]
           /\ ep' = [ep EXCEPT ![e] = refresh_loss_timer(
                        [D.E EXCEPT !.bytes_sent = IF D.E.validated THEN @ ELSE @ + n,
                                    !.sent_first_datagram = TRUE])]
  <2> DEFINE A == [D.E EXCEPT !.bytes_sent = IF D.E.validated THEN @ ELSE @ + n,
                              !.sent_first_datagram = TRUE]
             F == refresh_loss_timer(A)
  <2>1. Shape(A) /\ Same(D.E, A)
    BY <1>3 DEF Shape, Same, Fields
  <2>2. ep' = [ep EXCEPT ![e] = F]
    BY <1>4
  <2> HIDE DEF A
  <2>3. Shape(F) /\ Same(A, F) /\ Current(F)
    BY <2>1, Refresh
  <2> HIDE DEF F
  <2>4. Local(A)
    BY <1>3, <2>1, SameLocal
  <2>5. Local(F)
    BY <2>3, <2>4, SameLocal
  <2>6. NoNews(E, F)
    BY <1>3, <2>1, <2>3 DEF NoNews, Same
  <2>7. Receives(E, ep[o].engine, F)
    BY <2>5, <2>6, Stands, QuietReceives DEF E, o
  <2>8. Listed(Append(net[o], D.packets))
        /\ ToSet(Append(net[o], D.packets)) = ToSet(net[o]) \cup {D.packets}
    BY <1>0, Stands, ListedAppend
  <2>9. DOMAIN net' = Endpoints
    BY <1>4, Stands
  <2>10. ASSUME NEW k \in Endpoints
         PROVE  /\ Listed(net'[k])
                /\ \A d \in ToSet(net'[k]) :
                      d \in ToSet(net[k]) \/ (k = o /\ DatagramOK(e, E.engine, d))
    <3>1. CASE k = o
      <4>1. net'[k] = Append(net[o], D.packets)
        BY <1>0, <1>4, <3>1, Stands
      <4> QED BY <1>3, <2>8, <3>1, <4>1
    <3>2. CASE k # o
      <4>1. net'[k] = net[k]
        BY <1>4, <3>2, Stands
      <4> QED BY <4>1, Stands
    <3> QED BY <3>1, <3>2
  <2> QED BY <1>2, <2>2, <2>3, <2>7, <2>9, <2>10, EndpointStep DEF E, o
<1>5. CASE /\ ep' = [ep EXCEPT ![e] = [D.E EXCEPT !.new_cids_issued = E.new_cids_issued]]
           /\ net' = net
  <2> DEFINE F == [D.E EXCEPT !.new_cids_issued = E.new_cids_issued]
  <2>1. /\ Shape(F) /\ Same(D.E, F) /\ F.ctx = D.E.ctx /\ F.timer = D.E.timer
        /\ SameFacts(D.E, F)
    BY <1>3 DEF Shape, Same, Fields, SameFacts
  <2>2. ep' = [ep EXCEPT ![e] = F]
    BY <1>5
  <2> HIDE DEF F
  <2>3. Local(F)
    BY <1>3, <2>1, SameLocal
  <2>4. NoNews(E, F)
    BY <1>3, <2>1 DEF NoNews, Same
  <2>5. InSync(F)
    BY <1>3, <2>1, StaysInSync
  <2>6. F.timer = TimerPurpose(F)
    BY <1>3, <2>1, PurposeDepends DEF Same
  <2>7. Current(F)
    BY <2>1, <2>5, <2>6, SyncedTimer
  <2> QED BY <1>2, <1>5, <2>2, <2>3, <2>4, <2>7, QuietStep DEF E
<1> QED BY <1>2, <1>4, <1>5

(* A datagram leaves the network. *)
LEMMA Taken ==
    ASSUME IInv, NEW e \in Endpoints, NEW i \in 1 .. Len(net[e]),
           net' = [net EXCEPT ![e] = RemoveAt(net[e], i)]
    PROVE  /\ DOMAIN net' = Endpoints
           /\ \A k \in Endpoints : Listed(net'[k]) /\ ToSet(net'[k]) \subseteq ToSet(net[k])
           /\ net[e][i] \in ToSet(net[e])
<1>1. Listed(RemoveAt(net[e], i)) /\ ToSet(RemoveAt(net[e], i)) \subseteq ToSet(net[e])
  BY Stands, ListedRemove
<1>2. DOMAIN net' = Endpoints
  BY Stands
<1>3. ASSUME NEW k \in Endpoints
      PROVE  Listed(net'[k]) /\ ToSet(net'[k]) \subseteq ToSet(net[k])
  <2>1. net'[k] = IF k = e THEN RemoveAt(net[e], i) ELSE net[k]
    BY Stands
  <2> QED BY <1>1, <2>1, Stands
<1>4. net[e][i] \in ToSet(net[e])
  <2>1. net[e] \in Seq(ToSet(net[e]))
    BY Stands DEF Listed
  <2> QED BY <2>1
<1> QED BY <1>2, <1>3, <1>4

(* A datagram arrives. *)
LEMMA DeliverStep ==
    ASSUME IInv, NEW e \in Endpoints, NEW i \in 1 .. Len(net[e]), Deliver(e, i)
    PROVE  IInv'
<1> DEFINE d == net[e][i]
           F == feed_datagram(ep[e], d, Size(Peer(e), d))
<1>1. /\ ep' = [ep EXCEPT ![e] = F] /\ net' = [net EXCEPT ![e] = RemoveAt(net[e], i)]
      /\ config' = config
  BY DEF Deliver
<1>2. DatagramOK(Peer(ep[e].role), ep[Peer(e)].engine, d)
  BY <1>1, Taken, Stands
<1>3. Receives(ep[e], ep[Peer(e)].engine, F) /\ Current(F)
  BY <1>2, Stands, DatagramFed
<1> HIDE DEF F
<1> QED BY <1>1, <1>3, Taken, EndpointStep

(* A datagram is lost. *)
LEMMA DropStep ==
    ASSUME IInv, NEW e \in Endpoints, NEW i \in 1 .. Len(net[e]), Drop(e, i)
    PROVE  IInv'
<1>1. ep' = ep /\ net' = [net EXCEPT ![e] = RemoveAt(net[e], i)] /\ config' = config
  BY DEF Drop
<1>2. ep' = [ep EXCEPT ![e] = ep[e]]
  <2>1. ep = [k \in Endpoints |-> ep[k]]
    BY DEF IInv
  <2>2. [ep EXCEPT ![e] = ep[e]] = [k \in Endpoints |-> ep[k]]
    BY <2>1
  <2> QED BY <1>1, <2>1, <2>2
<1>3. Receives(ep[e], ep[Peer(e)].engine, ep[e])
  BY Stands DEF Receives, Advances
<1> QED BY <1>1, <1>2, <1>3, Taken, Stands, EndpointStep

(* The delay of an acknowledgement runs out. *)
LEMMA AckDelayStep ==
    ASSUME IInv, NEW e \in Endpoints, AckDelay(e)
    PROVE  IInv'
<1> DEFINE E == ep[e]
           F == [E EXCEPT !.pn["A"].due = TRUE]
           PnFields == {"next", "largest_rx", "pending", "due", "eliciting"}
<1>1. ep' = [ep EXCEPT ![e] = F] /\ net' = net /\ config' = config
  BY DEF AckDelay
<1>2. /\ Local(E) /\ Shape(E) /\ RecoveryOK(E) /\ FramesKept(E) /\ EngineOK(E)
      /\ E.sent_first_datagram => Current(E)
  BY Stands DEF Local
<1> HIDE DEF E
<1>3. /\ DOMAIN E = Fields /\ DOMAIN E.pn = Spaces /\ "A" \in Spaces
      /\ \A s \in Spaces : DOMAIN E.pn[s] = PnFields
  BY <1>2 DEF Shape, Spaces
<1>4. /\ DOMAIN F = Fields
      /\ F.role = E.role /\ F.tx = E.tx /\ F.engine = E.engine
      /\ F.complete = E.complete /\ F.confirmed = E.confirmed
      /\ F.bufs = E.bufs /\ F.loss = E.loss /\ F.in_flight = E.in_flight
      /\ F.handshake_done_pending = E.handshake_done_pending
      /\ F.handshake_done_acked = E.handshake_done_acked
      /\ F.data_pending = E.data_pending /\ F.data_acked = E.data_acked
      /\ F.ctx = E.ctx /\ F.timer = E.timer /\ F.sent_first_datagram = E.sent_first_datagram
      /\ F.validated = E.validated /\ F.bytes_sent = E.bytes_sent
      /\ F.bytes_recv = E.bytes_recv
  BY <1>3 DEF Fields
<1>5. F.pn = [E.pn EXCEPT !["A"].due = TRUE]
  BY <1>3 DEF Fields
<1> HIDE DEF F
<1>6. /\ DOMAIN F.pn = Spaces
      /\ \A s \in Spaces : F.pn[s].next = E.pn[s].next /\ DOMAIN F.pn[s] = PnFields
  BY <1>3, <1>5
<1>7. Shape(F)
  BY <1>2, <1>4, <1>6 DEF Shape
<1>8. RecoveryOK(F)
  BY <1>2, <1>4, <1>6 DEF RecoveryOK
<1>9. FramesKept(F)
  BY <1>2, <1>4 DEF FramesKept
<1>10. EngineOK(F)
  BY <1>2, <1>4 DEF EngineOK
<1>11. NoNews(E, F)
  BY <1>4 DEF NoNews
<1>12. sync_loss_context(F).ctx = sync_loss_context(E).ctx
       /\ sync_loss_context(F).loss = sync_loss_context(E).loss
       /\ sync_loss_context(F).role = sync_loss_context(E).role
  <2>1. sync_loss_context(E).ctx =
            [E.ctx EXCEPT !.handshake_confirmed = E.confirmed,
                          !.has_handshake_keys = "H" \in E.tx,
                          !.at_amplification_limit = E.role = "s" /\ ~can_send(E, 1)]
    BY <1>3 DEF sync_loss_context, Fields
  <2>2. sync_loss_context(F).ctx =
            [F.ctx EXCEPT !.handshake_confirmed = F.confirmed,
                          !.has_handshake_keys = "H" \in F.tx,
                          !.at_amplification_limit = F.role = "s" /\ ~can_send(F, 1)]
    BY <1>4 DEF sync_loss_context, Fields
  <2>3. can_send(F, 1) = can_send(E, 1)
    BY <1>4 DEF can_send
  <2>4. sync_loss_context(F).ctx = sync_loss_context(E).ctx
    BY <1>4, <2>1, <2>2, <2>3
  <2> QED BY <1>2, <1>4, <1>7, <2>4, Sync DEF Same
<1>13. TimerPurpose(sync_loss_context(F)) = TimerPurpose(sync_loss_context(E))
  BY <1>12, PurposeDepends
<1>14. F.sent_first_datagram => Current(F)
  BY <1>2, <1>4, <1>13 DEF Current
<1>15. Local(F)
  BY <1>7, <1>8, <1>9, <1>10 DEF Local
<1> QED BY <1>1, <1>11, <1>14, <1>15, QuietStep DEF E

(* An endpoint whose context is up to date, and what its timers do to it. *)
LEMMA TimerStep ==
    ASSUME IInv, NEW e \in Endpoints, NEW F, config' = config, net' = net,
           ep' = [ep EXCEPT ![e] = F], Local(F),
           NoNews(sync_loss_context(ep[e]), F), SameFacts(sync_loss_context(ep[e]), F),
           F.timer = TimerPurpose(F)
    PROVE  IInv'
<1> DEFINE S == sync_loss_context(ep[e])
<1>1. Same(ep[e], S) /\ InSync(S)
  BY Stands, Sync
<1>2. Shape(F)
  BY DEF Local
<1> HIDE DEF S
<1>3. NoNews(ep[e], F)
  BY <1>1 DEF NoNews, Same, S
<1>4. InSync(F)
  BY <1>1, StaysInSync DEF S
<1>5. Current(F)
  BY <1>2, <1>4, SyncedTimer
<1> QED BY <1>3, <1>5, QuietStep

(* The loss timer. *)
LEMMA LossTimeoutStep ==
    ASSUME IInv, NEW e \in Endpoints, config' = config, net' = net, LossTimeout(e)
    PROVE  IInv'
<1> DEFINE S == sync_loss_context(ep[e])
<1>0. PICK s \in Spaces :
          \E p \in S.loss[s].sent : ep' = [ep EXCEPT ![e] = detect_lost_on_timer(S, s, p.pn)]
  BY DEF LossTimeout
<1>1. PICK p \in S.loss[s].sent : ep' = [ep EXCEPT ![e] = detect_lost_on_timer(S, s, p.pn)]
  BY <1>0
<1>2. Local(S)
  BY Stands, Sync, SameLocal
<1> DEFINE F == detect_lost_on_timer(S, s, p.pn)
<1> HIDE DEF S
<1>3. Local(F) /\ NoNews(S, F) /\ SameFacts(S, F) /\ F.timer = TimerPurpose(F)
  BY <1>2, LossTimer
<1>4. ep' = [ep EXCEPT ![e] = F]
  BY <1>1
<1> HIDE DEF F
<1> QED BY <1>3, <1>4, TimerStep DEF S

(* The probe timer. *)
LEMMA PtoTimeoutStep ==
    ASSUME IInv, NEW e \in Endpoints, config' = config, net' = net, PtoTimeout(e)
    PROVE  IInv'
<1> DEFINE S == sync_loss_context(ep[e])
<1>1. PICK s \in pto_time_and_space(S) : ep' = [ep EXCEPT ![e] = on_pto(S, s)]
  BY DEF PtoTimeout
<1>2. Local(S)
  BY Stands, Sync, SameLocal
<1> DEFINE F == on_pto(S, s)
<1> HIDE DEF S
<1>3. s \in Spaces
  BY <1>1 DEF pto_time_and_space, Spaces
<1>4. Local(F) /\ NoNews(S, F) /\ SameFacts(S, F) /\ F.timer = TimerPurpose(F)
  BY <1>2, <1>3, ProbeTimeout
<1>5. ep' = [ep EXCEPT ![e] = F]
  BY <1>1
<1> HIDE DEF F
<1> QED BY <1>4, <1>5, TimerStep DEF S

(* Every step keeps the invariant. *)
LEMMA NextKeeps == IInv /\ [Next]_vars => IInv'
<1> SUFFICES ASSUME IInv, [Next]_vars PROVE IInv'
  OBVIOUS
<1>1. CASE Progress
  <2>1. PICK e \in Endpoints :
            \/ Send(e)
            \/ net[e] # << >> /\ Deliver(e, 1)
            \/ AckDelay(e)
            \/ Expire(e)
    BY <1>1 DEF Progress
  <2>2. CASE Send(e)
    BY <2>2, SendStep
  <2>3. CASE net[e] # << >> /\ Deliver(e, 1)
    <3>1. net[e] \in Seq(ToSet(net[e]))
      BY Stands DEF Listed
    <3>2. 1 \in 1 .. Len(net[e])
      BY <2>3, <3>1
    <3> QED BY <2>3, <3>2, DeliverStep
  <2>4. CASE AckDelay(e)
    BY <2>4, AckDelayStep
  <2>5. CASE Expire(e)
    BY <2>5, LossTimeoutStep, PtoTimeoutStep DEF Expire
  <2> QED BY <2>1, <2>2, <2>3, <2>4, <2>5
<1>2. CASE Interference
  <2>1. PICK e \in Endpoints :
            \/ \E i \in 2 .. Len(net[e]) : Deliver(e, i)
            \/ \E i \in 1 .. Len(net[e]) : Drop(e, i)
            \/ ExpireEarly(e)
    BY <1>2 DEF Interference
  <2>0. Len(net[e]) \in Nat
    <3>1. net[e] \in Seq(ToSet(net[e]))
      BY Stands DEF Listed
    <3> QED BY <3>1
  <2>2. CASE \E i \in 2 .. Len(net[e]) : Deliver(e, i)
    <3>1. PICK i \in 2 .. Len(net[e]) : Deliver(e, i)
      BY <2>2
    <3>2. i \in 1 .. Len(net[e])
      BY <2>0
    <3> QED BY <3>1, <3>2, DeliverStep
  <2>3. CASE \E i \in 1 .. Len(net[e]) : Drop(e, i)
    BY <2>3, DropStep
  <2>4. CASE ExpireEarly(e)
    BY <2>4, LossTimeoutStep, PtoTimeoutStep DEF ExpireEarly
  <2> QED BY <2>1, <2>2, <2>3, <2>4
<1>3. CASE UNCHANGED vars
  <2>1. config' = config /\ ep' = ep /\ net' = net
    BY <1>3 DEF vars
  <2>2. ASSUME NEW e \in Endpoints PROVE Local(ep[e])'
    BY <2>1, Stands, LocalNext
  <2> QED BY <2>1, <2>2 DEF IInv
<1> QED BY <1>1, <1>2, <1>3 DEF Next

(* A new connection. *)
LEMMA NewConnectionOK ==
    ASSUME NEW e \in Endpoints, config \in Configs, NEW g
    PROVE  LET E == NewConnection(e, config)
           IN  /\ Local(E) /\ E.role = e /\ Heard(E, g) /\ ~E.sent_first_datagram
<1> DEFINE E == NewConnection(e, config)
<1>1. /\ DOMAIN E = Fields
      /\ E.role = e /\ "I" \in E.tx /\ "H" \notin E.tx /\ E.engine = "hello"
      /\ E.complete = FALSE /\ E.confirmed = FALSE /\ E.in_flight = 0
      /\ E.handshake_done_pending = FALSE /\ E.data_pending = (e \in config.data)
      /\ E.sent_first_datagram = FALSE /\ E.ctx = NewContext
      /\ E.loss = [s \in Spaces |-> NewPerSpace] /\ E.pn = [s \in Spaces |-> NewPnSpace]
  BY DEF NewConnection, Fields
<1>2. E.bufs = [l \in CryptoLevels |->
                   IF e = "c" /\ l = "I"
                   THEN [NewCryptoBuf EXCEPT !.fresh = Units(config.hello)]
                   ELSE NewCryptoBuf]
  BY DEF NewConnection, CryptoLevels
<1> HIDE DEF E
<1>3. Units(config.hello) \in Seq(Nat)
  <2>1. config.hello \in Nat
    BY ConfigsAssumption
  <2> DEFINE n == config.hello
             u == [i \in 1 .. n |-> i]
  <2> HIDE DEF n
  <2>2. n \in Nat
    BY <2>1 DEF n
  <2>3. u \in [1 .. n -> Nat]
    BY <2>2
  <2> HIDE DEF u
  <2>4. u \in Seq(Nat)
    BY <2>2, <2>3
  <2> QED BY <2>4 DEF Units, u, n
<1> DEFINE v == Units(config.hello)
<1> HIDE DEF v
<1>4. /\ DOMAIN E.bufs = CryptoLevels
      /\ \A l \in CryptoLevels :
            /\ DOMAIN E.bufs[l] = {"fresh", "rtx", "history", "got"}
            /\ E.bufs[l].rtx = << >> /\ E.bufs[l].history = {} /\ E.bufs[l].got = {}
            /\ (E.bufs[l].fresh = << >> \/ (e = "c" /\ l = "I" /\ E.bufs[l].fresh = v))
  BY <1>2 DEF NewCryptoBuf, v
<1>5. Shape(E)
  <2>1. DOMAIN E.ctx = CtxFields
    BY <1>1 DEF NewContext, CtxFields
  <2>2. /\ DOMAIN E.loss = Spaces
        /\ \A s \in Spaces : DOMAIN E.loss[s] = {"sent", "largest_acked", "loss_time"}
    BY <1>1 DEF NewPerSpace
  <2>3. /\ DOMAIN E.pn = Spaces
        /\ \A s \in Spaces :
              DOMAIN E.pn[s] = {"next", "largest_rx", "pending", "due", "eliciting"}
    BY <1>1 DEF NewPnSpace
  <2> QED BY <1>1, <1>4, <2>1, <2>2, <2>3 DEF Shape
<1>6. \A s \in Spaces : E.loss[s].sent = {} /\ E.pn[s].next = 0
  BY <1>1 DEF NewPerSpace, NewPnSpace
<1>7. RecoveryOK(E)
  <2>1. IsFiniteSet({}) /\ Cardinality({}) = 0
    BY FS_EmptySet
  <2>2. ASSUME NEW s \in Spaces PROVE Tracked(E.loss[s], E.pn[s].next)
    <3>1. E.loss[s].sent = {} /\ E.pn[s].next = 0
      BY <1>6
    <3>2. IsFiniteSet(E.loss[s].sent)
      BY <2>1, <3>1, Zenon
    <3> QED BY <3>1, <3>2 DEF Tracked
  <2>3. ASSUME NEW l \in CryptoLevels PROVE CryptoKept(E.bufs[l], E.loss[l])
    <3>1. << >> \in Seq(Nat) /\ v \in Seq(Nat)
      BY <1>3 DEF v
    <3> QED BY <1>4, <3>1 DEF CryptoKept
  <2>4. E.in_flight = Count(E.loss)
    BY <1>1, <1>6, <2>1 DEF Count, Spaces
  <2> QED BY <2>2, <2>3, <2>4 DEF RecoveryOK
<1>8. FramesKept(E)
  BY <1>1 DEF FramesKept
<1>9. EngineOK(E)
  <2>1. e = "s" => \A l \in CryptoLevels : Silent(E.bufs[l])
    BY <1>4 DEF Silent
  <2>2. Silent(E.bufs["H"])
    BY <1>4 DEF Silent, CryptoLevels
  <2> QED BY <1>1, <1>6, <2>1, <2>2 DEF EngineOK
<1>10. Heard(E, g)
  BY <1>1, <1>4 DEF Heard, CryptoLevels
<1> QED BY <1>1, <1>5, <1>7, <1>8, <1>9, <1>10 DEF Local, E

(* The invariant holds at first ... *)
LEMMA InitIInv == Init => IInv
<1> SUFFICES ASSUME Init PROVE IInv
  OBVIOUS
<1>1. /\ config \in Configs /\ ep = [e \in Endpoints |-> NewConnection(e, config)]
      /\ net = [e \in Endpoints |-> << >>]
  BY DEF Init
<1>2. Listed(<< >>) /\ ToSet(<< >>) = {}
  BY DEF Listed, ToSet
<1>3. ASSUME NEW e \in Endpoints
      PROVE  /\ Local(ep[e]) /\ ep[e].role = e /\ Heard(ep[e], ep[Peer(e)].engine)
             /\ ~ep[e].sent_first_datagram /\ Listed(net[e]) /\ ToSet(net[e]) = {}
  <2>1. ep[e] = NewConnection(e, config) /\ net[e] = << >>
    BY <1>1
  <2> QED BY <1>1, <1>2, <2>1, NewConnectionOK
<1> QED BY <1>1, <1>3 DEF IInv

(* ... and always. *)
THEOREM Inductive == Spec => []IInv
BY InitIInv, NextKeeps, PTL DEF Spec

(* The congestion controller's count is exact (InFlightCounted): whatever  *)
(* is acknowledged, lost or discarded leaves on_packet_sent's count.       *)
THEOREM CountedExactly == Spec => []InFlightCounted
<1>1. IInv => InFlightCounted
  BY DEF IInv, Local, RecoveryOK, Count, InFlightCounted
<1> QED BY <1>1, Inductive, PTL

(* What was sent and not acknowledged is queued or can be declared lost    *)
(* (NothingLost): requeue_from_hint, note_handshake_done_fate and the      *)
(* stream layer forget nothing.                                            *)
THEOREM KeptUntilAcked == Spec => []NothingLost
<1>1. ASSUME IInv PROVE NothingLost
  <2>1. ASSUME NEW e \in Endpoints
        PROVE  /\ RecoveryOK(ep[e]) /\ FramesKept(ep[e]) /\ ep[e].role = e
               /\ \A l \in CryptoLevels : CryptoKept(ep[e].bufs[l], ep[e].loss[l])
    BY <1>1, Stands DEF Local, RecoveryOK
  <2>2. ASSUME NEW e \in Endpoints, NEW l \in {"I", "H"}, NEW u \in ep[e].bufs[l].history
        PROVE  u \in ToSet(ep[e].bufs[l].rtx) \/ \E p \in ep[e].loss[l].sent : p.crypto = u
    <3>1. l \in CryptoLevels
      BY <2>2 DEF CryptoLevels
    <3>2. CryptoKept(ep[e].bufs[l], ep[e].loss[l])
      BY <2>1, <3>1
    <3> QED BY <2>2, <3>2 DEF CryptoKept
  <2>3. ASSUME NEW e \in Endpoints
        PROVE  /\ e = "s" /\ ep[e].complete =>
                     \/ ep[e].handshake_done_acked \/ ep[e].handshake_done_pending
                     \/ \E p \in ep[e].loss["A"].sent : p.hd
               /\ e \in config.data =>
                     \/ ep[e].data_acked \/ ep[e].data_pending
                     \/ \E p \in ep[e].loss["A"].sent : p.data
    BY <2>1 DEF FramesKept
  <2> QED BY <2>2, <2>3 DEF NothingLost
<1> QED BY <1>1, Inductive, PTL

(* The stored timer is the one the present facts call for (TimerCurrent):  *)
(* every handler that changes them ends in a recomputation.                *)
THEOREM TimerUpToDate == Spec => []TimerCurrent
<1>1. IInv => TimerCurrent
  BY DEF IInv, TimerCurrent
<1> QED BY <1>1, Inductive, PTL

(* A level is discarded only once the peer holds all that was sent in it   *)
(* (DiscardedIsDelivered, discard_level and its callers).                  *)
THEOREM DiscardsAreSafe == Spec => []DiscardedIsDelivered
<1>1. ASSUME IInv PROVE DiscardedIsDelivered
  <2>1. /\ EngineOK(ep["c"]) /\ ep["c"].role = "c" /\ Heard(ep["c"], ep["s"].engine)
        /\ EngineOK(ep["s"]) /\ ep["s"].role = "s" /\ Heard(ep["s"], ep["c"].engine)
    BY <1>1 DEF IInv, Local, Endpoints, Peer
  <2> QED BY <2>1 DEF EngineOK, Heard, DiscardedIsDelivered
<1> QED BY <1>1, Inductive, PTL

=============================================================================
