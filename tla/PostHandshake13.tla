-------------------------- MODULE PostHandshake13 --------------------------
(***************************************************************************)
(* Two established DTLS 1.3 connections, client13.rs and server13.rs, and  *)
(* the post-handshake messages they exchange: NewSessionTicket, KeyUpdate, *)
(* RequestConnectionId and NewConnectionId.  Each is sent under the write  *)
(* epoch of the moment, kept in flight until the peer's ACK, retransmitted *)
(* by timer, and dispatched by the peer in message_seq order.  A KeyUpdate *)
(* moves the reader to the next epoch when it is dispatched and the writer *)
(* when it is acknowledged.                                                *)
(*                                                                         *)
(* A record is named by its epoch and the message it carries (one record   *)
(* per message: none needs fragmenting); copies of it differ only in the   *)
(* record number, and an ACK of any copy releases it (Retransmit13).  net  *)
(* holds every record ever sent: a record may be read at any later time,   *)
(* in any order, again (as another copy) or never.  A closed connection is *)
(* not driven any more.                                                    *)
(***************************************************************************)
EXTENDS Integers, FiniteSets

CONSTANTS
    MAX_RETRANSMITS, \* 6 in the code
    MAX_SEQ_AHEAD,   \* 8 in the code
    Configs          \* what the server and the callers do, in each scenario

Side == {"c", "s"}

KeyUpdates == {"key_update", "key_update_requested"}

(* A scenario: whether the server has just issued a NewSessionTicket, the  *)
(* sides whose caller asks for KeyUpdates (and of which kinds) and for     *)
(* connection IDs, and the message_seq up to which they ask (a bound).     *)
Config ==
    [ticket : BOOLEAN, updaters : SUBSET Side, kinds : SUBSET KeyUpdates, max_updates : Nat,
     requesters : SUBSET Side, max_requests : Nat]

ASSUME PostAssumption ==
    /\ MAX_RETRANSMITS \in Nat \ {0}
    /\ MAX_SEQ_AHEAD \in Nat \ {0}
    /\ Configs \subseteq Config

VARIABLES
    config,  \* the scenario
    ep,      \* the two connections
    net      \* the records sent

vars == <<config, ep, net>>

Peer(e) == IF e = "c" THEN "s" ELSE "c"

(* A connection right after the handshake: the application keys are        *)
(* installed both ways, the handshake epoch is still readable.             *)
Established ==
    [state |-> "Connected",
     enc_write_epoch |-> 3,
     read |-> 3,
     prev_read |-> 2,            \* 0: dropped
     out_msg_seq |-> 0,          \* counted from the end of the handshake
     expected_msg_seq |-> 0,
     buffered |-> {},            \* the reassembler: messages ahead of the head
     in_flight |-> {},
     attempts |-> 0,
     key_update_pending |-> FALSE,
     request_pending |-> FALSE,
     cid_reply_owed |-> FALSE,
     outbox |-> {}]              \* records the handler at work has queued

InFlight(x, kinds) == \E r \in x.in_flight : r.kind \in kinds

-----------------------------------------------------------------------------
(* Sending.                                                                *)

Handshake(r) == [type |-> "handshake", epoch |-> r.epoch, seq |-> r.seq, kind |-> r.kind]
Ack(epoch, r) == [type |-> "ack", epoch |-> epoch, acked |-> [epoch |-> r.epoch, seq |-> r.seq]]

(* send_post_handshake, emit_encrypted_handshake *)
Emit(x, kind) ==
    LET r == [kind |-> kind, seq |-> x.out_msg_seq, epoch |-> x.enc_write_epoch]
    IN  [x EXCEPT !.out_msg_seq = @ + 1,
                  !.in_flight = @ \cup {r},
                  !.outbox = @ \cup {Handshake(r)}]

(* request_key_update, once its guards have passed *)
StartUpdate(x, kind) == [Emit(x, kind) EXCEPT !.key_update_pending = TRUE]

(* Mutant: a reply goes out while an earlier one is unacknowledged.        *)
FlushOwed_always(x) ==
    IF x.cid_reply_owed
    THEN [Emit(x, "new_connection_id") EXCEPT !.cid_reply_owed = FALSE]
    ELSE x

(* flush_owed_new_connection_id *)
FlushOwed(x) ==
    IF x.cid_reply_owed /\ ~InFlight(x, {"new_connection_id"})
    THEN [Emit(x, "new_connection_id") EXCEPT !.cid_reply_owed = FALSE]
    ELSE x

-----------------------------------------------------------------------------
(* Receiving.                                                              *)

(* Mutant: the epoch just retired is not kept.                             *)
InstallNext_forgetting(x) == [x EXCEPT !.read = @ + 1, !.prev_read = 0]

(* The next read epoch replaces the current one, which stays readable.     *)
InstallNext(x) == [x EXCEPT !.read = @ + 1, !.prev_read = x.read]

(* on_key_update_received *)
OnKeyUpdate(x, kind) ==
    IF kind = "key_update_requested" /\ ~x.key_update_pending
    THEN StartUpdate(InstallNext(x), "key_update")
    ELSE InstallNext(x)

(* on_post_handshake; on_new_session_ticket changes nothing here.          *)
Dispatch(x, m) ==
    CASE m.kind \in KeyUpdates -> OnKeyUpdate(x, m.kind)
      [] m.kind = "request_connection_id" -> FlushOwed([x EXCEPT !.cid_reply_owed = TRUE])
      [] m.kind = "new_connection_id" -> [x EXCEPT !.request_pending = FALSE]
      [] m.kind = "new_session_ticket" -> x

(* What is buffered at the head of the queue: one message or none.         *)
AtHead(x) == {m \in x.buffered : m.seq = x.expected_msg_seq}

(* pop_ready, and the dispatch of what it returns *)
Pop(x) ==
    IF AtHead(x) = {} THEN x
    ELSE Dispatch([x EXCEPT !.expected_msg_seq = @ + 1,
                            !.buffered = {m \in @ : m.seq > x.expected_msg_seq}],
                  CHOOSE m \in AtHead(x) : TRUE)

(* Mutant: a duplicate of a dispatched message is dispatched again.        *)
Buffer_stale(x, m) ==
    IF m.seq - x.expected_msg_seq < MAX_SEQ_AHEAD
    THEN [x EXCEPT !.buffered = @ \cup {m}, !.expected_msg_seq = IF m.seq < @ THEN m.seq ELSE @]
    ELSE x

(* Reassembler::feed, admission *)
Buffer(x, m) ==
    IF m.seq >= x.expected_msg_seq /\ m.seq - x.expected_msg_seq < MAX_SEQ_AHEAD
    THEN [x EXCEPT !.buffered = @ \cup {m}]
    ELSE x

(* process_handshake_record, authenticated: feed, then dispatch until      *)
(* pop_ready has nothing, which MAX_SEQ_AHEAD times is enough for.         *)
OnHandshake(x, m) ==
    LET popped[n \in 0 .. MAX_SEQ_AHEAD] ==
            IF n = 0 THEN Buffer(x, m) ELSE Pop(popped[n - 1])
    IN  popped[MAX_SEQ_AHEAD]

(* Retransmit13::on_ack *)
Acknowledged(x, r) ==
    LET left == {f \in x.in_flight : ~(f.epoch = r.epoch /\ f.seq = r.seq)}
    IN  [x EXCEPT !.in_flight = left, !.attempts = IF left = {} THEN 0 ELSE @]

(* Mutant: any ACK completes the update.                                   *)
CompleteUpdate_any(x) ==
    IF x.key_update_pending
    THEN [x EXCEPT !.enc_write_epoch = @ + 1, !.key_update_pending = FALSE]
    ELSE x

(* complete_key_update_if_acked *)
CompleteUpdate(x) ==
    IF x.key_update_pending /\ ~InFlight(x, KeyUpdates)
    THEN [x EXCEPT !.enc_write_epoch = @ + 1, !.key_update_pending = FALSE]
    ELSE x

OnAck(x, r) == FlushOwed(CompleteUpdate(Acknowledged(x, r)))

(* select_read_epoch: the record's header has the two low bits of its      *)
(* epoch only.                                                             *)
SelectedEpoch(x, epoch) ==
    IF x.read % 4 = epoch % 4 THEN x.read
    ELSE IF x.prev_read # 0 /\ x.prev_read % 4 = epoch % 4 THEN x.prev_read
    ELSE 0

(* What the handler did becomes visible: its datagrams are on the wire.    *)
Return(e, x) ==
    /\ ep' = [ep EXCEPT ![e] = [x EXCEPT !.outbox = {}]]
    /\ net' = [net EXCEPT ![e] = @ \cup x.outbox]
    /\ UNCHANGED config

-----------------------------------------------------------------------------
Init ==
    LET server == IF config.ticket THEN Emit(Established, "new_session_ticket") ELSE Established
    IN  /\ config \in Configs
        /\ ep = [e \in Side |-> IF e = "s" THEN [server EXCEPT !.outbox = {}] ELSE Established]
        /\ net = [e \in Side |-> IF e = "s" THEN server.outbox ELSE {}]

Connected(e) == ep[e].state = "Connected"

(* request_key_update *)
RequestKeyUpdate(e, kind) ==
    /\ Connected(e)
    /\ ~ep[e].key_update_pending
    /\ e \in config.updaters /\ kind \in config.kinds
    /\ ep[e].out_msg_seq < config.max_updates
    /\ Return(e, StartUpdate(ep[e], kind))

(* request_connection_ids *)
RequestConnectionIds(e) ==
    /\ Connected(e)
    /\ ~ep[e].request_pending
    /\ e \in config.requesters /\ ep[e].out_msg_seq < config.max_requests
    /\ Return(e, [Emit(ep[e], "request_connection_id") EXCEPT !.request_pending = TRUE])

(* feed_datagram with one record of the peer: process_protected_record,    *)
(* then schedule_acks.  A record the selected keys do not open is dropped. *)
Receive(e, r) ==
    /\ Connected(e)
    /\ SelectedEpoch(ep[e], r.epoch) = r.epoch
    /\ IF r.type = "ack"
       THEN Return(e, OnAck(ep[e], r.acked))
       ELSE LET x == OnHandshake(ep[e], [kind |-> r.kind, seq |-> r.seq])
            IN  Return(e, [x EXCEPT !.outbox = @ \cup {Ack(x.enc_write_epoch, r)}])

(* on_timeout with attempts left: retransmit_in_flight re-encrypts the     *)
(* records of the current write epoch; it has no keys for any other.       *)
Retransmit(e) ==
    /\ Connected(e)
    /\ ep[e].in_flight # {}
    /\ ep[e].attempts < MAX_RETRANSMITS
    /\ Return(e, [ep[e] EXCEPT
           !.attempts = @ + 1,
           !.outbox = {Handshake(r) : r \in {f \in ep[e].in_flight : f.epoch = ep[e].enc_write_epoch}}])

(* Mutant: an unacknowledged KeyUpdate is dropped like any other record.   *)
Abandoned_always(x) == [x EXCEPT !.in_flight = {}, !.attempts = 0]

(* The GiveUp arm of on_timeout. *)
Abandoned(x) ==
    IF x.key_update_pending
    THEN [x EXCEPT !.state = "Closed"]
    ELSE [x EXCEPT !.in_flight = {}, !.attempts = 0]

GiveUp(e) ==
    /\ Connected(e)
    /\ ep[e].in_flight # {}
    /\ ep[e].attempts >= MAX_RETRANSMITS
    /\ Return(e, Abandoned(ep[e]))

(* The writer x has retransmitted its pending KeyUpdate for the last time. *)
(* It goes on writing under the old epoch until an ACK or GiveUp.          *)
Spent(x) == x.key_update_pending /\ x.attempts >= MAX_RETRANSMITS

(* The previous epoch of x may be dropped, w being its writer.  The record *)
(* count is of records of the epoch after it, which w has then moved to.   *)
(* The clock starts at the install, which is after the KeyUpdate was sent, *)
(* and stops PREV_EPOCH_GRACE_TIME = 120 s later.  The last retransmission *)
(* is due 63 s after the KeyUpdate at the latest (Retransmit13,            *)
(* RetransmitsWithinGrace), GiveUp only after 123 s: when the clock stops, *)
(* w has none left, but may still write.  Both callers keep their clocks   *)
(* (set_now, on_timeout) current to less than the 57 s between.            *)
GraceOver(x, w) == w.enc_write_epoch = x.prev_read => Spent(w)

(* expire_prev_read, or the record count of process_protected_record *)
ExpirePrevRead(e) ==
    /\ Connected(e)
    /\ ep[e].prev_read # 0
    /\ GraceOver(ep[e], ep[Peer(e)])
    /\ Return(e, [ep[e] EXCEPT !.prev_read = 0])

OnTimeout(e) == Retransmit(e) \/ GiveUp(e)

Next ==
    \E e \in Side :
        \/ \E kind \in KeyUpdates : RequestKeyUpdate(e, kind)
        \/ RequestConnectionIds(e)
        \/ \E r \in net[Peer(e)] : Receive(e, r)
        \/ Retransmit(e)
        \/ GiveUp(e)
        \/ ExpirePrevRead(e)

(* The caller drives on_timeout while records are in flight (the contract  *)
(* of handshake_flight_pending); nothing is assumed of the network.        *)
Spec == Init /\ [][Next]_vars /\ \A e \in Side : WF_vars(OnTimeout(e))

-----------------------------------------------------------------------------
(* A reader is ahead of its writer by the pending update at most, whatever *)
(* was lost, reordered, repeated or given up: the one retired epoch it     *)
(* keeps is enough (on_key_update_received).                               *)
ReaderNotAhead ==
    \A e \in Side :
        ep[Peer(e)].read <= ep[e].enc_write_epoch + (IF ep[e].key_update_pending THEN 1 ELSE 0)

(* Reader and writer are apart for a reason only: the reader is not ahead  *)
(* by more than the pending update, and a writer is ahead because an       *)
(* acknowledged KeyUpdate moved it, which is in the peer's reassembler,    *)
(* waiting for a message before it (complete_key_update_if_acked).         *)
EpochsBacked ==
    /\ ReaderNotAhead
    /\ \A e \in Side :
          ep[e].enc_write_epoch - ep[Peer(e)].read
              <= Cardinality({m \in ep[Peer(e)].buffered : m.kind \in KeyUpdates})

(* RFC 9147 section 9, flush_owed_new_connection_id: at most one           *)
(* NewConnectionId is outstanding.                                         *)
OneNewConnectionId ==
    \A e \in Side :
        Cardinality({r \in ep[e].in_flight : r.kind = "new_connection_id"}) <= 1

(* A KeyUpdate is acknowledged or the connection closes (on_timeout,       *)
(* GiveUp): the writer does not stay for ever unable to start another.     *)
UpdateResolves ==
    \A e \in Side : ep[e].key_update_pending ~> (~ep[e].key_update_pending \/ ~Connected(e))

(* KeyUpdate is the only post-handshake message.                           *)
OnlyKeyUpdates == ~config.ticket /\ config.max_requests = 0

(* What either side sends under its write keys the other can open: the     *)
(* epoch its header bits select is the right one, while a KeyUpdate still  *)
(* has a retransmission to go.  Only what is written between the last one  *)
(* and GiveUp may find the keys dropped (120 s against 123 s).  Holds      *)
(* while KeyUpdate is the only post-handshake message.                     *)
WriteEpochReadable ==
    \A e \in Side :
        (OnlyKeyUpdates /\ Connected(e) /\ Connected(Peer(e)) /\ ~Spent(ep[e]))
            => SelectedEpoch(ep[Peer(e)], ep[e].enc_write_epoch) = ep[e].enc_write_epoch

(* The epochs of a direction, as EpochSync sees them.                      *)
ClientToServer ==
    INSTANCE EpochSync WITH
        writer <- ep["c"].enc_write_epoch,
        reader <- ep["s"].read,
        previous <- ep["s"].prev_read,
        pending <- ep["c"].key_update_pending,
        spent <- Spent(ep["c"]),
        closed <- ~Connected("c")

ServerToClient ==
    INSTANCE EpochSync WITH
        writer <- ep["s"].enc_write_epoch,
        reader <- ep["c"].read,
        previous <- ep["c"].prev_read,
        pending <- ep["s"].key_update_pending,
        spent <- Spent(ep["s"]),
        closed <- ~Connected("s")

(* Each direction implements EpochSync, the promise of epoch13.rs, while   *)
(* KeyUpdate is the only post-handshake message: the reader installs an    *)
(* epoch before the writer moves to it, one update at a time.              *)
EpochsInStep ==
    /\ OnlyKeyUpdates => ClientToServer!Init /\ ServerToClient!Init
    /\ [][OnlyKeyUpdates => ClientToServer!Next]_(ClientToServer!vars)
    /\ [][OnlyKeyUpdates => ServerToClient!Next]_(ServerToClient!vars)

=============================================================================
