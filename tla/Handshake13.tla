---------------------------- MODULE Handshake13 ----------------------------
(***************************************************************************)
(* The DTLS 1.3 handshake between one client (client13.rs) and one server  *)
(* (server13.rs): ClientHello, HelloRetryRequest with a cookie or for      *)
(* another group, the server's flight, the client's final flight, the      *)
(* NewSessionTicket, and close_notify.  With retransmission, explicit and  *)
(* implicit acknowledgement, in-order dispatch, and the caller's external  *)
(* signer.                                                                 *)
(*                                                                         *)
(* A record is named by its epoch and the message it carries (one record   *)
(* per message); copies of it differ only in the record number, and an ACK *)
(* of any copy releases it (Retransmit13).  net holds every datagram ever  *)
(* sent, a set of records: it may be read at any later time, in any order, *)
(* again or never.  An ACK of several records is a datagram of ACKs.  A    *)
(* closed connection is not driven any more, except to answer a            *)
(* close_notify or by a late signer.  Flights are shorter than the         *)
(* reassembler's look-ahead (Reassembly).  No 0-RTT, no connection IDs.    *)
(***************************************************************************)
EXTENDS Integers, Sequences, FiniteSets, SequencesExt

CONSTANTS
    Configs,         \* the configurations of the two sides, see Config
    MAX_RETRANSMITS, \* 6 in the code
    STALLED_FIRES_TO_CLEAR,  \* 2 in the code
    MAX_AGE_MIN,     \* a cookie's lifetime, 10 in the code
    MaxMinute        \* bound: the last minute of the server's clock

(* ClientConfig13Internal and ServerConfig13Internal, what they offer and  *)
(* ask for, and what the callers do.                                       *)
Config ==
    [require_cookie : BOOLEAN,
     group_change : BOOLEAN,       \* the first ClientHello lacks the group's share
     psk : {"none", "same", "other"},  \* an accepted ticket, from which address
     client_auth : BOOLEAN,        \* the server asks for a certificate
     client_key : {"none", "inline", "external"},
     server_key : {"inline", "external"},
     tickets : BOOLEAN,            \* the server issues a NewSessionTicket
     coalescing : BOOLEAN,         \* max_record_size holds a whole flight
     closers : SUBSET {"c", "s"}]  \* the sides whose caller closes

ASSUME HandshakeAssumption ==
    /\ Configs \subseteq Config
    /\ MAX_RETRANSMITS \in Nat
    /\ STALLED_FIRES_TO_CLEAR \in Nat \ {0}
    /\ MAX_AGE_MIN \in Nat /\ MaxMinute \in Nat \ {0}

VARIABLES
    config,  \* the configuration, which does not change
    ep,      \* the two connections
    net,     \* the datagrams each side has sent
    minute   \* the server's clock, which stamps cookies

vars == <<config, ep, net, minute>>

Side == {"c", "s"}
Peer(e) == IF e = "c" THEN "s" ELSE "c"

(* What both connection types have. *)
Fresh ==
    [state |-> "WaitServerHello",
     write |-> 0,                \* enc_write_epoch; 0: no protected write keys
     read |-> 0,                 \* 0: no protected read keys
     prev_read |-> 0,            \* 0: none
     out_msg_seq |-> 0,
     expected_msg_seq |-> 0,
     buffered |-> {},            \* the reassembler: messages ahead of the head
     progressed |-> FALSE,
     stalled_fires |-> 0,
     in_flight |-> {},
     attempts |-> 0,
     pending_acks |-> {},        \* not empty: the ACK timer is armed
     transcript |-> <<>>,
     pending_flight |-> FALSE,
     close_notify_sent |-> FALSE,
     close_notify_received |-> FALSE,
     hs_write |-> FALSE,         \* client: the epoch-2 write keys are kept
     hrr_processed |-> FALSE,              \* client
     cert_request_received |-> FALSE,      \* client
     close_notify_held |-> FALSE,          \* client
     hrr_selected_group |-> FALSE,         \* server
     client_confirmed |-> FALSE,           \* server
     final_flight_records |-> {},          \* server
     failed |-> FALSE,           \* history: a handler returned an error
     abandoned |-> FALSE,        \* history: on_timeout gave records up
     outbox |-> {}]              \* records the handler at work has queued

Connected(x) == x.state = "Connected"

-----------------------------------------------------------------------------
(* Sending.                                                                *)

Id(r) == [epoch |-> r.epoch, seq |-> r.seq]
Entry(m) == [kind |-> m.kind, cookie |-> m.cookie]
Ack(epoch, id) == [type |-> "ack", epoch |-> epoch, acked |-> id]
CloseNotify(epoch) == [type |-> "close_notify", epoch |-> epoch]

Record(x, epoch, kind, cookie, over) ==
    [type |-> "handshake", epoch |-> epoch, seq |-> x.out_msg_seq, kind |-> kind,
     cookie |-> cookie, over |-> over]

(* emit_plaintext, emit_protected_handshake, emit_encrypted_handshake: the *)
(* record goes out and is tracked for retransmission.                      *)
Tracked(x, r) ==
    [x EXCEPT !.out_msg_seq = @ + 1,
              !.in_flight = @ \cup {r},
              !.outbox = @ \cup {r}]

(* A handshake message joins the transcript and is sent.                   *)
EmitHello(x, kind, cookie) ==
    LET r == Record(x, 0, kind, cookie, <<>>)
    IN  Tracked([x EXCEPT !.transcript = Append(@, Entry(r))], r)

EmitProtected(x, kind, over) ==
    LET r == Record(x, x.write, kind, 0, over)
    IN  Tracked([x EXCEPT !.transcript = Append(@, Entry(r))], r)

Emit(x, kind) == EmitProtected(x, kind, <<>>)

(* A signature or a verify_data covers the transcript up to it.            *)
EmitOver(x, kind) == EmitProtected(x, kind, x.transcript)

(* flush_pending_acks *)
FlushAcks(x) ==
    [x EXCEPT !.outbox = @ \cup {Ack(x.write, id) : id \in x.pending_acks},
              !.pending_acks = {}]

(* Retransmit13::new replaces the machine.                                 *)
ResetRetransmit(x) == [x EXCEPT !.in_flight = {}, !.attempts = 0]

(* on_ack, release_epoch *)
Released(x, gone) ==
    LET left == x.in_flight \ gone
    IN  [x EXCEPT !.in_flight = left, !.attempts = IF left = {} THEN 0 ELSE @]

(* A handler returned an error: the connection is not used any more.       *)
Fail(x) == [x EXCEPT !.failed = TRUE]

-----------------------------------------------------------------------------
(* The client.                                                             *)

(* on_server_hello: handshake keys both ways; the ClientHello is answered. *)
OnServerHello(x) ==
    [ResetRetransmit(x) EXCEPT !.write = 2, !.read = 2,
                               !.state = "WaitEncryptedExtensions"]

MessageHash == [kind |-> "message_hash", cookie |-> 0]

(* on_hello_retry_request: the first ClientHello becomes its hash, and the *)
(* second one carries the cookie.                                          *)
OnHelloRetryRequest(x, m) ==
    EmitHello([ResetRetransmit(x) EXCEPT !.transcript = <<MessageHash, Entry(m)>>,
                                         !.hrr_processed = TRUE],
              "client_hello", m.cookie)

(* Mutant: the keys the final flight was sent under are dropped.           *)
FinishClientFlight_forgetting(x) ==
    [EmitOver(x, "finished") EXCEPT !.write = 3, !.prev_read = x.read, !.read = 3,
                                    !.state = "Connected"]

(* finish_client_flight: Finished under the handshake keys, which are kept *)
(* to retransmit it; then the application keys.                            *)
FinishClientFlight(x) ==
    [EmitOver(x, "finished") EXCEPT !.hs_write = TRUE, !.write = 3,
                                    !.prev_read = x.read, !.read = 3,
                                    !.state = "Connected"]

(* on_finished, once the server's Finished is verified: the certificate    *)
(* the server asked for, a pause for an external signer, our Finished.     *)
OnFinished(x) ==
    IF ~x.cert_request_received THEN FinishClientFlight(x)
    ELSE CASE config.client_key = "none" -> FinishClientFlight(Emit(x, "empty_certificate"))
           [] config.client_key = "inline" ->
                FinishClientFlight(EmitOver(Emit(x, "certificate"), "certificate_verify"))
           [] config.client_key = "external" ->
                [Emit(x, "certificate") EXCEPT !.pending_flight = TRUE,
                                               !.state = "AwaitingCertVerifySignature"]

(* on_encrypted_extensions: a resumed handshake has no certificates.       *)
OnEncryptedExtensions(x) ==
    [x EXCEPT !.state = IF config.psk # "none" THEN "WaitFinished" ELSE "WaitCertificate"]

(* on_certificate: one CertificateRequest may precede the Certificate.     *)
OnCertificate(x, m) ==
    CASE m.kind = "certificate_request" /\ ~x.cert_request_received ->
           [x EXCEPT !.cert_request_received = TRUE]
      [] m.kind = "certificate" -> [x EXCEPT !.state = "WaitCertificateVerify"]
      [] OTHER -> Fail(x)

(* on_certificate_verify, once the signature is verified.                  *)
OnCertificateVerify(x) == [x EXCEPT !.state = "WaitFinished"]

(* dispatch_one: the handler of the state, if it expects the message and   *)
(* what the message signs is the transcript so far.                        *)
ClientDispatch(x, m) ==
    LET y == [x EXCEPT !.transcript = Append(@, Entry(m))]
        Got(state, kind) == x.state = state /\ m.kind = kind
    IN  CASE Got("WaitServerHello", "hello_retry_request") /\ ~x.hrr_processed ->
               OnHelloRetryRequest(x, m)
          [] Got("WaitServerHello", "server_hello") -> OnServerHello(y)
          [] Got("WaitEncryptedExtensions", "encrypted_extensions") -> OnEncryptedExtensions(y)
          [] x.state = "WaitCertificate" -> OnCertificate(y, m)
          [] Got("WaitCertificateVerify", "certificate_verify") /\ m.over = x.transcript ->
               OnCertificateVerify(y)
          [] Got("WaitFinished", "finished") /\ m.over = x.transcript -> OnFinished(y)
          [] Got("Connected", "new_session_ticket") -> x
          [] OTHER -> Fail(x)

FinalFlightUnacked(x) == Connected(x) /\ x.hs_write /\ x.in_flight # {}

(* release_held_close_notify *)
ReleaseHeld(x, force) ==
    IF x.close_notify_held /\ (force \/ ~FinalFlightUnacked(x))
    THEN [x EXCEPT !.close_notify_held = FALSE, !.outbox = @ \cup {CloseNotify(x.write)}]
    ELSE x

(* The ACK arm of process_protected_record.                                *)
ClientOnAck(x, id) ==
    LET y == Released(x, {r \in x.in_flight : Id(r) = id})
    IN  ReleaseHeld([y EXCEPT !.hs_write = @ /\ y.in_flight # {}], FALSE)

(* schedule_acks: what a retransmitted flight gets at once, a flight still *)
(* arriving gets from the timer, and a complete one from our Finished.     *)
ClientScheduleAcks(was, x) ==
    IF ~Connected(x) THEN x
    ELSE IF Connected(was) THEN FlushAcks(x)
    ELSE [x EXCEPT !.pending_acks = {}]

-----------------------------------------------------------------------------
(* The server.                                                             *)

(* finish_server_flight *)
FinishServerFlight(x) ==
    [EmitOver(x, "finished") EXCEPT
        !.state = IF config.client_auth /\ config.psk = "none" THEN "WaitClientCertificate"
                                                ELSE "WaitClientFinished"]

(* The accepted ClientHello of handle_pre_state_client_hello: prefix is    *)
(* the transcript before it, seq the ServerHello's message_seq.            *)
Commit(x, m, prefix, seq) ==
    LET hello == EmitHello([x EXCEPT !.transcript = Append(prefix, Entry(m)),
                                     !.expected_msg_seq = m.seq + 1,
                                     !.out_msg_seq = seq],
                           "server_hello", 0)
        ee == Emit([hello EXCEPT !.write = 2, !.read = 2], "encrypted_extensions")
        request == IF config.client_auth THEN Emit(ee, "certificate_request") ELSE ee
        cert == Emit(request, "certificate")
    IN  IF config.psk # "none" THEN FinishServerFlight(ee)
        ELSE IF config.server_key = "external"
        THEN [cert EXCEPT !.pending_flight = TRUE, !.state = "AwaitingCertVerifySignature"]
        ELSE FinishServerFlight(EmitOver(cert, "certificate_verify"))

(* timestamp_fresh *)
CookieFresh(ts) == minute - ts <= MAX_AGE_MIN /\ ts - minute <= 1

HasShare(m) == m.seq = 1 \/ ~config.group_change

(* emit_hrr_stateless, emit_hello_retry_request: not tracked; a lost one   *)
(* is asked for again by the client's ClientHello.                         *)
HelloRetryRequest(cookie) ==
    [type |-> "handshake", epoch |-> 0, seq |-> 0, kind |-> "hello_retry_request",
     cookie |-> cookie, over |-> <<>>]

SendRetry(x, cookie) ==
    [x EXCEPT !.outbox = @ \cup {HelloRetryRequest(cookie)}, !.state = "WaitSecondClientHello"]

RetryPrefix(cookie) == <<MessageHash, Entry(HelloRetryRequest(cookie))>>

(* RFC 9147 5.1: a ticket presented from the address it was issued to      *)
(* replaces the cookie exchange.                                           *)
DoCookie(m) ==
    config.require_cookie /\ ~(m.cookie = 0 /\ HasShare(m) /\ config.psk = "same")

(* Mutant: the HelloRetryRequest of the transcript is rebuilt with the     *)
(* cookie of this minute.                                                  *)
HandleClientHello_restamped(x, m) ==
    IF DoCookie(m) THEN
        IF m.cookie = 0 THEN SendRetry(x, minute)
        ELSE IF CookieFresh(m.cookie) THEN Commit(x, m, RetryPrefix(minute), 1)
        ELSE x
    ELSE Commit(x, m, <<>>, 0)

(* handle_pre_state_client_hello: with a cookie required the server keeps  *)
(* nothing of the first ClientHello and rebuilds the transcript from the   *)
(* cookie; without, it keeps the group it asked for.                       *)
HandleClientHello(x, m) ==
    IF DoCookie(m) THEN
        IF m.cookie = 0 THEN SendRetry(x, minute)
        ELSE IF CookieFresh(m.cookie) THEN Commit(x, m, RetryPrefix(m.cookie), 1)
        ELSE x
    ELSE IF ~HasShare(m) THEN
        SendRetry(IF x.hrr_selected_group THEN x
                  ELSE [x EXCEPT !.hrr_selected_group = TRUE, !.out_msg_seq = 1,
                                 !.transcript = <<Entry(m)>>],
                  0)
    ELSE IF x.hrr_selected_group THEN Commit(x, m, RetryPrefix(0), x.out_msg_seq)
    ELSE Commit(x, m, <<>>, 0)

(* emit_session_ticket: not part of the transcript.                        *)
EmitTicket(x) == Tracked(x, Record(x, x.write, "new_session_ticket", 0, <<>>))

(* on_client_finished, once verified: application keys both ways, the      *)
(* server's flight is answered, the ticket goes out.                       *)
OnClientFinished(x) ==
    LET y == [ResetRetransmit(x) EXCEPT !.write = 3, !.prev_read = x.read, !.read = 3,
                                        !.state = "Connected"]
    IN  IF config.tickets THEN EmitTicket(y) ELSE y

(* on_client_certificate: the policy asks for a certificate and does not   *)
(* insist on one.                                                          *)
OnClientCertificate(x, m) ==
    CASE m.kind = "empty_certificate" -> [x EXCEPT !.state = "WaitClientFinished"]
      [] m.kind = "certificate" -> [x EXCEPT !.state = "WaitClientCertVerify"]
      [] OTHER -> Fail(x)

(* on_client_cert_verify, once the signature is verified.                  *)
OnClientCertVerify(x) == [x EXCEPT !.state = "WaitClientFinished"]

(* dispatch_one *)
ServerDispatch(x, m) ==
    LET y == [x EXCEPT !.transcript = Append(@, Entry(m))]
        Got(state, kind) == x.state = state /\ m.kind = kind
    IN  CASE x.state = "WaitClientCertificate" -> OnClientCertificate(y, m)
          [] Got("WaitClientCertVerify", "certificate_verify") /\ m.over = x.transcript ->
               OnClientCertVerify(y)
          [] Got("WaitClientFinished", "finished") /\ m.over = x.transcript -> OnClientFinished(y)
          [] OTHER -> Fail(x)

(* The client shows that it is past its handshake.                         *)
Confirmed(x) == [x EXCEPT !.client_confirmed = TRUE, !.final_flight_records = {}]

(* The ACK arm of process_protected_record: only a client that installed   *)
(* the application keys acknowledges what was sent under them.             *)
ServerOnAck(x, id) ==
    LET named == {r \in x.in_flight : Id(r) = id}
    IN  Released(IF Connected(x) /\ id.epoch >= 3 /\ named # {} THEN Confirmed(x) ELSE x, named)

(* schedule_acks: nothing else answers the client's final flight.          *)
ServerScheduleAcks(x) == IF Connected(x) THEN FlushAcks(x) ELSE x

-----------------------------------------------------------------------------
(* Receiving.                                                              *)

(* Reassembler::feed, admission of a whole message.                        *)
Buffer(x, m) ==
    IF m.seq >= x.expected_msg_seq /\ m \notin x.buffered
    THEN [x EXCEPT !.buffered = @ \cup {m}, !.progressed = TRUE]
    ELSE x

(* The head of the queue and every buffered successor, without a gap.      *)
Deliverable(x) ==
    {m \in x.buffered :
        \A n \in x.expected_msg_seq .. m.seq : \E k \in x.buffered : k.seq = n}

(* process_handshake_record: feed, then dispatch until pop_ready has       *)
(* nothing.                                                                *)
OnHandshake(e, x, m) ==
    LET y == Buffer(x, m)
        ready == Deliverable(y)
        Dispatch(z, n) == IF e = "c" THEN ClientDispatch(z, n) ELSE ServerDispatch(z, n)
    IN  FoldLeft(Dispatch,
                 [y EXCEPT !.buffered = @ \ ready,
                           !.expected_msg_seq = @ + Cardinality(ready)],
                 SetToSortSeq(ready, LAMBDA a, b : a.seq < b.seq))

(* clear_if_stalled: two fires without anything new empty the reassembler. *)
ClearIfStalled(x) ==
    IF x.progressed THEN [x EXCEPT !.progressed = FALSE, !.stalled_fires = 0]
    ELSE IF x.stalled_fires + 1 >= STALLED_FIRES_TO_CLEAR
    THEN [x EXCEPT !.buffered = {}, !.stalled_fires = 0]
    ELSE [x EXCEPT !.stalled_fires = @ + 1]

Opens(x, r) == r.epoch \in {x.read, x.prev_read} \ {0}

(* A record under the retired handshake keys is acknowledged and acts on   *)
(* nothing.                                                                *)
RetiredEpoch(x, r) == Connected(x) /\ r.epoch = 2

(* process_peer_alert *)
PeerClosed(x) == [x EXCEPT !.state = "Closed", !.close_notify_received = TRUE]

(* The client's process_protected_record.                                  *)
ClientRecord(x, r) ==
    LET queued == [x EXCEPT !.pending_acks = @ \cup {Id(r)}]
    IN  CASE r.type = "ack" -> ClientOnAck(x, r.acked)
          [] r.type = "close_notify" ->
               IF RetiredEpoch(x, r) THEN x ELSE ReleaseHeld(PeerClosed(x), TRUE)
          [] r.type = "handshake" ->
               IF RetiredEpoch(x, r) THEN queued ELSE OnHandshake("c", queued, r)

(* The server's: any authenticated record shows that the ServerHello has   *)
(* arrived, and epoch 2 carries the client's final flight only.            *)
ServerRecord(x, r) ==
    LET heard == Released(x, {f \in x.in_flight : f.epoch = 0})
        y == IF Connected(x) /\ r.epoch >= 3 /\ r.type # "ack" THEN Confirmed(heard) ELSE heard
        queued == [y EXCEPT !.pending_acks = @ \cup {Id(r)},
                            !.final_flight_records = IF r.epoch = 2 THEN @ \cup {Id(r)} ELSE @]
    IN  CASE r.type = "ack" -> ServerOnAck(y, r.acked)
          [] r.type = "close_notify" -> IF RetiredEpoch(x, r) THEN y ELSE PeerClosed(y)
          [] r.type = "handshake" ->
               IF RetiredEpoch(x, r) THEN queued ELSE OnHandshake("s", queued, r)

Order(r) == IF r.type = "handshake" THEN r.seq ELSE 0

(* feed_datagram_records: in order, those that do not open skipped.        *)
Feed(e, x, d) ==
    LET OnRecord(y, r) == IF e = "c" THEN ClientRecord(y, r) ELSE ServerRecord(y, r)
        Step(y, r) == IF Opens(y, r) /\ ~y.failed THEN OnRecord(y, r) ELSE y
    IN  FoldLeft(Step, x, SetToSortSeq(d, LAMBDA a, b : Order(a) < Order(b)))

-----------------------------------------------------------------------------
(* push_handshake_record and encode_with_limit: the handshake records of   *)
(* an epoch share a datagram if they fit, and an ACK names as many records *)
(* as fit; everything else has a datagram of its own.                      *)
Datagrams(records) ==
    IF config.coalescing
    THEN {{r \in records : r.type = q.type /\ r.epoch = q.epoch} : q \in records}
    ELSE {{r} : r \in records}

(* What the handler did becomes visible: its datagrams are on the wire.    *)
Return(e, x) ==
    /\ ep' = [ep EXCEPT ![e] = [x EXCEPT !.outbox = {}]]
    /\ net' = [net EXCEPT ![e] = @ \cup Datagrams(x.outbox)]
    /\ UNCHANGED config

Init ==
    LET client == EmitHello(Fresh, "client_hello", 0)
    IN  /\ ep = [e \in Side |-> IF e = "c" THEN [client EXCEPT !.outbox = {}]
                                ELSE [Fresh EXCEPT !.state = "WaitFirstClientHello"]]
        /\ net = [e \in Side |-> IF e = "c" THEN {client.outbox} ELSE {}]
        /\ minute = 1
        /\ config \in Configs

Driven(e) == ep[e].state # "Closed" /\ ~ep[e].failed

(* feed_datagram with a plaintext record, in the only states that read     *)
(* one.                                                                    *)
ReceivePlaintext(e, r) ==
    /\ Driven(e)
    /\ r.epoch = 0
    /\ \/ /\ e = "c" /\ ep[e].state = "WaitServerHello"
          /\ Return(e, OnHandshake("c", ep[e], r))
       \/ /\ e = "s" /\ ep[e].state \in {"WaitFirstClientHello", "WaitSecondClientHello"}
          /\ Return(e, HandleClientHello(ep[e], r))
    /\ UNCHANGED minute

(* feed_datagram with protected records.                                   *)
ReceiveProtected(e, d) ==
    /\ Driven(e)
    /\ \E r \in d : Opens(ep[e], r)
    /\ LET x == Feed(e, ep[e], d)
       IN  Return(e, IF e = "c" THEN ClientScheduleAcks(ep[e], x) ELSE ServerScheduleAcks(x))
    /\ UNCHANGED minute

(* on_timeout, the ACK timer.                                              *)
AckTimer(e) ==
    /\ Driven(e)
    /\ ep[e].pending_acks # {}
    /\ Return(e, FlushAcks(ep[e]))
    /\ UNCHANGED minute

(* Whether retransmit_in_flight has the keys for a record.                 *)
Resendable(x, r) == r.epoch \in {0, x.write} \/ (x.hs_write /\ r.epoch = 2)

(* on_timeout with attempts left.                                          *)
Retransmit(e) ==
    /\ Driven(e)
    /\ ep[e].in_flight # {}
    /\ ep[e].attempts < MAX_RETRANSMITS
    /\ LET x == [ep[e] EXCEPT !.attempts = @ + 1,
                              !.outbox = {r \in ep[e].in_flight : Resendable(ep[e], r)}]
       IN  Return(e, IF Connected(x) THEN x ELSE ClearIfStalled(x))
    /\ UNCHANGED minute

(* Mutant: the held close_notify is not released when records are given up. *)
Abandon_holding(x) ==
    IF Connected(x)
    THEN [ResetRetransmit(x) EXCEPT !.hs_write = FALSE, !.abandoned = TRUE]
    ELSE [x EXCEPT !.state = "Closed"]

(* The GiveUp arm of on_timeout: an established connection drops what is   *)
(* in flight, a handshake ends.                                            *)
Abandon(x) ==
    IF Connected(x)
    THEN ReleaseHeld([ResetRetransmit(x) EXCEPT !.hs_write = FALSE, !.abandoned = TRUE], FALSE)
    ELSE [x EXCEPT !.state = "Closed"]

GiveUp(e) ==
    /\ Driven(e)
    /\ ep[e].in_flight # {}
    /\ ep[e].attempts >= MAX_RETRANSMITS
    /\ Return(e, Abandon(ep[e]))
    /\ UNCHANGED minute

(* provide_signature: the client checks its state, the server only that a  *)
(* flight is suspended.                                                    *)
MaySign(e) ==
    /\ ep[e].pending_flight
    /\ e = "c" => ep[e].state = "AwaitingCertVerifySignature"

ProvideSignature(e) ==
    /\ ~ep[e].failed
    /\ MaySign(e)
    /\ LET x == EmitOver([ep[e] EXCEPT !.pending_flight = FALSE], "certificate_verify")
       IN  Return(e, IF e = "c" THEN FinishClientFlight(x) ELSE FinishServerFlight(x))
    /\ UNCHANGED minute

(* Mutant: the client's close_notify overtakes its Finished.               *)
ClientClose_unheld(x) == [x EXCEPT !.outbox = @ \cup {CloseNotify(x.write)}]

(* send_close_notify of the client: held back while the final flight is    *)
(* unacknowledged.                                                         *)
ClientClose(x) ==
    IF FinalFlightUnacked(x) THEN [x EXCEPT !.close_notify_held = TRUE]
    ELSE [x EXCEPT !.outbox = @ \cup {CloseNotify(x.write)}]

(* send_close_notify of the server: preceded by one more ACK of the final  *)
(* flight, unless the client is known to be past it.                       *)
ServerClose(x) ==
    LET again == Connected(x) /\ ~x.client_confirmed /\ x.final_flight_records # {}
        y == IF again
             THEN FlushAcks([FlushAcks(x) EXCEPT !.pending_acks = x.final_flight_records])
             ELSE x
    IN  [y EXCEPT !.outbox = @ \cup {CloseNotify(y.write)}]

SendCloseNotify(e) ==
    /\ e \in config.closers /\ ~ep[e].failed
    /\ Connected(ep[e]) \/ ep[e].close_notify_received
    /\ ~ep[e].close_notify_sent
    /\ LET x == [ep[e] EXCEPT !.close_notify_sent = TRUE]
       IN  Return(e, IF e = "c" THEN ClientClose(x) ELSE ServerClose(x))
    /\ UNCHANGED minute

(* expire_prev_read, or the record count of process_protected_record, at   *)
(* any time.                                                               *)
ExpirePrevRead(e) ==
    /\ Driven(e)
    /\ ep[e].prev_read # 0
    /\ Return(e, [ep[e] EXCEPT !.prev_read = 0])
    /\ UNCHANGED minute

(* set_now: the minute that stamps cookies; it matters only while one is   *)
(* asked for.                                                              *)
MinutePasses ==
    /\ minute < MaxMinute
    /\ config.require_cookie
    /\ ep["s"].state \in {"WaitFirstClientHello", "WaitSecondClientHello"}
    /\ minute' = minute + 1
    /\ UNCHANGED <<config, ep, net>>

OnTimeout(e) == AckTimer(e) \/ Retransmit(e) \/ GiveUp(e)

Next ==
    \/ MinutePasses
    \/ \E e \in Side :
        \/ \E r \in UNION net[Peer(e)] : ReceivePlaintext(e, r)
        \/ \E d \in net[Peer(e)] : ReceiveProtected(e, d)
        \/ AckTimer(e)
        \/ Retransmit(e)
        \/ GiveUp(e)
        \/ ProvideSignature(e)
        \/ SendCloseNotify(e)
        \/ ExpirePrevRead(e)

(* The caller drives on_timeout at next_timeout; nothing is assumed of the *)
(* network, of the signer or of the one who closes.                        *)
Spec == Init /\ [][Next]_vars /\ \A e \in Side : WF_vars(OnTimeout(e))

-----------------------------------------------------------------------------
(* Loss, repetition, reordering, timeouts and two generations of cookies   *)
(* never make one genuine side refuse the other: every message dispatched  *)
(* is the one the state expects, and every CertificateVerify and Finished  *)
(* covers the receiver's own transcript (dispatch_one and its handlers).   *)
NoFatalError == \A e \in Side : ~ep[e].failed

HasMessage(x, r) == r.seq < x.expected_msg_seq \/ \E m \in x.buffered : m.seq = r.seq

Flight(e) ==
    {r \in UNION net[e] : r.type = "handshake" /\ r.kind \notin {"client_hello", "hello_retry_request"}}

(* "so that only what is missing is retransmitted" (schedule_acks): what   *)
(* the peer does not hold is still in flight, under keys that are still    *)
(* there, until it is given up; nothing an ACK, an implicit ACK or the     *)
(* answer of a flight released is missing at the other side.  The          *)
(* ClientHello is in flight until the ServerHello is dispatched.           *)
MissingIsRetransmitted ==
    /\ \A e \in Side : (ep[e].state # "Closed" /\ ~ep[e].abandoned) =>
          \A r \in Flight(e) :
              \/ HasMessage(ep[Peer(e)], r)
              \/ r \in ep[e].in_flight /\ Resendable(ep[e], r)
    /\ ep["c"].state = "WaitServerHello" =>
          \E r \in ep["c"].in_flight : r.kind = "client_hello" /\ r.seq = ep["c"].out_msg_seq - 1

(* send_close_notify: while the server has not processed the Finished the  *)
(* client's close_notify does not go out, unless the client has given up   *)
(* retransmitting it.                                                      *)
CloseAfterFinished ==
    [][({CloseNotify(3)} \in net'["c"] \ net["c"]) =>
          \/ ep["s"].state \in {"Connected", "Closed"}
          \/ ep'["c"].abandoned]_vars

(* A held close_notify is queued by itself "as soon as the server's ACK    *)
(* arrives, or when the retransmission budget is spent".                   *)
CloseReleased == ep["c"].close_notify_held ~> ~ep["c"].close_notify_held

=============================================================================
