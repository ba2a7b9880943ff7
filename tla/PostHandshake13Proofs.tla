----------------------- MODULE PostHandshake13Proofs ------------------------
(***************************************************************************)
(* Theorems about PostHandshake13 for every scenario: any number of        *)
(* KeyUpdates, tickets and connection-ID requests of both sides.           *)
(*                                                                         *)
(* The argument pairs what a writer has sent with what its reader has      *)
(* dispatched.  Messages have one number each and KeyUpdates one epoch     *)
(* each, in the same order (WriterOK); a reader has dispatched the         *)
(* KeyUpdates of exactly the epochs before the one it reads (ReaderOK).    *)
(* So it cannot be past what was announced (Behind).  When KeyUpdates are  *)
(* all that is sent, a reader opens a KeyUpdate only when it is the next   *)
(* one or an old one (OpenedIsNext): what it acknowledges it has           *)
(* dispatched, and the writer moves after its reader (KInv).               *)
(***************************************************************************)
EXTENDS PostHandshake13, SetInduction, FiniteSetTheorems

Kinds == KeyUpdates \cup {"request_connection_id", "new_connection_id", "new_session_ticket"}

Fields ==
    {"state", "enc_write_epoch", "read", "prev_read", "out_msg_seq", "expected_msg_seq",
     "buffered", "in_flight", "attempts", "key_update_pending", "request_pending",
     "cid_reply_owed", "outbox"}

(* The ranges of a connection's fields. *)
ConnState(x) ==
    /\ DOMAIN x = Fields
    /\ x.enc_write_epoch \in Nat /\ x.enc_write_epoch >= 3
    /\ x.read \in Nat /\ x.prev_read \in Nat
    /\ x.out_msg_seq \in Nat /\ x.expected_msg_seq \in Nat
    /\ x.key_update_pending \in BOOLEAN /\ x.cid_reply_owed \in BOOLEAN
    /\ x.attempts \in Nat /\ (x.in_flight = {} => x.attempts = 0)

(* The epoch after the last one announced. *)
Limit(x) == IF x.key_update_pending THEN x.enc_write_epoch + 1 ELSE x.enc_write_epoch

(* The messages that the records S carry, as the in-flight set has them. *)
Message(kind, seq, epoch) == [kind |-> kind, seq |-> seq, epoch |-> epoch]

Messages(S) ==
    {Message(r.kind, r.seq, r.epoch) : r \in {q \in S : q.type # "ack"}}

Updates(T) == {m \in T : m.kind \in KeyUpdates}

(* What a writer x has sent, the messages T: one for each number, the      *)
(* KeyUpdates one for each epoch that was announced and in their order.    *)
WriterOK(x, T) ==
    /\ \A m \in T :
          m.seq \in Nat /\ m.epoch \in Nat /\ m.kind \in Kinds /\ m.seq < x.out_msg_seq
    /\ \A m, n \in T : m.seq = n.seq => m = n
    /\ \A s \in Nat : s < x.out_msg_seq => \E m \in T : m.seq = s
    /\ \A m \in Updates(T) : m.epoch >= 3 /\ m.epoch < Limit(x)
    /\ \A m, n \in Updates(T) : m.seq < n.seq => m.epoch < n.epoch
    /\ \A n \in Nat : n >= 3 /\ n < Limit(x) => \E m \in Updates(T) : m.epoch = n
    /\ x.in_flight \subseteq T
    /\ x.key_update_pending => Updates(x.in_flight) # {}
    /\ \A m \in Updates(x.in_flight) : x.key_update_pending /\ m.epoch = x.enc_write_epoch

OneCid(x) ==
    \A m, n \in x.in_flight :
        m.kind = "new_connection_id" /\ n.kind = "new_connection_id" => m = n

(* A connection at work, the records N of its earlier handlers on the wire.*)
EndOK(x, N) == ConnState(x) /\ WriterOK(x, Messages(N \cup x.outbox)) /\ OneCid(x)

(* A reader x of a peer that has sent the messages T: it buffers what was  *)
(* sent, and has installed an epoch for each KeyUpdate it dispatched.      *)
ReaderOK(x, T) ==
    /\ x.read >= 3 /\ x.prev_read < x.read
    /\ \A b \in x.buffered : b.seq \in Nat /\ \E m \in T : m.seq = b.seq /\ m.kind = b.kind
    /\ \A m \in Updates(T) : m.seq < x.expected_msg_seq <=> m.epoch < x.read

(* The reader x is not ahead of the writer w. *)
Behind(x, w) == x.expected_msg_seq <= w.out_msg_seq /\ x.read <= Limit(w)

SameReader(x, y) ==
    /\ y.read = x.read /\ y.prev_read = x.prev_read
    /\ y.expected_msg_seq = x.expected_msg_seq /\ y.buffered = x.buffered

SameWriter(x, y) ==
    /\ y.enc_write_epoch = x.enc_write_epoch /\ y.key_update_pending = x.key_update_pending
    /\ y.out_msg_seq = x.out_msg_seq /\ y.in_flight = x.in_flight

(* The messages T of x have become T2 of y: the new ones come after        *)
(* everything a reader can have seen.                                      *)
Sends(x, T, y, T2) ==
    /\ T \subseteq T2
    /\ \A m \in T2 \ T :
          m.seq >= x.out_msg_seq /\ (m.kind \in KeyUpdates => m.epoch >= Limit(x))
    /\ y.out_msg_seq >= x.out_msg_seq /\ Limit(y) >= Limit(x)

(* Likewise, and no ACK was queued with them. *)
Grows(x, T, y, T2) ==
    /\ Sends(x, T, y, T2)
    /\ \A o \in y.outbox : o.type = "ack" => o \in x.outbox

-----------------------------------------------------------------------------
(* Messages on the wire.                                                   *)

(* A handshake record carries its message ... *)
LEMMA HandshakeSent ==
    ASSUME NEW S, NEW kind, NEW seq, NEW epoch
    PROVE  Messages(S \cup {Handshake(Message(kind, seq, epoch))})
             = Messages(S) \cup {Message(kind, seq, epoch)}
<1> DEFINE m == Message(kind, seq, epoch)
           h == Handshake(m)
<1>1. h.type # "ack" /\ h.kind = kind /\ h.seq = seq /\ h.epoch = epoch
  BY DEF Handshake, Message
<1> HIDE DEF h
<1>2. ASSUME NEW q \in Messages(S \cup {h}) PROVE q \in Messages(S) \cup {m}
  <2>1. PICK r \in S \cup {h} : r.type # "ack" /\ q = Message(r.kind, r.seq, r.epoch)
    BY DEF Messages
  <2> QED BY <1>1, <2>1 DEF Messages
<1>3. Messages(S) \subseteq Messages(S \cup {h})
  BY DEF Messages
<1>4. m \in Messages(S \cup {h})
  BY <1>1 DEF Messages
<1> QED BY <1>2, <1>3, <1>4 DEF h

(* ... and an ACK carries none. *)
LEMMA AckSent ==
    ASSUME NEW S, NEW epoch, NEW r
    PROVE  Messages(S \cup {Ack(epoch, r)}) = Messages(S)
<1>1. Ack(epoch, r).type = "ack"
  BY DEF Ack
<1> QED BY <1>1 DEF Messages

(* What was sent already changes nothing. *)
LEMMA ResentSent ==
    ASSUME NEW S, NEW F, F \subseteq Messages(S)
    PROVE  Messages(S \cup {Handshake(f) : f \in F}) = Messages(S)
<1> DEFINE R == {Handshake(f) : f \in F}
<1>1. ASSUME NEW f \in F PROVE Message(f.kind, f.seq, f.epoch) = f
  BY DEF Messages, Message
<1>2. ASSUME NEW q \in Messages(S \cup R) PROVE q \in Messages(S)
  <2>1. PICK r \in S \cup R : r.type # "ack" /\ q = Message(r.kind, r.seq, r.epoch)
    BY DEF Messages
  <2>2. CASE r \in S
    BY <2>1, <2>2 DEF Messages
  <2>3. CASE r \in R
    <3>1. PICK f \in F : r = Handshake(f)
      BY <2>3
    <3>2. r.kind = f.kind /\ r.seq = f.seq /\ r.epoch = f.epoch
      BY <3>1 DEF Handshake
    <3> QED BY <1>1, <2>1, <3>2
  <2> QED BY <2>2, <2>3
<1>3. Messages(S) \subseteq Messages(S \cup R)
  BY DEF Messages
<1> QED BY <1>2, <1>3

-----------------------------------------------------------------------------
(* What the operations on a connection do.                                 *)

(* The fields after Emit. *)
LEMMA EmitFields ==
    ASSUME NEW x, ConnState(x), NEW kind, NEW N
    PROVE  LET y == Emit(x, kind)
               m == Message(kind, x.out_msg_seq, x.enc_write_epoch)
           IN  /\ ConnState(y) /\ SameReader(x, y) /\ y.state = x.state
               /\ y.enc_write_epoch = x.enc_write_epoch
               /\ y.key_update_pending = x.key_update_pending
               /\ y.cid_reply_owed = x.cid_reply_owed /\ y.attempts = x.attempts
               /\ y.out_msg_seq = x.out_msg_seq + 1 /\ y.in_flight = x.in_flight \cup {m}
               /\ Messages(N \cup y.outbox) = Messages(N \cup x.outbox) \cup {m}
               /\ \A o \in y.outbox : o.type = "ack" => o \in x.outbox
<1> DEFINE y == Emit(x, kind)
           m == Message(kind, x.out_msg_seq, x.enc_write_epoch)
<1>1. y = [x EXCEPT !.out_msg_seq = @ + 1, !.in_flight = @ \cup {m},
                    !.outbox = @ \cup {Handshake(m)}]
  BY DEF Emit, Message
<1> HIDE DEF y, m
<1>2. /\ ConnState(y) /\ SameReader(x, y) /\ y.state = x.state
      /\ y.enc_write_epoch = x.enc_write_epoch
      /\ y.key_update_pending = x.key_update_pending
      /\ y.cid_reply_owed = x.cid_reply_owed /\ y.attempts = x.attempts
      /\ y.out_msg_seq = x.out_msg_seq + 1 /\ y.in_flight = x.in_flight \cup {m}
      /\ y.outbox = x.outbox \cup {Handshake(m)}
  BY <1>1 DEF ConnState, Fields, SameReader
<1>3. N \cup y.outbox = (N \cup x.outbox) \cup {Handshake(m)}
  BY <1>2
<1>4. Messages(N \cup y.outbox) = Messages(N \cup x.outbox) \cup {m}
  BY <1>3, HandshakeSent DEF m
<1>5. \A o \in y.outbox : o.type = "ack" => o \in x.outbox
  BY <1>2 DEF Handshake
<1> QED BY <1>2, <1>4, <1>5 DEF y, m

(* The number of a new message is new. *)
LEMMA NewNumber ==
    ASSUME NEW x, ConnState(x), NEW T, WriterOK(x, T), NEW y,
           NEW m, m.kind \in Kinds, m.seq = x.out_msg_seq, m.epoch \in Nat,
           y.out_msg_seq = x.out_msg_seq + 1
    PROVE  /\ \A n \in T \cup {m} :
                 n.seq \in Nat /\ n.epoch \in Nat /\ n.kind \in Kinds /\ n.seq < y.out_msg_seq
           /\ \A n, k \in T \cup {m} : n.seq = k.seq => n = k
           /\ \A s \in Nat : s < y.out_msg_seq => \E n \in T \cup {m} : n.seq = s
<1>1. x.out_msg_seq \in Nat
  BY DEF ConnState
<1>2. \A n \in T : n.seq \in Nat /\ n.seq < x.out_msg_seq
  BY DEF WriterOK
<1>3. \A n \in T \cup {m} :
        n.seq \in Nat /\ n.epoch \in Nat /\ n.kind \in Kinds /\ n.seq < y.out_msg_seq
  BY <1>1, <1>2 DEF WriterOK
<1>4. \A n, k \in T \cup {m} : n.seq = k.seq => n = k
  BY <1>1, <1>2 DEF WriterOK
<1>5. ASSUME NEW s \in Nat, s < y.out_msg_seq PROVE \E n \in T \cup {m} : n.seq = s
  BY <1>1, <1>5 DEF WriterOK
<1> QED BY <1>3, <1>4, <1>5

(* A message that is not a KeyUpdate goes out. *)
LEMMA EmitOther ==
    ASSUME NEW x, NEW N, EndOK(x, N), NEW kind \in Kinds \ KeyUpdates,
           kind = "new_connection_id" => ~InFlight(x, {"new_connection_id"})
    PROVE  LET y == Emit(x, kind)
           IN  /\ EndOK(y, N) /\ SameReader(x, y) /\ y.state = x.state
               /\ y.enc_write_epoch = x.enc_write_epoch
               /\ y.key_update_pending = x.key_update_pending
               /\ Grows(x, Messages(N \cup x.outbox), y, Messages(N \cup y.outbox))
<1> DEFINE y == Emit(x, kind)
           m == Message(kind, x.out_msg_seq, x.enc_write_epoch)
           T == Messages(N \cup x.outbox)
           T2 == Messages(N \cup y.outbox)
<1>1. ConnState(x) /\ WriterOK(x, T) /\ OneCid(x)
  BY DEF EndOK
<1>2. /\ ConnState(y) /\ SameReader(x, y) /\ y.state = x.state
      /\ y.enc_write_epoch = x.enc_write_epoch
      /\ y.key_update_pending = x.key_update_pending
      /\ y.out_msg_seq = x.out_msg_seq + 1 /\ y.in_flight = x.in_flight \cup {m}
      /\ T2 = T \cup {m} /\ \A o \in y.outbox : o.type = "ack" => o \in x.outbox
  BY <1>1, EmitFields
<1>3. m.kind = kind /\ m.seq = x.out_msg_seq /\ m.epoch = x.enc_write_epoch /\ m.epoch \in Nat
  BY <1>1 DEF Message, ConnState
<1>4. x.out_msg_seq \in Nat /\ Limit(x) \in Nat /\ Limit(y) = Limit(x)
  BY <1>1, <1>2 DEF ConnState, Limit
<1> HIDE DEF y, m, T, T2
<1>5. Updates(T2) = Updates(T)
  BY <1>2, <1>3 DEF Updates
<1>6. WriterOK(y, T2)
  <2>1. /\ \A n \in T2 :
             n.seq \in Nat /\ n.epoch \in Nat /\ n.kind \in Kinds /\ n.seq < y.out_msg_seq
        /\ \A n, k \in T2 : n.seq = k.seq => n = k
        /\ \A s \in Nat : s < y.out_msg_seq => \E n \in T2 : n.seq = s
    BY <1>1, <1>2, <1>3, NewNumber
  <2>2. y.in_flight \subseteq T2
    BY <1>1, <1>2 DEF WriterOK
  <2>3. /\ y.key_update_pending => Updates(y.in_flight) # {}
        /\ \A n \in Updates(y.in_flight) : y.key_update_pending /\ n.epoch = y.enc_write_epoch
    <3>1. Updates(y.in_flight) = Updates(x.in_flight)
      BY <1>2, <1>3 DEF Updates
    <3> QED BY <1>1, <1>2, <3>1 DEF WriterOK
  <2> QED BY <1>1, <1>4, <1>5, <2>1, <2>2, <2>3 DEF WriterOK
<1>7. OneCid(y)
  BY <1>1, <1>2, <1>3 DEF OneCid, InFlight
<1>8. Grows(x, T, y, T2)
  BY <1>2, <1>3, <1>4 DEF Grows, Sends
<1> QED BY <1>2, <1>6, <1>7, <1>8 DEF EndOK, y, T, T2

(* A KeyUpdate goes out, none being pending. *)
LEMMA StartUpdateOK ==
    ASSUME NEW x, NEW N, EndOK(x, N), NEW kind \in KeyUpdates, ~x.key_update_pending
    PROVE  LET y == StartUpdate(x, kind)
           IN  /\ EndOK(y, N) /\ SameReader(x, y) /\ y.state = x.state
               /\ y.key_update_pending /\ y.enc_write_epoch = x.enc_write_epoch
               /\ y.cid_reply_owed = x.cid_reply_owed /\ y.attempts = x.attempts
               /\ Grows(x, Messages(N \cup x.outbox), y, Messages(N \cup y.outbox))
               /\ \A q \in Messages(N \cup y.outbox) :
                     q \in Messages(N \cup x.outbox) \/ q.kind \in KeyUpdates
<1> DEFINE z == Emit(x, kind)
           y == StartUpdate(x, kind)
           m == Message(kind, x.out_msg_seq, x.enc_write_epoch)
           T == Messages(N \cup x.outbox)
           T2 == Messages(N \cup y.outbox)
<1>1. ConnState(x) /\ WriterOK(x, T) /\ OneCid(x)
  BY DEF EndOK
<1>2. /\ ConnState(z) /\ SameReader(x, z) /\ z.state = x.state
      /\ z.enc_write_epoch = x.enc_write_epoch
      /\ z.cid_reply_owed = x.cid_reply_owed /\ z.attempts = x.attempts
      /\ z.out_msg_seq = x.out_msg_seq + 1 /\ z.in_flight = x.in_flight \cup {m}
      /\ Messages(N \cup z.outbox) = T \cup {m}
      /\ \A o \in z.outbox : o.type = "ack" => o \in x.outbox
  BY <1>1, EmitFields
<1>3. m.kind = kind /\ m.seq = x.out_msg_seq /\ m.epoch = x.enc_write_epoch /\ m.epoch \in Nat
  BY <1>1 DEF Message, ConnState
<1>4. y = [z EXCEPT !.key_update_pending = TRUE]
  BY DEF StartUpdate
<1> HIDE DEF z, y, m, T
<1>5. /\ ConnState(y) /\ SameReader(x, y) /\ y.state = x.state
      /\ y.enc_write_epoch = x.enc_write_epoch /\ y.key_update_pending = TRUE
      /\ y.cid_reply_owed = x.cid_reply_owed /\ y.attempts = x.attempts
      /\ y.out_msg_seq = x.out_msg_seq + 1 /\ y.in_flight = x.in_flight \cup {m}
      /\ y.outbox = z.outbox
  BY <1>2, <1>4 DEF ConnState, Fields, SameReader
<1>6. T2 = T \cup {m}
  BY <1>2, <1>5
<1> HIDE DEF T2
<1>7. /\ x.out_msg_seq \in Nat /\ Limit(x) = x.enc_write_epoch /\ Limit(x) \in Nat
      /\ Limit(x) >= 3 /\ Limit(y) = Limit(x) + 1
  BY <1>1, <1>5 DEF ConnState, Limit
<1>8. Updates(T2) = Updates(T) \cup {m}
  BY <1>3, <1>6 DEF Updates
<1>9. WriterOK(y, T2)
  <2>1. /\ \A n \in T2 :
             n.seq \in Nat /\ n.epoch \in Nat /\ n.kind \in Kinds /\ n.seq < y.out_msg_seq
        /\ \A n, k \in T2 : n.seq = k.seq => n = k
        /\ \A s \in Nat : s < y.out_msg_seq => \E n \in T2 : n.seq = s
    BY <1>1, <1>3, <1>5, <1>6, NewNumber DEF Kinds
  <2>2. y.in_flight \subseteq T2
    BY <1>1, <1>5, <1>6 DEF WriterOK
  <2>3. /\ Updates(y.in_flight) # {}
        /\ \A n \in Updates(y.in_flight) : y.key_update_pending /\ n.epoch = y.enc_write_epoch
    <3>1. Updates(x.in_flight) = {}
      BY <1>1 DEF WriterOK
    <3>2. Updates(y.in_flight) = {m}
      BY <1>3, <1>5, <3>1 DEF Updates
    <3> QED BY <1>3, <1>5, <3>2
  <2>4. \A n \in Updates(T) :
          n.seq \in Nat /\ n.epoch \in Nat /\ n.seq < x.out_msg_seq /\ n.epoch >= 3 /\ n.epoch < Limit(x)
    BY <1>1 DEF WriterOK, Updates
  <2>5. \A n \in Updates(T2) : n.epoch >= 3 /\ n.epoch < Limit(y)
    BY <1>3, <1>7, <1>8, <2>4
  <2>6. \A n, k \in Updates(T2) : n.seq < k.seq => n.epoch < k.epoch
    <3>1. \A n, k \in Updates(T) : n.seq < k.seq => n.epoch < k.epoch
      BY <1>1 DEF WriterOK
    <3> QED BY <1>3, <1>7, <1>8, <2>4, <3>1
  <2>7. \A n \in Nat : n >= 3 /\ n < Limit(y) => \E k \in Updates(T2) : k.epoch = n
    <3>1. \A n \in Nat : n >= 3 /\ n < Limit(x) => \E k \in Updates(T) : k.epoch = n
      BY <1>1 DEF WriterOK
    <3> QED BY <1>3, <1>7, <1>8, <3>1
  <2> QED BY <2>1, <2>2, <2>3, <2>5, <2>6, <2>7 DEF WriterOK
<1>10. OneCid(y)
  BY <1>1, <1>3, <1>5 DEF OneCid, KeyUpdates
<1>11. Grows(x, T, y, T2)
  BY <1>2, <1>3, <1>5, <1>6, <1>7 DEF Grows, Sends
<1>12. \A q \in T2 : q \in T \/ q.kind \in KeyUpdates
  BY <1>3, <1>6
<1> QED BY <1>5, <1>9, <1>10, <1>11, <1>12 DEF EndOK, y, T, T2

(* What leaves the sending side alone keeps it. *)
LEMMA WriterFrame ==
    ASSUME NEW x, NEW N, EndOK(x, N), NEW y, ConnState(y), SameWriter(x, y), y.outbox = x.outbox
    PROVE  /\ EndOK(y, N)
           /\ Grows(x, Messages(N \cup x.outbox), y, Messages(N \cup y.outbox))
<1> DEFINE T == Messages(N \cup x.outbox)
<1>1. ConnState(x) /\ WriterOK(x, T) /\ OneCid(x)
  BY DEF EndOK
<1>2. Messages(N \cup y.outbox) = T
  OBVIOUS
<1>3. Limit(y) = Limit(x) /\ Limit(x) \in Nat /\ x.out_msg_seq \in Nat /\ y.out_msg_seq = x.out_msg_seq
  BY <1>1 DEF SameWriter, Limit, ConnState
<1> HIDE DEF T
<1>4. WriterOK(y, T)
  BY <1>1, <1>3 DEF WriterOK, SameWriter
<1>5. OneCid(y)
  BY <1>1 DEF OneCid, SameWriter
<1>6. Grows(x, T, y, T)
  BY <1>3 DEF Grows, Sends
<1> QED BY <1>2, <1>4, <1>5, <1>6 DEF EndOK, T

(* Sending composes. *)
LEMMA GrowsOn ==
    ASSUME NEW x, NEW y, NEW z, ConnState(x), ConnState(y), ConnState(z),
           NEW T, NEW U, NEW V, WriterOK(z, V), Grows(x, T, y, U), Grows(y, U, z, V)
    PROVE  Grows(x, T, z, V)
<1>1. /\ Limit(x) \in Nat /\ Limit(y) \in Nat /\ Limit(z) \in Nat
      /\ x.out_msg_seq \in Nat /\ y.out_msg_seq \in Nat /\ z.out_msg_seq \in Nat
  BY DEF ConnState, Limit
<1>2. \A m \in V : m.seq \in Nat /\ m.epoch \in Nat
  BY DEF WriterOK
<1>3. /\ T \subseteq V /\ z.out_msg_seq >= x.out_msg_seq /\ Limit(z) >= Limit(x)
      /\ \A o \in z.outbox : o.type = "ack" => o \in x.outbox
  BY <1>1 DEF Grows, Sends
<1>4. ASSUME NEW m \in V \ T
      PROVE  m.seq >= x.out_msg_seq /\ (m.kind \in KeyUpdates => m.epoch >= Limit(x))
  <2>1. CASE m \in U
    BY <2>1 DEF Grows, Sends
  <2>2. CASE m \notin U
    <3>1. m.seq >= y.out_msg_seq /\ (m.kind \in KeyUpdates => m.epoch >= Limit(y))
      BY <2>2 DEF Grows, Sends
    <3>2. y.out_msg_seq >= x.out_msg_seq /\ Limit(y) >= Limit(x)
      BY DEF Grows, Sends
    <3> QED BY <1>1, <1>2, <3>1, <3>2
  <2> QED BY <2>1, <2>2
<1> QED BY <1>3, <1>4 DEF Grows, Sends

(* flush_owed_new_connection_id sends at most one reply. *)
LEMMA FlushOwedOK ==
    ASSUME NEW x, NEW N, EndOK(x, N)
    PROVE  LET y == FlushOwed(x)
           IN  /\ EndOK(y, N) /\ SameReader(x, y) /\ y.state = x.state
               /\ y.enc_write_epoch = x.enc_write_epoch
               /\ y.key_update_pending = x.key_update_pending
               /\ Grows(x, Messages(N \cup x.outbox), y, Messages(N \cup y.outbox))
               /\ ~x.cid_reply_owed => y = x
<1> DEFINE y == FlushOwed(x)
<1>1. ConnState(x)
  BY DEF EndOK
<1>2. CASE ~(x.cid_reply_owed /\ ~InFlight(x, {"new_connection_id"}))
  <2>1. y = x
    BY <1>2 DEF FlushOwed
  <2>2. SameWriter(x, x) /\ SameReader(x, x)
    BY DEF SameWriter, SameReader
  <2> QED BY <1>1, <2>1, <2>2, WriterFrame
<1>3. CASE x.cid_reply_owed /\ ~InFlight(x, {"new_connection_id"})
  <2> DEFINE z == Emit(x, "new_connection_id")
  <2>1. /\ EndOK(z, N) /\ SameReader(x, z) /\ z.state = x.state
        /\ z.enc_write_epoch = x.enc_write_epoch
        /\ z.key_update_pending = x.key_update_pending
        /\ Grows(x, Messages(N \cup x.outbox), z, Messages(N \cup z.outbox))
    BY <1>3, EmitOther DEF Kinds, KeyUpdates
  <2>2. y = [z EXCEPT !.cid_reply_owed = FALSE]
    BY <1>3 DEF FlushOwed
  <2> HIDE DEF y, z
  <2>3. ConnState(z) /\ WriterOK(z, Messages(N \cup z.outbox))
    BY <2>1 DEF EndOK
  <2>4. /\ ConnState(y) /\ SameReader(x, y) /\ y.state = x.state
        /\ SameWriter(z, y) /\ y.outbox = z.outbox
    BY <2>1, <2>2, <2>3 DEF ConnState, Fields, SameReader, SameWriter
  <2>5. EndOK(y, N) /\ Grows(z, Messages(N \cup z.outbox), y, Messages(N \cup y.outbox))
    BY <2>1, <2>4, WriterFrame
  <2>6. WriterOK(y, Messages(N \cup y.outbox))
    BY <2>5 DEF EndOK
  <2>7. Grows(x, Messages(N \cup x.outbox), y, Messages(N \cup y.outbox))
    BY <1>1, <2>1, <2>3, <2>4, <2>5, <2>6, GrowsOn
  <2> QED BY <1>3, <2>1, <2>4, <2>5, <2>7 DEF SameWriter, y
<1> QED BY <1>2, <1>3

(* on_key_update_received installs the next epoch, and may answer with a   *)
(* KeyUpdate of its own.                                                   *)
LEMMA OnKeyUpdateOK ==
    ASSUME NEW x, NEW N, EndOK(x, N), NEW kind
    PROVE  LET y == OnKeyUpdate(x, kind)
           IN  /\ EndOK(y, N) /\ y.state = x.state
               /\ y.read = x.read + 1 /\ y.prev_read = x.read
               /\ y.expected_msg_seq = x.expected_msg_seq /\ y.buffered = x.buffered
               /\ Grows(x, Messages(N \cup x.outbox), y, Messages(N \cup y.outbox))
               /\ y.enc_write_epoch = x.enc_write_epoch
               /\ y.cid_reply_owed = x.cid_reply_owed /\ y.attempts = x.attempts
               /\ x.key_update_pending => y.key_update_pending
               /\ \A q \in Messages(N \cup y.outbox) :
                     q \in Messages(N \cup x.outbox) \/ q.kind \in KeyUpdates
<1> DEFINE y == OnKeyUpdate(x, kind)
           z == InstallNext(x)
<1>1. ConnState(x)
  BY DEF EndOK
<1>2. /\ ConnState(z) /\ SameWriter(x, z) /\ z.outbox = x.outbox /\ z.state = x.state
      /\ z.read = x.read + 1 /\ z.prev_read = x.read
      /\ z.expected_msg_seq = x.expected_msg_seq /\ z.buffered = x.buffered
      /\ z.enc_write_epoch = x.enc_write_epoch
      /\ z.cid_reply_owed = x.cid_reply_owed /\ z.attempts = x.attempts
      /\ z.key_update_pending = x.key_update_pending
  BY <1>1 DEF InstallNext, ConnState, Fields, SameWriter
<1>3. EndOK(z, N) /\ Grows(x, Messages(N \cup x.outbox), z, Messages(N \cup z.outbox))
  BY <1>2, WriterFrame
<1>4. CASE ~(kind = "key_update_requested" /\ ~x.key_update_pending)
  <2>1. y = z
    BY <1>4 DEF OnKeyUpdate
  <2> HIDE DEF y, z
  <2> QED BY <1>2, <1>3, <2>1 DEF y
<1>5. CASE kind = "key_update_requested" /\ ~x.key_update_pending
  <2>1. y = StartUpdate(z, "key_update")
    BY <1>5 DEF OnKeyUpdate
  <2> HIDE DEF y, z
  <2>2. "key_update" \in KeyUpdates
    BY DEF KeyUpdates
  <2>3. /\ EndOK(y, N) /\ SameReader(z, y) /\ y.state = z.state
        /\ y.key_update_pending /\ y.enc_write_epoch = z.enc_write_epoch
        /\ y.cid_reply_owed = z.cid_reply_owed /\ y.attempts = z.attempts
        /\ Grows(z, Messages(N \cup z.outbox), y, Messages(N \cup y.outbox))
        /\ \A q \in Messages(N \cup y.outbox) :
              q \in Messages(N \cup z.outbox) \/ q.kind \in KeyUpdates
    BY <1>2, <1>3, <1>5, <2>1, <2>2, StartUpdateOK
  <2>4. ConnState(y) /\ WriterOK(y, Messages(N \cup y.outbox))
    BY <2>3 DEF EndOK
  <2>5. Grows(x, Messages(N \cup x.outbox), y, Messages(N \cup y.outbox))
    BY <1>1, <1>2, <1>3, <2>3, <2>4, GrowsOn
  <2>6. y.read = x.read + 1 /\ y.prev_read = x.read
        /\ y.expected_msg_seq = x.expected_msg_seq /\ y.buffered = x.buffered
    BY <1>2, <2>3 DEF SameReader
  <2> QED BY <1>2, <2>3, <2>5, <2>6 DEF y
<1> QED BY <1>4, <1>5

-----------------------------------------------------------------------------
(* What dispatching does.                                                  *)

(* A handler of the connection x has come to y. *)
Handled(x, y, N) ==
    /\ EndOK(y, N) /\ y.state = x.state
    /\ Grows(x, Messages(N \cup x.outbox), y, Messages(N \cup y.outbox))

(* It has sent nothing but KeyUpdates, and completed none. *)
UpdatesOnly(x, y, N) ==
    /\ y.enc_write_epoch = x.enc_write_epoch
    /\ y.cid_reply_owed = x.cid_reply_owed /\ y.attempts = x.attempts
    /\ x.key_update_pending => y.key_update_pending
    /\ \A q \in Messages(N \cup y.outbox) :
          q \in Messages(N \cup x.outbox) \/ q.kind \in KeyUpdates

(* So do the parts of a handler. *)
LEMMA HandledOn ==
    ASSUME NEW N, NEW x, EndOK(x, N), NEW y, Handled(x, y, N), NEW z, Handled(y, z, N)
    PROVE  Handled(x, z, N) /\ (UpdatesOnly(x, y, N) /\ UpdatesOnly(y, z, N) => UpdatesOnly(x, z, N))
<1>1. /\ ConnState(x) /\ ConnState(y) /\ ConnState(z)
      /\ WriterOK(z, Messages(N \cup z.outbox))
  BY DEF Handled, EndOK
<1>2. Grows(x, Messages(N \cup x.outbox), z, Messages(N \cup z.outbox))
  BY <1>1, GrowsOn DEF Handled
<1>3. UpdatesOnly(x, y, N) /\ UpdatesOnly(y, z, N) => UpdatesOnly(x, z, N)
  BY DEF UpdatesOnly
<1> QED BY <1>2, <1>3 DEF Handled

(* A handler may do nothing to the sending side. *)
LEMMA HandledFrame ==
    ASSUME NEW N, NEW x, EndOK(x, N), NEW y, ConnState(y), SameWriter(x, y),
           y.outbox = x.outbox, y.state = x.state
    PROVE  Handled(x, y, N)
BY WriterFrame DEF Handled

(* on_post_handshake: a KeyUpdate installs one epoch, anything else none. *)
LEMMA DispatchOK ==
    ASSUME NEW N, NEW x, EndOK(x, N), NEW m, m.kind \in Kinds
    PROVE  LET y == Dispatch(x, m)
           IN  /\ Handled(x, y, N)
               /\ y.expected_msg_seq = x.expected_msg_seq /\ y.buffered = x.buffered
               /\ m.kind \in KeyUpdates =>
                     y.read = x.read + 1 /\ y.prev_read = x.read /\ UpdatesOnly(x, y, N)
               /\ m.kind \notin KeyUpdates => y.read = x.read /\ y.prev_read = x.prev_read
<1> DEFINE y == Dispatch(x, m)
<1>0. ConnState(x)
  BY DEF EndOK
<1>1. CASE m.kind \in KeyUpdates
  <2>1. y = OnKeyUpdate(x, m.kind)
    BY <1>1 DEF Dispatch, KeyUpdates
  <2> HIDE DEF y
  <2>2. /\ EndOK(y, N) /\ y.state = x.state
        /\ y.read = x.read + 1 /\ y.prev_read = x.read
        /\ y.expected_msg_seq = x.expected_msg_seq /\ y.buffered = x.buffered
        /\ Grows(x, Messages(N \cup x.outbox), y, Messages(N \cup y.outbox))
        /\ UpdatesOnly(x, y, N)
    BY <2>1, OnKeyUpdateOK DEF UpdatesOnly
  <2> QED BY <1>1, <2>2 DEF Handled, y
<1>2. CASE m.kind = "request_connection_id"
  <2> DEFINE z == [x EXCEPT !.cid_reply_owed = TRUE]
  <2>1. y = FlushOwed(z) /\ m.kind \notin KeyUpdates
    BY <1>2 DEF Dispatch, KeyUpdates
  <2>2. /\ ConnState(z) /\ SameWriter(x, z) /\ SameReader(x, z)
        /\ z.outbox = x.outbox /\ z.state = x.state
    BY <1>0 DEF ConnState, Fields, SameWriter, SameReader
  <2> HIDE DEF y, z
  <2>3. Handled(x, z, N) /\ EndOK(z, N)
    BY <2>2, HandledFrame DEF Handled
  <2>4. Handled(z, y, N) /\ SameReader(z, y)
    BY <2>1, <2>3, FlushOwedOK DEF Handled
  <2>5. Handled(x, y, N)
    BY <2>3, <2>4, HandledOn
  <2>6. SameReader(x, y)
    BY <2>2, <2>4 DEF SameReader
  <2> QED BY <2>1, <2>5, <2>6 DEF SameReader, y
<1>3. CASE m.kind = "new_connection_id"
  <2>1. y = [x EXCEPT !.request_pending = FALSE] /\ m.kind \notin KeyUpdates
    BY <1>3 DEF Dispatch, KeyUpdates
  <2> HIDE DEF y
  <2>2. /\ ConnState(y) /\ SameWriter(x, y) /\ SameReader(x, y)
        /\ y.outbox = x.outbox /\ y.state = x.state
    BY <1>0, <2>1 DEF ConnState, Fields, SameWriter, SameReader
  <2>3. Handled(x, y, N)
    BY <2>2, HandledFrame
  <2> QED BY <2>1, <2>2, <2>3 DEF SameReader, y
<1>4. CASE m.kind = "new_session_ticket"
  <2>1. y = x /\ m.kind \notin KeyUpdates
    BY <1>4 DEF Dispatch, KeyUpdates
  <2> HIDE DEF y
  <2>2. ConnState(y) /\ SameWriter(x, y) /\ SameReader(x, y)
    BY <1>0, <2>1 DEF SameWriter, SameReader
  <2>3. Handled(x, y, N)
    BY <2>1, <2>2, HandledFrame
  <2> QED BY <2>1, <2>2, <2>3 DEF SameReader, y
<1> QED BY <1>1, <1>2, <1>3, <1>4 DEF Kinds

(* The KeyUpdate at the head is the one that announced the reader's epoch. *)
LEMMA HeadUpdate ==
    ASSUME NEW x, ConnState(x), NEW w, ConnState(w), NEW T, WriterOK(w, T), ReaderOK(x, T),
           NEW m \in Updates(T), m.seq = x.expected_msg_seq
    PROVE  m.epoch = x.read
<1>1. \A n \in Updates(T) : n \in T /\ n.seq \in Nat /\ n.epoch \in Nat /\ n.epoch < Limit(w)
  BY DEF WriterOK, Updates
<1>2. x.read \in Nat /\ x.read >= 3 /\ x.expected_msg_seq \in Nat /\ Limit(w) \in Nat
  BY DEF ConnState, ReaderOK, Limit
<1>3. m.epoch >= x.read
  BY <1>1, <1>2 DEF ReaderOK
<1>4. x.read < Limit(w)
  BY <1>1, <1>2, <1>3
<1>5. PICK n \in Updates(T) : n.epoch = x.read
  BY <1>2, <1>4 DEF WriterOK
<1>6. n.seq >= m.seq
  BY <1>1, <1>2, <1>5 DEF ReaderOK
<1>7. n.seq = m.seq => n = m
  BY <1>1 DEF WriterOK
<1>8. m.seq < n.seq => m.epoch < n.epoch
  BY DEF WriterOK
<1> QED BY <1>1, <1>2, <1>3, <1>5, <1>6, <1>7, <1>8

(* One turn of the dispatching loop. *)
Popped(x, y, T, N) ==
    /\ Handled(x, y, N)
    /\ y.expected_msg_seq >= x.expected_msg_seq
    /\ \/ y.read = x.read /\ y.prev_read = x.prev_read
       \/ y.read > x.read /\ y.prev_read = y.read - 1
    /\ (\A m \in T : m.kind \in KeyUpdates) => UpdatesOnly(x, y, N)

(* pop_ready takes the next message the peer sent, and no other. *)
LEMMA PopOK ==
    ASSUME NEW N, NEW x, EndOK(x, N), NEW w, ConnState(w), NEW T, WriterOK(w, T),
           ReaderOK(x, T), Behind(x, w)
    PROVE  LET y == Pop(x)
           IN  /\ Popped(x, y, T, N) /\ ReaderOK(y, T) /\ Behind(y, w)
               /\ AtHead(x) # {} => y.expected_msg_seq > x.expected_msg_seq
<1> DEFINE y == Pop(x)
<1>0. ConnState(x)
  BY DEF EndOK
<1>1. CASE AtHead(x) = {}
  <2>1. y = x
    BY <1>1 DEF Pop
  <2>2. SameWriter(x, x)
    BY DEF SameWriter
  <2>3. Handled(x, x, N) /\ x.expected_msg_seq >= x.expected_msg_seq
    BY <1>0, <2>2, HandledFrame DEF ConnState
  <2>4. UpdatesOnly(x, x, N)
    BY DEF UpdatesOnly
  <2> HIDE DEF y
  <2> QED BY <1>1, <2>1, <2>3, <2>4 DEF Popped, y
<1>2. CASE AtHead(x) # {}
  <2> DEFINE b == CHOOSE k \in AtHead(x) : TRUE
             z == [x EXCEPT !.expected_msg_seq = @ + 1,
                            !.buffered = {k \in @ : k.seq > x.expected_msg_seq}]
  <2>1. b \in x.buffered /\ b.seq = x.expected_msg_seq
    BY <1>2 DEF AtHead
  <2>2. y = Dispatch(z, b)
    BY <1>2 DEF Pop
  <2> HIDE DEF b
  <2>3. PICK m \in T : m.seq = b.seq /\ m.kind = b.kind
    BY <2>1 DEF ReaderOK
  <2>4. b.kind \in Kinds /\ m.seq \in Nat /\ m.seq < w.out_msg_seq
    BY <2>3 DEF WriterOK
  <2>5. /\ ConnState(z) /\ SameWriter(x, z) /\ z.outbox = x.outbox /\ z.state = x.state
        /\ z.read = x.read /\ z.prev_read = x.prev_read
        /\ z.expected_msg_seq = x.expected_msg_seq + 1 /\ z.buffered \subseteq x.buffered
        /\ z.enc_write_epoch = x.enc_write_epoch
        /\ z.cid_reply_owed = x.cid_reply_owed /\ z.attempts = x.attempts
        /\ z.key_update_pending = x.key_update_pending
    BY <1>0 DEF ConnState, Fields, SameWriter
  <2> HIDE DEF y, z
  <2>6. Handled(x, z, N) /\ EndOK(z, N) /\ UpdatesOnly(x, z, N)
    BY <2>5, HandledFrame DEF Handled, UpdatesOnly
  <2>7. /\ Handled(z, y, N)
        /\ y.expected_msg_seq = z.expected_msg_seq /\ y.buffered = z.buffered
        /\ b.kind \in KeyUpdates =>
              y.read = z.read + 1 /\ y.prev_read = z.read /\ UpdatesOnly(z, y, N)
        /\ b.kind \notin KeyUpdates => y.read = z.read /\ y.prev_read = z.prev_read
    BY <2>2, <2>4, <2>6, DispatchOK
  <2>8. /\ Handled(x, y, N)
        /\ UpdatesOnly(z, y, N) => UpdatesOnly(x, y, N)
    BY <2>6, <2>7, HandledOn
  <2>9. x.expected_msg_seq \in Nat /\ x.read \in Nat /\ x.read >= 3 /\ Limit(w) \in Nat
        /\ w.out_msg_seq \in Nat
    BY <1>0 DEF ConnState, ReaderOK, Limit
  <2>10. y.expected_msg_seq = x.expected_msg_seq + 1 /\ y.buffered \subseteq x.buffered
    BY <2>5, <2>7
  <2>11. \/ b.kind \in KeyUpdates /\ y.read = x.read + 1 /\ y.prev_read = x.read
         \/ b.kind \notin KeyUpdates /\ y.read = x.read /\ y.prev_read = x.prev_read
    BY <2>5, <2>7
  <2>12. \A n \in Updates(T) : n \in T /\ n.seq \in Nat /\ n.epoch \in Nat /\ n.epoch < Limit(w)
    BY DEF WriterOK, Updates
  <2>13. b.kind \in KeyUpdates => m \in Updates(T) /\ m.epoch = x.read
    BY <1>0, <2>1, <2>3, HeadUpdate DEF Updates
  <2>14. ASSUME NEW n \in Updates(T)
         PROVE  n.seq < y.expected_msg_seq <=> n.epoch < y.read
    <3>1. n.seq < x.expected_msg_seq <=> n.epoch < x.read
      BY DEF ReaderOK
    <3>2. n.seq = x.expected_msg_seq => n = m
      BY <2>1, <2>3, <2>12 DEF WriterOK
    <3>3. n = m => b.kind \in KeyUpdates
      BY <2>3 DEF Updates
    <3>4. CASE b.kind \in KeyUpdates
      <4>1. n.epoch = x.read => n.seq = m.seq
        <5>1. (n.seq < m.seq => n.epoch < m.epoch) /\ (m.seq < n.seq => m.epoch < n.epoch)
          BY <2>13, <3>4 DEF WriterOK
        <5> QED BY <2>12, <2>13, <3>4, <5>1
      <4>2. m.seq = x.expected_msg_seq /\ m.epoch = x.read /\ y.read = x.read + 1
        BY <2>1, <2>3, <2>11, <2>13, <3>4
      <4> QED BY <2>9, <2>10, <2>12, <3>1, <3>2, <4>1, <4>2
    <3>5. CASE b.kind \notin KeyUpdates
      <4>1. n.seq # x.expected_msg_seq
        BY <3>2, <3>3, <3>5
      <4> QED BY <2>9, <2>10, <2>11, <2>12, <3>1, <3>5, <4>1
    <3> QED BY <3>4, <3>5
  <2>15. y.read >= 3 /\ y.prev_read < y.read
    BY <2>9, <2>11 DEF ReaderOK
  <2>16. ReaderOK(y, T)
    BY <2>10, <2>14, <2>15 DEF ReaderOK
  <2>17. Behind(y, w)
    <3>1. y.expected_msg_seq <= w.out_msg_seq
      BY <2>1, <2>3, <2>4, <2>9, <2>10
    <3>2. y.read <= Limit(w)
      BY <2>9, <2>11, <2>12, <2>13 DEF Behind
    <3> QED BY <3>1, <3>2 DEF Behind
  <2>18. Popped(x, y, T, N)
    <3>1. (\A k \in T : k.kind \in KeyUpdates) => UpdatesOnly(x, y, N)
      BY <2>3, <2>7, <2>8
    <3>2. y.expected_msg_seq >= x.expected_msg_seq
      BY <2>9, <2>10
    <3>3. \/ y.read = x.read /\ y.prev_read = x.prev_read
          \/ y.read > x.read /\ y.prev_read = y.read - 1
      BY <2>9, <2>11
    <3> QED BY <2>8, <3>1, <3>2, <3>3 DEF Popped
  <2> QED BY <2>9, <2>10, <2>16, <2>17, <2>18 DEF y
<1> QED BY <1>1, <1>2

(* The turns of the loop that starts with y. *)
Turns(g, n, y) == g = [k \in 0 .. n |-> IF k = 0 THEN y ELSE Pop(g[k - 1])]

(* The loop is defined: it has a result after every number of turns. *)
LEMMA TurnsExist ==
    ASSUME NEW y, NEW n \in Nat
    PROVE  \E g : Turns(g, n, y)
<1> DEFINE S == {i \in Nat : \E g : Turns(g, i, y)}
<1>1. 0 \in S
  <2> DEFINE g == [k \in 0 .. 0 |-> y]
  <2>1. Turns(g, 0, y)
    BY DEF Turns
  <2> QED BY <2>1
<1>2. ASSUME NEW i \in Nat, i \in S PROVE i + 1 \in S
  <2>1. PICK g : Turns(g, i, y)
    BY <1>2
  <2> DEFINE h == [k \in 0 .. i + 1 |-> IF k <= i THEN g[k] ELSE Pop(g[i])]
  <2>2. ASSUME NEW k \in 0 .. i + 1
        PROVE  h[k] = IF k = 0 THEN y ELSE Pop(h[k - 1])
    <3>1. CASE k = 0
      BY <2>1, <3>1 DEF Turns
    <3>2. CASE k # 0
      <4>1. k - 1 \in 0 .. i /\ h[k - 1] = g[k - 1]
        BY <3>2
      <4>2. h[k] = Pop(g[k - 1])
        <5>1. CASE k <= i
          <6>1. k \in 0 .. i /\ h[k] = g[k]
            BY <5>1
          <6>2. g[k] = IF k = 0 THEN y ELSE Pop(g[k - 1])
            BY <2>1, <6>1 DEF Turns
          <6> QED BY <3>2, <6>1, <6>2
        <5>2. CASE k = i + 1
          BY <5>2
        <5> QED BY <5>1, <5>2
      <4> QED BY <3>2, <4>1, <4>2
    <3> QED BY <3>1, <3>2
  <2>3. Turns(h, i + 1, y)
    <3>1. DOMAIN h = 0 .. i + 1 /\ h = [k \in 0 .. i + 1 |-> h[k]]
      OBVIOUS
    <3> HIDE DEF h
    <3> QED BY <2>2, <3>1 DEF Turns
  <2> QED BY <2>3
<1> HIDE DEF S
<1>3. Nat \subseteq S
  BY <1>1, <1>2, SetInduction
<1> QED BY <1>3 DEF S

(* Turns of the loop compose. *)
LEMMA PoppedOn ==
    ASSUME NEW N, NEW T, NEW x, EndOK(x, N), NEW y, Popped(x, y, T, N), NEW z, Popped(y, z, T, N)
    PROVE  Popped(x, z, T, N)
<1>1. Handled(x, y, N) /\ Handled(y, z, N) /\ ConnState(x) /\ ConnState(y) /\ ConnState(z)
  BY DEF Popped, Handled, EndOK
<1>2. /\ Handled(x, z, N)
      /\ UpdatesOnly(x, y, N) /\ UpdatesOnly(y, z, N) => UpdatesOnly(x, z, N)
  BY <1>1, HandledOn
<1>3. z.expected_msg_seq >= x.expected_msg_seq
  BY <1>1 DEF Popped, ConnState
<1>4. \/ z.read = x.read /\ z.prev_read = x.prev_read
      \/ z.read > x.read /\ z.prev_read = z.read - 1
  BY <1>1 DEF Popped, ConnState
<1> QED BY <1>2, <1>3, <1>4 DEF Popped

(* The whole loop, for a message the peer has sent. *)
LEMMA OnHandshakeOK ==
    ASSUME NEW N, NEW x, EndOK(x, N), NEW w, ConnState(w), NEW T, WriterOK(w, T),
           ReaderOK(x, T), Behind(x, w), NEW m, m.seq \in Nat,
           \E n \in T : n.seq = m.seq /\ n.kind = m.kind
    PROVE  LET y == OnHandshake(x, m)
           IN  /\ Popped(x, y, T, N) /\ ReaderOK(y, T) /\ Behind(y, w)
               /\ m.seq = x.expected_msg_seq => y.expected_msg_seq > m.seq
<1> DEFINE z == Buffer(x, m)
           last == MAX_SEQ_AHEAD
           F(g) == [k \in 0 .. last |-> IF k = 0 THEN z ELSE Pop(g[k - 1])]
           p == CHOOSE g : g = F(g)
           y == OnHandshake(x, m)
<1>0. ConnState(x) /\ x.expected_msg_seq \in Nat /\ last \in Nat /\ last >= 1
  BY PostAssumption DEF PostAssumption, EndOK, ConnState
<1>1. y = p[last]
  BY DEF OnHandshake
<1>2. p = F(p)
  <2>1. \E g : g = F(g)
    BY <1>0, TurnsExist DEF Turns
  <2> QED BY <2>1
<1>3. /\ ConnState(z) /\ SameWriter(x, z) /\ z.outbox = x.outbox /\ z.state = x.state
      /\ z.expected_msg_seq = x.expected_msg_seq /\ z.read = x.read /\ z.prev_read = x.prev_read
      /\ z.buffered \subseteq x.buffered \cup {m}
      /\ z.enc_write_epoch = x.enc_write_epoch
      /\ z.cid_reply_owed = x.cid_reply_owed /\ z.attempts = x.attempts
      /\ z.key_update_pending = x.key_update_pending
  <2>1. CASE z = x
    BY <1>0, <2>1 DEF SameWriter
  <2>2. CASE z = [x EXCEPT !.buffered = @ \cup {m}]
    <3> HIDE DEF z
    <3> QED BY <1>0, <2>2 DEF ConnState, Fields, SameWriter
  <2> QED BY <2>1, <2>2 DEF Buffer
<1>4. m.seq = x.expected_msg_seq => AtHead(z) # {}
  <2> SUFFICES ASSUME m.seq = x.expected_msg_seq PROVE m \in AtHead(z)
    OBVIOUS
  <2>1. z = [x EXCEPT !.buffered = @ \cup {m}]
    BY <1>0 DEF Buffer
  <2> HIDE DEF z
  <2>2. m \in z.buffered
    BY <1>0, <2>1 DEF ConnState, Fields
  <2> QED BY <1>3, <2>2 DEF AtHead
<1> HIDE DEF z, p, y, last
<1>5. Handled(x, z, N) /\ EndOK(z, N) /\ UpdatesOnly(x, z, N)
  BY <1>3, HandledFrame DEF Handled, UpdatesOnly
<1>6. Popped(x, z, T, N)
  BY <1>0, <1>3, <1>5 DEF Popped
<1>7. ReaderOK(z, T) /\ Behind(z, w)
  BY <1>3 DEF ReaderOK, Behind
<1> DEFINE J(k) == /\ Popped(x, p[k], T, N) /\ ReaderOK(p[k], T) /\ Behind(p[k], w)
                   /\ k > 0 /\ m.seq = x.expected_msg_seq => p[k].expected_msg_seq > m.seq
           S == {k \in Nat : k <= last => J(k)}
<1>8. 0 \in S
  <2>1. p[0] = z
    BY <1>0, <1>2
  <2> QED BY <1>6, <1>7, <2>1
<1>9. ASSUME NEW k \in Nat, k \in S PROVE k + 1 \in S
  <2> SUFFICES ASSUME k + 1 <= last PROVE J(k + 1)
    OBVIOUS
  <2> DEFINE q == p[k]
             r == p[k + 1]
  <2>1. J(k)
    BY <1>0, <1>9
  <2>2. r = Pop(q)
    <3>1. k + 1 \in 0 .. last /\ k + 1 # 0 /\ (k + 1) - 1 = k
      BY <1>0
    <3> QED BY <1>2, <3>1
  <2>3. /\ Popped(x, q, T, N) /\ ReaderOK(q, T) /\ Behind(q, w)
        /\ k > 0 /\ m.seq = x.expected_msg_seq => q.expected_msg_seq > m.seq
    BY <2>1
  <2>4. k = 0 => q = z
    BY <1>0, <1>2
  <2> HIDE DEF q, r
  <2>5. EndOK(q, N) /\ ConnState(q)
    BY <2>3 DEF Popped, Handled, EndOK
  <2>6. /\ Popped(q, r, T, N) /\ ReaderOK(r, T) /\ Behind(r, w)
        /\ AtHead(q) # {} => r.expected_msg_seq > q.expected_msg_seq
    BY <2>2, <2>3, <2>5, PopOK
  <2>7. Popped(x, r, T, N)
    BY <2>3, <2>6, PoppedOn
  <2>8. m.seq = x.expected_msg_seq => r.expected_msg_seq > m.seq
    <3> SUFFICES ASSUME m.seq = x.expected_msg_seq PROVE r.expected_msg_seq > m.seq
      OBVIOUS
    <3>1. ConnState(r) /\ r.expected_msg_seq >= q.expected_msg_seq
      BY <2>6 DEF Popped, Handled, EndOK
    <3>2. r.expected_msg_seq \in Nat /\ q.expected_msg_seq \in Nat
      BY <2>5, <3>1 DEF ConnState
    <3>3. CASE k = 0
      BY <1>3, <1>4, <2>4, <2>6, <3>3
    <3>4. CASE k # 0
      BY <2>3, <3>1, <3>2, <3>4
    <3> QED BY <3>3, <3>4
  <2> QED BY <2>6, <2>7, <2>8 DEF r
<1>10. Nat \subseteq S
  <2> HIDE DEF S
  <2> QED BY <1>8, <1>9, SetInduction
<1>11. J(last)
  BY <1>0, <1>10
<1> QED BY <1>0, <1>1, <1>11 DEF y

(* An acknowledgement releases its message, and completes the update it    *)
(* was waited for.                                                         *)
LEMMA OnAckOK ==
    ASSUME NEW N, NEW x, EndOK(x, N), NEW r
    PROVE  LET y == OnAck(x, r)
           IN  /\ Handled(x, y, N) /\ SameReader(x, y)
               /\ \/ /\ y.enc_write_epoch = x.enc_write_epoch
                     /\ y.key_update_pending = x.key_update_pending
                  \/ /\ x.key_update_pending /\ ~y.key_update_pending
                     /\ y.enc_write_epoch = x.enc_write_epoch + 1
                     /\ \E f \in Updates(Messages(N \cup x.outbox)) :
                           f.epoch = x.enc_write_epoch /\ f.seq = r.seq
               /\ ~x.cid_reply_owed =>
                     ~y.cid_reply_owed /\ Messages(N \cup y.outbox) = Messages(N \cup x.outbox)
               /\ ~x.cid_reply_owed /\ y.key_update_pending => y.attempts = x.attempts
<1> DEFINE left == {f \in x.in_flight : ~(f.epoch = r.epoch /\ f.seq = r.seq)}
           a == Acknowledged(x, r)
           c == CompleteUpdate(a)
           y == OnAck(x, r)
           T == Messages(N \cup x.outbox)
<1>0. ConnState(x) /\ WriterOK(x, T) /\ OneCid(x)
  BY DEF EndOK
<1>1. a = [x EXCEPT !.in_flight = left, !.attempts = IF left = {} THEN 0 ELSE @]
  BY DEF Acknowledged
<1>2. left \subseteq x.in_flight
  OBVIOUS
<1>3. \A f \in x.in_flight : f \notin left => f.epoch = r.epoch /\ f.seq = r.seq
  OBVIOUS
<1> HIDE DEF a, left
<1>4. /\ ConnState(a) /\ SameReader(x, a) /\ a.outbox = x.outbox /\ a.state = x.state
      /\ a.enc_write_epoch = x.enc_write_epoch /\ a.key_update_pending = x.key_update_pending
      /\ a.out_msg_seq = x.out_msg_seq /\ a.in_flight = left
      /\ a.cid_reply_owed = x.cid_reply_owed
      /\ a.attempts = IF left = {} THEN 0 ELSE x.attempts
  BY <1>0, <1>1 DEF ConnState, Fields, SameReader
<1>5. Limit(x) \in Nat /\ x.out_msg_seq \in Nat /\ x.enc_write_epoch \in Nat
  BY <1>0 DEF ConnState, Limit
<1>6. \A f \in left : ~(f.kind \in KeyUpdates) \/ InFlight(a, KeyUpdates)
  BY <1>4 DEF InFlight
<1> DEFINE Moved == /\ x.key_update_pending /\ ~c.key_update_pending
                    /\ c.enc_write_epoch = x.enc_write_epoch + 1
                    /\ \E f \in Updates(T) : f.epoch = x.enc_write_epoch /\ f.seq = r.seq
<1>7. /\ ConnState(c) /\ SameReader(x, c) /\ c.outbox = x.outbox /\ c.state = x.state
      /\ c.out_msg_seq = x.out_msg_seq /\ c.in_flight = left
      /\ c.cid_reply_owed = x.cid_reply_owed /\ Limit(c) = Limit(x)
      /\ c.key_update_pending => Updates(left) # {} /\ c.attempts = x.attempts
      /\ \A f \in Updates(left) : c.key_update_pending /\ f.epoch = c.enc_write_epoch
      /\ \/ /\ c.enc_write_epoch = x.enc_write_epoch
            /\ c.key_update_pending = x.key_update_pending
         \/ Moved
  <2>0. \A f \in Updates(left) : f \in Updates(x.in_flight)
    BY <1>2 DEF Updates
  <2>1. CASE ~(a.key_update_pending /\ ~InFlight(a, KeyUpdates))
    <3>1. c = a
      BY <2>1 DEF CompleteUpdate
    <3> HIDE DEF c
    <3>2. c.key_update_pending => Updates(left) # {}
      BY <1>4, <2>1, <3>1 DEF InFlight, Updates
    <3>3. \A f \in Updates(left) : c.key_update_pending /\ f.epoch = c.enc_write_epoch
      BY <1>0, <1>4, <2>0, <3>1 DEF WriterOK
    <3>4. Limit(c) = Limit(x)
      BY <1>4, <3>1 DEF Limit
    <3>5. c.key_update_pending => c.attempts = x.attempts
      BY <1>4, <3>1, <3>2 DEF Updates
    <3> QED BY <1>4, <3>1, <3>2, <3>3, <3>4, <3>5
  <2>2. CASE a.key_update_pending /\ ~InFlight(a, KeyUpdates)
    <3>1. c = [a EXCEPT !.enc_write_epoch = @ + 1, !.key_update_pending = FALSE]
      BY <2>2 DEF CompleteUpdate
    <3>2. Updates(left) = {}
      BY <1>6, <2>2 DEF Updates
    <3>3. PICK f \in Updates(x.in_flight) : f.epoch = x.enc_write_epoch
      BY <1>0, <1>4, <2>2 DEF WriterOK
    <3>4. f \in Updates(T) /\ f.seq = r.seq
      <4>1. f \in x.in_flight /\ f \in T /\ f.kind \in KeyUpdates
        BY <1>0, <3>3 DEF Updates, WriterOK
      <4>2. f \notin left
        BY <3>2, <4>1 DEF Updates
      <4> QED BY <1>3, <4>1, <4>2 DEF Updates
    <3> HIDE DEF c, T
    <3>5. /\ ConnState(c) /\ SameReader(x, c) /\ c.outbox = x.outbox /\ c.state = x.state
          /\ c.out_msg_seq = x.out_msg_seq /\ c.in_flight = left
          /\ c.cid_reply_owed = x.cid_reply_owed
          /\ c.enc_write_epoch = x.enc_write_epoch + 1 /\ c.key_update_pending = FALSE
      BY <1>4, <3>1 DEF ConnState, Fields, SameReader
    <3>6. Limit(c) = Limit(x)
      BY <1>4, <2>2, <3>5 DEF Limit
    <3>7. Moved
      BY <1>4, <2>2, <3>3, <3>4, <3>5
    <3> QED BY <3>2, <3>5, <3>6, <3>7
  <2> QED BY <2>1, <2>2
<1>8. y = FlushOwed(c)
  BY DEF OnAck, c, a
<1>9. Messages(N \cup c.outbox) = T
  BY <1>7
<1> HIDE DEF c, y, T
<1>10. WriterOK(c, T)
  BY <1>0, <1>2, <1>7 DEF WriterOK
<1>11. OneCid(c)
  BY <1>0, <1>2, <1>7 DEF OneCid
<1>12. EndOK(c, N)
  BY <1>7, <1>9, <1>10, <1>11 DEF EndOK
<1>13. Grows(x, T, c, T)
  BY <1>5, <1>7 DEF Grows, Sends
<1>14. Handled(x, c, N)
  BY <1>7, <1>9, <1>12, <1>13 DEF Handled, T
<1>15. /\ Handled(c, y, N) /\ SameReader(c, y)
       /\ ~c.cid_reply_owed => y = c
       /\ y.enc_write_epoch = c.enc_write_epoch /\ y.key_update_pending = c.key_update_pending
  BY <1>8, <1>12, FlushOwedOK DEF Handled
<1>16. Handled(x, y, N)
  BY <1>14, <1>15, HandledOn
<1>17. SameReader(x, y)
  BY <1>7, <1>15 DEF SameReader
<1>18. /\ ~x.cid_reply_owed => ~y.cid_reply_owed /\ Messages(N \cup y.outbox) = T
       /\ ~x.cid_reply_owed /\ y.key_update_pending => y.attempts = x.attempts
  BY <1>7, <1>9, <1>15
<1>19. \/ /\ y.enc_write_epoch = x.enc_write_epoch
          /\ y.key_update_pending = x.key_update_pending
       \/ /\ x.key_update_pending /\ ~y.key_update_pending
          /\ y.enc_write_epoch = x.enc_write_epoch + 1
          /\ \E f \in Updates(T) : f.epoch = x.enc_write_epoch /\ f.seq = r.seq
  BY <1>7, <1>15
<1> QED BY <1>16, <1>17, <1>18, <1>19 DEF y, T

-----------------------------------------------------------------------------
(* The two connections together.                                           *)

(* The direction that x writes and d reads, the records of x being N. *)
DirectionOK(x, N, d) ==
    /\ EndOK(x, N) /\ x.outbox = {}
    /\ ReaderOK(d, Messages(N)) /\ Behind(d, x)

IInv ==
    /\ DOMAIN ep = Side /\ DOMAIN net = Side
    /\ \A e \in Side : DirectionOK(ep[e], net[e], ep[Peer(e)])

(* Each side is the other's peer. *)
LEMMA Peers ==
    ASSUME NEW e \in Side
    PROVE  /\ Peer(e) \in Side /\ Peer(e) # e /\ Peer(Peer(e)) = e
           /\ \A d \in Side : d = e \/ d = Peer(e)
BY DEF Side, Peer

(* The invariant, seen from one side. *)
LEMMA AtSide ==
    ASSUME IInv, NEW e \in Side
    PROVE  LET d == Peer(e)
           IN  /\ EndOK(ep[e], net[e]) /\ ConnState(ep[e]) /\ ep[e].outbox = {}
               /\ WriterOK(ep[e], Messages(net[e])) /\ OneCid(ep[e])
               /\ ConnState(ep[d]) /\ WriterOK(ep[d], Messages(net[d]))
               /\ ReaderOK(ep[d], Messages(net[e])) /\ Behind(ep[d], ep[e])
               /\ ReaderOK(ep[e], Messages(net[d])) /\ Behind(ep[e], ep[d])
<1> DEFINE d == Peer(e)
<1>1. d \in Side /\ Peer(d) = e
  BY Peers
<1>2. DirectionOK(ep[e], net[e], ep[d]) /\ DirectionOK(ep[d], net[d], ep[e])
  BY <1>1 DEF IInv
<1>3. net[e] \cup ep[e].outbox = net[e] /\ net[d] \cup ep[d].outbox = net[d]
  BY <1>2 DEF DirectionOK
<1> QED BY <1>2, <1>3 DEF DirectionOK, EndOK

(* What the messages of a direction may become its reader can still read. *)
LEMMA ReaderKeeps ==
    ASSUME NEW d, ConnState(d), NEW x, ConnState(x), NEW y, ConnState(y), NEW T, NEW U,
           WriterOK(y, U), ReaderOK(d, T), Behind(d, x), Sends(x, T, y, U)
    PROVE  ReaderOK(d, U) /\ Behind(d, y)
<1>1. /\ d.expected_msg_seq \in Nat /\ d.read \in Nat
      /\ x.out_msg_seq \in Nat /\ y.out_msg_seq \in Nat
      /\ Limit(x) \in Nat /\ Limit(y) \in Nat
  BY DEF ConnState, Limit
<1>2. Behind(d, y)
  BY <1>1 DEF Behind, Sends
<1>3. \A b \in d.buffered : b.seq \in Nat /\ \E m \in U : m.seq = b.seq /\ m.kind = b.kind
  BY DEF ReaderOK, Sends
<1>4. ASSUME NEW m \in Updates(U) PROVE m.seq < d.expected_msg_seq <=> m.epoch < d.read
  <2>1. m \in U /\ m.kind \in KeyUpdates /\ m.seq \in Nat /\ m.epoch \in Nat
    BY DEF Updates, WriterOK
  <2>2. CASE m \in T
    BY <2>1, <2>2 DEF ReaderOK, Updates
  <2>3. CASE m \notin T
    <3>1. m.seq >= x.out_msg_seq /\ m.epoch >= Limit(x)
      BY <2>1, <2>3 DEF Sends
    <3> QED BY <1>1, <2>1, <3>1 DEF Behind
  <2> QED BY <2>2, <2>3
<1> QED BY <1>2, <1>3, <1>4 DEF ReaderOK

(* A handler of e has returned. *)
LEMMA ReturnStep ==
    ASSUME IInv, NEW e \in Side, NEW y, Return(e, y), EndOK(y, net[e]),
           Sends(ep[e], Messages(net[e]), y, Messages(net[e] \cup y.outbox)),
           ReaderOK(y, Messages(net[Peer(e)])), Behind(y, ep[Peer(e)])
    PROVE  /\ IInv' /\ ep'[Peer(e)] = ep[Peer(e)] /\ net'[Peer(e)] = net[Peer(e)]
           /\ SameWriter(y, ep'[e]) /\ SameReader(y, ep'[e]) /\ ep'[e].state = y.state
           /\ ep'[e].cid_reply_owed = y.cid_reply_owed /\ ep'[e].attempts = y.attempts
           /\ net'[e] = net[e] \cup y.outbox
<1> DEFINE d == Peer(e)
           z == [y EXCEPT !.outbox = {}]
           S == net[e] \cup y.outbox
<1>1. d \in Side /\ d # e /\ Peer(d) = e /\ \A f \in Side : f = e \/ f = d
  BY Peers
<1>2. /\ DOMAIN ep' = Side /\ DOMAIN net' = Side
      /\ ep'[e] = z /\ ep'[d] = ep[d] /\ net'[e] = S /\ net'[d] = net[d]
  BY <1>1 DEF Return, IInv
<1>3. ConnState(y)
  BY DEF EndOK
<1>4. /\ ConnState(z) /\ SameWriter(y, z) /\ SameReader(y, z) /\ z.state = y.state
      /\ z.cid_reply_owed = y.cid_reply_owed /\ z.attempts = y.attempts /\ z.outbox = {}
  BY <1>3 DEF ConnState, Fields, SameWriter, SameReader
<1> HIDE DEF z
<1>5. S \cup z.outbox = S
  BY <1>4
<1> HIDE DEF S
<1>6. WriterOK(y, Messages(S)) /\ OneCid(y)
  BY DEF EndOK, S
<1>7. Limit(z) = Limit(y)
  BY <1>4 DEF SameWriter, Limit
<1>8. WriterOK(z, Messages(S)) /\ OneCid(z)
  BY <1>4, <1>6, <1>7 DEF WriterOK, OneCid, SameWriter
<1>9. EndOK(z, S)
  BY <1>4, <1>5, <1>8 DEF EndOK
<1>10. Sends(ep[e], Messages(net[e]), z, Messages(S))
  BY <1>4, <1>7 DEF Sends, SameWriter, S
<1>11. ReaderOK(ep[d], Messages(S)) /\ Behind(ep[d], z)
  BY <1>4, <1>8, <1>10, AtSide, ReaderKeeps
<1>12. ReaderOK(z, Messages(net[d])) /\ Behind(z, ep[d])
  BY <1>4 DEF ReaderOK, Behind, SameReader
<1>13. DirectionOK(z, S, ep[d])
  BY <1>4, <1>9, <1>11 DEF DirectionOK
<1>14. DirectionOK(ep[d], net[d], z)
  BY <1>1, <1>12 DEF IInv, DirectionOK
<1>15. \A f \in Side : DirectionOK(ep'[f], net'[f], ep'[Peer(f)])
  BY <1>1, <1>2, <1>13, <1>14
<1>16. IInv'
  BY <1>2, <1>15 DEF IInv
<1> QED BY <1>2, <1>4, <1>16 DEF S

-----------------------------------------------------------------------------
(* What one step may do.                                                   *)

(* e has returned from a handler as y, and both directions are kept. *)
StepOK(e, y) ==
    /\ Return(e, y) /\ EndOK(y, net[e])
    /\ Sends(ep[e], Messages(net[e]), y, Messages(net[e] \cup y.outbox))
    /\ ReaderOK(y, Messages(net[Peer(e)])) /\ Behind(y, ep[Peer(e)])

(* With KeyUpdates alone nothing is buffered behind a gap: what is         *)
(* acknowledged was dispatched, so a writer moves only after its reader.   *)
OnlyUpdatesOK ==
    \A e \in Side :
        /\ \A m \in Messages(net[e]) : m.kind \in KeyUpdates
        /\ ~ep[e].cid_reply_owed
        /\ \A o \in net[e] :
              o.type = "ack" =>
                  o.acked.seq \in Nat /\ o.acked.seq < ep[e].expected_msg_seq
        /\ ep[e].enc_write_epoch <= ep[Peer(e)].read
        /\ ~Spent(ep[e]) /\ ep[Peer(e)].read # ep[e].enc_write_epoch
              => ep[Peer(e)].prev_read = ep[e].enc_write_epoch

KInv == OnlyKeyUpdates => OnlyUpdatesOK

(* The moves of the writer x of a direction that d reads ... *)
WriterMove(x, y, d) ==
    \/ /\ y.enc_write_epoch = x.enc_write_epoch /\ y.state = x.state
       /\ \/ y.key_update_pending = x.key_update_pending /\ (Spent(x) => Spent(y))
          \/ ~x.key_update_pending /\ y.key_update_pending /\ ~Spent(y)
    \/ /\ x.key_update_pending /\ x.state = "Connected" /\ d.read = x.enc_write_epoch + 1
       /\ y.enc_write_epoch = d.read /\ ~y.key_update_pending /\ y.state = x.state
    \/ /\ Spent(x) /\ Spent(y) /\ y.state # "Connected"
       /\ y.enc_write_epoch = x.enc_write_epoch

(* ... and of the reader x of a direction that w writes. *)
ReaderMove(x, y, w) ==
    \/ y.read = x.read /\ y.prev_read = x.prev_read
    \/ /\ w.key_update_pending /\ x.read = w.enc_write_epoch
       /\ y.read = x.read + 1 /\ y.prev_read = x.read
    \/ /\ x.prev_read # 0 /\ (x.prev_read # w.enc_write_epoch \/ Spent(w))
       /\ y.prev_read = 0 /\ y.read = x.read

OnlyUpdatesStep(e, y) ==
    /\ \A m \in Messages(net[e] \cup y.outbox) : m.kind \in KeyUpdates
    /\ ~y.cid_reply_owed
    /\ \A o \in y.outbox :
          o.type = "ack" => o.acked.seq \in Nat /\ o.acked.seq < y.expected_msg_seq
    /\ y.expected_msg_seq >= ep[e].expected_msg_seq
    /\ WriterMove(ep[e], y, ep[Peer(e)]) /\ ReaderMove(ep[e], y, ep[Peer(e)])

GoodStep(e) ==
    \E y : StepOK(e, y) /\ (OnlyKeyUpdates /\ OnlyUpdatesOK => OnlyUpdatesStep(e, y))

(* With KeyUpdates alone, nothing is in flight while none is pending. *)
LEMMA FreshAttempts ==
    ASSUME IInv, OnlyUpdatesOK, NEW e \in Side, ~ep[e].key_update_pending
    PROVE  ep[e].attempts = 0
<1>1. ConnState(ep[e]) /\ WriterOK(ep[e], Messages(net[e]))
  BY AtSide
<1>2. \A m \in Messages(net[e]) : m.kind \in KeyUpdates
  BY DEF OnlyUpdatesOK
<1>3. \A m \in ep[e].in_flight : m \in Updates(ep[e].in_flight)
  BY <1>1, <1>2 DEF WriterOK, Updates
<1>4. ep[e].in_flight = {}
  BY <1>1, <1>3 DEF WriterOK
<1> QED BY <1>1, <1>4 DEF ConnState

(* So an update starts with all its retransmissions. *)
LEMMA StartsUnspent ==
    ASSUME IInv, OnlyUpdatesOK, NEW e \in Side, NEW y, y.attempts = ep[e].attempts,
           y.enc_write_epoch = ep[e].enc_write_epoch, y.state = ep[e].state,
           y.key_update_pending \in BOOLEAN,
           ep[e].key_update_pending => y.key_update_pending, NEW d
    PROVE  WriterMove(ep[e], y, d)
<1>0. ep[e].key_update_pending \in BOOLEAN
  BY AtSide DEF ConnState
<1>1. CASE y.key_update_pending = ep[e].key_update_pending
  BY <1>1 DEF WriterMove, Spent
<1>2. CASE ~ep[e].key_update_pending /\ y.key_update_pending
  <2>1. y.attempts = 0
    BY <1>2, FreshAttempts
  <2>2. ~Spent(y)
    BY <2>1, PostAssumption DEF Spent, PostAssumption
  <2> QED BY <1>2, <2>2 DEF WriterMove
<1> QED BY <1>0, <1>1, <1>2

(* A handler that leaves the receiving side alone. *)
LEMMA WritingStep ==
    ASSUME IInv, NEW e \in Side, NEW y, Return(e, y), EndOK(y, net[e]), SameReader(ep[e], y),
           Grows(ep[e], Messages(net[e]), y, Messages(net[e] \cup y.outbox))
    PROVE  /\ StepOK(e, y)
           /\ \A o \in y.outbox : o.type # "ack"
           /\ y.expected_msg_seq >= ep[e].expected_msg_seq
           /\ ReaderMove(ep[e], y, ep[Peer(e)])
<1>1. ReaderOK(y, Messages(net[Peer(e)])) /\ Behind(y, ep[Peer(e)])
  BY AtSide DEF ReaderOK, Behind, SameReader
<1>2. \A o \in y.outbox : o.type # "ack"
  BY AtSide DEF Grows, Sends
<1>3. y.expected_msg_seq >= ep[e].expected_msg_seq
  BY AtSide DEF ConnState, SameReader
<1>4. ReaderMove(ep[e], y, ep[Peer(e)])
  BY DEF ReaderMove, SameReader
<1> QED BY <1>1, <1>2, <1>3, <1>4 DEF StepOK, Grows

(* Between handlers nothing is queued. *)
LEMMA NetAndOutbox ==
    ASSUME IInv, NEW e \in Side
    PROVE  net[e] \cup ep[e].outbox = net[e]
BY AtSide

(* The caller starts an update, none being pending. *)
LEMMA RequestKeyUpdateStep ==
    ASSUME IInv, NEW e \in Side, NEW kind \in KeyUpdates, RequestKeyUpdate(e, kind)
    PROVE  GoodStep(e)
<1> DEFINE y == StartUpdate(ep[e], kind)
<1>1. Return(e, y) /\ ~ep[e].key_update_pending
  BY DEF RequestKeyUpdate
<1>2. net[e] \cup ep[e].outbox = net[e]
  BY NetAndOutbox
<1>3. /\ EndOK(y, net[e]) /\ SameReader(ep[e], y) /\ y.state = ep[e].state
      /\ y.key_update_pending /\ y.enc_write_epoch = ep[e].enc_write_epoch
      /\ y.cid_reply_owed = ep[e].cid_reply_owed /\ y.attempts = ep[e].attempts
      /\ Grows(ep[e], Messages(net[e]), y, Messages(net[e] \cup y.outbox))
      /\ \A q \in Messages(net[e] \cup y.outbox) :
            q \in Messages(net[e]) \/ q.kind \in KeyUpdates
  <2>1. EndOK(ep[e], net[e])
    BY AtSide
  <2> QED BY <1>1, <1>2, <2>1, StartUpdateOK
<1> HIDE DEF y
<1>4. /\ StepOK(e, y) /\ \A o \in y.outbox : o.type # "ack"
      /\ y.expected_msg_seq >= ep[e].expected_msg_seq
      /\ ReaderMove(ep[e], y, ep[Peer(e)])
  BY <1>1, <1>3, WritingStep
<1>5. OnlyUpdatesOK => WriterMove(ep[e], y, ep[Peer(e)])
  BY <1>3, StartsUnspent DEF EndOK, ConnState
<1>6. OnlyUpdatesOK => OnlyUpdatesStep(e, y)
  BY <1>3, <1>4, <1>5 DEF OnlyUpdatesOK, OnlyUpdatesStep
<1> QED BY <1>4, <1>6 DEF GoodStep

(* The caller asks for connection IDs: not with KeyUpdates alone. *)
LEMMA RequestConnectionIdsStep ==
    ASSUME IInv, NEW e \in Side, RequestConnectionIds(e)
    PROVE  GoodStep(e)
<1> DEFINE z == Emit(ep[e], "request_connection_id")
           y == [z EXCEPT !.request_pending = TRUE]
<1>1. Return(e, y) /\ ep[e].out_msg_seq < config.max_requests
  BY DEF RequestConnectionIds
<1>2. net[e] \cup ep[e].outbox = net[e] /\ EndOK(ep[e], net[e]) /\ ConnState(ep[e])
  BY NetAndOutbox, AtSide
<1>3. /\ EndOK(z, net[e]) /\ SameReader(ep[e], z)
      /\ Grows(ep[e], Messages(net[e]), z, Messages(net[e] \cup z.outbox))
  BY <1>2, EmitOther DEF Kinds, KeyUpdates
<1>4. ConnState(z) /\ WriterOK(z, Messages(net[e] \cup z.outbox))
  BY <1>3 DEF EndOK
<1> HIDE DEF z
<1>5. ConnState(y) /\ SameWriter(z, y) /\ SameReader(z, y) /\ y.outbox = z.outbox
  BY <1>4 DEF ConnState, Fields, SameWriter, SameReader
<1> HIDE DEF y
<1>6. /\ EndOK(y, net[e])
      /\ Grows(z, Messages(net[e] \cup z.outbox), y, Messages(net[e] \cup y.outbox))
  BY <1>3, <1>5, WriterFrame
<1>7. Grows(ep[e], Messages(net[e]), y, Messages(net[e] \cup y.outbox))
  <2>1. WriterOK(y, Messages(net[e] \cup y.outbox))
    BY <1>6 DEF EndOK
  <2> QED BY <1>2, <1>3, <1>4, <1>5, <1>6, <2>1, GrowsOn
<1>8. SameReader(ep[e], y)
  BY <1>3, <1>5 DEF SameReader
<1>9. StepOK(e, y)
  BY <1>1, <1>6, <1>7, <1>8, WritingStep
<1>10. ~OnlyKeyUpdates
  BY <1>1, <1>2 DEF OnlyKeyUpdates, ConnState
<1> QED BY <1>9, <1>10 DEF GoodStep

(* An ACK moves the writer on only when its reader has moved. *)
LEMMA ReceiveAckStep ==
    ASSUME IInv, NEW e \in Side, NEW r \in net[Peer(e)], Receive(e, r), r.type = "ack"
    PROVE  GoodStep(e)
<1> DEFINE d == Peer(e)
           x == ep[e]
           y == OnAck(x, r.acked)
           T == Messages(net[e])
<1>0. d \in Side /\ Peer(d) = e
  BY Peers
<1>1. Return(e, y) /\ x.state = "Connected"
  BY DEF Receive, Connected
<1>2. net[e] \cup x.outbox = net[e] /\ EndOK(x, net[e])
  BY NetAndOutbox, AtSide
<1> DEFINE U == Messages(net[e] \cup x.outbox)
<1>3. /\ Handled(x, y, net[e]) /\ SameReader(x, y)
      /\ \/ /\ y.enc_write_epoch = x.enc_write_epoch
            /\ y.key_update_pending = x.key_update_pending
         \/ /\ x.key_update_pending /\ ~y.key_update_pending
            /\ y.enc_write_epoch = x.enc_write_epoch + 1
            /\ \E f \in Updates(U) : f.epoch = x.enc_write_epoch /\ f.seq = r.acked.seq
      /\ ~x.cid_reply_owed => ~y.cid_reply_owed /\ Messages(net[e] \cup y.outbox) = U
      /\ ~x.cid_reply_owed /\ y.key_update_pending => y.attempts = x.attempts
  BY <1>2, OnAckOK, Zenon
<1>10. U = T
  BY <1>2
<1> HIDE DEF y, U
<1>4. EndOK(y, net[e]) /\ y.state = x.state /\ Grows(x, T, y, Messages(net[e] \cup y.outbox))
  BY <1>2, <1>3, <1>10 DEF Handled
<1>5. /\ StepOK(e, y) /\ \A o \in y.outbox : o.type # "ack"
      /\ y.expected_msg_seq >= x.expected_msg_seq
      /\ ReaderMove(x, y, ep[d])
  BY <1>1, <1>3, <1>4, WritingStep
<1>6. ASSUME OnlyUpdatesOK PROVE OnlyUpdatesStep(e, y)
  <2>1. /\ \A m \in T : m.kind \in KeyUpdates
        /\ ~x.cid_reply_owed
        /\ r.acked.seq \in Nat /\ r.acked.seq < ep[d].expected_msg_seq
    BY <1>0, <1>6 DEF OnlyUpdatesOK
  <2>2. WriterMove(x, y, ep[d])
    <3>1. CASE /\ y.enc_write_epoch = x.enc_write_epoch
               /\ y.key_update_pending = x.key_update_pending
      BY <1>3, <1>4, <2>1, <3>1 DEF WriterMove, Spent
    <3>2. CASE /\ x.key_update_pending /\ ~y.key_update_pending
               /\ y.enc_write_epoch = x.enc_write_epoch + 1
               /\ \E f \in Updates(T) : f.epoch = x.enc_write_epoch /\ f.seq = r.acked.seq
      <4>1. PICK f \in Updates(T) : f.epoch = x.enc_write_epoch /\ f.seq = r.acked.seq
        BY <3>2
      <4>2. /\ ConnState(x) /\ ConnState(ep[d]) /\ ReaderOK(ep[d], T) /\ Behind(ep[d], x)
        BY AtSide
      <4>3. x.enc_write_epoch < ep[d].read
        BY <2>1, <4>1, <4>2 DEF ReaderOK
      <4>4. ep[d].read <= x.enc_write_epoch + 1
        BY <3>2, <4>2 DEF Behind, Limit
      <4>5. ep[d].read = x.enc_write_epoch + 1
        BY <4>2, <4>3, <4>4 DEF ConnState
      <4> QED BY <1>1, <1>4, <3>2, <4>5 DEF WriterMove
    <3> QED BY <1>3, <1>10, <3>1, <3>2
  <2> QED BY <1>3, <1>10, <1>5, <2>1, <2>2 DEF OnlyUpdatesStep
<1> QED BY <1>5, <1>6 DEF GoodStep

(* A KeyUpdate its reader can open is the next one or an old one. *)
LEMMA OpenedIsNext ==
    ASSUME NEW x, ConnState(x), NEW w, ConnState(w), NEW T, WriterOK(w, T), ReaderOK(x, T),
           \A m \in T : m.kind \in KeyUpdates, NEW n \in T, SelectedEpoch(x, n.epoch) = n.epoch
    PROVE  n.seq <= x.expected_msg_seq
<1>1. \A m \in T :
        /\ m \in Updates(T) /\ m.seq \in Nat /\ m.epoch \in Nat /\ m.epoch >= 3
        /\ m.seq < w.out_msg_seq
  BY DEF Updates, WriterOK
<1>2. /\ x.expected_msg_seq \in Nat /\ x.read \in Nat /\ x.prev_read \in Nat
      /\ x.prev_read < x.read /\ w.out_msg_seq \in Nat
  BY DEF ConnState, ReaderOK
<1>3. n.epoch <= x.read
  <2>1. SelectedEpoch(x, n.epoch) \in {x.read, x.prev_read, 0}
    BY DEF SelectedEpoch
  <2> QED BY <1>1, <1>2, <2>1
<1>4. SUFFICES ASSUME n.seq > x.expected_msg_seq PROVE FALSE
  BY <1>1, <1>2
<1>5. PICK q \in T : q.seq = x.expected_msg_seq
  BY <1>1, <1>2, <1>4 DEF WriterOK
<1>6. q.epoch < n.epoch
  BY <1>1, <1>4, <1>5 DEF WriterOK
<1>7. q.epoch < x.read
  BY <1>1, <1>2, <1>3, <1>6
<1>8. q.seq < x.expected_msg_seq
  BY <1>1, <1>7 DEF ReaderOK
<1> QED BY <1>2, <1>5, <1>8

(* A message moves the reader on, to the epoch announced at the furthest. *)
LEMMA ReceiveHandshakeStep ==
    ASSUME IInv, NEW e \in Side, NEW r \in net[Peer(e)], Receive(e, r), r.type # "ack"
    PROVE  GoodStep(e)
<1> DEFINE d == Peer(e)
           x == ep[e]
           w == ep[d]
           m == [kind |-> r.kind, seq |-> r.seq]
           z == OnHandshake(x, m)
           a == Ack(z.enc_write_epoch, r)
           y == [z EXCEPT !.outbox = @ \cup {a}]
           N == net[e]
           T == Messages(net[d])
           n == Message(r.kind, r.seq, r.epoch)
<1>0. d \in Side /\ Peer(d) = e
  BY Peers
<1>1. Return(e, y) /\ x.state = "Connected" /\ SelectedEpoch(x, r.epoch) = r.epoch
  BY DEF Receive, Connected
<1>2. /\ net[e] \cup x.outbox = net[e] /\ EndOK(x, N) /\ ConnState(x) /\ x.outbox = {}
      /\ ConnState(w) /\ WriterOK(w, T) /\ ReaderOK(x, T) /\ Behind(x, w)
  BY NetAndOutbox, AtSide
<1>3. n \in T /\ n.seq = r.seq /\ n.kind = r.kind /\ n.epoch = r.epoch
  BY DEF Messages, Message
<1>4. m.seq = r.seq /\ m.kind = r.kind
  OBVIOUS
<1>5. r.seq \in Nat
  BY <1>2, <1>3 DEF WriterOK
<1> HIDE DEF m, n
<1>6. /\ Popped(x, z, T, N) /\ ReaderOK(z, T) /\ Behind(z, w)
      /\ r.seq = x.expected_msg_seq => z.expected_msg_seq > r.seq
  BY <1>2, <1>3, <1>4, <1>5, OnHandshakeOK
<1>7. a.type = "ack" /\ a.acked.seq = r.seq
  BY DEF Ack
<1> HIDE DEF z, a
<1>8. /\ Handled(x, z, N) /\ EndOK(z, N) /\ ConnState(z) /\ z.state = x.state
      /\ Grows(x, Messages(N), z, Messages(N \cup z.outbox))
  BY <1>2, <1>6 DEF Popped, Handled, EndOK
<1>9. /\ ConnState(y) /\ SameWriter(z, y) /\ SameReader(z, y) /\ y.state = z.state
      /\ y.cid_reply_owed = z.cid_reply_owed /\ y.attempts = z.attempts
      /\ y.outbox = z.outbox \cup {a}
  BY <1>8 DEF ConnState, Fields, SameWriter, SameReader
<1> HIDE DEF y
<1>10. Messages(N \cup y.outbox) = Messages(N \cup z.outbox)
  <2>1. N \cup y.outbox = (N \cup z.outbox) \cup {a}
    BY <1>9
  <2> QED BY <2>1, AckSent DEF a
<1>11. Limit(y) = Limit(z)
  BY <1>9 DEF SameWriter, Limit
<1>12. EndOK(y, N)
  <2>1. WriterOK(z, Messages(N \cup z.outbox)) /\ OneCid(z)
    BY <1>8 DEF EndOK
  <2>2. WriterOK(y, Messages(N \cup y.outbox)) /\ OneCid(y)
    BY <1>9, <1>10, <1>11, <2>1 DEF WriterOK, OneCid, SameWriter
  <2> QED BY <1>9, <2>2 DEF EndOK
<1>13. ReaderOK(y, T) /\ Behind(y, w)
  BY <1>6, <1>9 DEF ReaderOK, Behind, SameReader
<1>14. \A o \in z.outbox : o.type # "ack"
  BY <1>2, <1>8 DEF Grows, Sends
<1>15. ASSUME OnlyUpdatesOK PROVE OnlyUpdatesStep(e, y)
  <2>1. /\ \A k \in T : k.kind \in KeyUpdates
        /\ \A k \in Messages(N) : k.kind \in KeyUpdates
        /\ ~x.cid_reply_owed /\ w.enc_write_epoch <= x.read
    BY <1>0, <1>15 DEF OnlyUpdatesOK
  <2>2. UpdatesOnly(x, z, N)
    BY <1>6, <2>1 DEF Popped
  <2>3. \A k \in Messages(N \cup y.outbox) : k.kind \in KeyUpdates
    BY <1>2, <1>10, <2>1, <2>2 DEF UpdatesOnly
  <2>4. ~y.cid_reply_owed
    BY <1>9, <2>1, <2>2 DEF UpdatesOnly
  <2>5. z.expected_msg_seq >= x.expected_msg_seq /\ y.expected_msg_seq = z.expected_msg_seq
    BY <1>6, <1>9 DEF Popped, SameReader
  <2>6. r.seq < y.expected_msg_seq
    <3>1. r.seq <= x.expected_msg_seq
      BY <1>1, <1>2, <1>3, <2>1, OpenedIsNext
    <3>2. x.expected_msg_seq \in Nat /\ z.expected_msg_seq \in Nat
      BY <1>2, <1>8 DEF ConnState
    <3> QED BY <1>5, <1>6, <2>5, <3>1, <3>2
  <2>7. WriterMove(x, y, w)
    <3>1. /\ y.attempts = x.attempts /\ y.enc_write_epoch = x.enc_write_epoch
          /\ y.state = x.state /\ (x.key_update_pending => y.key_update_pending)
      BY <1>8, <1>9, <2>2 DEF UpdatesOnly, SameWriter
    <3>2. y.key_update_pending \in BOOLEAN
      BY <1>9 DEF ConnState
    <3> QED BY <1>15, <3>1, <3>2, StartsUnspent
  <2>8. ReaderMove(x, y, w)
    <3>1. y.read = z.read /\ y.prev_read = z.prev_read
      BY <1>9 DEF SameReader
    <3>2. CASE z.read = x.read /\ z.prev_read = x.prev_read
      BY <3>1, <3>2 DEF ReaderMove
    <3>3. CASE z.read > x.read /\ z.prev_read = z.read - 1
      <4>1. /\ w.enc_write_epoch \in Nat /\ x.read \in Nat /\ z.read \in Nat
            /\ w.key_update_pending \in BOOLEAN
        BY <1>2, <1>8 DEF ConnState
      <4>2. z.read <= Limit(w)
        BY <1>6 DEF Behind
      <4>3. w.key_update_pending /\ z.read = w.enc_write_epoch + 1 /\ x.read = w.enc_write_epoch
        BY <2>1, <3>3, <4>1, <4>2 DEF Limit
      <4> QED BY <3>1, <3>3, <4>1, <4>3 DEF ReaderMove
    <3> QED BY <1>6, <3>2, <3>3 DEF Popped
  <2>9. \A o \in y.outbox :
          o.type = "ack" => o.acked.seq \in Nat /\ o.acked.seq < y.expected_msg_seq
    BY <1>5, <1>7, <1>9, <1>14, <2>6
  <2> QED BY <2>3, <2>4, <2>5, <2>7, <2>8, <2>9 DEF OnlyUpdatesStep
<1>16. Sends(x, Messages(N), y, Messages(N \cup y.outbox))
  BY <1>8, <1>9, <1>10, <1>11 DEF Grows, Sends, SameWriter
<1>17. StepOK(e, y)
  BY <1>1, <1>12, <1>13, <1>16 DEF StepOK
<1> QED BY <1>15, <1>17 DEF GoodStep

(* A retransmission repeats messages already sent. *)
LEMMA RetransmitStep ==
    ASSUME IInv, NEW e \in Side, Retransmit(e)
    PROVE  GoodStep(e)
<1> DEFINE x == ep[e]
           N == net[e]
           F == {f \in x.in_flight : f.epoch = x.enc_write_epoch}
           y == [x EXCEPT !.attempts = @ + 1, !.outbox = {Handshake(r) : r \in F}]
<1>1. Return(e, y) /\ x.in_flight # {} /\ x.attempts < MAX_RETRANSMITS
  BY DEF Retransmit
<1>2. EndOK(x, N) /\ ConnState(x) /\ x.outbox = {} /\ WriterOK(x, Messages(N)) /\ OneCid(x)
  BY AtSide
<1>3. /\ ConnState(y) /\ SameWriter(x, y) /\ SameReader(x, y) /\ y.state = x.state
      /\ y.cid_reply_owed = x.cid_reply_owed /\ y.outbox = {Handshake(r) : r \in F}
  BY <1>1, <1>2 DEF ConnState, Fields, SameWriter, SameReader
<1>4. F \subseteq Messages(N)
  BY <1>2 DEF WriterOK
<1> HIDE DEF y, F
<1>5. Messages(N \cup y.outbox) = Messages(N)
  BY <1>3, <1>4, ResentSent
<1>6. Limit(y) = Limit(x) /\ Limit(x) \in Nat /\ x.out_msg_seq \in Nat
  BY <1>2, <1>3 DEF SameWriter, Limit, ConnState
<1>7. EndOK(y, N)
  <2>1. WriterOK(y, Messages(N))
    BY <1>2, <1>3, <1>6 DEF WriterOK, SameWriter
  <2>2. OneCid(y)
    BY <1>2, <1>3 DEF OneCid, SameWriter
  <2> QED BY <1>3, <1>5, <2>1, <2>2 DEF EndOK
<1>8. Grows(x, Messages(N), y, Messages(N \cup y.outbox))
  <2>1. \A o \in y.outbox : o.type # "ack"
    BY <1>3 DEF Handshake
  <2>2. Sends(x, Messages(N), y, Messages(N))
    BY <1>3, <1>6 DEF Sends, SameWriter
  <2> QED BY <1>5, <2>1, <2>2 DEF Grows
<1>9. /\ StepOK(e, y) /\ \A o \in y.outbox : o.type # "ack"
      /\ y.expected_msg_seq >= x.expected_msg_seq
      /\ ReaderMove(x, y, ep[Peer(e)])
  BY <1>1, <1>3, <1>7, <1>8, WritingStep
<1>10. WriterMove(x, y, ep[Peer(e)])
  <2>1. ~Spent(x)
    BY <1>1, <1>2, PostAssumption DEF Spent, ConnState, PostAssumption
  <2> QED BY <1>3, <2>1 DEF WriterMove, SameWriter
<1>11. OnlyUpdatesOK => OnlyUpdatesStep(e, y)
  BY <1>3, <1>5, <1>9, <1>10 DEF OnlyUpdatesOK, OnlyUpdatesStep
<1> QED BY <1>9, <1>11 DEF GoodStep

(* Giving up closes the connection when a KeyUpdate is unacknowledged, and *)
(* drops the flight, without a KeyUpdate in it, otherwise.                 *)
LEMMA GiveUpStep ==
    ASSUME IInv, NEW e \in Side, GiveUp(e)
    PROVE  GoodStep(e)
<1> DEFINE x == ep[e]
           N == net[e]
           y == Abandoned(x)
<1>1. Return(e, y) /\ x.state = "Connected" /\ x.attempts >= MAX_RETRANSMITS
  BY DEF GiveUp, Connected
<1>2. EndOK(x, N) /\ ConnState(x) /\ x.outbox = {} /\ WriterOK(x, Messages(N)) /\ OneCid(x)
  BY AtSide
<1>3. /\ ConnState(y) /\ SameReader(x, y) /\ y.outbox = x.outbox
      /\ y.enc_write_epoch = x.enc_write_epoch
      /\ y.key_update_pending = x.key_update_pending
      /\ y.out_msg_seq = x.out_msg_seq /\ y.cid_reply_owed = x.cid_reply_owed
      /\ \/ x.key_update_pending /\ y.state = "Closed" /\ y.in_flight = x.in_flight
            /\ y.attempts = x.attempts
         \/ ~x.key_update_pending /\ y.state = x.state /\ y.in_flight = {}
  <2>1. CASE x.key_update_pending
    BY <1>2, <2>1 DEF Abandoned, ConnState, Fields, SameReader
  <2>2. CASE ~x.key_update_pending
    BY <1>2, <2>2 DEF Abandoned, ConnState, Fields, SameReader
  <2> QED BY <2>1, <2>2
<1> HIDE DEF y
<1>4. N \cup y.outbox = N
  BY <1>2, <1>3
<1>5. Limit(y) = Limit(x) /\ Limit(x) \in Nat /\ x.out_msg_seq \in Nat
  BY <1>2, <1>3 DEF Limit, ConnState
<1>6. WriterOK(y, Messages(N))
  <2>1. CASE y.in_flight = x.in_flight
    BY <1>2, <1>3, <1>5, <2>1 DEF WriterOK
  <2>2. CASE ~x.key_update_pending /\ y.in_flight = {}
    <3>1. Updates(y.in_flight) = {} /\ y.in_flight \subseteq Messages(N)
      BY <2>2 DEF Updates
    <3> QED BY <1>2, <1>3, <1>5, <2>2, <3>1 DEF WriterOK
  <2> QED BY <1>3, <2>1, <2>2
<1>7. OneCid(y)
  BY <1>2, <1>3 DEF OneCid
<1>8. EndOK(y, N)
  BY <1>3, <1>4, <1>6, <1>7 DEF EndOK
<1>9. Grows(x, Messages(N), y, Messages(N \cup y.outbox))
  BY <1>3, <1>4, <1>5 DEF Grows, Sends
<1>10. /\ StepOK(e, y) /\ \A o \in y.outbox : o.type # "ack"
       /\ y.expected_msg_seq >= x.expected_msg_seq
       /\ ReaderMove(x, y, ep[Peer(e)])
  BY <1>1, <1>3, <1>8, <1>9, WritingStep
<1>11. WriterMove(x, y, ep[Peer(e)])
  <2>1. CASE x.key_update_pending /\ y.state = "Closed"
    BY <1>1, <1>3, <2>1 DEF WriterMove, Spent
  <2>2. CASE ~x.key_update_pending /\ y.state = x.state
    BY <1>3, <2>2 DEF WriterMove, Spent
  <2> QED BY <1>3, <2>1, <2>2
<1>12. OnlyUpdatesOK => OnlyUpdatesStep(e, y)
  BY <1>3, <1>4, <1>10, <1>11 DEF OnlyUpdatesOK, OnlyUpdatesStep
<1> QED BY <1>10, <1>12 DEF GoodStep

(* The previous epoch goes once no KeyUpdate under it will be repeated. *)
LEMMA ExpireStep ==
    ASSUME IInv, NEW e \in Side, ExpirePrevRead(e)
    PROVE  GoodStep(e)
<1> DEFINE x == ep[e]
           d == Peer(e)
           N == net[e]
           y == [x EXCEPT !.prev_read = 0]
<1>1. /\ Return(e, y) /\ x.prev_read # 0
      /\ x.prev_read # ep[d].enc_write_epoch \/ Spent(ep[d])
  BY DEF ExpirePrevRead, GraceOver
<1>2. /\ EndOK(x, N) /\ ConnState(x) /\ x.outbox = {}
      /\ ReaderOK(x, Messages(net[d])) /\ Behind(x, ep[d])
  BY AtSide
<1>3. /\ ConnState(y) /\ SameWriter(x, y) /\ y.state = x.state /\ y.outbox = x.outbox
      /\ y.cid_reply_owed = x.cid_reply_owed /\ y.attempts = x.attempts
      /\ y.read = x.read /\ y.prev_read = 0
      /\ y.expected_msg_seq = x.expected_msg_seq /\ y.buffered = x.buffered
  BY <1>2 DEF ConnState, Fields, SameWriter
<1> HIDE DEF y
<1>4. N \cup y.outbox = N /\ N \cup x.outbox = N
  BY <1>2, <1>3
<1>5. EndOK(y, N) /\ Grows(x, Messages(N), y, Messages(N \cup y.outbox))
  BY <1>2, <1>3, <1>4, WriterFrame
<1>6. ReaderOK(y, Messages(net[d])) /\ Behind(y, ep[d])
  <2>1. y.read >= 3 /\ y.prev_read < y.read
    BY <1>2, <1>3 DEF ReaderOK, ConnState
  <2> QED BY <1>2, <1>3, <2>1 DEF ReaderOK, Behind
<1>7. StepOK(e, y)
  BY <1>1, <1>5, <1>6 DEF StepOK, Grows
<1>8. WriterMove(x, y, ep[d])
  BY <1>3 DEF WriterMove, SameWriter, Spent
<1>9. ReaderMove(x, y, ep[d])
  BY <1>1, <1>3 DEF ReaderMove
<1>10. y.expected_msg_seq >= x.expected_msg_seq
  BY <1>2, <1>3 DEF ConnState
<1>11. OnlyUpdatesOK => OnlyUpdatesStep(e, y)
  BY <1>2, <1>3, <1>4, <1>8, <1>9, <1>10 DEF OnlyUpdatesOK, OnlyUpdatesStep
<1> QED BY <1>7, <1>11 DEF GoodStep

(* Every step is the return of one side's handler. *)
LEMMA NextSteps ==
    ASSUME IInv, Next
    PROVE  \E e \in Side : GoodStep(e)
<1>1. PICK e \in Side :
        \/ \E kind \in KeyUpdates : RequestKeyUpdate(e, kind)
        \/ RequestConnectionIds(e)
        \/ \E r \in net[Peer(e)] : Receive(e, r)
        \/ Retransmit(e)
        \/ GiveUp(e)
        \/ ExpirePrevRead(e)
  BY DEF Next
<1>2. CASE \E kind \in KeyUpdates : RequestKeyUpdate(e, kind)
  BY <1>2, RequestKeyUpdateStep
<1>3. CASE RequestConnectionIds(e)
  BY <1>3, RequestConnectionIdsStep
<1>4. CASE \E r \in net[Peer(e)] : Receive(e, r)
  BY <1>4, ReceiveAckStep, ReceiveHandshakeStep
<1>5. CASE Retransmit(e)
  BY <1>5, RetransmitStep
<1>6. CASE GiveUp(e)
  BY <1>6, GiveUpStep
<1>7. CASE ExpirePrevRead(e)
  BY <1>7, ExpireStep
<1> QED BY <1>1, <1>2, <1>3, <1>4, <1>5, <1>6, <1>7

-----------------------------------------------------------------------------
(* The invariant is inductive.                                             *)

(* What a step of e shows of the two connections afterwards. *)
LEMMA StepSeen ==
    ASSUME IInv, NEW e \in Side, GoodStep(e)
    PROVE  /\ IInv' /\ config' = config
           /\ ep'[Peer(e)] = ep[Peer(e)] /\ net'[Peer(e)] = net[Peer(e)]
           /\ OnlyKeyUpdates /\ OnlyUpdatesOK =>
                /\ \A m \in Messages(net'[e]) : m.kind \in KeyUpdates
                /\ ~ep'[e].cid_reply_owed
                /\ \A o \in net'[e] :
                      o.type = "ack" =>
                          o.acked.seq \in Nat /\ o.acked.seq < ep'[e].expected_msg_seq
                /\ WriterMove(ep[e], ep'[e], ep[Peer(e)])
                /\ ReaderMove(ep[e], ep'[e], ep[Peer(e)])
<1>1. PICK y : StepOK(e, y) /\ (OnlyKeyUpdates /\ OnlyUpdatesOK => OnlyUpdatesStep(e, y))
  BY DEF GoodStep
<1>2. /\ IInv' /\ ep'[Peer(e)] = ep[Peer(e)] /\ net'[Peer(e)] = net[Peer(e)]
      /\ SameWriter(y, ep'[e]) /\ SameReader(y, ep'[e]) /\ ep'[e].state = y.state
      /\ ep'[e].cid_reply_owed = y.cid_reply_owed /\ ep'[e].attempts = y.attempts
      /\ net'[e] = net[e] \cup y.outbox
  BY <1>1, ReturnStep DEF StepOK
<1>3. config' = config
  BY <1>1 DEF StepOK, Return
<1>4. ConnState(ep[e]) /\ ConnState(y)
  BY <1>1, AtSide DEF StepOK, EndOK
<1>5. ASSUME OnlyKeyUpdates, OnlyUpdatesOK
      PROVE  /\ \A m \in Messages(net'[e]) : m.kind \in KeyUpdates
             /\ ~ep'[e].cid_reply_owed
             /\ \A o \in net'[e] :
                   o.type = "ack" =>
                       o.acked.seq \in Nat /\ o.acked.seq < ep'[e].expected_msg_seq
             /\ WriterMove(ep[e], ep'[e], ep[Peer(e)])
             /\ ReaderMove(ep[e], ep'[e], ep[Peer(e)])
  <2>1. OnlyUpdatesStep(e, y)
    BY <1>1, <1>5
  <2>2. \A o \in net'[e] :
          o.type = "ack" => o.acked.seq \in Nat /\ o.acked.seq < ep'[e].expected_msg_seq
    <3>1. ep'[e].expected_msg_seq = y.expected_msg_seq
      BY <1>2 DEF SameReader
    <3>2. y.expected_msg_seq >= ep[e].expected_msg_seq
      BY <2>1 DEF OnlyUpdatesStep
    <3>3. ASSUME NEW o \in net[e], o.type = "ack"
          PROVE  o.acked.seq \in Nat /\ o.acked.seq < y.expected_msg_seq
      <4>1. o.acked.seq \in Nat /\ o.acked.seq < ep[e].expected_msg_seq
        BY <1>5, <3>3 DEF OnlyUpdatesOK
      <4> QED BY <1>4, <3>2, <4>1 DEF ConnState
    <3>4. \A o \in y.outbox :
            o.type = "ack" => o.acked.seq \in Nat /\ o.acked.seq < y.expected_msg_seq
      BY <2>1 DEF OnlyUpdatesStep
    <3> QED BY <1>2, <3>1, <3>3, <3>4
  <2>3. WriterMove(ep[e], ep'[e], ep[Peer(e)])
    <3>1. WriterMove(ep[e], y, ep[Peer(e)])
      BY <2>1 DEF OnlyUpdatesStep
    <3> QED BY <1>2, <3>1 DEF WriterMove, SameWriter, Spent
  <2>4. ReaderMove(ep[e], ep'[e], ep[Peer(e)])
    <3>1. ReaderMove(ep[e], y, ep[Peer(e)])
      BY <2>1 DEF OnlyUpdatesStep
    <3> QED BY <1>2, <3>1 DEF ReaderMove, SameReader
  <2> QED BY <1>2, <2>1, <2>2, <2>3, <2>4 DEF OnlyUpdatesStep
<1> QED BY <1>2, <1>3, <1>5

(* With KeyUpdates alone a reader stays level with its writer or one       *)
(* epoch ahead of it, keeping the epoch the writer is in.                  *)
LEMMA StepKeeps ==
    ASSUME IInv, KInv, NEW e \in Side, GoodStep(e)
    PROVE  IInv' /\ KInv'
<1> DEFINE d == Peer(e)
<1>1. d \in Side /\ d # e /\ Peer(d) = e /\ \A f \in Side : f = e \/ f = d
  BY Peers
<1>2. IInv' /\ config' = config /\ ep'[d] = ep[d] /\ net'[d] = net[d]
  BY StepSeen
<1>3. ASSUME OnlyKeyUpdates PROVE OnlyUpdatesOK'
  <2>1. OnlyUpdatesOK
    BY <1>3 DEF KInv
  <2>2. /\ \A m \in Messages(net'[e]) : m.kind \in KeyUpdates
        /\ ~ep'[e].cid_reply_owed
        /\ \A o \in net'[e] :
              o.type = "ack" =>
                  o.acked.seq \in Nat /\ o.acked.seq < ep'[e].expected_msg_seq
        /\ WriterMove(ep[e], ep'[e], ep[d])
        /\ ReaderMove(ep[e], ep'[e], ep[d])
    BY <1>3, <2>1, StepSeen
  <2>3. /\ ep[e].read \in Nat /\ ep[d].read \in Nat
        /\ ep[e].enc_write_epoch \in Nat /\ ep[d].enc_write_epoch \in Nat
    BY AtSide DEF ConnState
  <2>4. /\ ep[e].enc_write_epoch <= ep[d].read
        /\ ~Spent(ep[e]) /\ ep[d].read # ep[e].enc_write_epoch
              => ep[d].prev_read = ep[e].enc_write_epoch
        /\ ep[d].enc_write_epoch <= ep[e].read
        /\ ~Spent(ep[d]) /\ ep[e].read # ep[d].enc_write_epoch
              => ep[e].prev_read = ep[d].enc_write_epoch
    BY <1>1, <2>1 DEF OnlyUpdatesOK
  <2>5. /\ ep'[e].enc_write_epoch <= ep[d].read
        /\ ~Spent(ep'[e]) /\ ep[d].read # ep'[e].enc_write_epoch
              => ep[d].prev_read = ep'[e].enc_write_epoch
    BY <2>2, <2>3, <2>4 DEF WriterMove, Spent
  <2>6. /\ ep[d].enc_write_epoch <= ep'[e].read
        /\ ~Spent(ep[d]) /\ ep'[e].read # ep[d].enc_write_epoch
              => ep'[e].prev_read = ep[d].enc_write_epoch
    BY <2>2, <2>3, <2>4 DEF ReaderMove
  <2>7. /\ \A m \in Messages(net'[d]) : m.kind \in KeyUpdates
        /\ ~ep'[d].cid_reply_owed
        /\ \A o \in net'[d] :
              o.type = "ack" =>
                  o.acked.seq \in Nat /\ o.acked.seq < ep'[d].expected_msg_seq
    BY <1>1, <1>2, <2>1 DEF OnlyUpdatesOK
  <2>8. ASSUME NEW f \in Side
        PROVE  /\ \A m \in Messages(net'[f]) : m.kind \in KeyUpdates
               /\ ~ep'[f].cid_reply_owed
               /\ \A o \in net'[f] :
                     o.type = "ack" =>
                         o.acked.seq \in Nat /\ o.acked.seq < ep'[f].expected_msg_seq
               /\ ep'[f].enc_write_epoch <= ep'[Peer(f)].read
               /\ ~Spent(ep'[f]) /\ ep'[Peer(f)].read # ep'[f].enc_write_epoch
                     => ep'[Peer(f)].prev_read = ep'[f].enc_write_epoch
    BY <1>1, <1>2, <2>2, <2>5, <2>6, <2>7
  <2> QED BY <2>8 DEF OnlyUpdatesOK, Spent, Messages
<1>4. OnlyKeyUpdates' = OnlyKeyUpdates
  BY <1>2 DEF OnlyKeyUpdates
<1> QED BY <1>2, <1>3, <1>4 DEF KInv

(* The connections right after the handshake. *)
LEMMA EstablishedOK ==
    /\ EndOK(Established, {}) /\ Messages({}) = {} /\ Established.outbox = {}
    /\ ReaderOK(Established, {}) /\ Behind(Established, Established)
    /\ ~Established.cid_reply_owed /\ Established.enc_write_epoch = Established.read
<1> DEFINE x == Established
<1>1. /\ ConnState(x) /\ x.out_msg_seq = 0 /\ x.expected_msg_seq = 0
      /\ x.enc_write_epoch = 3 /\ x.read = 3 /\ x.prev_read = 2
      /\ x.key_update_pending = FALSE /\ x.cid_reply_owed = FALSE
      /\ x.buffered = {} /\ x.in_flight = {} /\ x.outbox = {}
  BY DEF Established, ConnState, Fields
<1>2. Messages({}) = {} /\ Updates({}) = {} /\ Limit(x) = 3
  BY <1>1 DEF Messages, Updates, Limit
<1> HIDE DEF x
<1>3. WriterOK(x, {})
  BY <1>1, <1>2 DEF WriterOK
<1>4. OneCid(x)
  BY <1>1 DEF OneCid
<1>5. EndOK(x, {})
  BY <1>1, <1>2, <1>3, <1>4 DEF EndOK
<1>6. ReaderOK(x, {}) /\ Behind(x, x)
  BY <1>1, <1>2 DEF ReaderOK, Behind
<1> QED BY <1>1, <1>2, <1>5, <1>6 DEF x

(* The server's ticket, if there is one, is sent and unread. *)
LEMMA InitOK == Init => IInv /\ KInv
<1> SUFFICES ASSUME Init PROVE IInv /\ KInv
  OBVIOUS
<1> DEFINE x == Established
           t == Emit(Established, "new_session_ticket")
           server == IF config.ticket THEN t ELSE x
           s == [server EXCEPT !.outbox = {}]
           N == server.outbox
<1>1. ep = [e \in Side |-> IF e = "s" THEN s ELSE x] /\ net = [e \in Side |-> IF e = "s" THEN N ELSE {}]
  BY DEF Init
<1>2. /\ EndOK(x, {}) /\ Messages({}) = {} /\ x.outbox = {}
      /\ ReaderOK(x, {}) /\ Behind(x, x) /\ ~x.cid_reply_owed /\ x.enc_write_epoch = x.read
  BY EstablishedOK
<1>3. ConnState(x) /\ WriterOK(x, {}) /\ OneCid(x)
  BY <1>2 DEF EndOK
<1>4. /\ EndOK(t, {}) /\ SameReader(x, t)
      /\ Grows(x, Messages({} \cup x.outbox), t, Messages({} \cup t.outbox))
  BY <1>2, EmitOther DEF Kinds, KeyUpdates
<1>5. /\ EndOK(x, {}) /\ SameReader(x, x)
      /\ Grows(x, Messages({} \cup x.outbox), x, Messages({} \cup x.outbox))
  <2>1. SameWriter(x, x) /\ SameReader(x, x)
    BY DEF SameWriter, SameReader
  <2> QED BY <1>2, <1>3, <2>1, WriterFrame
<1> HIDE DEF x, t
<1>6. /\ EndOK(server, {}) /\ SameReader(x, server)
      /\ Sends(x, {}, server, Messages(N))
  <2>1. {} \cup x.outbox = {} /\ {} \cup N = N
    BY <1>2
  <2>2. /\ EndOK(server, {}) /\ SameReader(x, server)
        /\ Grows(x, Messages({} \cup x.outbox), server, Messages({} \cup N))
    BY <1>4, <1>5
  <2> HIDE DEF server, N
  <2> QED BY <1>2, <2>1, <2>2 DEF Grows
<1>7. /\ ConnState(server) /\ WriterOK(server, Messages(N)) /\ OneCid(server)
  <2>1. {} \cup server.outbox = N
    OBVIOUS
  <2> QED BY <1>6, <2>1 DEF EndOK
<1> HIDE DEF server
<1>8. /\ ConnState(s) /\ SameWriter(server, s) /\ SameReader(server, s) /\ s.outbox = {}
  BY <1>7 DEF ConnState, Fields, SameWriter, SameReader
<1> HIDE DEF s, N
<1>9. EndOK(s, N)
  <2>1. Limit(s) = Limit(server)
    BY <1>8 DEF Limit, SameWriter
  <2>2. WriterOK(s, Messages(N)) /\ OneCid(s)
    BY <1>7, <1>8, <2>1 DEF WriterOK, OneCid, SameWriter
  <2>3. N \cup s.outbox = N
    BY <1>8
  <2> QED BY <1>8, <2>2, <2>3 DEF EndOK
<1>10. ReaderOK(x, Messages(N)) /\ Behind(x, s)
  <2>1. ReaderOK(x, Messages(N)) /\ Behind(x, server)
    BY <1>2, <1>3, <1>6, <1>7, ReaderKeeps
  <2> QED BY <1>8, <2>1 DEF Behind, Limit, SameWriter
<1>11. ReaderOK(s, {}) /\ Behind(s, x)
  <2>1. SameReader(x, s)
    BY <1>6, <1>8 DEF SameReader
  <2> QED BY <1>2, <2>1 DEF ReaderOK, Behind, SameReader
<1>12. DirectionOK(s, N, x) /\ DirectionOK(x, {}, s)
  BY <1>2, <1>8, <1>9, <1>10, <1>11 DEF DirectionOK
<1>13. IInv
  BY <1>1, <1>12 DEF IInv, Side, Peer
<1>14. ASSUME OnlyKeyUpdates PROVE OnlyUpdatesOK
  <2>1. server = x /\ N = {}
    BY <1>2, <1>14 DEF server, N, OnlyKeyUpdates
  <2>2. s.cid_reply_owed = x.cid_reply_owed
    BY <1>3, <2>1 DEF s, ConnState, Fields
  <2>3. s.enc_write_epoch = x.enc_write_epoch /\ s.read = x.read
    BY <1>8, <2>1 DEF SameWriter, SameReader
  <2>4. x.read <= x.read
    BY <1>3 DEF ConnState
  <2> QED BY <1>1, <1>2, <2>1, <2>2, <2>3, <2>4 DEF OnlyUpdatesOK, Side, Peer
<1> QED BY <1>13, <1>14 DEF KInv

(* What is sent, announced, dispatched and installed stays in step.        *)
THEOREM Safety == Spec => [](IInv /\ KInv)
<1>1. Init => IInv /\ KInv
  BY InitOK
<1>2. (IInv /\ KInv) /\ [Next]_vars => (IInv /\ KInv)'
  <2> SUFFICES ASSUME IInv, KInv, [Next]_vars PROVE IInv' /\ KInv'
    OBVIOUS
  <2>1. CASE Next
    BY <2>1, NextSteps, StepKeeps
  <2>2. CASE UNCHANGED vars
    <3>1. config' = config /\ ep' = ep /\ net' = net
      BY <2>2 DEF vars
    <3>2. IInv'
      BY <3>1 DEF IInv
    <3>3. KInv'
      BY <3>1 DEF KInv, OnlyKeyUpdates, OnlyUpdatesOK, Spent
    <3> QED BY <3>2, <3>3
  <2> QED BY <2>1, <2>2
<1> QED BY <1>1, <1>2, PTL DEF Spec

(* No reader ever installs an epoch its writer has not announced, however  *)
(* many updates both sides start and whatever the network does             *)
(* (on_key_update_received, complete_key_update_if_acked).                 *)
THEOREM ReadersFollow == Spec => []ReaderNotAhead
<1>1. IInv => ReaderNotAhead
  <2> SUFFICES ASSUME IInv, NEW e \in Side
               PROVE  ep[Peer(e)].read
                        <= ep[e].enc_write_epoch + (IF ep[e].key_update_pending THEN 1 ELSE 0)
    BY DEF ReaderNotAhead
  <2>1. ConnState(ep[e]) /\ ConnState(ep[Peer(e)]) /\ Behind(ep[Peer(e)], ep[e])
    BY AtSide
  <2> QED BY <2>1 DEF Behind, Limit, ConnState
<1> QED BY <1>1, Safety, PTL

(* However often the peer asks, one NewConnectionId at most is unacknow-   *)
(* ledged (flush_owed_new_connection_id).                                  *)
THEOREM OneReplyOutstanding == Spec => []OneNewConnectionId
<1>1. IInv => OneNewConnectionId
  <2> SUFFICES ASSUME IInv, NEW e \in Side
               PROVE  Cardinality({r \in ep[e].in_flight : r.kind = "new_connection_id"}) <= 1
    BY DEF OneNewConnectionId
  <2> DEFINE R == {r \in ep[e].in_flight : r.kind = "new_connection_id"}
  <2>1. \A m, n \in R : m = n
    BY AtSide DEF OneCid
  <2> HIDE DEF R
  <2>2. CASE R = {}
    BY <2>2, FS_EmptySet DEF R
  <2>3. CASE R # {}
    <3>1. PICK r : r \in R
      BY <2>3
    <3>2. R = {r}
      BY <2>1, <3>1
    <3>3. Cardinality({r}) = 1
      BY FS_Singleton
    <3> QED BY <3>2, <3>3 DEF R
  <2> QED BY <2>2, <2>3
<1> QED BY <1>1, Safety, PTL

(* With KeyUpdate the only post-handshake message, what either side writes *)
(* the other can open while its KeyUpdate has a retransmission to go: its  *)
(* header bits select the right keys, however many updates have wrapped    *)
(* them (select_read_epoch, expire_prev_read).                             *)
THEOREM WritesCanBeRead == Spec => []WriteEpochReadable
<1>1. IInv /\ KInv => WriteEpochReadable
  <2> SUFFICES ASSUME IInv, KInv, NEW e \in Side, OnlyKeyUpdates, ~Spent(ep[e])
               PROVE  SelectedEpoch(ep[Peer(e)], ep[e].enc_write_epoch) = ep[e].enc_write_epoch
    BY DEF WriteEpochReadable
  <2> DEFINE w == ep[e].enc_write_epoch
             x == ep[Peer(e)]
  <2>1. ConnState(ep[e]) /\ ConnState(x) /\ Behind(x, ep[e])
    BY AtSide
  <2>2. w <= x.read /\ (x.read # w => x.prev_read = w)
    BY DEF KInv, OnlyUpdatesOK
  <2>3. w \in Nat /\ w >= 3 /\ x.read \in Nat /\ x.read <= w + 1
    BY <2>1 DEF ConnState, Behind, Limit
  <2>4. CASE x.read = w
    BY <2>4 DEF SelectedEpoch
  <2>5. CASE x.read # w
    <3>1. x.read = w + 1 /\ x.prev_read = w /\ w # 0
      BY <2>2, <2>3, <2>5
    <3>2. (w + 1) % 4 # w % 4
      BY <2>3
    <3> QED BY <3>1, <3>2 DEF SelectedEpoch
  <2> QED BY <2>4, <2>5
<1> QED BY <1>1, Safety, PTL

-----------------------------------------------------------------------------
(* The refinement of EpochSync.                                            *)

(* What the direction that e writes does in one step. *)
DirectionMoves(e) ==
    \/ /\ WriterMove(ep[e], ep'[e], ep[Peer(e)])
       /\ ep'[Peer(e)].read = ep[Peer(e)].read
       /\ ep'[Peer(e)].prev_read = ep[Peer(e)].prev_read
    \/ /\ ReaderMove(ep[Peer(e)], ep'[Peer(e)], ep[e])
       /\ ep'[e].enc_write_epoch = ep[e].enc_write_epoch
       /\ ep'[e].key_update_pending = ep[e].key_update_pending
       /\ ep'[e].attempts = ep[e].attempts /\ ep'[e].state = ep[e].state

(* A step of a connection moves the direction it writes as a writer and    *)
(* the one it reads as a reader.                                           *)
LEMMA BothMove ==
    ASSUME IInv, KInv, Next, OnlyKeyUpdates, NEW e \in Side
    PROVE  /\ DirectionMoves(e)
           /\ ep[e].key_update_pending \in BOOLEAN /\ ep'[e].key_update_pending \in BOOLEAN
<1>1. PICK f \in Side : GoodStep(f)
  BY NextSteps
<1>2. /\ IInv' /\ ep'[Peer(f)] = ep[Peer(f)]
      /\ WriterMove(ep[f], ep'[f], ep[Peer(f)])
      /\ ReaderMove(ep[f], ep'[f], ep[Peer(f)])
  BY <1>1, StepSeen DEF KInv
<1>3. DirectionMoves(e)
  <2>1. CASE e = f
    BY <1>2, <2>1 DEF DirectionMoves
  <2>2. CASE e # f
    <3>1. e = Peer(f) /\ Peer(e) = f
      BY <2>2, Peers
    <3> QED BY <1>2, <3>1 DEF DirectionMoves
  <2> QED BY <2>1, <2>2
<1>4. ep[e].key_update_pending \in BOOLEAN /\ ep'[e].key_update_pending \in BOOLEAN
  <2>1. \A g \in Side : DirectionOK(ep'[g], net'[g], ep'[Peer(g)])
    BY <1>2 DEF IInv
  <2>2. ConnState(ep'[e])
    BY <2>1 DEF DirectionOK, EndOK
  <2> QED BY <2>2, AtSide DEF ConnState
<1> QED BY <1>3, <1>4

(* Each direction implements EpochSync, the promise of epoch13.rs, while   *)
(* KeyUpdate is the only post-handshake message: announced, installed by   *)
(* the reader, acknowledged, and only then used by the writer.             *)
THEOREM EpochsRefine == Spec => EpochsInStep
<1>1. Init => (OnlyKeyUpdates => ClientToServer!Init /\ ServerToClient!Init)
  <2> SUFFICES ASSUME Init, OnlyKeyUpdates PROVE ClientToServer!Init /\ ServerToClient!Init
    OBVIOUS
  <2>1. ep["c"] = Established /\ ep["s"] = [Established EXCEPT !.outbox = {}]
    BY DEF Init, OnlyKeyUpdates, Side
  <2> QED BY <2>1 DEF Established, Connected, ClientToServer!Init, ServerToClient!Init,
             ClientToServer!First, ServerToClient!First, Spent
<1>2. ASSUME IInv, KInv, [Next]_vars
      PROVE  [OnlyKeyUpdates => ClientToServer!Next]_(ClientToServer!vars)
  <2>1. CASE UNCHANGED vars
    BY <2>1 DEF vars, ClientToServer!vars, Connected, Spent
  <2>2. CASE ~OnlyKeyUpdates
    BY <2>2
  <2>3. CASE Next /\ OnlyKeyUpdates
    <3> DEFINE w == ep["c"]
               r == ep["s"]
    <3>1. Peer("c") = "s" /\ "c" \in Side
      BY DEF Peer, Side
    <3>2. /\ DirectionMoves("c")
          /\ w.key_update_pending \in BOOLEAN /\ w'.key_update_pending \in BOOLEAN
      BY <1>2, <2>3, <3>1, BothMove
    <3>3. CASE WriterMove(w, w', r) /\ r'.read = r.read /\ r'.prev_read = r.prev_read
      BY <3>2, <3>3 DEF WriterMove, Connected, ClientToServer!Next, ClientToServer!Announce,
         ClientToServer!Move, ClientToServer!Exhaust, ClientToServer!Close, ClientToServer!vars,
         Spent
    <3>4. CASE /\ ReaderMove(r, r', w) /\ w'.enc_write_epoch = w.enc_write_epoch
               /\ w'.key_update_pending = w.key_update_pending /\ w'.state = w.state
               /\ w'.attempts = w.attempts
      BY <3>2, <3>4 DEF ReaderMove, Connected, ClientToServer!Next, ClientToServer!Install,
         ClientToServer!Forget, ClientToServer!vars, Spent
    <3> QED BY <3>1, <3>2, <3>3, <3>4 DEF DirectionMoves
  <2> QED BY <1>2, <2>1, <2>2, <2>3
<1>3. ASSUME IInv, KInv, [Next]_vars
      PROVE  [OnlyKeyUpdates => ServerToClient!Next]_(ServerToClient!vars)
  <2>1. CASE UNCHANGED vars
    BY <2>1 DEF vars, ServerToClient!vars, Connected, Spent
  <2>2. CASE ~OnlyKeyUpdates
    BY <2>2
  <2>3. CASE Next /\ OnlyKeyUpdates
    <3> DEFINE w == ep["s"]
               r == ep["c"]
    <3>1. Peer("s") = "c" /\ "s" \in Side
      BY DEF Peer, Side
    <3>2. /\ DirectionMoves("s")
          /\ w.key_update_pending \in BOOLEAN /\ w'.key_update_pending \in BOOLEAN
      BY <1>3, <2>3, <3>1, BothMove
    <3>3. CASE WriterMove(w, w', r) /\ r'.read = r.read /\ r'.prev_read = r.prev_read
      BY <3>2, <3>3 DEF WriterMove, Connected, ServerToClient!Next, ServerToClient!Announce,
         ServerToClient!Move, ServerToClient!Exhaust, ServerToClient!Close, ServerToClient!vars,
         Spent
    <3>4. CASE /\ ReaderMove(r, r', w) /\ w'.enc_write_epoch = w.enc_write_epoch
               /\ w'.key_update_pending = w.key_update_pending /\ w'.state = w.state
               /\ w'.attempts = w.attempts
      BY <3>2, <3>4 DEF ReaderMove, Connected, ServerToClient!Next, ServerToClient!Install,
         ServerToClient!Forget, ServerToClient!vars, Spent
    <3> QED BY <3>1, <3>2, <3>3, <3>4 DEF DirectionMoves
  <2> QED BY <1>3, <2>1, <2>2, <2>3
<1> QED BY <1>1, <1>2, <1>3, Safety, PTL DEF Spec, EpochsInStep

-----------------------------------------------------------------------------
(* What EpochSync promises.                                                *)

(* The reader is level with the writer, or one ahead with the writer's     *)
(* epoch as its previous one while the KeyUpdate waits for its ACK.        *)
InStep(writer, reader, previous, pending, spent) ==
    /\ writer \in Nat \ {0}
    /\ reader \in Nat
    /\ previous \in Nat
    /\ pending \in BOOLEAN
    /\ spent \in BOOLEAN
    /\ spent => pending
    /\ \/ reader = writer
       \/ reader = writer + 1 /\ pending /\ (spent \/ previous = writer)

(* The steps of EpochSync, on values. *)
Disciplined(w, r, p, k, t, w1, r1, p1, k1, t1) ==
    \/ ~k /\ k1 = TRUE /\ w1 = w /\ r1 = r /\ p1 = p /\ t1 = t
    \/ k /\ r = w /\ r1 = r + 1 /\ p1 = r /\ w1 = w /\ k1 = k /\ t1 = t
    \/ k /\ r = w + 1 /\ w1 = r /\ k1 = FALSE /\ t1 = FALSE /\ r1 = r /\ p1 = p
    \/ k /\ t1 = TRUE /\ w1 = w /\ r1 = r /\ p1 = p /\ k1 = k
    \/ (p # w \/ t) /\ p1 = 0 /\ w1 = w /\ r1 = r /\ k1 = k /\ t1 = t
    \/ w1 = w /\ r1 = r /\ p1 = p /\ k1 = k /\ t1 = t

(* They keep the reader in step with the writer. *)
LEMMA StaysInStep ==
    ASSUME NEW w, NEW r, NEW p, NEW k, NEW t,
           NEW w1, NEW r1, NEW p1, NEW k1, NEW t1,
           InStep(w, r, p, k, t), Disciplined(w, r, p, k, t, w1, r1, p1, k1, t1)
    PROVE  InStep(w1, r1, p1, k1, t1)
<1>1. k1 \in BOOLEAN /\ t1 \in BOOLEAN
  BY Zenon DEF InStep, Disciplined
<1>2. w1 \in Nat \ {0} /\ r1 \in Nat /\ p1 \in Nat
  BY DEF InStep, Disciplined
<1>3. r1 = w1 \/ (r1 = w1 + 1 /\ k1 /\ (t1 \/ p1 = w1))
  BY DEF InStep, Disciplined
<1>4. t1 => k1
  BY DEF InStep, Disciplined
<1> QED BY <1>1, <1>2, <1>3, <1>4 DEF InStep

(* A writer whose KeyUpdate has a retransmission to go writes under an     *)
(* epoch its reader holds, at every moment of every KeyUpdate, in either   *)
(* direction, as long as the discipline of epoch13.rs is kept.             *)
THEOREM AlwaysReadable ==
    /\ ClientToServer!Spec => []ClientToServer!Readable
    /\ ServerToClient!Spec => []ServerToClient!Readable
<1>1. ClientToServer!Spec => []ClientToServer!Readable
  <2> DEFINE w == ep["c"].enc_write_epoch
             r == ep["s"].read
             p == ep["s"].prev_read
             k == ep["c"].key_update_pending
             t == Spent(ep["c"])
             Level == InStep(w, r, p, k, t)
  <2>1. ClientToServer!Init => Level
    <3> SUFFICES ASSUME ClientToServer!Init PROVE Level
      OBVIOUS
    <3>1. w = 3 /\ r = 3 /\ p = 3 - 1
      BY Zenon DEF ClientToServer!Init, ClientToServer!First
    <3>2. k \in BOOLEAN /\ t \in BOOLEAN /\ (t => k)
      BY Zenon DEF ClientToServer!Init, Spent
    <3>3. w \in Nat \ {0} /\ r \in Nat /\ p \in Nat /\ r = w
      BY <3>1
    <3> QED BY <3>2, <3>3, Zenon DEF InStep
  <2>2. Level /\ [ClientToServer!Next]_(ClientToServer!vars) => Level'
    <3> SUFFICES ASSUME Level, [ClientToServer!Next]_(ClientToServer!vars) PROVE Level'
      OBVIOUS
    <3>1. Disciplined(w, r, p, k, t, w', r', p', k', t')
      BY Zenon DEF Disciplined, ClientToServer!Next, ClientToServer!vars, ClientToServer!Announce,
         ClientToServer!Install, ClientToServer!Move, ClientToServer!Exhaust, ClientToServer!Close,
         ClientToServer!Forget
    <3> HIDE DEF w, r, p, k, t
    <3>2. InStep(w', r', p', k', t')
      BY <3>1, StaysInStep, Zenon
    <3> QED BY <3>2
  <2>3. Level => ClientToServer!Readable
    <3> SUFFICES ASSUME Level, ~t PROVE w \in {r, p}
      BY DEF ClientToServer!Readable
    <3> HIDE DEF w, r, p, k, t
    <3> QED BY DEF InStep
  <2> QED BY <2>1, <2>2, <2>3, PTL DEF ClientToServer!Spec
<1>2. ServerToClient!Spec => []ServerToClient!Readable
  <2> DEFINE w == ep["s"].enc_write_epoch
             r == ep["c"].read
             p == ep["c"].prev_read
             k == ep["s"].key_update_pending
             t == Spent(ep["s"])
             Level == InStep(w, r, p, k, t)
  <2>1. ServerToClient!Init => Level
    <3> SUFFICES ASSUME ServerToClient!Init PROVE Level
      OBVIOUS
    <3>1. w = 3 /\ r = 3 /\ p = 3 - 1
      BY Zenon DEF ServerToClient!Init, ServerToClient!First
    <3>2. k \in BOOLEAN /\ t \in BOOLEAN /\ (t => k)
      BY Zenon DEF ServerToClient!Init, Spent
    <3>3. w \in Nat \ {0} /\ r \in Nat /\ p \in Nat /\ r = w
      BY <3>1
    <3> QED BY <3>2, <3>3, Zenon DEF InStep
  <2>2. Level /\ [ServerToClient!Next]_(ServerToClient!vars) => Level'
    <3> SUFFICES ASSUME Level, [ServerToClient!Next]_(ServerToClient!vars) PROVE Level'
      OBVIOUS
    <3>1. Disciplined(w, r, p, k, t, w', r', p', k', t')
      BY Zenon DEF Disciplined, ServerToClient!Next, ServerToClient!vars, ServerToClient!Announce,
         ServerToClient!Install, ServerToClient!Move, ServerToClient!Exhaust, ServerToClient!Close,
         ServerToClient!Forget
    <3> HIDE DEF w, r, p, k, t
    <3>2. InStep(w', r', p', k', t')
      BY <3>1, StaysInStep, Zenon
    <3> QED BY <3>2
  <2>3. Level => ServerToClient!Readable
    <3> SUFFICES ASSUME Level, ~t PROVE w \in {r, p}
      BY DEF ServerToClient!Readable
    <3> HIDE DEF w, r, p, k, t
    <3> QED BY DEF InStep
  <2> QED BY <2>1, <2>2, <2>3, PTL DEF ServerToClient!Spec
<1> QED BY <1>1, <1>2

=============================================================================
