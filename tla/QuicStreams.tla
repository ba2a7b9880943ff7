---------------------------- MODULE QuicStreams -----------------------------
(***************************************************************************)
(* The stream layer of a QUIC connection (quic/streams.rs) at both ends of *)
(* a connection, between two applications and a network that loses, delays *)
(* and reorders packets.  An endpoint is the record of a Streams value; a  *)
(* handler maps it to its next value.  A packet carries one frame; loss    *)
(* recovery (quic/loss.rs) is seen through what it tells the stream layer: *)
(* a packet was acknowledged, was declared lost, or is to be sent again by *)
(* a probe while it stays in flight.                                       *)
(***************************************************************************)
EXTENDS QuicRecvHalf, Bags, BagsExt

CONSTANTS Configs,                 \* the scenarios of a run
          MIN_LIVE_STREAMS,        \* floor of the cap on live streams (4096)
          RETIRED_FINAL_SIZES      \* final sizes remembered of retired streams (256)

VARIABLES config,    \* the scenario
          ep,        \* endpoint -> its Streams
          net,       \* bag of packets neither settled at the sender nor out of the network
          todo,      \* endpoint -> stream -> bytes the application has yet to write
          faults,    \* drops, spurious losses and probes still allowed
          pokes,     \* blocked calls of the applications still allowed
          early,     \* the client's packets are 0-RTT packets the server will reject
          gone,      \* endpoint -> streams it has retired (history)
          overtaken, \* endpoint -> streams it reset and then sent a FIN on (history)
          refused    \* endpoint -> bytes that found its fragment table full (history)

vars == << config, ep, net, todo, faults, pokes, early, gone, overtaken, refused >>

Endpoints == {"c", "s"}

Peer(e) == IF e = "c" THEN "s" ELSE "c"

Dirs == {"bidi", "uni"}

(* The two low bits of a stream id are its initiator and its direction.    *)
Initiator(id) == IF id % 2 = 0 THEN "c" ELSE "s"

Dir(id) == IF (id \div 2) % 2 = 0 THEN "bidi" ELSE "uni"

Ordinal(id) == id \div 4

LocalId(e, d, n) == 4 * n + (IF d = "uni" THEN 2 ELSE 0) + (IF e = "s" THEN 1 ELSE 0)

is_peer_initiated(e, id) == Initiator(id) # e

NoHalf == [half |-> "none"]

NewStream(e, id) ==
    LET w == config.stream_window
        both == Dir(id) = "bidi"
    IN  [send |-> IF both \/ Initiator(id) = e THEN NewSendStream(w) ELSE NoHalf,
         recv |-> IF both \/ Initiator(id) # e THEN NewRecvStream(w) ELSE NoHalf,
         high |-> 0]

(* Both sides advertise the same windows.                                  *)
NewStreams ==
    [map |-> << >>, err |-> "none",
     peer_max |-> [d \in Dirs |-> config.max_streams],
     self_max |-> [d \in Dirs |-> config.max_streams],
     self_max_announced |-> [d \in Dirs |-> config.max_streams],
     max_streams_pending |-> [d \in Dirs |-> FALSE],
     streams_blocked_at |-> [d \in Dirs |-> None],
     opened |-> [d \in Dirs |-> 0],
     peer_used |-> [d \in Dirs |-> 0],
     peer_closed |-> [d \in Dirs |-> 0],
     implicit_open |-> [d \in Dirs |-> {}],
     retired_final_size |-> << >>,
     conn_send_max |-> config.conn_window, conn_send_used |-> 0, data_blocked_at |-> None,
     conn_recv_max |-> config.conn_window, conn_recv_max_announced |-> config.conn_window,
     conn_recv_used |-> 0, conn_consumed |-> 0, max_data_pending |-> FALSE,
     ready_to_send |-> << >>, readable |-> {}]

Live(S) == DOMAIN S.map

Fail(S, err) == [S EXCEPT !.err = err]

enqueue_ready(S, id) ==
    IF id \in ToSet(S.ready_to_send) THEN S
    ELSE [S EXCEPT !.ready_to_send = Append(@, id)]

refresh_readable(S, id) ==
    IF /\ id \in Live(S) /\ S.map[id].recv # NoHalf /\ is_readable(S.map[id].recv)
    THEN [S EXCEPT !.readable = @ \union {id}]
    ELSE [S EXCEPT !.readable = @ \ {id}]

(* Half of the window, rounded down.                                       *)
Threshold(window) == window \div 2

maybe_replenish_conn(S) ==
    LET new_max == S.conn_consumed + config.conn_window
    IN  IF /\ config.conn_window > 0
           /\ S.conn_consumed + Threshold(config.conn_window) > S.conn_recv_max_announced
           /\ new_max > S.conn_recv_max
        THEN [S EXCEPT !.conn_recv_max = new_max, !.max_data_pending = TRUE]
        ELSE S

maybe_replenish_streams(S, d) ==
    LET new_max == S.peer_closed[d] + config.max_streams
    IN  IF /\ config.max_streams > 0
           /\ S.peer_closed[d] + Threshold(config.max_streams) > S.self_max_announced[d]
           /\ new_max > S.self_max[d]
        THEN [S EXCEPT !.self_max[d] = new_max, !.max_streams_pending[d] = TRUE]
        ELSE S

stream_needs_to_send(st) ==
    \/ /\ st.send # NoHalf
       /\ st.send.reset_pending \/ has_outbound(st.send) \/ st.send.blocked_at # None
    \/ /\ st.recv # NoHalf
       /\ st.recv.max_data_pending \/ st.recv.stop_sending_pending

Terminal(st) ==
    /\ st.recv = NoHalf \/ recv_is_finished(st.recv)
    /\ st.send = NoHalf \/ send_is_finished(st.send)

(* Remember the final size of a retired stream; the lowest ids are         *)
(* forgotten first.                                                        *)
RememberFinalSize(sizes, id, size) ==
    LET ids == DOMAIN sizes \union {id}
        kept == {i \in ids : Cardinality({j \in ids : j >= i}) <= RETIRED_FINAL_SIZES}
    IN  [i \in kept |-> IF i = id THEN size ELSE sizes[i]]

reap_if_terminal(S, e, id) ==
    IF \/ ~is_peer_initiated(e, id)
       \/ id \notin Live(S)
       \/ stream_needs_to_send(S.map[id])
       \/ ~Terminal(S.map[id])
    THEN S
    ELSE LET st == S.map[id]
             size == IF st.recv = NoHalf THEN 0
                     ELSE IF st.recv.fin_offset # None THEN st.recv.fin_offset
                     ELSE st.recv.next_offset
         IN  maybe_replenish_streams(
                 [S EXCEPT !.retired_final_size =
                               RememberFinalSize(@, id, GreaterOf(size, st.high)),
                           !.map = [i \in Live(S) \ {id} |-> S.map[i]],
                           !.readable = @ \ {id},
                           !.ready_to_send = SelectSeq(@, LAMBDA q : q # id),
                           !.peer_closed[Dir(id)] = @ + 1],
                 Dir(id))

-----------------------------------------------------------------------------
(* What a frame of the peer does to a stream that need not exist yet.      *)

(* Mutant: only the remembered final sizes tell which streams are retired. *)
IsRetired_remembered(S, e, id) ==
    id \notin Live(S) /\ is_peer_initiated(e, id) /\ id \in DOMAIN S.retired_final_size

IsRetired(S, e, id) ==
    /\ id \notin Live(S) /\ is_peer_initiated(e, id)
    /\ Ordinal(id) < S.peer_used[Dir(id)] /\ Ordinal(id) \notin S.implicit_open[Dir(id)]

LiveStreamCap == GreaterOf(2 * config.max_streams, MIN_LIVE_STREAMS)

EnsureError(S, e, id) ==
    IF id \in Live(S) \/ IsRetired(S, e, id) THEN "none"
    ELSE IF ~is_peer_initiated(e, id) THEN "StreamState"
    ELSE IF \/ Cardinality(Live(S)) >= LiveStreamCap
            \/ Ordinal(id) + 1 > S.self_max[Dir(id)]
    THEN "StreamLimit"
    ELSE "none"

(* ensure_remote_stream_exists: using an ordinal opens the ones it skips.  *)
EnsureExists(S, e, id) ==
    IF id \in Live(S) \/ IsRetired(S, e, id) THEN S
    ELSE LET d == Dir(id)
             n == Ordinal(id)
         IN  [S EXCEPT !.implicit_open[d] = (@ \union (S.peer_used[d]..(n - 1))) \ {n},
                       !.peer_used[d] = GreaterOf(@, n + 1),
                       !.map = [i \in Live(S) \union {id} |->
                                  IF i = id THEN NewStream(e, id) ELSE S.map[i]]]

on_stream(S, e, id, c) ==
    LET S1 == EnsureExists(S, e, id)
        end == c.off + c.len
        new_high == SatSub(end, S1.map[id].high)
        recv == S1.map[id].recv
        discard == recv.stop_sending_sent /\ new_high > 0
        r == on_data(recv, c.off, c.len, c.fin)
        credit == IF discard THEN new_high ELSE 0
        S2 == [S1 EXCEPT !.map[id].recv = [r EXCEPT !.conn_fc_credited = @ + credit],
                         !.map[id].high = @ + new_high,
                         !.conn_recv_used = @ + new_high,
                         !.conn_consumed = @ + credit]
        S3 == IF discard THEN maybe_replenish_conn(S2) ELSE S2
    IN  IF EnsureError(S, e, id) # "none" THEN Fail(S, EnsureError(S, e, id))
        ELSE IF IsRetired(S, e, id)
        THEN IF id \in DOMAIN S.retired_final_size /\ end > S.retired_final_size[id]
             THEN Fail(S, "FinalSize") ELSE S
        ELSE IF new_high > 0 /\ S1.conn_recv_used + new_high > S1.conn_recv_max
        THEN Fail(S1, "FlowControl")
        ELSE IF recv = NoHalf THEN Fail(S1, "StreamState")
        ELSE IF DataError(recv, c.off, c.len, c.fin) # "none"
        THEN Fail(S1, DataError(recv, c.off, c.len, c.fin))
        ELSE reap_if_terminal(refresh_readable(S3, id), e, id)

on_reset(S, e, id, final_size) ==
    LET S1 == EnsureExists(S, e, id)
        high == S1.map[id].high
        projected == S1.conn_recv_used + (final_size - high)
        recv == S1.map[id].recv
        discarded == IF Reset(recv) THEN 0 ELSE SatSub(final_size, recv.conn_fc_credited)
        S2 == [S1 EXCEPT !.map[id].recv = [recv_on_reset(recv, final_size) EXCEPT
                                              !.conn_fc_credited = @ + discarded],
                         !.map[id].high = final_size,
                         !.conn_recv_used = projected,
                         !.conn_consumed = @ + discarded]
        S3 == IF Reset(recv) THEN S2 ELSE maybe_replenish_conn(S2)
    IN  IF EnsureError(S, e, id) # "none" THEN Fail(S, EnsureError(S, e, id))
        ELSE IF IsRetired(S, e, id) THEN S
        ELSE IF final_size < high THEN Fail(S1, "FinalSize")
        ELSE IF projected > S1.conn_recv_max THEN Fail(S1, "FlowControl")
        ELSE IF recv = NoHalf THEN Fail(S1, "StreamState")
        ELSE IF ResetError(recv, final_size) # "none"
        THEN Fail(S1, ResetError(recv, final_size))
        ELSE reap_if_terminal(refresh_readable(S3, id), e, id)

(* Frames for the send half of a stream: STOP_SENDING and MAX_STREAM_DATA. *)
SendHalfError(S, e, id) ==
    IF Dir(id) = "uni" /\ is_peer_initiated(e, id) THEN "StreamState"
    ELSE EnsureError(S, e, id)

on_stop_sending(S, e, id) ==
    LET S1 == EnsureExists(S, e, id)
    IN  IF SendHalfError(S, e, id) # "none" THEN Fail(S, SendHalfError(S, e, id))
        ELSE IF IsRetired(S, e, id) THEN S
        ELSE enqueue_ready([S1 EXCEPT !.map[id].send = enter_reset(@)], id)

on_max_stream_data(S, e, id, limit) ==
    LET S1 == EnsureExists(S, e, id)
        send == S1.map[id].send
    IN  IF SendHalfError(S, e, id) # "none" THEN Fail(S, SendHalfError(S, e, id))
        ELSE IF IsRetired(S, e, id) THEN S
        ELSE IF limit <= send.peer_max_data THEN S1
        ELSE [S1 EXCEPT !.map[id].send.peer_max_data = limit,
                        !.map[id].send.blocked_at = IF limit > @ THEN None ELSE @]

on_max_data(S, limit) ==
    IF limit <= S.conn_send_max THEN S
    ELSE [S EXCEPT !.conn_send_max = limit,
                   !.data_blocked_at = IF limit > @ THEN None ELSE @]

on_max_streams(S, d, limit) ==
    IF limit <= S.peer_max[d] THEN S
    ELSE [S EXCEPT !.peer_max[d] = limit,
                   !.streams_blocked_at[d] = IF limit > @ THEN None ELSE @]

on_data_blocked(S, limit) ==
    IF S.conn_recv_max > limit THEN [S EXCEPT !.max_data_pending = TRUE] ELSE S

on_stream_data_blocked(S, id, limit) ==
    IF id \in Live(S) /\ S.map[id].recv # NoHalf /\ S.map[id].recv.max_data > limit
    THEN enqueue_ready([S EXCEPT !.map[id].recv.max_data_pending = TRUE], id)
    ELSE S

HandleFrame(S, e, f) ==
    CASE f.type = "STREAM"              -> on_stream(S, e, f.id, f.chunk)
      [] f.type = "RESET_STREAM"        -> on_reset(S, e, f.id, f.limit)
      [] f.type = "STOP_SENDING"        -> on_stop_sending(S, e, f.id)
      [] f.type = "MAX_STREAM_DATA"     -> on_max_stream_data(S, e, f.id, f.limit)
      [] f.type = "STREAM_DATA_BLOCKED" -> on_stream_data_blocked(S, f.id, f.limit)
      [] f.type = "MAX_DATA"            -> on_max_data(S, f.limit)
      [] f.type = "DATA_BLOCKED"        -> on_data_blocked(S, f.limit)
      [] f.type = "MAX_STREAMS"         -> on_max_streams(S, f.dir, f.limit)
      [] f.type = "STREAMS_BLOCKED"     -> S

-----------------------------------------------------------------------------
(* The next frame of the packet packer.                                    *)

StreamFrame(id, c) == [type |-> "STREAM", id |-> id, chunk |-> c]

IdFrame(type, id, limit) == [type |-> type, id |-> id, limit |-> limit]

DirFrame(type, d, limit) == [type |-> type, dir |-> d, limit |-> limit]

ConnFrame(type, limit) == [type |-> type, limit |-> limit]

Popped(frame, S) == [frame |-> frame, S |-> S]

(* The sizes a packet may leave room for, of n bytes that are to be sent.  *)
Room(n) == LesserOf(1, n)..LesserOf(config.mtu, n)

(* The frames one stream can send next, with the stream that remains: one  *)
(* for each size the packet leaves room for.                               *)
pop_stream_frame(st, id) ==
    LET s == st.send
        r == st.recv
        With(frame, st1) == [frame |-> frame, st |-> st1, more |-> stream_needs_to_send(st1)]
    IN  IF s # NoHalf /\ s.reset_pending
        THEN {With(IdFrame("RESET_STREAM", id, s.sent_offset),
                   [st EXCEPT !.send.reset_pending = FALSE])}
        ELSE IF r # NoHalf /\ r.stop_sending_pending
        THEN {With(IdFrame("STOP_SENDING", id, 0),
                   [st EXCEPT !.recv.stop_sending_pending = FALSE])}
        ELSE IF r # NoHalf /\ r.max_data_pending
        THEN {With(IdFrame("MAX_STREAM_DATA", id, r.max_data),
                   [st EXCEPT !.recv.max_data_pending = FALSE,
                              !.recv.max_data_announced = r.max_data])}
        ELSE IF s # NoHalf /\ s.blocked_at # None
        THEN {With(IdFrame("STREAM_DATA_BLOCKED", id, s.blocked_at),
                   [st EXCEPT !.send.blocked_at = None])}
        ELSE IF s # NoHalf /\ s.rtx_queue # << >>
        THEN {With(StreamFrame(id, Resent(s, cap)), [st EXCEPT !.send = pop_rtx_frame(s, cap)]) :
                  cap \in Room(Head(s.rtx_queue).len)}
        ELSE IF s # NoHalf /\ has_outbound(s)
        THEN {[frame |-> StreamFrame(id, Carved(s, cap)),
               st |-> [st EXCEPT !.send = carve_frame(s, cap)],
               more |-> s.write_buf > 0 /\ has_outbound(carve_frame(s, cap))] :
                  cap \in Room(s.write_buf)}
        ELSE {}

(* The streams at the head of the queue that have nothing to send leave it.*)
Idle(S, id) == id \notin Live(S) \/ pop_stream_frame(S.map[id], id) = {}

AfterIdle(S) ==
    LET q == S.ready_to_send
        busy == {i \in DOMAIN q : ~Idle(S, q[i])}
    IN  IF busy = {} THEN << >> ELSE SubSeq(q, Min(busy), Len(q))

pop_ready_stream(S) ==
    LET q == AfterIdle(S)
        id == Head(q)
    IN  IF q = << >> THEN {}
        ELSE {Popped(p.frame, [S EXCEPT !.map[id] = p.st,
                                        !.ready_to_send = IF p.more THEN Append(Tail(q), id)
                                                          ELSE Tail(q)]) :
                  p \in pop_stream_frame(S.map[id], id)}

(* pop_frame_into: the frames the next packet may carry.                   *)
pop_frame_into(S) ==
    IF S.max_data_pending
    THEN {Popped(ConnFrame("MAX_DATA", S.conn_recv_max),
                 [S EXCEPT !.max_data_pending = FALSE,
                           !.conn_recv_max_announced = S.conn_recv_max])}
    ELSE IF \E d \in Dirs : S.max_streams_pending[d]
    THEN LET d == IF S.max_streams_pending["bidi"] THEN "bidi" ELSE "uni"
         IN  {Popped(DirFrame("MAX_STREAMS", d, S.self_max[d]),
                     [S EXCEPT !.max_streams_pending[d] = FALSE,
                               !.self_max_announced[d] = S.self_max[d]])}
    ELSE IF S.data_blocked_at # None
    THEN {Popped(ConnFrame("DATA_BLOCKED", S.data_blocked_at),
                 [S EXCEPT !.data_blocked_at = None])}
    ELSE IF \E d \in Dirs : S.streams_blocked_at[d] # None
    THEN LET d == IF S.streams_blocked_at["bidi"] # None THEN "bidi" ELSE "uni"
         IN  {Popped(DirFrame("STREAMS_BLOCKED", d, S.streams_blocked_at[d]),
                     [S EXCEPT !.streams_blocked_at[d] = None])}
    ELSE pop_ready_stream(S)

has_pending(S) ==
    \/ S.max_data_pending \/ S.data_blocked_at # None \/ S.ready_to_send # << >>
    \/ \E d \in Dirs : S.max_streams_pending[d] \/ S.streams_blocked_at[d] # None

-----------------------------------------------------------------------------
(* What becomes of a frame that was sent.                                  *)

HasSend(S, id) == id \in Live(S) /\ S.map[id].send # NoHalf

HasRecv(S, id) == id \in Live(S) /\ S.map[id].recv # NoHalf

(* Mutant: the stream is not put back in the ready queue.                  *)
on_chunk_lost_asleep(S, id, c) ==
    IF ~HasSend(S, id) THEN S
    ELSE [S EXCEPT !.map[id].send = on_range_lost(@, c)]

on_chunk_lost(S, id, c) ==
    IF ~HasSend(S, id) THEN S
    ELSE LET send == on_range_lost(S.map[id].send, c)
             S1 == [S EXCEPT !.map[id].send = send]
         IN  IF send.rtx_queue # S.map[id].send.rtx_queue THEN enqueue_ready(S1, id) ELSE S1

on_chunk_acked(S, e, id, c) ==
    reap_if_terminal(IF HasSend(S, id) THEN [S EXCEPT !.map[id].send = on_range_acked(@, c)]
                     ELSE S, e, id)

on_control_acked(S, e, f) ==
    IF f.type # "RESET_STREAM" THEN S
    ELSE reap_if_terminal(IF HasSend(S, f.id) THEN [S EXCEPT !.map[f.id].send = on_reset_acked(@)]
                          ELSE S, e, f.id)

(* A control frame is sent again while it still says something.            *)
on_control_lost(S, f) ==
    CASE f.type = "RESET_STREAM" ->
           IF /\ HasSend(S, f.id) /\ S.map[f.id].send.state = "ResetSent"
              /\ S.map[f.id].send.reset_code # None
           THEN enqueue_ready([S EXCEPT !.map[f.id].send.reset_pending = TRUE], f.id) ELSE S
      [] f.type = "STOP_SENDING" ->
           IF /\ HasRecv(S, f.id) /\ S.map[f.id].recv.stop_sending_sent
              /\ S.map[f.id].recv.state \in {"Recv", "SizeKnown"}
           THEN enqueue_ready([S EXCEPT !.map[f.id].recv.stop_sending_pending = TRUE], f.id)
           ELSE S
      [] f.type = "MAX_DATA" ->
           [S EXCEPT !.max_data_pending = @ \/ S.conn_recv_max_announced = f.limit]
      [] f.type = "MAX_STREAM_DATA" ->
           IF /\ HasRecv(S, f.id) /\ S.map[f.id].recv.max_data_announced = f.limit
              /\ S.map[f.id].recv.state = "Recv"
           THEN enqueue_ready([S EXCEPT !.map[f.id].recv.max_data_pending = TRUE], f.id)
           ELSE S
      [] f.type = "DATA_BLOCKED" ->
           [S EXCEPT !.data_blocked_at =
               IF S.conn_send_max = f.limit /\ S.conn_send_used >= f.limit THEN f.limit ELSE @]
      [] f.type = "STREAM_DATA_BLOCKED" ->
           IF /\ HasSend(S, f.id) /\ S.map[f.id].send.peer_max_data = f.limit
              /\ available_credit(S.map[f.id].send) = 0
              /\ S.map[f.id].send.state \in {"Ready", "Send"}
           THEN enqueue_ready([S EXCEPT !.map[f.id].send.blocked_at = f.limit], f.id)
           ELSE S
      [] f.type = "MAX_STREAMS" ->
           [S EXCEPT !.max_streams_pending[f.dir] =
               @ \/ S.self_max_announced[f.dir] = f.limit]
      [] f.type = "STREAMS_BLOCKED" ->
           [S EXCEPT !.streams_blocked_at[f.dir] =
               IF S.peer_max[f.dir] = f.limit THEN f.limit ELSE @]

FrameAcked(S, e, f) ==
    IF f.type = "STREAM" THEN on_chunk_acked(S, e, f.id, f.chunk) ELSE on_control_acked(S, e, f)

(* Mutant: lost control frames are not sent again.                         *)
FrameLost_data_only(S, f) ==
    IF f.type = "STREAM" THEN on_chunk_lost(S, f.id, f.chunk) ELSE S

FrameLost(S, f) ==
    IF f.type = "STREAM" THEN on_chunk_lost(S, f.id, f.chunk) ELSE on_control_lost(S, f)

(* 0-RTT was rejected: all that was sent and not acknowledged waits to be  *)
(* sent again.                                                             *)
requeue_all_unacked(S) ==
    LET ids == {id \in Live(S) : S.map[id].send # NoHalf /\ has_unacked(S.map[id].send)}
    IN  FoldSet(LAMBDA id, acc : enqueue_ready([acc EXCEPT !.map[id].send = requeue_all_sent(@)], id),
                S, ids)

-----------------------------------------------------------------------------
(* The calls of the application.                                           *)

open_stream(S, e, d) ==
    IF S.opened[d] >= S.peer_max[d]
    THEN [S EXCEPT !.streams_blocked_at[d] = S.peer_max[d]]
    ELSE LET id == LocalId(e, d, S.opened[d])
         IN  [S EXCEPT !.opened[d] = @ + 1,
                       !.map = [i \in Live(S) \union {id} |->
                                  IF i = id THEN NewStream(e, id) ELSE S.map[i]]]

(* What write accepts of n bytes.                                          *)
Accepted(S, id, n) ==
    Take(S.map[id].send, LesserOf(SatSub(S.conn_send_max, S.conn_send_used), n))

write(S, id, n) ==
    LET send == S.map[id].send
        conn_room == SatSub(S.conn_send_max, S.conn_send_used)
        cap == LesserOf(conn_room, n)
        take == Accepted(S, id, n)
        conn_limited == cap < n
        stream_limited == IF cap = 0 THEN available_credit(send) = 0 ELSE take < cap
        S1 == [S EXCEPT !.conn_send_used = @ + take,
                        !.data_blocked_at =
                            IF conn_limited /\ (cap = 0 \/ take > 0) THEN S.conn_send_max ELSE @,
                        !.map[id].send = [enqueue(send, take) EXCEPT
                            !.blocked_at = IF stream_limited THEN send.peer_max_data ELSE @]]
    IN  IF take > 0 \/ stream_limited THEN enqueue_ready(S1, id) ELSE S1

(* Mutant: bytes read are not counted as credited, so a reset would credit *)
(* them again.                                                             *)
ReadCredited_not(r, n) == read(r, n)

(* The read, counted against what a reset still has to credit.             *)
ReadCredited(r, n) == [read(r, n) EXCEPT !.conn_fc_credited = @ + n]

read_stream(S, e, id, n) ==
    LET r == ReadCredited(S.map[id].recv, n)
        new_max == r.read_off + r.window
        grant == /\ r.window > 0 /\ ~Reset(r)
                 /\ r.read_off + Threshold(r.window) > r.max_data_announced
                 /\ new_max > r.max_data
        S1 == IF grant
              THEN enqueue_ready([S EXCEPT !.map[id].recv = [r EXCEPT !.max_data = new_max,
                                                           !.max_data_pending = TRUE]], id)
              ELSE [S EXCEPT !.map[id].recv = r]
        S2 == maybe_replenish_conn([S1 EXCEPT !.conn_consumed = @ + n])
    IN  reap_if_terminal(refresh_readable(S2, id), e, id)

-----------------------------------------------------------------------------
(* The connection: two applications, the packer and the network.           *)

(* The streams endpoint e writes to.                                       *)
Sends(e) == {id \in config.ids : Dir(id) = "bidi" \/ Initiator(id) = e}

Init ==
    /\ config \in Configs
    /\ ep = [e \in Endpoints |-> NewStreams]
    /\ net = EmptyBag
    /\ todo = [e \in Endpoints |-> [id \in Sends(e) |-> config.bytes]]
    /\ faults = config.faults
    /\ pokes = config.pokes
    /\ early = config.early
    /\ gone = [e \in Endpoints |-> {}]
    /\ overtaken = [e \in Endpoints |-> {}]
    /\ refused = [e \in Endpoints |-> {}]

(* A stream reset between finish and its FIN, all of its bytes carved: the *)
(* FIN went out after the RESET_STREAM and took the stream out of          *)
(* ResetSent.                                                              *)
Overtaken(s) == s.reset_code # None /\ s.state \in {"DataSent", "DataRecvd"}

(* Endpoint e takes the value S; what left its map is retired.             *)
Becomes(e, S) ==
    /\ ep' = [ep EXCEPT ![e] = S]
    /\ gone' = [gone EXCEPT ![e] = @ \union (Live(ep[e]) \ Live(S))]
    /\ overtaken' = [overtaken EXCEPT ![e] =
                        (@ \ Live(S)) \union
                        {id \in Live(S) : HasSend(S, id) /\ Overtaken(S.map[id].send)}]

Alive == \A e \in Endpoints : ep[e].err = "none"

(* The next local stream, or a blocked attempt to open it.                 *)
Open(e, d) ==
    /\ Alive
    /\ LocalId(e, d, ep[e].opened[d]) \in config.ids
    /\ LET blocked == ep[e].opened[d] >= ep[e].peer_max[d]
       IN  /\ blocked => pokes > 0
           /\ pokes' = IF blocked THEN pokes - 1 ELSE pokes
    /\ Becomes(e, open_stream(ep[e], e, d))
    /\ UNCHANGED << config, early, net, todo, faults, refused >>

(* The application offers n bytes.                                         *)
Write(e, id, n) ==
    /\ Alive /\ HasSend(ep[e], id) /\ Writable(ep[e].map[id].send)
    /\ LET take == Accepted(ep[e], id, n)
       IN  /\ take = 0 => pokes > 0
           /\ pokes' = IF take = 0 THEN pokes - 1 ELSE pokes
           /\ todo' = [todo EXCEPT ![e][id] = @ - take]
    /\ Becomes(e, write(ep[e], id, n))
    /\ UNCHANGED << config, early, net, faults, refused >>

(* The application has written everything.                                 *)
Finish(e, id) ==
    /\ Alive /\ "finish" \in config.ops
    /\ HasSend(ep[e], id) /\ todo[e][id] = 0
    /\ ep[e].map[id].send.state \notin {"ResetSent", "ResetRecvd"}
    /\ ep[e].map[id].send.fin_offset = None
    /\ Becomes(e, enqueue_ready([ep[e] EXCEPT !.map[id].send = finish(@)], id))
    /\ UNCHANGED << config, early, net, todo, faults, pokes, refused >>

(* The application abandons what it wrote, at any point.                   *)
ResetStream(e, id) ==
    /\ Alive /\ "reset" \in config.ops /\ pokes > 0 /\ HasSend(ep[e], id)
    /\ pokes' = pokes - 1
    /\ Becomes(e, enqueue_ready([ep[e] EXCEPT !.map[id].send = enter_reset(@)], id))
    /\ UNCHANGED << config, early, net, todo, faults, refused >>

StopSending(e, id) ==
    /\ Alive /\ "stop" \in config.ops /\ pokes > 0 /\ HasRecv(ep[e], id)
    /\ pokes' = pokes - 1
    /\ Becomes(e, enqueue_ready([ep[e] EXCEPT !.map[id].recv.stop_sending_sent = TRUE,
                                             !.map[id].recv.stop_sending_pending = TRUE], id))
    /\ UNCHANGED << config, early, net, todo, faults, refused >>

(* The application reads n bytes of a readable stream, or its end.         *)
Read(e, id, n) ==
    /\ Alive /\ id \in ep[e].readable
    /\ LET r == ep[e].map[id].recv
       IN  n \in LesserOf(1, r.delivered)..r.delivered
    /\ Becomes(e, read_stream(ep[e], e, id, n))
    /\ UNCHANGED << config, early, net, todo, faults, pokes, refused >>

-----------------------------------------------------------------------------
(* A packet is in transit until it arrives or is dropped, and tracked by   *)
(* its sender until it is acknowledged or declared lost; nothing is        *)
(* acknowledged, lost or probed in the packet number space of the data     *)
(* before 1-RTT keys.                                                      *)

Packet(e, f) ==
    [from |-> e, frame |-> f, transit |-> TRUE, tracked |-> TRUE, got |-> FALSE]

(* Packet p becomes q, and is forgotten when it is neither.                *)
Turn(p, q) ==
    net' = (net (-) SetToBag({p}))
           (+) (IF q.transit \/ q.tracked THEN SetToBag({q}) ELSE EmptyBag)

Packets == BagToSet(net)

(* The packer sends one frame while the congestion window has room.        *)
(* Finding only idle streams empties the queue of ready ones.              *)
Send(e) ==
    /\ Alive /\ has_pending(ep[e]) /\ BagCardinality(net) < config.flight
    /\ \/ \E popped \in pop_frame_into(ep[e]) :
              /\ net' = net (+) SetToBag({Packet(e, popped.frame)})
              /\ Becomes(e, popped.S)
       \/ /\ pop_frame_into(ep[e]) = {}
          /\ Becomes(e, [ep[e] EXCEPT !.ready_to_send = << >>])
          /\ UNCHANGED net
    /\ UNCHANGED << config, early, todo, faults, pokes, refused >>

(* r holds byte x, or has handed it to the application.                    *)
HoldsByte(r, x) == x < r.next_offset \/ \E f \in r.pending : f.s <= x /\ x < f.e

(* The receiver wants no more of the stream.                               *)
GivenUp(r) == Reset(r) \/ r.stop_sending_sent

(* The bytes of frame f that are not kept because the fragment table is    *)
(* full, with the ones missing since before.  S is the receiver after f.   *)
Refused(missing, S, f) ==
    LET full == /\ f.type = "STREAM" /\ HasRecv(S, f.id)
                /\ Cardinality(S.map[f.id].recv.pending) >= MAX_PENDING_FRAGMENTS
        all == missing \union (IF full THEN {f.id} \X Bytes(f.chunk) ELSE {})
    IN  {m \in all : /\ HasRecv(S, m[1]) /\ ~GivenUp(S.map[m[1]].recv)
                     /\ ~HoldsByte(S.map[m[1]].recv, m[2])}

Deliver(p) ==
    /\ Alive /\ p.transit /\ ~early
    /\ LET r == Peer(p.from)
           S == HandleFrame(ep[r], r, p.frame)
       IN  /\ Becomes(r, S)
           /\ refused' = [refused EXCEPT ![r] = Refused(@, S, p.frame)]
    /\ Turn(p, [p EXCEPT !.transit = FALSE, !.got = TRUE])
    /\ UNCHANGED << config, early, todo, faults, pokes >>

Drop(p) ==
    /\ Alive /\ p.transit /\ faults > 0 /\ ~early
    /\ faults' = faults - 1
    /\ Turn(p, [p EXCEPT !.transit = FALSE])
    /\ UNCHANGED << config, early, ep, todo, pokes, gone, overtaken, refused >>

(* An acknowledgement of p arrives.                                        *)
Acknowledge(p) ==
    /\ Alive /\ p.tracked /\ p.got
    /\ Becomes(p.from, FrameAcked(ep[p.from], p.from, p.frame))
    /\ Turn(p, [p EXCEPT !.tracked = FALSE])
    /\ UNCHANGED << config, early, todo, faults, pokes, refused >>

(* Loss detection gives p up, rightly or (a fault) while it or its         *)
(* acknowledgement is only late.                                           *)
DeclareLost(p) ==
    /\ Alive /\ p.tracked /\ ~early
    /\ LET late == p.transit \/ p.got
       IN  /\ late => faults > 0
           /\ faults' = IF late THEN faults - 1 ELSE faults
    /\ Becomes(p.from, FrameLost(ep[p.from], p.frame))
    /\ Turn(p, [p EXCEPT !.tracked = FALSE])
    /\ UNCHANGED << config, early, todo, pokes, refused >>

(* A probe timeout with nothing new to send sends p's frame again; p stays *)
(* in flight.                                                              *)
Probe(p) ==
    /\ Alive /\ p.tracked /\ faults > 0 /\ ~early /\ ~has_pending(ep[p.from])
    /\ faults' = faults - 1
    /\ Becomes(p.from, FrameLost(ep[p.from], p.frame))
    /\ UNCHANGED << config, early, net, todo, pokes, refused >>

(* resolve_early_data: the server refused the 0-RTT packets, so none of    *)
(* them arrives; what they carried of the streams is to be sent again,     *)
(* while loss detection goes on tracking them.                             *)
RejectEarlyData ==
    /\ Alive /\ early
    /\ early' = FALSE
    /\ net' = FoldSet(LAMBDA p, b : b (+) [q \in {[p EXCEPT !.transit = FALSE]} |-> net[p]],
                      EmptyBag, Packets)
    /\ Becomes("c", requeue_all_unacked(ep["c"]))
    /\ UNCHANGED << config, todo, faults, pokes, refused >>

AppStep ==
    \E e \in Endpoints :
        \/ \E d \in Dirs : Open(e, d)
        \/ \E id \in Sends(e) : \E n \in 1..todo[e][id] : Write(e, id, n)
        \/ \E id \in Sends(e) : Finish(e, id)
        \/ \E id \in config.ids : \E n \in 0..config.stream_window : Read(e, id, n)

NetStep ==
    \/ RejectEarlyData
    \/ \E p \in Packets : Deliver(p) \/ Acknowledge(p) \/ DeclareLost(p)

Interference ==
    \/ \E e \in Endpoints, id \in config.ids : ResetStream(e, id) \/ StopSending(e, id)
    \/ \E p \in Packets : Drop(p) \/ Probe(p)

Done ==
    /\ Alive /\ ~early /\ net = EmptyBag
    /\ \A e \in Endpoints : ~has_pending(ep[e])
    /\ UNCHANGED vars

Next == AppStep \/ (\E e \in Endpoints : Send(e)) \/ NetStep \/ Interference \/ Done

(* Something can go on without a fault or a blocked call: a packet is on   *)
(* its way or unsettled, a frame is ready, or an application can open,     *)
(* write, finish or read.                                                  *)
Busy ==
    \/ early \/ net # EmptyBag
    \/ \E e \in Endpoints :
          \/ has_pending(ep[e]) \/ ep[e].readable # {}
          \/ \E d \in Dirs : /\ LocalId(e, d, ep[e].opened[d]) \in config.ids
                            /\ ep[e].opened[d] < ep[e].peer_max[d]
          \/ \E id \in Sends(e) :
                /\ HasSend(ep[e], id) /\ Writable(ep[e].map[id].send)
                /\ IF todo[e][id] = 0 THEN "finish" \in config.ops
                   ELSE Accepted(ep[e], id, todo[e][id]) > 0

Progress == AppStep \/ (\E e \in Endpoints : Send(e)) \/ NetStep

(* Weak fairness of Progress, with Busy for its ENABLED (which TLC is slow *)
(* to evaluate here).                                                      *)
Spec == Init /\ [][Next]_vars /\ ([]<>~(Alive /\ Busy) \/ []<><<Progress>>_vars)

-----------------------------------------------------------------------------
(* Properties.                                                             *)

Halves(e) == {id \in Live(ep[e]) : ep[e].map[id].send # NoHalf}

RecvHalves(e) == {id \in Live(ep[e]) : ep[e].map[id].recv # NoHalf}

(* Two endpoints running this code never close the connection on each      *)
(* other: no frame one sends, lost, reordered, repeated by a probe or      *)
(* overtaken by a reset, breaks a limit, a final size or a stream state    *)
(* the other checks (the StreamError returns of on_stream, on_reset,       *)
(* on_data and ensure_remote_stream_exists).                               *)
NoConnectionError == Alive

(* A packet carries the frame, and its sender still waits for its fate.    *)
Awaited(e, f) == \E p \in Packets : p.from = e /\ p.tracked /\ p.frame = f

(* Every byte carved and not acknowledged is in exactly one chunk, on the  *)
(* wire or waiting to be resent, unless the stream was reset; the FIN      *)
(* likewise, the FIN that follows a reset included; no chunk that is       *)
(* wholly acknowledged is kept (SendStream's sent_chunks, rtx_queue and    *)
(* acked across carve, split, loss, probe and the two ways on_range_acked  *)
(* prunes).  A chunk that counts as being on the wire is in a packet whose *)
(* loss will be noticed.  A stream in ResetSent has its RESET_STREAM       *)
(* pending or on the wire.                                                 *)
NothingForgotten ==
    \A e \in Endpoints : \A id \in Halves(e) :
        LET s == ep[e].map[id].send
            chunks == s.sent_chunks \o s.rtx_queue
            Holds(x) == {i \in DOMAIN chunks : x \in Bytes(chunks[i])}
            Fins == {i \in DOMAIN chunks : chunks[i].fin}
        IN /\ s.reset_code = None =>
              \A x \in (0..(s.sent_offset - 1)) \ s.acked : Cardinality(Holds(x)) = 1
           /\ s.state \notin {"ResetSent", "ResetRecvd"} =>
              /\ s.fin_sent /\ ~s.fin_acked => Cardinality(Fins) = 1
              /\ \A i \in DOMAIN chunks : ~chunk_acked(s, chunks[i])
              /\ \A c \in ToSet(s.sent_chunks) : Awaited(e, StreamFrame(id, c))
           /\ s.state = "ResetSent" /\ ~s.reset_pending =>
                  Awaited(e, IdFrame("RESET_STREAM", id, s.sent_offset))

(* A byte the sender strikes off as acknowledged is held, or was read, by  *)
(* the receiver, unless the receiver gave the stream up or the byte found  *)
(* its fragment table full and was dropped: an acknowledged packet is      *)
(* never sent again (stream.rs on_range_acked against on_data).            *)
AckedIsHeld ==
    \A e \in Endpoints : \A id \in Halves(e) :
        LET R == ep[Peer(e)]
            r == R.map[id].recv
        IN  \/ id \in gone[Peer(e)]
            \/ ep[e].map[id].send.acked = {}
            \/ /\ id \in Live(R)
               /\ \/ GivenUp(r)
                  \/ \A x \in ep[e].map[id].send.acked :
                        HoldsByte(r, x) \/ << id, x >> \in refused[Peer(e)]

(* The connection window is exact: what was charged and not yet credited   *)
(* is what the live streams still owe, all of them together buffer no more *)
(* than the window the endpoint advertised, and each stream no more than   *)
(* its own (streams.rs conn_recv_used, conn_consumed, stream_high_offset,  *)
(* conn_fc_credited through reads, resets and STOP_SENDING discards).      *)
BufferWithinWindow ==
    \A e \in Endpoints :
        LET S == ep[e]
            Held(id) == S.map[id].recv.delivered + PendingBytes(S.map[id].recv)
            Owed(id) == S.map[id].high - S.map[id].recv.conn_fc_credited
        IN  /\ S.conn_recv_used - S.conn_consumed = MapThenSumSet(Owed, RecvHalves(e))
            /\ MapThenSumSet(Held, RecvHalves(e)) <= config.conn_window
            /\ \A id \in RecvHalves(e) : Held(id) <= config.stream_window

(* What the stream has to send, a FIN no frame can carry left aside: a     *)
(* reset between finish and the FIN drops the bytes before it, after which *)
(* has_outbound holds for good and one empty frame is all that comes of it.*)
HasFrame(st) ==
    LET dead == /\ st.send # NoHalf /\ st.send.fin_offset # None /\ ~st.send.fin_sent
                /\ st.send.write_off + st.send.write_buf # st.send.fin_offset
    IN  stream_needs_to_send(IF dead THEN [st EXCEPT !.send.fin_offset = None] ELSE st)

(* No wakeup is lost: a stream with a frame to send is in the ready queue, *)
(* once, and the readable set is exactly the streams with something to     *)
(* read (enqueue_ready and refresh_readable after every handler).          *)
NoLostWakeup ==
    \A e \in Endpoints :
        LET S == ep[e]
        IN  /\ \A id \in Live(S) : HasFrame(S.map[id]) => id \in ToSet(S.ready_to_send)
            /\ IsInjective(S.ready_to_send)
            /\ S.readable = {id \in RecvHalves(e) : is_readable(S.map[id].recv)}

(* The streams of the peer are counted exactly: used less closed is the    *)
(* live ones and the ones opened by a later number, never more than the    *)
(* advertised window, and a retired stream never comes back                *)
(* (ensure_remote_stream_exists and reap_if_terminal).                     *)
StreamsCounted ==
    \A e \in Endpoints :
        LET S == ep[e]
            Open_(d) == {id \in Live(S) : is_peer_initiated(e, id) /\ Dir(id) = d}
        IN  /\ gone[e] \intersect Live(S) = {}
            /\ \A d \in Dirs :
                  /\ S.peer_used[d] - S.peer_closed[d] =
                         Cardinality(Open_(d)) + Cardinality(S.implicit_open[d])
                  /\ S.peer_used[d] - S.peer_closed[d] <= config.max_streams

(* The sender is done with a stream: its FIN or RESET is acknowledged.     *)
Sent(e, id) == HasSend(ep[e], id) => send_is_finished(ep[e].map[id].send)

(* The receiver is done with it: it has read to the end or seen the reset. *)
Received(e, id) ==
    \/ id \in gone[e]
    \/ HasRecv(ep[e], id) /\ recv_is_finished(ep[e].map[id].recv)

(* The two ways a receiver is left waiting for what nobody sends again: a  *)
(* byte was acknowledged and not kept, or the sender's FIN followed its    *)
(* RESET_STREAM, after which neither the bytes before the FIN nor the      *)
(* RESET_STREAM is resent.                                                 *)
Stranded(e, id) ==
    \/ \E m \in refused[Peer(e)] : m[1] = id
    \/ id \in overtaken[e]

(* The connection comes to rest: whatever is lost, reordered or blocked on *)
(* credit, everything written is read to its end, a reset is seen, and     *)
(* both sides stop sending (retransmission, MAX_DATA, MAX_STREAM_DATA and  *)
(* MAX_STREAMS grants, the BLOCKED frames).  Of a stranded stream only the *)
(* sender comes to an end.                                                 *)
EventuallySettled ==
    <>[](/\ net = EmptyBag /\ \A e \in Endpoints : ~has_pending(ep[e])
         /\ \A e \in Endpoints : \A id \in Sends(e) :
               \/ Sent(e, id) /\ (Received(Peer(e), id) \/ Stranded(e, id))
               \/ "finish" \notin config.ops /\ id \notin Halves(e)
               \/ /\ id \in Halves(e) /\ "finish" \notin config.ops
                  /\ ep[e].map[id].send.state \in {"Ready", "Send"})

=============================================================================
