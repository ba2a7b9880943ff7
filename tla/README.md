# TLA+ models of purecrypto's protocol state machines

purecrypto is a Rust library of cryptographic primitives and of the protocols
built on them: TLS 1.2/1.3, DTLS 1.2/1.3, QUIC, HPKE, X.509, JOSE and more.  The
primitives are pure functions and are tested against published vectors.  What is
hard to test is the protocol state machines: they are *sans-I/O*, so the caller
owns the sockets and the clock, and every interleaving of datagrams, timer
polls and API calls is a legal execution.  This project models those machines,
first DTLS and QUIC, where the network may lose, repeat, reorder and inject, and the
stateful signature keys, where a crash at the wrong moment would spend a one-time key twice.

Paths below are relative to the root of the repository (`src/dtls/...`).

## 1. Inventory

### 1.1 DTLS (`src/dtls`)

| Component | State | Operations | Talks to |
|---|---|---|---|
| Anti-replay window, `replay.rs` | `highest`, `bitmap`, `seeded` per read epoch | `check`, `mark` | called by `process_protected_record` around the AEAD |
| Record number reconstruction, `record13.rs` | none (`expected` comes from `ReadEpoch.seq`) | `reconstruct_seq`, header encode/parse | same |
| Read epochs, `epoch13.rs` | current and previous read keys, retire time, count of newer records | install, `select_read_epoch`, `expire_prev_read` | KeyUpdate handler, record path |
| Retransmission 1.3, `reliability13.rs` | `in_flight`, `deadline`, `timeout`, `attempts` | `on_record_sent`, `on_ack`, `release_epoch`, `note_resent`, `on_timeout` | connection's emit functions and timer |
| Retransmission 1.2, `reliability.rs` | buffered flight, deadline, attempts, final-flight flag | `on_flight_sent`, `on_progress`, `on_timeout` | DTLS 1.2 connections |
| Reassembly, `reassembly.rs` | `in_progress` candidates, `expected_msg_seq`, stall counters | `feed`, `pop_ready`, `rewind_expected_msg_seq`, `clear_if_stalled` | every handshake record |
| Pre-cookie buffer, `reassembly.rs` | one bounded ClientHello candidate | `admits`, `feed`, `clear` | servers before the cookie |
| Cookies and tickets, `cookie.rs`, `ticket.rs` | keys; the network carries the rest | mint, verify | servers |
| Connection IDs, `cid.rs` | local pool, peer's spare IDs, `request_pending`, `cid_reply_owed` | issue, accept, request, retire | connections |
| Connections 1.3, `client13.rs`, `server13.rs` | handshake state, epochs, queues of the above, pending ACKs | `feed_datagram`, `on_timeout`, `send`, `request_key_update`, `request_connection_ids`, `close` | everything above |
| Connections 1.2, `client12.rs`, `server12.rs` | handshake state, one write and one read epoch, buffered flight | the same without KeyUpdate and ACK | everything above |

Hard behaviours: both sides update keys at once over a lossy network; an ACK names
any copy of a record and may arrive arbitrarily late; a timer poll races the
answer; the reassembler must keep a bounded memory against fragments nobody
authenticated; two epoch bits on the wire must select the right keys.

What makes it correct: every record is delivered at most once; a genuine record
is not refused while it is inside the window; the timer runs exactly while
something is in flight and nothing is retried after the peer dropped the keys;
messages are dispatched once and in order; the memory budget holds; whatever a
side sends the other can open; an update completes or the connection ends.

### 1.2 QUIC (`src/quic`)

| Component | State | Operations |
|---|---|---|
| Streams and flow control, `stream.rs`, `streams.rs`, `crypto_buf.rs` | send/receive halves, offsets, credit per stream and connection, stream counts | write, on STREAM/RESET/STOP/MAX_*, on ack, on loss, read |
| Loss recovery, `ack.rs`, `pn.rs`, `loss.rs`, `congestion.rs` | sent packets per space, ACK ranges, RTT, PTO count, window | on sent, on ack, on timeout, discard space |
| Connection IDs and paths, `cid.rs`, `path.rs`, `reset.rs`, `retry.rs` | issued and peer IDs, retire_prior_to, challenges | NEW/RETIRE_CONNECTION_ID, PATH_CHALLENGE/RESPONSE |
| Connection, `connection.rs`, `endpoint.rs`, `client.rs`, `server.rs` | handshake, key phases, closing and draining, anti-amplification, 0-RTT | datagram in, poll out, timeout, close |
| Codecs and protection, `frame.rs`, `pkt.rs`, `varint.rs`, `crypto.rs`, `transport_params.rs` | none | encode, decode, seal, open |

Hard behaviours: final size against late data, credit that is consumed twice or never
returned, a lost MAX_* or RETIRE frame, PTO against late ACK, key update
against reordering, migration against retirement of connection IDs.

### 1.3 TLS over streams (`src/tls`)

Client and server machines for 1.2 and 1.3 (`conn/`), their record layer, session
tickets and 0-RTT, key schedule, PKI verification, ECH.  The transport is
reliable, so the hard part is protocol order: which message is legal in which
state, what closes, what an alert leaves behind, KeyUpdate flooding limits.

### 1.4 Stateful primitives

| Component | State | Operations |
|---|---|---|
| LMS/HSS, `src/lms`; XMSS and XMSS^MT, `src/xmss` | a leaf index per tree, the signatures of the current subtrees | `sign`, `remaining`, `to_bytes`, `from_bytes` |
| `pkeyutl sign`, `src/bin/purecrypto/pkeyutl.rs`, `util.rs` | the key file, its sentinel lock | lock, load, sign, `atomic_overwrite`, release |
| `src/rng/hmac_drbg.rs` | a reseed counter | generate, reseed |
| `src/chunked`, `src/hpke/schedule.rs` | a chunk or sequence number | seal, open |

Hard behaviours: an index that must never be used twice, across two processes with one key
file, across exhaustion of a subtree, across a crash between making a signature and
saving the index, and in a field that is exactly as wide as the tree is high.

### 1.5 The rest

Big numbers, ciphers, hashes, curves, post-quantum schemes, encodings (DER, PEM, JOSE,
PKCS), the command line and the C interface.  They keep no state between calls, or only a
buffer; their correctness is algebra and constant time, out of reach of a model checker.

The full list, with the status of every part, is `components` in `PROJECT.json`; the
places where this code is hard to test are its `hazards`.

## 2. Plan

Order, most important behaviour first.  Items marked with a tick exist.

1. ✓ `ReadEpoch`, `ReadEpochProofs`: replay window and record numbers.
2. ✓ `Retransmit13`, `Retransmit13Proofs`: ACK-driven retransmission, timer schedule,
   grace time of the retired epoch.
3. ✓ `Reassembly`, `ReassemblyProofs`: handshake reassembly against injected fragments.
4. ✓ `EpochSync` (abstract), `PostHandshake13`, `PostHandshake13Proofs` (two
   connections composed with the network): KeyUpdate, connection-ID requests, ticket.
5. ✓ `Handshake13`: the DTLS 1.3 handshake with HelloRetryRequest and cookie, flights, implicit
   and explicit ACKs, the final flight, the external signer and the held close_notify.  Still
   open: early data (0-RTT) and `PreCookieBuffer`.
6. ✓ `QuicSendHalf`, `QuicRecvHalf`, `QuicStreams`: the stream layer of QUIC at both ends of a
   connection, with flow control, stream limits, resets and stops.
7. ✓ `QuicRecovery`, `QuicHandshake`, `QuicHandshakeProofs`: loss recovery through the handshake, with the
   amplification limit, 0-RTT and discarded levels.
8. ✓ `QuicKeyUpdate`, `QuicKeyUpdateProofs`: key phases, previous keys and replay windows of an established
   QUIC connection.
9. ✓ `HashSigKey`, `StatefulSign`, `StatefulSignProofs`: the index of stateful signature keys
   and the command that keeps them in a file.
10. Open, in this order: DTLS 1.2 (`Retransmit12`, `Handshake12`: whole-flight retransmission and
   the final flight that has no timer), the pools of `cid.rs` in DTLS and in QUIC with path
   validation, QUIC close, `HmacDrbg`, `Chunked`, the TLS 1.3 connection.

Abstract specifications: `EpochSync` is stated and shown to be implemented.  Worth stating next: a
lossless in-order channel that reassembly plus retransmission implement, and a credit account
that QUIC flow control implements.

Theorems worth proving next: `StreamsCounted`, which only looks at the map and the counters of one
endpoint, and the send half's part of `NothingForgotten` (every byte in exactly one of chunks, queue and
acknowledged set).

## 3. The modules

### ReadEpoch

One read epoch: `seq` is `ReadEpoch.seq`, `highest`, `bitmap` and `seeded` are the fields of
`AntiReplayWindow`.  The bitmap is the set of distances whose bit is set, so `bitmap << n` is
`Shifted(n)`.  `Receive(n)` is `process_protected_record` for a genuine record: reconstruct,
`check`, open, `mark`, raise `seq`, in that order.  `RejectForged(low)` is any record that fails
the AEAD.  The AEAD is abstracted to: it opens exactly when the number used as nonce is the one
the sender used.  `next` and `delivered` are the peer and history.

Run `read_epoch` (WINDOW_BITS 3, SEQ_MODULUS 8, SEQ_MASK 15): the window slides
past its width and past two blocks of the modulus, so every arm of `reconstruct_seq`, of `check`
and of `mark` is taken.  It checks that no record is delivered twice, that no undelivered
genuine record inside the window is refused, and that truncation is inverted for numbers
less than half a modulus from the expected one.

### Retransmit13

`in_flight`, `deadline`, `timeout`, `attempts` are the fields of `Retransmit13`.  A record
number is abstracted to (record, i-th transmission).  `Emit`, `on_ack`, `release_epoch`,
`Retransmit`, `GiveUp` are the code's entry points, `Establish` the end of the handshake:
the server replaces the machine, the client keeps it.  Time is discrete; the caller polls at
most `MaxLate` after the deadline, which is the contract of the sans-I/O API.

Run `retransmit13` (two records in different epochs, timeouts 1, 2, 4 and then the cap of 6, three
retransmissions, lateness 1): the wait after the last retransmission is the capped one, a record
joins a running flight, partial ACKs and late ACKs of any copy happen.  The grace time is scaled as in the code: the
sum of the schedule plus lateness stays below it.  Fairness: time passes, and a due deadline
is polled; nothing is assumed of the network.  It checks that the timer runs exactly while
something is in flight, that an acknowledged record is not sent again, that the doubling
schedule is neither compressed nor stretched, that nothing is retransmitted after the
peer may have dropped the keys, and that no flight is pending for ever.

### Reassembly

`in_progress` maps (message_seq, claim) to the units received, a claim being a
(msg_type, length) pair in the order of `CandidateKey`.  `Feed` is the whole of
`process_handshake_record` on the plaintext path: admission with eviction, conflict scan, storing,
dispatch of the head and of every complete successor, drop of stale candidates, rewind
when a message does not validate.  `clear_if_stalled` is the timer's part.  A message is
valid exactly when it is the genuine one: that stands for the checks of `dispatch_one`.

Run `reassembly` (flight of three messages of two units, three claims, a budget of two
candidates, a look-ahead of two messages, three spoofed fragments): the map fills, evicts, is
poisoned, and is cleared.  Fairness: the caller drives the timer (documented contract of
`on_timeout`); the peer retransmits its flight until it is answered and the network
does not drop one fragment for ever (weak fairness per fragment), nor always the one that completes
the head (strong fairness of `CompleteHead`).  `FlightDelivered` says that injected
fragments can delay the handshake and not stop it.

### EpochSync and PostHandshake13

`EpochSync` is the promise of `epoch13.rs` for one direction: announce, install, move, and at most
one transition at a time.  `PostHandshake13` is two connections (`client13.rs` and
`server13.rs` are line by line the same here) with the fields of the source: write epoch,
current and previous read epoch, `out_msg_seq`, the reassembler's head and what is buffered ahead
of it, in-flight records, attempts, `key_update_pending`, `cid_reply_owed`, `request_pending`.
A handler is a function from connection to connection, built from the handler's calls; `Return`
makes the result and the datagrams it queued visible at once.  The dispatch loop of
`process_handshake_record` is the recursive function inside `OnHandshake`: `MAX_SEQ_AHEAD` turns of
`Pop` empty the head of any queue the reassembler admits.  `net` holds every record ever
sent, so it loses, repeats and reorders; exact replays are excluded by `AtMostOnce` of
`ReadEpoch`, and what remains are the other copies of the same message.

`ExpirePrevRead` drops the previous read keys.  The code does so in two ways.  The record count
counts records of the newer epoch, so its writer has moved on.  The wall clock stops
`PREV_EPOCH_GRACE_TIME` = 120 s after the install, whatever the writer does.  The model has no clock here,
and `GraceOver` says what the clocks allow.  The KeyUpdate was sent before the install, and its
last retransmission is due 63 s after that (`RetransmitsWithinGrace` of `Retransmit13`), while
`GiveUp` comes at 123 s at the earliest.  So when the grace time is over, a writer still on the old epoch has no
retransmission left (`Spent`), but it is connected and may write.  This takes callers whose
clocks (`set_now`, `on_timeout`) are current to less than the 57 s between.  What a writer whose ACKs
are all lost sends in the last seconds before it gives up can therefore be unreadable, and
`WriteEpochReadable` and `EpochSync` (`spent`, `Exhaust`) make no claim for it.

Run `post_handshake13` starts in one of three scenarios.

* `CrossingUpdates`: KeyUpdates of both sides, with and without a request for an answer, and nothing
  else.  Each direction implements `EpochSync` (`EpochsInStep`), and what either side sends the other
  opens with the keys the two bits select (`WriteEpochReadable`).
* `WrappingUpdates`: five KeyUpdates of one side.  Epochs run to 8, so that late records of epochs 3 and
  4 have the header bits of 7 and 8.
* `Mixed`: a ticket, updates by the server, connection-ID requests by the client.
  `EpochsBacked`: the reader is at most the pending update ahead of its writer (`ReaderNotAhead`),
  and a writer that is ahead of its reader is backed by a KeyUpdate buffered there.  One NewConnectionId is outstanding at a time, and
  every update completes or closes.  `MAX_SEQ_AHEAD` keeps the code's value of 8: behind a
  gap fewer messages than that can pile up.

Fairness: weak fairness of the timer only.  Deadlock is not checked here, because
both sides may have closed (nor in `read_epoch` and `retransmit13`, where record numbers and time
run out at their bounds).

### Handshake13

`ep` holds the two connections, `client13.rs` and `server13.rs`, with the fields of the
source: the state, the write epoch, the current and previous read epoch, `out_msg_seq`, the
reassembler's head and what is buffered ahead of it with its two stall counters, the
in-flight records and attempts, `pending_acks`, the transcript, the suspended flight, the
close flags, and of the client `hs_write` (the epoch-2 write keys kept for the final flight)
and `close_notify_held`, of the server `hrr_selected_group`, `client_confirmed` and
`final_flight_records`. As in `PostHandshake13` a handler is a function from connection to
connection (`OnServerHello`, `OnFinished`, `HandleClientHello`, `OnClientFinished`, ...) and
`Return` makes its result visible. The transcript is the sequence of messages hashed so far,
with the cookie where a message carries one; a CertificateVerify or Finished carries the
transcript it was made over and verifies exactly when that is the receiver's, so a server
that rebuilds its HelloRetryRequest from the wrong cookie is caught as in the code, at the
first MAC.

The network keeps every datagram, a set of records, and delivers any of them at any time,
again or never. The actions are the entry points: `ReceivePlaintext` and `ReceiveProtected`
(`feed_datagram`, with `schedule_acks`), `AckTimer`, `Retransmit` and `GiveUp`
(`on_timeout`), `ProvideSignature`, `SendCloseNotify`, `ExpirePrevRead` and `MinutePasses`
(`set_now`, the minutes that stamp cookies). `config` is fixed in `Init`: what the two sides
are configured for and whose caller closes. An error a handler returns ends the connection
and sets the history flag `failed`; `NoFatalError` says that between two genuine sides no
order of delivery, loss and timeouts brings that about.

Run `handshake13` starts in any of five configurations of `MCHandshake13` (resumption from
another address behind a cookie with one record per datagram, resumption from the same
address with a ticket, client certificate with an external signer, another group with the
server's key external, an empty client certificate, a ticket and both sides closing, and
cookie and group in one HelloRetryRequest). Three minutes with a cookie lifetime of one:
cookies are fresh, in use across a minute, and expired, and two of them are under way at
once. One retransmission per flight, so that every flight is sent twice and every way of
giving up happens. With three, the server's reassembler can be cleared during the client's
flight, and `MissingIsRetransmitted` fails: that is run `handshake13_stalled`. Short of
that, the invariant is what ACKs, implicit ACKs and resets owe to the peer as long as the
stall timer does not interfere.

Fairness: the caller polls `on_timeout` when `next_timeout` says so, weak fairness per side;
nothing is assumed of the network, of the signer or of who closes. `CloseReleased` needs no
more: the held close_notify leaves with the ACK or when the budget is spent. Deadlock is not
checked, because two connections that are done have nothing to do.

### QuicSendHalf, QuicRecvHalf and QuicStreams

The two halves of a stream (`stream.rs`) are records with the fields of the source, and a method
is a function from record to record.  The send half counts bytes instead of holding them:
`write_buf` is a length, a chunk an offset, a length and a FIN flag; `acked` is the set
of acknowledged offsets.  The receive half keeps `pending` as a set of ranges.  `QuicStreams` is the
`Streams` table of both endpoints: the application's calls (`Open`, `Write`, `Finish`, `Read`,
`ResetStream`, `StopSending`), the frame handlers (`on_stream`, `on_reset`, `on_max_data`, ...),
`pop_stream_frame` and `pop_frame_into`, reaping, and the hooks loss recovery calls.  A packet
carries one frame; it is in transit or not and tracked by its sender or not, so an
acknowledgement can be late, a loss spurious, and a probe can send what is still on its way.  The
`flight` of a scenario bounds the packets in either state, and stands for the congestion window.

Run `quic_streams` starts in one of eight scenarios (`MCQuicStreams`): one stream longer than both
windows; three frames that overtake each other; four, which is more than the fragment table takes;
three streams where two may be open; a reset at any point; STOP_SENDING at any point; both directions of
one stream, with resets; and 0-RTT data the server refuses.  Each has at most one fault (a drop, a spurious
loss, a probe) and one call that is blocked on credit, which is enough to lose any one frame or any
one grant at any moment; the reset has two faults, so that data and RESET_STREAM can both be lost.
The fragment table has 2 entries (128 in the code), and four single-byte frames that arrive in
reverse fill it.  The packets of a scenario have room for `mtu` bytes at most.

`NoConnectionError` says that two endpoints running this code never refuse each other.
`NothingForgotten`, `AckedIsHeld` and `EventuallySettled` together are reliable delivery: a byte is
in exactly one place, an acknowledged one is with the receiver, and in the end all are read.
`BufferWithinWindow` and `StreamsCounted` are the two credit accounts, `NoLostWakeup` the cached queues.

In two cases the code does less than that (section 4), and the properties name them.
The history variable `refused` has the bytes that found the fragment table full and are still missing:
`AckedIsHeld` allows these and no others to be acknowledged.  A stream reset between `finish` and the FIN
either keeps a FIN no frame can carry, which `NoLostWakeup` leaves aside (`HasFrame`), or sends its
FIN after the RESET_STREAM; the history variable `overtaken` has the latter.  Of a stream in `refused` or
`overtaken` (`Stranded`), `EventuallySettled` demands that its sender comes to an end and both ends fall
silent, not that the receiver sees its end.  Each exception is needed: without it TLC refutes the property.

Fairness: weak fairness of `Progress`, the applications that open, write and read, the packer, and
a network and peer that settle every packet.  The formula spells out ENABLED as the predicate
`Busy`, because TLC is slow to evaluate ENABLED here.  Faults, resets and stops are not fair.

### QuicRecovery and QuicHandshake

`QuicRecovery` is one endpoint's loss recovery: packet-number spaces, tracked packets
and what each carried, `on_ack_received`, `detect_lost`, `set_loss_detection_timer`,
`on_loss_detection_timeout`, the probe credit, `discard_level`, and the CRYPTO buffers that feed it.
`QuicHandshake` is `connection.rs` around it for a client and a server: keys that become available
and are discarded, `pop_datagram_inner` with coalescing and the amplification limit,
`feed_datagram_inner` packet by packet, `check_handshake_complete`, HANDSHAKE_DONE, and the
resolution of 0-RTT.  The TLS engine is external: a complete flight of the peer is answered by
the own flight and keys.

Abstractions.  Time: a timer has a purpose and no deadline; it expires when nothing else can
happen, or prematurely, which is a fault.  For that reason the space a PTO is for is any of the
candidate ones, the time threshold acts only when the loss timer expires, and backoff does
not matter.  The congestion window is a constant number of packets; sizes are counted in half datagrams,
so that "three times" and "padded to 1200" are what remains of them.  NEW_CONNECTION_ID frames are
one packet's payload, sent once.

Run `quic_handshake`: seven scenarios (`MCQuicHandshake`) with one to three faults each, a fault
being a lost datagram, one that overtakes another, or a premature timeout.
An endpoint that hears nothing expires at most `MaxExpiries` = 4 times; more than the faults, so
that the last try always gets through.  `InFlightCounted`: the congestion account is exact.
`NothingLost`: what is unacknowledged is queued or tracked.  `TimerCurrent`: the cached timer is the one
the present facts call for.  `DiscardedIsDelivered`: keys go only when the peer needs no more of
the level.  `EventuallyDone`: both sides confirm the handshake and all data arrives.

Fairness: weak fairness of `Progress`, again with `Busy` for its ENABLED: the applications drain
`pop_datagram` and drive `on_timeout`, and what is not dropped arrives.  Deadlock is not
checked, since a finished connection is silent.

### QuicKeyUpdate

The 1-RTT keys of both ends of an established connection, with the fields of `LevelKeys` and
`CryptoState`.  A key is its generation, so `tx_by_phase` and `rx_by_phase` map a phase bit to a
number, and the AEAD is: a packet opens under the generation it was sealed with.  A replay window is
the set of packet numbers accepted under its key, of which `is_fresh` sees only those near the
top.  `Update` is the application's call, `Send` one packet of `build_packet_with_pad` with the
rotation of a worn key and the close at the usage limit, `Receive` the whole of
`feed_short_header_packet`, and `maybe_discard_prev_rx_keys` the expiry of the previous key, at any
time after it was set aside.  The network keeps every packet, and delivers it again or never.  Left
out: truncated packet numbers, the count of failed openings, and all frames but HANDSHAKE_DONE and
its acknowledgement, which allow updates to begin.

Run `quic_key_update`: five packets of the client and four of the server, a window of three, a key limit of four (so
that rotation and the close at the limit both happen), updates up to generation 2, where the
phase bit repeats.  `UpdatesLegal`: no order of arrival makes an endpoint report a
KEY_UPDATE_ERROR of its honest peer, and nobody updates towards a peer that has not confirmed the
handshake.  `DispatchedOnce`: a packet repeated across updates is handled once.  `NextOpens`: what is sent next
opens, except from an endpoint that runs ahead of its peer's update.  That exception is run
`quic_key_update_hasty`.  The branch of `feed_short_header_packet` that calls
`refresh_phase_chains_post_confirm` is in the model; with the other branches as they are, a pending update
always has the opposite phase of the receiving direction, and the branch is not taken.  Deadlock
is not checked, since packet numbers run out.

### HashSigKey and StatefulSign

`HashSigKey` is the state of a key.  HSS has a leaf index per level and, for every level but
the last, the signature of the current subtree.  LMS is the one-level case; XMSS and
XMSS^MT, which keep one index over all leaves, are too, with an index field that may be exactly full.
A one-time key is named by the leaves on the path to it.  `sign` is `IsLive`, `signed_key` and
`assemble`: the exhausted lower levels are replaced, each by a leaf of the level above.  `Parses` and
`from_bytes` are loading, including files written before version 3, whose upper signatures
are made again at load.

`StatefulSign` is the command around it: processes that take the lock, load, sign, write and sync a
temporary file, rename it, sync the directory, release, and only then hand out the signature.
Each step may fail (`Fail`, `Refuse`, `GiveUp`: the process cleans up), be the last before a kill
(`Crash`: the lock stays), or before a power loss: `file` is what a reader sees, `durable`
what a reboot would find, and an unsynced file comes back torn.

Run `hash_sig`: two processes, six messages, six kinds of key: a full index field, a spare one, HSS of two and
three levels with trees of two leaves (so that replacement cascades, and the count of
signatures exceeds `U64_MAX` = 7), and old files that have made any number of signatures.
`OneTimeKeysOnce`: no two signatures handed out share a bottom key, and where they share an upper one, it
has signed the same bytes.  `FileIntact`: the file parses, after a power loss as well.  `RemainingExact`:
`remaining` is the number of signatures that can be made, saturated.  Deadlock is not
checked, since the messages run out.

The library's own callers, and those of the C interface, must persist `to_bytes` themselves; the
documentation says so, and only the command is modelled.

## 4. Findings

Three statements of the source's own comments do not hold of the code; each is a run that TLC
must refute, and none of them is a memory-safety or confidentiality matter.

* `MissingIsRetransmitted`, with the code's stall timer in play (DTLS 1.3): the server's ACK timer
  acknowledges what it has buffered behind a lost Certificate; two idle retransmission
  timers later `clear_if_stalled`, meant for unauthenticated fragments, drops those
  messages, which the client no longer sends.
* `ClientKeepsProbing` (QUIC): with only a 0-RTT packet in flight, the client has no timer at all,
  and a server at its amplification limit waits for it.
* `SubsequentAfterAcknowledged` (QUIC): an endpoint that has followed its peer's key update, or whose own
  crossed it, may update again before the peer has opened anything under the first new key.
  The phase bit is then back where the peer is, nothing opens, and no later packet mends it.

Smaller divergences, met while modelling.  The models behave like the code here, and no run is
spent on them:

* DTLS `epoch13.rs` says "only one epoch transition is ever in progress per direction"; a KeyUpdate
  behind a gap in `message_seq` is acknowledged before it is dispatched, so the writer moves, and may
  start a second update, before the reader installed the first.
* When the fragment table of a QUIC stream is full, the rest of a frame is dropped and its packet is
  acknowledged all the same.  The comment in `on_data` says the sender "still holds it as unacked and will
  retransmit"; the documentation of `MAX_PENDING_FRAGMENTS` says the connection is closed.  Neither
  happens: the byte is not sent again and the receiver waits for it.  (`refused`, `Stranded`.)
* The reassembler says the head "must always be admissible"; a map full of competing claims at the head
  refuses the genuine one until the stall timer clears it.
* The DTLS server "never holds records of a retired epoch"; a ticket or NewConnectionId in flight
  when a KeyUpdate is acknowledged is one, and is then not retransmitted.  An owed NewConnectionId is
  flushed by ACKs only, so it stays owed when the outstanding one is given up.
* The DTLS server's `provide_signature` does not look at the state, and resumes a handshake that
  the timer has closed.  The client's and the TLS server's do look.
* `Streams::write` charges the connection's credit when bytes are accepted; a reset drops the ones not
  yet carved, and their credit does not come back.
* A QUIC stream given up between `finish` and the FIN, by a reset or the peer's STOP_SENDING, keeps
  `fin_offset` and has something outbound.  With bytes not yet carved, they are dropped and the FIN can
  no longer be reached: after the RESET_STREAM the packer carves an empty STREAM frame without FIN,
  against the assertion in `pop_stream_frame` (a build with debug assertions stops there; the model is of one
  without).  The stream then leaves the ready queue while `has_outbound` is true for good, so a
  peer-initiated one is never reaped.  With all bytes carved, a FIN-only frame follows the RESET_STREAM and takes
  the state from ResetSent to DataSent.  The unacknowledged bytes are in no chunk, and a RESET_STREAM
  that is lost is not sent again, since `on_reset_lost` looks for ResetSent: if both are lost, the receiver waits
  for ever.  (`HasFrame`, `Overtaken`, `Stranded`.)
* A finished stream whose last read makes a MAX_STREAM_DATA pending is not reaped at that read, and
  nothing reaps it later.  A repeated FIN takes a stream from DataRead back to DataRecvd, a late
  RESET_STREAM from DataRead to ResetRecvd.  A window of 1 byte has a replenish threshold of 0.
* `congestion.rs` calls itself the pseudocode of RFC 9002 Appendix B "1:1", but starts recovery at the send
  time of the lost packet.  Datagrams above the amplification limit are built, counted in flight
  and dropped.
* The lock's documentation says "~3 s", the caller waits 30 seconds.

## 5. Proofs

All proofs are checked by TLAPS for every value of the constants that satisfies the named
assumptions of the modules.  The scenarios, packets, updates and fragments that the runs bound are
unbounded here, unless a constant of the specification bounds them.

* `SetInduction` holds what the others share: induction over the numbers stated for a *set* of
  numbers, which the provers can apply where the library's theorems with an operator parameter
  cannot be instantiated; least and greatest elements; and the existence of a sequence
  given by its first number and its step.
* `ReadEpochProofs`: `AtMostOnce` is not inductive, since it does not say why an old number is
  refused.  The inductive invariant is `TypeOK /\ WindowMirrorsHistory`: the bits are exactly the
  delivered numbers inside the window and nothing above `highest` was delivered.  From it follow
  `BitmapIsHistory`, `ReplaySafety`, `NoFalseRejection` (forged records do not disturb it) and, by
  arithmetic on blocks of the modulus, `Reconstruction`.
* `Retransmit13Proofs`: type correctness, `NoLostTimer` and `AckIsFinal`.  The invariant adds that
  an unsent record is neither in flight nor acknowledged, so that `Emit` cannot revive one.
  `ScheduleHolds` compares the timer with the recursively defined `TimeoutAt` and `Elapsed`, whose
  equations are proved first (`TimeoutAtDef`, `ElapsedDef`); the invariant `SInv` adds `ClockOK`: a
  running timer was armed when the oldest record of the flight was sent, or before, and is
  polled at most `MaxLate` after its deadline.  `RetransmissionsReadable` follows under
  `GraceCoversSchedule`, that the schedule with its lateness fits into the grace time: 63 of
  120 seconds with the code's constants, which leaves 57 for late polls.  The run's constants
  satisfy it too.
* `ReassemblyProofs`: `BudgetHolds` and `DispatchInOrder`, for every flight, budget and set of claims.
  The dispatch loop must stop at the end of the flight, so the invariant adds that the
  candidates beyond the flight hold spoofed bytes only (`MapOK`).  `FirstBytesStay`, a
  property of steps, follows from the same invariant.
* `PostHandshake13Proofs`, for any number of updates, tickets and requests of both sides.  The
  invariant `IInv` describes each direction by the messages its writer has ever sent: one for every
  number below `out_msg_seq`, the KeyUpdates in order with one for every epoch announced, those
  unacknowledged in flight (`WriterOK`); and what its reader has made of them: it has dispatched
  exactly the KeyUpdates of epochs below the one it reads (`ReaderOK`), and is not past what
  was sent (`Behind`).  `ReadersFollow` and `OneReplyOutstanding` follow.  With KeyUpdate the
  only message, `KInv` adds that an ACK names only what was dispatched.  The reason is
  `OpenedIsNext`: a KeyUpdate that could be out of order is under an epoch its reader cannot
  open yet.  Hence `WritesCanBeRead`, and `EpochsRefine`: every step of the two connections is a
  step of `EpochSync` in one direction and a stutter or a step in the other.  `AlwaysReadable` is the
  property of `EpochSync` itself, from the invariant that its reader is level with the writer or,
  with an update pending, one ahead and keeping the writer's epoch.
* `QuicKeyUpdateProofs`: `UpdatesStayLegal`, `NoDoubleDispatch` and `NextPacketOpens`, for every window
  width, usage limit and number of packets and updates.  The invariant relates the generations in
  the phase slots of the two ends (`KeysOK`), says of the packets in the network that generations
  grow with numbers (`NetOK`), and of a packet that was handled that it is recorded in the window
  kept with the key that opened it, for as long as that key is there (`OnceOK`).
* `StatefulSignProofs`: type correctness, `NoKeyReuse`, `FileSurvives` and `RemainingIsExact`, for any depth, tree size and
  field width, any number of processes and of signatures.  `OneTimeKeysOnce` speaks of
  signatures already handed out, and is not inductive.  The proof orders the positions of a key
  lexicographically.  `SignAdvances`: signing moves a key strictly forward, and the signature
  uses the leaves just before the new position.  The invariant `IInv` then says, besides
  ranges: both the visible and the durable file are good keys, the durable one not ahead;
  one process at most is between lock and unlock, and it holds a position no earlier than the file's; what was
  handed out, or is about to be, lies up to the durable position; and these are pairwise distinct.
  Assumed are trees of two leaves at least, no wider than the index field, and strictly
  narrower where there are several levels (an HSS index is a `u32`).  `RemainingIsExact` is a
  counting argument on the same positions.  The tails past a position, from a level on, are its unused leaves, each
  over every tail of the levels below, and those past the position below its present leaf
  (`Counts`, by a bijection).  The loop of `remaining` saturates at every step; `SaturatedProduct` and
  `SaturatedSum` say that it does not matter where, and `CountStep` carries both numbers through one
  turn.  It multiplies by all leaves of a tree, where one-level keys may do without the last: that product
  is not used again for those.
* `QuicHandshakeProofs`: `CountedExactly` (`InFlightCounted`), `KeptUntilAcked` (`NothingLost`),
  `TimerUpToDate` (`TimerCurrent`) and `DiscardsAreSafe` (`DiscardedIsDelivered`), for flights of any
  length, any window, any number of losses, reorderings and premature timeouts.  A handler is a
  function on the record of an endpoint, so most lemmas say what one handler does to one record:
  it keeps `Local`, and `NoNews`, `SameFacts` or `Receives` say what it leaves alone.  `Local` has the
  count and the fates of the frames, and what makes them inductive: tracked packets of a
  space have numbers of their own below the next one (or the count would not go down by as many as
  are acknowledged), and an engine that has not come so far has sent nothing there (`EngineOK`).
  `DiscardsAreSafe` is about two ends: `IInv` adds what a packet on its way says of its sender
  (`PacketOK`: no CRYPTO from a server whose engine has not answered, no HANDSHAKE_DONE from one
  that is not done) and what an endpoint knows of its peer (`Heard`).  Both survive the peer's
  progress, since engines only advance.  For the timer: a context brought up to date stays so
  (`InSync`) until the handler that changes its facts, which ends in `refresh_loss_timer`.
  Assumed is that flights are a number of units (`ConfigsAssumption`).

Only model-checked:

* liveness (`FlightResolves`, `FlightDelivered`, `UpdateResolves`, `CloseReleased`, `EventuallySettled`,
  `EventuallyDone`), since the prover handles neither fairness nor ENABLED;
* the second half of `EpochsBacked` (the first, `ReaderNotAhead`, is proved): it depends on how many messages fit between a gap and a KeyUpdate that is
  acknowledged behind it.  The caller can ask for few of them in one epoch, so they stay within the
  look-ahead of 8; with a look-ahead of 1 it is false, so that its proof has to count them;
* `CloseAfterFinished` and the invariants of `Handshake13` and `QuicStreams`: not attempted yet.
  `StreamsCounted` and `BufferWithinWindow` are about one endpoint, the others compare
  two and what is between them.

Type invariants are kept where a theorem needs them, and are then proved rather than run.

## 6. Not modelled

Cryptography is a black box throughout: a record opens or it does not, a hash names its input.
Encodings, key derivation, certificate validation and configuration are left out of the models
above; `components` gives the reason part by part.  Clocks that run backwards and callers that never
poll are outside the API's contract.

* DTLS 1.3: 0-RTT, `PreCookieBuffer`, fragments in `Handshake13` (they are in `Reassembly`), the limits
  `MAX_PENDING_ACKS` and `MAX_KEY_UPDATES_RECEIVED`, the pools of connection IDs.
* DTLS 1.2: the handshake and its flight timer.  Its reassembly loop is the one of `Reassembly`.
* QUIC: Retry and version negotiation, duplicated datagrams, tickets in CRYPTO after the handshake,
  required client authentication, DATAGRAM and path frames, connection-ID retirement, migration,
  idle timeout and close, round-trip estimation and backoff, the window of NewReno,
  ECN, adopting the peer's limits after the handshake, the endpoint's demultiplexing.
* Stateful signatures: trees and their caches, verification, key generation, the checks against links
  in the path of the key file, best-effort directory sync where there is no Unix, and the serial
  counter of the CA command, which uses the same lock and the same replacement.  A
  lock is deleted only when its owner is gone: the code leaves that judgement to the user.
* TLS over streams, HMAC-DRBG, chunked AEAD and HPKE: not yet.  Their state is a counter or a sequence
  of states over a reliable transport, so fewer of the hard behaviours arise.
* Primitives, formats, command line, C interface: pure functions and plumbing, whose
  correctness is algebra, byte layout and constant time.  They are most of the repository's lines, which is
  why the share of lines the models stand for is small.
