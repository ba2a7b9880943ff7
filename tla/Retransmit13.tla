---------------------------- MODULE Retransmit13 ----------------------------
(***************************************************************************)
(* The ACK-driven retransmission machine of DTLS 1.3                       *)
(* (dtls/reliability13.rs) together with the two callers that matter to    *)
(* it: retransmit_in_flight, which puts every unacknowledged record back   *)
(* on the wire under a fresh record number, and the GiveUp branch of       *)
(* on_timeout in client13.rs and server13.rs.  Time is discrete; the       *)
(* caller may poll up to MaxLate time units after the deadline.            *)
(*                                                                         *)
(* A record number is abstracted to <<r, i>>, the i-th transmission of the *)
(* record r: the write sequence number never repeats within an epoch.      *)
(***************************************************************************)
EXTENDS Integers, FiniteSetsExt, Functions

CONSTANTS
    Records,               \* handshake records the endpoint may send
    EpochOf,               \* [Records -> epoch]: the epoch each is protected under
    INITIAL_TIMEOUT,       \* 1 s in the code
    MAX_TIMEOUT,           \* 60 s in the code
    MAX_RETRANSMITS,       \* 6 in the code
    PREV_EPOCH_GRACE_TIME, \* 120 s in the code (epoch13.rs)
    MaxLate,               \* bound: how late the caller may poll
    LastSend,              \* bound: no new record after this time
    MaxTime                \* bound: the clock stops here

ASSUME TimeoutAssumption ==
    /\ INITIAL_TIMEOUT \in Nat \ {0}
    /\ MAX_TIMEOUT \in Nat
    /\ INITIAL_TIMEOUT <= MAX_TIMEOUT
    /\ MAX_RETRANSMITS \in Nat
    /\ MaxLate \in Nat

None == -1

VARIABLES
    in_flight,    \* records sent and not yet acknowledged
    copies,       \* [Records -> how often each was put on the wire]
    deadline,     \* when on_timeout is due, or None
    timeout,      \* the per-attempt timeout
    attempts,     \* retransmissions since the set was last empty
    established,  \* the endpoint is Connected with no KeyUpdate pending
    closed,       \* the endpoint gave up
    now,          \* the caller's clock
    armed_at,     \* history: when the running timer was first armed
    sent_at,      \* history: [Records -> when each was first sent]
    acked         \* history: the records an ACK or release covered

machine == <<in_flight, deadline, timeout, attempts>>
history == <<armed_at, sent_at, acked>>
vars == <<machine, copies, established, closed, now, history>>

Smaller(a, b) == IF a <= b THEN a ELSE b

(* The record numbers in use. *)
Numbers == {rn \in Records \X (1 .. (MAX_RETRANSMITS + 1)) : rn[2] <= copies[rn[1]]}

-----------------------------------------------------------------------------
(* Retransmit13::new *)
new ==
    /\ in_flight' = {}
    /\ deadline' = None
    /\ timeout' = INITIAL_TIMEOUT
    /\ attempts' = 0

Init ==
    /\ in_flight = {} /\ deadline = None
    /\ timeout = INITIAL_TIMEOUT /\ attempts = 0
    /\ copies = [r \in Records |-> 0]
    /\ established = FALSE /\ closed = FALSE
    /\ now = 0 /\ armed_at = 0
    /\ sent_at = [r \in Records |-> 0]
    /\ acked = {}

(* Retransmit13::on_record_sent: the timer starts with the first record of *)
(* an empty set, and a record that joins leaves the schedule alone.        *)
on_record_sent(r) ==
    /\ in_flight' = in_flight \cup {r}
    /\ IF in_flight = {}
       THEN /\ timeout' = INITIAL_TIMEOUT
            /\ attempts' = 0
            /\ deadline' = now + INITIAL_TIMEOUT
            /\ armed_at' = now
       ELSE UNCHANGED <<deadline, timeout, attempts, armed_at>>

(* emit_protected_handshake / emit_plaintext *)
Emit(r) ==
    /\ ~closed
    /\ now <= LastSend
    /\ copies[r] = 0
    /\ copies' = [copies EXCEPT ![r] = 1]
    /\ sent_at' = [sent_at EXCEPT ![r] = now]
    /\ on_record_sent(r)
    /\ UNCHANGED <<established, closed, now, acked>>

(* Mutant: drains the set without stopping the timer.                      *)
Retain_armed(keep) ==
    /\ in_flight' = keep
    /\ UNCHANGED <<deadline, timeout, attempts>>

(* What on_ack and release_epoch share: keep these records, and stop the   *)
(* timer when none is left.                                                *)
Retain(keep) ==
    /\ in_flight' = keep
    /\ IF keep = {}
       THEN /\ deadline' = None
            /\ timeout' = INITIAL_TIMEOUT
            /\ attempts' = 0
       ELSE UNCHANGED <<deadline, timeout, attempts>>

(* Mutant: only the original record number releases a record, so the ACK   *)
(* of a retransmitted copy is lost on the sender.                          *)
on_ack_original(acks) ==
    /\ acks # {}
    /\ Retain({r \in in_flight : <<r, 1>> \notin acks})
    /\ acked' = acked \cup {rn[1] : rn \in acks}
    /\ UNCHANGED <<copies, established, closed, now, armed_at, sent_at>>

(* Retransmit13::on_ack: an ACK of any copy releases its record. *)
on_ack(acks) ==
    /\ acks # {}
    /\ Retain({r \in in_flight : \A rn \in acks : rn[1] # r})
    /\ acked' = acked \cup {rn[1] : rn \in acks}
    /\ UNCHANGED <<copies, established, closed, now, armed_at, sent_at>>

(* Retransmit13::release_epoch: the implicit acknowledgement. *)
release_epoch(epoch) ==
    /\ in_flight # {}
    /\ Retain({r \in in_flight : EpochOf[r] # epoch})
    /\ acked' = acked \cup {r \in in_flight : EpochOf[r] = epoch}
    /\ UNCHANGED <<copies, established, closed, now, armed_at, sent_at>>

(* The handshake completes: the server replaces the machine                *)
(* (on_client_finished), the client keeps it for its final flight.         *)
Establish(reset) ==
    /\ ~established /\ ~closed
    /\ established' = TRUE
    /\ IF reset THEN new ELSE UNCHANGED machine
    /\ UNCHANGED <<copies, closed, now, history>>

-----------------------------------------------------------------------------
Due == deadline # None /\ now >= deadline

(* Mutant: the deadline is armed with the timeout before it is doubled.    *)
Backoff_stale ==
    /\ attempts' = attempts + 1
    /\ timeout' = Smaller(2 * timeout, MAX_TIMEOUT)
    /\ deadline' = now + timeout

(* The Retransmit branch of Retransmit13::on_timeout. *)
Backoff ==
    /\ attempts' = attempts + 1
    /\ timeout' = Smaller(2 * timeout, MAX_TIMEOUT)
    /\ deadline' = now + timeout'

(* Mutant: one attempt too many.                                           *)
AttemptsLeft_off_by_one == attempts <= MAX_RETRANSMITS

AttemptsLeft == attempts < MAX_RETRANSMITS

(* on_timeout, Action::Retransmit: back off, and re-frame every in-flight  *)
(* record under a fresh number (retransmit_in_flight, note_resent).        *)
Retransmit ==
    /\ ~closed /\ Due /\ AttemptsLeft
    /\ Backoff
    /\ copies' = [r \in Records |-> IF r \in in_flight THEN copies[r] + 1 ELSE copies[r]]
    /\ UNCHANGED <<in_flight, established, closed, now, history>>

(* Mutant: an established connection that gives up keeps its in-flight set.*)
GiveUp_keeping ==
    /\ ~closed /\ Due /\ ~AttemptsLeft
    /\ deadline' = None
    /\ closed' = ~established
    /\ UNCHANGED <<in_flight, timeout, attempts>>
    /\ UNCHANGED <<copies, established, now, history>>

(* on_timeout, Action::GiveUp: an established connection drops what is in  *)
(* flight and lives on, an unfinished handshake closes.                    *)
GiveUp ==
    /\ ~closed /\ Due /\ ~AttemptsLeft
    /\ IF established
       THEN new /\ UNCHANGED closed
       ELSE /\ deadline' = None
            /\ closed' = TRUE
            /\ UNCHANGED <<in_flight, timeout, attempts>>
    /\ UNCHANGED <<copies, established, now, history>>

(* Time passes, but not past the caller's latest poll. *)
Tick ==
    /\ now < MaxTime
    /\ deadline # None => now < deadline + MaxLate
    /\ now' = now + 1
    /\ UNCHANGED <<machine, copies, established, closed, history>>

(* An ACK names one or two of the numbers used so far. *)
AckedSets == UNION {kSubset(k, Numbers) : k \in {1, 2}}

Next ==
    \/ \E r \in Records : Emit(r)
    \/ \E acks \in AckedSets : on_ack(acks)
    \/ \E epoch \in Range(EpochOf) : release_epoch(epoch)
    \/ \E reset \in BOOLEAN : Establish(reset)
    \/ Retransmit
    \/ GiveUp
    \/ Tick

(* The caller polls when a deadline is due, and time goes on. *)
Fairness == WF_vars(Tick) /\ WF_vars(Retransmit \/ GiveUp)

Spec == Init /\ [][Next]_vars /\ Fairness

-----------------------------------------------------------------------------
(* The ranges of the machine's fields. *)
TypeOK ==
    /\ in_flight \subseteq Records
    /\ copies \in [Records -> Nat]
    /\ deadline \in Nat \cup {None}
    /\ timeout \in INITIAL_TIMEOUT .. MAX_TIMEOUT
    /\ attempts \in 0 .. MAX_RETRANSMITS
    /\ established \in BOOLEAN /\ closed \in BOOLEAN
    /\ now \in Nat /\ armed_at \in Nat
    /\ sent_at \in [Records -> Nat]
    /\ acked \subseteq Records

(* No unacknowledged record is left without a timer while the endpoint     *)
(* lives, and no timer runs for an empty set (Retransmit13.deadline: "None *)
(* if no records are in flight").                                          *)
TimerCoversFlight == ~closed => (in_flight # {} <=> deadline # None)

(* A record stays acknowledged: whichever copy an ACK names, and however   *)
(* many transmissions the record had, it is out of the in-flight set.      *)
AckReleases == in_flight \cap acked = {}

(* The timeout of the k-th attempt, and the time the first k + 1 attempts  *)
(* take when every poll is punctual.                                       *)
TimeoutAt[k \in Nat] ==
    IF k = 0 THEN INITIAL_TIMEOUT ELSE Smaller(2 * TimeoutAt[k - 1], MAX_TIMEOUT)

Elapsed[k \in Nat] ==
    IF k = 0 THEN INITIAL_TIMEOUT ELSE Elapsed[k - 1] + TimeoutAt[k]

(* A running timer follows the doubling schedule counted from the moment   *)
(* the set became non-empty: late polls, partial ACKs and records that     *)
(* join the flight never compress it, and the poll lateness is all that    *)
(* stretches it.  So no flight is given up early, or held for ever.        *)
ScheduleKept ==
    deadline # None =>
        /\ timeout = TimeoutAt[attempts]
        /\ deadline - armed_at >= Elapsed[attempts]
        /\ deadline - armed_at <= Elapsed[attempts] + attempts * MaxLate

(* Every retransmission happens while the peer still keeps the read keys   *)
(* of an epoch it retired no earlier than it could have received the       *)
(* record: PREV_EPOCH_GRACE_TIME, "after which no record the peer may      *)
(* still be retransmitting can plausibly be in flight" (epoch13.rs).       *)
RetransmitsWithinGrace ==
    [][Retransmit => \A r \in in_flight : now - sent_at[r] <= PREV_EPOCH_GRACE_TIME]_vars

(* Whatever is in flight is eventually acknowledged, dropped or given up:  *)
(* the machine never waits for ever on a silent peer.                      *)
FlightResolves == in_flight # {} ~> (in_flight = {} \/ closed)

=============================================================================
