----------------------------- MODULE Reassembly -----------------------------
(***************************************************************************)
(* The handshake-message reassembler (dtls/reassembly.rs, Reassembler) as  *)
(* the plaintext handshake path drives it: process_handshake_record of     *)
(* client13.rs and client12.rs, unauthenticated branch.  A fragment is     *)
(* fed; a message completed at the head of the queue is dispatched, and so *)
(* is every complete successor (pop_ready); a message that fails           *)
(* validation is dropped and the queue rewound, so that the genuine        *)
(* message at the same number is still accepted.                           *)
(*                                                                         *)
(* The genuine flight is the messages 0 .. LastSeq.  Anyone who can put    *)
(* datagrams on the path may add fragments of their own.  A claim stands   *)
(* for a (msg_type, total_length) pair, ordered as in CandidateKey; the    *)
(* bytes of a message are abstracted to a few units, each genuine ("good") *)
(* or not ("bad").  A message is valid iff it is the genuine one.          *)
(***************************************************************************)
EXTENDS Integers, Sequences, FiniteSets, Functions

CONSTANTS
    LastSeq,          \* the genuine flight is the messages 0 .. LastSeq
    UnitsOf,          \* <<units of claim 1, units of claim 2, ...>>
    Genuine,          \* the claim the genuine messages make
    MAX_SEQ_AHEAD,    \* 8 in the code
    max_in_progress,  \* Reassembler.max_in_progress: 8, 4 on the plaintext path
    STALLED_FIRES_TO_CLEAR, \* 2 in the code
    SpoofBudget       \* bound: how many spoofed fragments arrive

ASSUME LimitsAssumption ==
    /\ LastSeq \in Nat
    /\ MAX_SEQ_AHEAD \in Nat \ {0}
    /\ max_in_progress \in Nat \ {0}
    /\ STALLED_FIRES_TO_CLEAR \in Nat \ {0}
    /\ Genuine \in DOMAIN UnitsOf

VARIABLES
    expected_msg_seq,
    in_progress,      \* <<message_seq, claim>> -> received units and their content
    progressed,       \* bytes not seen before were stored since the last fire
    stalled_fires,
    dispatched,       \* history: the valid messages, in dispatch order
    spoofs            \* spoofed fragments so far

vars == <<expected_msg_seq, in_progress, progressed, stalled_fires, dispatched, spoofs>>

Claims == DOMAIN UnitsOf
Units(claim) == 0 .. UnitsOf[claim] - 1
Keys == (0 .. LastSeq + MAX_SEQ_AHEAD) \X Claims
Empty == [u \in {} |-> "good"]

(* The order of CandidateKey. *)
Above(k, l) == k[1] > l[1] \/ (k[1] = l[1] /\ k[2] > l[2])

-----------------------------------------------------------------------------
(* Reassembler::feed, admission.                                           *)

Full(k) == k \notin DOMAIN in_progress /\ Cardinality(DOMAIN in_progress) >= max_in_progress

(* The highest candidate, which a head fragment may displace from a full   *)
(* map unless it is a competing claim at the head itself.                  *)
Victims ==
    {k \in DOMAIN in_progress :
        /\ \A l \in DOMAIN in_progress : l = k \/ Above(k, l)
        /\ k[1] > expected_msg_seq}

(* Mutant: the budget is not enforced for a fragment at the head.          *)
Evicted_none(k) == {}

(* The candidates that make room for k. *)
Evicted(k) == IF Full(k) THEN Victims ELSE {}

Admits(k) ==
    /\ k[1] >= expected_msg_seq
    /\ k[1] - expected_msg_seq < MAX_SEQ_AHEAD
    /\ Full(k) => k[1] = expected_msg_seq /\ Victims # {}

(* The stored units of k once everything evicted for it is gone. *)
Stored(k) == IF k \in DOMAIN in_progress THEN in_progress[k] ELSE Empty

(* Mutant: an overlapping fragment overwrites what was received first.     *)
Agrees_always(k, units, content) == TRUE

(* The overlap-conflict scan: no unit already received disagrees.          *)
Agrees(k, units, content) ==
    \A u \in units \cap DOMAIN Stored(k) : Stored(k)[u] = content

(* The map after the fragment is stored. *)
WithFragment(k, units, content) ==
    [l \in (DOMAIN in_progress \ Evicted(k)) \cup {k} |->
        IF l = k
        THEN [u \in DOMAIN Stored(k) \cup units |-> IF u \in units THEN content ELSE Stored(k)[u]]
        ELSE in_progress[l]]

-----------------------------------------------------------------------------
(* Dispatch: feed and pop_ready hand a complete message at the head to     *)
(* dispatch_one, the head having moved past it and the candidates below    *)
(* the new head having been dropped.  A valid message is consumed and the  *)
(* loop goes on; any other is a silent drop, the head is rewound and the   *)
(* record is done with.                                                    *)

Complete(prog, k) == DOMAIN prog[k] = Units(k[2])

Valid(prog, k) == k[2] = Genuine /\ \A u \in DOMAIN prog[k] : prog[k][u] = "good"

Ready(prog, s) == {k \in DOMAIN prog : k[1] = s /\ Complete(prog, k)}

(* The candidate pop_ready takes at the head s: the first in key order.    *)
(* For feed it is the one just completed, BudgetKept says.                 *)
IsFirst(prog, k) == \A l \in Ready(prog, k[1]) : l = k \/ Above(l, k)

Consumed(prog, s) == \E k \in Ready(prog, s) : IsFirst(prog, k) /\ Valid(prog, k)

(* Where the loop stops: the first message not there or not valid.         *)
StopsAt(prog) ==
    CHOOSE s \in expected_msg_seq .. LastSeq + 1 :
        ~Consumed(prog, s) /\ \A r \in expected_msg_seq .. s - 1 : Consumed(prog, r)

(* Mutant: a message that fails validation leaves the queue advanced.      *)
HeadAfter_no_rewind(prog, s) == IF Ready(prog, s) = {} THEN s ELSE s + 1

(* The head once the loop stopped at s (rewind_expected_msg_seq).          *)
HeadAfter(prog, s) == s

(* Mutant: candidates below the new head stay in the map.                  *)
Kept_stale(prog, s) == prog

(* What is left of the map (drop_stale_candidates): a message taken out    *)
(* and rejected has moved the head past every claim at its number.         *)
Kept(prog, s) ==
    Restrict(prog, {k \in DOMAIN prog : k[1] > s \/ (k[1] = s /\ Ready(prog, s) = {})})

(* One record with one fragment of the candidate k: the whole of           *)
(* process_handshake_record.                                               *)
Feed(k, units, content) ==
    LET prog == WithFragment(k, units, content)
        stop == StopsAt(prog)
    IN  /\ Admits(k)
        /\ Agrees(k, units, content)
        /\ expected_msg_seq' = HeadAfter(prog, stop)
        /\ in_progress' = Kept(prog, stop)
        /\ dispatched' = dispatched \o [i \in 1 .. stop - expected_msg_seq |-> expected_msg_seq + i - 1]
        /\ progressed' = (progressed \/ ~(units \subseteq DOMAIN Stored(k)))
        /\ UNCHANGED stalled_fires

-----------------------------------------------------------------------------
Init ==
    /\ expected_msg_seq = 0
    /\ in_progress = [k \in {} |-> Empty]
    /\ progressed = FALSE
    /\ stalled_fires = 0
    /\ dispatched = << >>
    /\ spoofs = 0

(* A fragment of a genuine message arrives, first or again. *)
FeedGenuine(s, u) == Feed(<<s, Genuine>>, {u}, "good") /\ UNCHANGED spoofs

(* A spoofed fragment arrives, under any claim. *)
FeedSpoofed(s, claim, u) ==
    /\ spoofs < SpoofBudget
    /\ spoofs' = spoofs + 1
    /\ Feed(<<s, claim>>, {u}, "bad")

(* Mutant: a stalled map is never cleared.                                 *)
clear_if_stalled_never ==
    /\ progressed' = FALSE
    /\ stalled_fires' = IF progressed THEN 0 ELSE STALLED_FIRES_TO_CLEAR
    /\ UNCHANGED <<expected_msg_seq, in_progress, dispatched, spoofs>>

(* Reassembler::clear_if_stalled, called when the retransmission timer     *)
(* fires during the handshake.                                             *)
clear_if_stalled ==
    /\ progressed' = FALSE
    /\ IF progressed
       THEN stalled_fires' = 0 /\ UNCHANGED in_progress
       ELSE IF stalled_fires + 1 >= STALLED_FIRES_TO_CLEAR
            THEN stalled_fires' = 0 /\ in_progress' = [k \in {} |-> Empty]
            ELSE stalled_fires' = stalled_fires + 1 /\ UNCHANGED in_progress
    /\ UNCHANGED <<expected_msg_seq, dispatched, spoofs>>

Next ==
    \/ \E s \in 0 .. LastSeq, u \in Units(Genuine) : FeedGenuine(s, u)
    \/ \E k \in Keys : \E u \in Units(k[2]) : FeedSpoofed(k[1], k[2], u)
    \/ clear_if_stalled

(* A genuine fragment that completes the head arrives.                     *)
CompleteHead ==
    \E u \in Units(Genuine) :
        FeedGenuine(expected_msg_seq, u) /\ expected_msg_seq' > expected_msg_seq

(* The caller drives the timer; the peer retransmits its flight until it   *)
(* is answered, and the network does not lose a fragment for ever, nor     *)
(* always the one that is missing.                                         *)
Fairness ==
    /\ WF_vars(clear_if_stalled)
    /\ \A s \in 0 .. LastSeq, u \in Units(Genuine) : WF_vars(FeedGenuine(s, u))
    /\ SF_vars(CompleteHead)

Spec == Init /\ [][Next]_vars /\ Fairness

-----------------------------------------------------------------------------
(* The valid messages are dispatched in message_seq order, each exactly    *)
(* once, and the queue stands right behind the last one: neither a         *)
(* reordered fragment nor a rejected message, advanced past and rewound,   *)
(* skips or repeats one.                                                   *)
InOrderOnce == dispatched = [i \in 1 .. expected_msg_seq |-> i - 1]

(* The memory budget holds whatever arrives (Reassembler.max_in_progress), *)
(* and is spent on what still waits for something: no candidate is below   *)
(* the head, where it would hold its share for ever                        *)
(* (drop_stale_candidates), none is too far ahead, and no complete one is  *)
(* left at the head, so the message feed completes is the only one it can  *)
(* dispatch.                                                               *)
BudgetKept ==
    /\ Cardinality(DOMAIN in_progress) <= max_in_progress
    /\ \A k \in DOMAIN in_progress :
          k[1] \in expected_msg_seq .. expected_msg_seq + MAX_SEQ_AHEAD - 1
    /\ Ready(in_progress, expected_msg_seq) = {}

(* Bytes once received are never replaced while their candidate lives: a   *)
(* conflicting fragment is dropped whole (feed, overlap-conflict scan).    *)
ReceivedBytesStay ==
    [][\A k \in DOMAIN in_progress \cap DOMAIN in_progress' :
        \A u \in DOMAIN in_progress[k] :
            u \in DOMAIN in_progress'[k] => in_progress'[k][u] = in_progress[k][u]]_vars

(* Spoofed fragments can delay the flight but not stop it: once they       *)
(* cease, two stalled timer fires clear what they left, and the            *)
(* retransmitted flight is dispatched to the end (clear_if_stalled, rewind,*)
(* head-of-queue eviction).                                                *)
FlightDelivered == <>(expected_msg_seq = LastSeq + 1)

=============================================================================
