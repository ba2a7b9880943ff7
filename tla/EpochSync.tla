----------------------------- MODULE EpochSync -----------------------------
(***************************************************************************)
(* What a KeyUpdate promises for one direction of a DTLS 1.3 connection    *)
(* (dtls/epoch13.rs, module documentation): the writer announces the next  *)
(* epoch, the reader installs it and keeps the previous one, and only then *)
(* does the writer move, so that "only one epoch transition is ever in     *)
(* progress per direction".                                                *)
(***************************************************************************)
EXTENDS Naturals

First == 3   \* the first application epoch

VARIABLES
    writer,    \* the epoch records are written under
    reader,    \* the newest epoch the peer can read
    previous,  \* the one before it while the peer can still read it, or 0
    pending,   \* a KeyUpdate is waiting for its ACK
    spent,     \* it has been sent for the last time
    closed     \* the writer gave up on it

vars == <<writer, reader, previous, pending, spent, closed>>

Init ==
    /\ writer = First
    /\ reader = First
    /\ previous = First - 1
    /\ pending = FALSE
    /\ spent = FALSE
    /\ closed = FALSE

Announce ==
    /\ ~pending
    /\ pending' = TRUE
    /\ UNCHANGED <<writer, reader, previous, spent, closed>>

Install ==
    /\ pending
    /\ reader = writer
    /\ reader' = reader + 1
    /\ previous' = reader
    /\ UNCHANGED <<writer, pending, spent, closed>>

Move ==
    /\ pending
    /\ ~closed
    /\ reader = writer + 1
    /\ writer' = reader
    /\ pending' = FALSE
    /\ spent' = FALSE
    /\ UNCHANGED <<reader, previous, closed>>

(* The writer repeats its KeyUpdate for the last time.                     *)
Exhaust ==
    /\ pending
    /\ spent' = TRUE
    /\ UNCHANGED <<writer, reader, previous, pending, closed>>

(* Still unacknowledged, it gives the connection up.                       *)
Close ==
    /\ pending /\ spent
    /\ closed' = TRUE
    /\ UNCHANGED <<writer, reader, previous, pending, spent>>

(* The previous epoch is forgotten, not while a KeyUpdate written under it *)
(* may still be repeated.                                                  *)
Forget ==
    /\ previous # 0
    /\ previous # writer \/ spent
    /\ previous' = 0
    /\ UNCHANGED <<writer, reader, pending, spent, closed>>

Next == Announce \/ Install \/ Move \/ Exhaust \/ Close \/ Forget

Spec == Init /\ [][Next]_vars

(* What the writer sends can be read, at every moment of an update that    *)
(* still has a repetition to go.                                           *)
Readable == ~spent => writer \in {reader, previous}

=============================================================================
