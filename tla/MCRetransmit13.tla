--------------------------- MODULE MCRetransmit13 ---------------------------
(***************************************************************************)
(* A small instance of Retransmit13: one plaintext and one protected       *)
(* record.  With timeouts 1, 2, 4 and a cap of 6 the cap is first reached  *)
(* after the last retransmission, as in the code (1 .. 32 s, capped at 60).*)
(***************************************************************************)
EXTENDS Retransmit13, TLC

CONSTANTS hello, finished

MCRecords == {hello, finished}
MCEpochOf == (hello :> 0) @@ (finished :> 2)

=============================================================================
