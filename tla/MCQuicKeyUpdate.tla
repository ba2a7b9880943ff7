-------------------------- MODULE MCQuicKeyUpdate ---------------------------
(* The client can wear out a key that is not replaced in time.             *)
EXTENDS QuicKeyUpdate

MCMaxPn == [e \in Endpoints |-> IF e = "c" THEN 5 ELSE 4]

=============================================================================
