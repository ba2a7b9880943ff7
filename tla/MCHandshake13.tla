--------------------------- MODULE MCHandshake13 ---------------------------
(***************************************************************************)
(* The configurations the handshake is checked in: between them every      *)
(* message, every pause and every way of retrying occurs.                  *)
(***************************************************************************)
EXTENDS Handshake13

Plain ==
    [require_cookie |-> FALSE, group_change |-> FALSE, psk |-> "none",
     client_auth |-> FALSE, client_key |-> "none", server_key |-> "inline",
     tickets |-> FALSE, coalescing |-> TRUE, closers |-> {}]

(* A resumption from another address, one record to a datagram.            *)
Resumed ==
    [Plain EXCEPT !.require_cookie = TRUE, !.psk = "other", !.coalescing = FALSE,
                  !.closers = {"c"}]

(* A resumption that needs no cookie.                                      *)
SameAddress == [Plain EXCEPT !.require_cookie = TRUE, !.psk = "same", !.tickets = TRUE]

(* A client certificate whose key the caller holds.                        *)
MutualAuth ==
    [Plain EXCEPT !.client_auth = TRUE, !.client_key = "external", !.closers = {"c"}]

(* Another group, the server's key with the caller, no client certificate. *)
OtherGroup ==
    [Plain EXCEPT !.group_change = TRUE, !.client_auth = TRUE, !.server_key = "external",
                  !.tickets = TRUE, !.closers = {"c", "s"}]

(* A cookie and another group in one HelloRetryRequest.                    *)
CookieAndGroup == [Plain EXCEPT !.require_cookie = TRUE, !.group_change = TRUE]

Everyday == {Resumed, SameAddress, MutualAuth, OtherGroup, CookieAndGroup}

ClientSigner == {[MutualAuth EXCEPT !.closers = {}]}

=============================================================================
