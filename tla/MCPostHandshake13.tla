------------------------- MODULE MCPostHandshake13 -------------------------
(***************************************************************************)
(* The scenarios of two established DTLS 1.3 connections.                  *)
(***************************************************************************)
EXTENDS PostHandshake13

(* KeyUpdates of both sides cross; nothing else is sent.                   *)
CrossingUpdates ==
    [ticket |-> FALSE, updaters |-> Side, kinds |-> KeyUpdates, max_updates |-> 2,
     requesters |-> {}, max_requests |-> 0]

(* The server updates until the two epoch bits of its header have wrapped. *)
WrappingUpdates ==
    [ticket |-> FALSE, updaters |-> {"s"}, kinds |-> {"key_update"}, max_updates |-> 5,
     requesters |-> {}, max_requests |-> 0]

(* A ticket, updates of the server and requests of the client.             *)
Mixed ==
    [ticket |-> TRUE, updaters |-> {"s"}, kinds |-> KeyUpdates, max_updates |-> 2,
     requesters |-> {"c"}, max_requests |-> 2]

MCConfigs == {CrossingUpdates, WrappingUpdates, Mixed}

=============================================================================
