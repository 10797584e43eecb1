--------------------------------- MODULE JsonRpc ---------------------------------
(***************************************************************************)
(* JSON-RPC requests are numbered by messageId, a counter that all of a    *)
(* process share.                                                          *)
(***************************************************************************)
EXTENDS Naturals, Sequences

CONSTANT MaxRequests   \* bound: requests that are made

ASSUME MaxRequestsAssumption == MaxRequests \in Nat

Requests == 1 .. MaxRequests
NoRequest == 0
=============================================================================
