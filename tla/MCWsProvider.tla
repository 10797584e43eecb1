---------------------------- MODULE MCWsProvider ----------------------------
(***************************************************************************)
(* WsProvider on small instances.                                          *)
(***************************************************************************)
EXTENDS WsProvider, TLC

CONSTANTS r1, r2, r3, s1, s2

TwoRequests == {r1, r2}
ThreeRequests == {r1, r2, r3}
OneUnserializable == {r3}
TwoSockets == {s1, s2}

NoCalls == {}
NoRequests == {}
Disconnects == {"disconnect"}
Reconnects == {"reconnect"}
AllCalls == {"reconnect", "disconnect", "reset", "setProvider"}

(* Sockets are interchangeable, and so are the serializable requests. *)
Symmetry == Permutations({r1, r2}) \union Permutations({s1, s2})
=============================================================================
