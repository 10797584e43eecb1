------------------------------- MODULE Middleware -------------------------------
(***************************************************************************)
(* The middlewares an application registers (caver.use) and the chain of   *)
(* them that an outgoing request passes.  A middleware that has been       *)
(* handed a request may call next or bypass, at once or later, once, many  *)
(* times or never.                                                         *)
(***************************************************************************)
EXTENDS JsonRpc, SequencesExt

CONSTANTS
  Middlewares,   \* the functions that may be registered
  SendRpc        \* the last function of a chain: it sends to the provider

ASSUME SendRpcAssumption == SendRpc \notin Middlewares

VARIABLES
  registered,    \* the list of the singleton
  list,          \* of a request: the functions that have yet to be called
  handed         \* of a request: the middlewares that can call next or bypass

middlewareVars == <<registered, list, handed>>

MiddlewareTypeOK ==
  /\ registered \in Seq(Middlewares)
  /\ list \in [Requests -> Seq(Middlewares \union {SendRpc})]
  /\ handed \in [Requests -> SUBSET Middlewares]

MiddlewareInit ==
  /\ registered = <<>>
  /\ list = [r \in Requests |-> <<>>]
  /\ handed = [r \in Requests |-> {}]

(* registerMiddleware *)
RegisterMiddleware(m) ==
  /\ m \notin ToSet(registered)
  /\ registered' = Append(registered, m)
  /\ UNCHANGED <<list, handed>>

(* The requests R set out: each is handed to the first middleware. *)
ApplyMiddleware(R) ==
  /\ list' = [r \in Requests |->
                IF r \in R THEN Append(Tail(registered), SendRpc) ELSE list[r]]
  /\ handed' = [r \in Requests |->
                  IF r \in R THEN {Head(registered)} ELSE handed[r]]
  /\ UNCHANGED registered

(* A call of next that reaches a further middleware. *)
NextMiddleware(r) ==
  /\ handed[r] # {} /\ list[r] # <<>> /\ Head(list[r]) # SendRpc
  /\ list' = [list EXCEPT ![r] = Tail(@)]
  /\ handed' = [handed EXCEPT ![r] = @ \union {Head(list[r])}]
  /\ UNCHANGED registered

(* One that reaches the last function of the chain. *)
NextSends(r) ==
  /\ handed[r] # {} /\ list[r] # <<>> /\ Head(list[r]) = SendRpc
  /\ list' = [list EXCEPT ![r] = Tail(@)]
  /\ UNCHANGED <<registered, handed>>

(* bypass leaves the last function only and calls it.  With none left it   *)
(* throws, and next does nothing.                                          *)
Bypass_keepingList(r) ==
  /\ handed[r] # {} /\ list[r] # <<>>
  /\ UNCHANGED middlewareVars
Bypass(r) ==
  /\ handed[r] # {} /\ list[r] # <<>>
  /\ list' = [list EXCEPT ![r] = <<>>]
  /\ UNCHANGED <<registered, handed>>
=============================================================================
