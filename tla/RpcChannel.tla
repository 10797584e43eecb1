----------------------------- MODULE RpcChannel -----------------------------
(***************************************************************************)
(* What every caver-js provider promises to its caller: `send(payload,     *)
(* callback)` calls the callback of a request at most once, whatever the   *)
(* connection does, and, unless the provider is allowed to give up a       *)
(* request silently (MayDrop), sooner or later does call it.               *)
(***************************************************************************)
CONSTANTS
  Requests,   \* the ids of the JSON-RPC payloads
  MayDrop     \* may a pending request be forgotten without a call?

VARIABLE
  status      \* status[r]: how far the caller has got with request r

Statuses == {"idle", "pending", "answered", "dropped"}

TypeOK == status \in [Requests -> Statuses]

Init == status = [r \in Requests |-> "idle"]

(* A set of requests changes its status in one step: a provider that loses *)
(* its connection fails all the requests it holds in one turn.             *)
Move(S, from, to) ==
  /\ S # {}
  /\ \A r \in S : status[r] \in from
  /\ status' = [r \in Requests |-> IF r \in S THEN to ELSE status[r]]

(* The caller sends r and waits for its callback. *)
Issue(r) == Move({r}, {"idle"}, "pending")

(* The callbacks of S are called; a request may be refused while it is     *)
(* being sent, so it need not have been pending before the step.           *)
Answer(S) == Move(S, {"idle", "pending"}, "answered")

(* The requests of S are forgotten. *)
Drop(S) == MayDrop /\ Move(S, {"pending"}, "dropped")

Next ==
  \/ \E r \in Requests : Issue(r)
  \/ \E S \in SUBSET Requests : Answer(S) \/ Drop(S)

Spec == Init /\ [][Next]_status

AnswerPending(r) ==
  /\ status[r] = "pending"
  /\ \E S \in SUBSET Requests : r \in S /\ Answer(S)

(* The channel of a provider that also keeps every request alive. *)
LiveSpec == Spec /\ \A r \in Requests : WF_status(AnswerPending(r))

=============================================================================
