------------------------------ MODULE HttpProvider ------------------------------
(***************************************************************************)
(* The HTTP provider: every request is a fetch with a timer of its own,    *)
(* but there is one field for the timer that an answer clears.             *)
(***************************************************************************)
EXTENDS JsonRpc

CONSTANT HasTimeout   \* whether the provider was created with a time-out

ASSUME HasTimeoutAssumption == HasTimeout \in BOOLEAN

VARIABLES
  fetching,      \* where the fetch of a request is
  timers,        \* requests whose timer is running
  timeoutId      \* the request whose timer the provider remembers

httpVars == <<fetching, timers, timeoutId>>

HttpTypeOK ==
  /\ fetching \in [Requests -> {"no", "request", "body", "done"}]
  /\ timers \subseteq Requests
  /\ timeoutId \in Requests \union {NoRequest}

HttpInit ==
  /\ fetching = [r \in Requests |-> "no"]
  /\ timers = {}
  /\ timeoutId = NoRequest

(* send *)
HttpSend(r) ==
  /\ fetching' = [fetching EXCEPT ![r] = "request"]
  /\ timers' = IF HasTimeout THEN timers \union {r} ELSE timers
  /\ timeoutId' = IF HasTimeout THEN r ELSE timeoutId

(* success: the head of the answer is there and the remembered timer is    *)
(* cleared, whosever it is.                                                *)
Success(r) ==
  /\ fetching[r] = "request"
  /\ fetching' = [fetching EXCEPT ![r] = "body"]
  /\ timers' = timers \ {timeoutId}
  /\ UNCHANGED timeoutId

(* The body has been read, or cannot be. *)
BodyEnds(r) ==
  /\ fetching[r] = "body"
  /\ fetching' = [fetching EXCEPT ![r] = "done"]
  /\ UNCHANGED <<timers, timeoutId>>

(* failed, when the connection fails. *)
Failed(r) ==
  /\ fetching[r] = "request"
  /\ fetching' = [fetching EXCEPT ![r] = "done"]
  /\ timers' = timers \ {timeoutId}
  /\ UNCHANGED timeoutId

(* The timer of r aborts its fetch: failed is called, which again clears   *)
(* the timer that is remembered; or the body cannot be read any more.      *)
Aborts(r) ==
  /\ r \in timers
  /\ fetching' = [fetching EXCEPT ![r] = "done"]
  /\ timers' = timers \ IF fetching[r] = "request" THEN {r, timeoutId} ELSE {r}
  /\ UNCHANGED timeoutId
=============================================================================
