----------------------------- MODULE WsProvider -----------------------------
(***************************************************************************)
(* The WebSocket provider: its two request queues, its reconnection timer, *)
(* its de-chunker and the sockets it has opened.  A provider replaces its  *)
(* socket whenever it reconnects, but the listeners of the old socket stay *)
(* attached: `_removeSocketListeners` removes the prototype's methods and  *)
(* `_addSocketListeners` added bound copies of them.  The model therefore  *)
(* keeps all sockets, each with the number of listener sets attached.      *)
(*                                                                         *)
(* An operator X_mistake is X with a mistake in it.  Next does not use it; *)
(* it shows which property would catch the mistake.                        *)
(***************************************************************************)
EXTENDS Naturals, FiniteSets

CONSTANTS
  Requests,         \* ids of the payloads given to send
  Unserializable,   \* the requests whose payload JSON.stringify refuses
  Sockets,          \* socket slots; a slot is reused once it is CLOSED
  AutoReconnect,    \* reconnectOptions.auto
  OnTimeout,        \* reconnectOptions.onTimeout
  MaxAttempts,      \* reconnectOptions.maxAttempts; 0 stands for `false`
  AppCalls,         \* the calls of "reconnect", "disconnect", "reset" and
                    \* "setProvider" that the application makes
  Chunking,         \* may a response arrive in two messages?
  NoChunk, Garbage, \* lastChunk: null, and text that can never be parsed
  MaxTimers,        \* bound: reconnect timers pending at a time
  MaxListeners,     \* bound: listener sets that resets pile on a socket
  AttemptBound      \* bound: reconnectAttempts when it is not limited

ASSUME WsAssumption ==
  /\ Unserializable \subseteq Requests
  /\ AutoReconnect \in BOOLEAN /\ OnTimeout \in BOOLEAN /\ Chunking \in BOOLEAN
  /\ MaxAttempts \in Nat
  /\ NoChunk \notin Requests /\ Garbage \notin Requests /\ NoChunk # Garbage

VARIABLES
  readyState,        \* readyState[s] of every socket
  listeners,         \* listeners[s]: listener sets attached to socket s
  connection,        \* this.connection
  requestQueue,      \* keys of this.requestQueue
  responseQueue,     \* keys of this.responseQueue
  reconnecting,      \* this.reconnecting
  reconnectAttempts, \* this.reconnectAttempts
  timers,            \* pending setTimeout calls of reconnect
  lastChunk,         \* NoChunk, the request whose first half it is, or Garbage
  chunkTimer,        \* is this.lastChunkTimeout armed?
  server,            \* what the node has done about each request
  carrier,           \* the socket that carries the request
  issued,            \* history: the requests given to send
  calls,             \* history: how often each callback has been called
  cleared,           \* history: the requests thrown away by reset
  listening          \* does RequestManager still listen to `data` events?

socketVars == <<readyState, listeners, connection>>
reconnectVars == <<reconnecting, reconnectAttempts, timers>>
chunkVars == <<lastChunk, chunkTimer>>
serverVars == <<server, carrier>>
vars == <<readyState, listeners, connection, requestQueue, responseQueue,
          reconnecting, reconnectAttempts, timers, lastChunk, chunkTimer,
          server, carrier, issued, calls, cleared, listening>>

(* "ABORTING" is readyState CLOSING of a socket closed before it opened: it *)
(* never closes cleanly.  A CLOSED socket has fired its close event.        *)
ReadyStates == {"CONNECTING", "OPEN", "ABORTING", "CLOSING", "CLOSED"}

(* "sent": the node has the request; "half": it has sent half the response. *)
ServerStates == {"none", "sent", "half", "done"}

TypeOK ==
  /\ readyState \in [Sockets -> ReadyStates]
  /\ listeners \in [Sockets -> Nat]
  /\ connection \in Sockets
  /\ requestQueue \subseteq Requests
  /\ responseQueue \subseteq Requests
  /\ reconnecting \in BOOLEAN
  /\ reconnectAttempts \in Nat
  /\ timers \in Nat
  /\ lastChunk \in Requests \union {NoChunk, Garbage}
  /\ chunkTimer \in BOOLEAN
  /\ server \in [Requests -> ServerStates]
  /\ carrier \in [Requests -> Sockets]
  /\ issued \subseteq Requests
  /\ calls \in [Requests -> Nat]
  /\ cleared \subseteq Requests
  /\ listening \in BOOLEAN

(* The constructor's call of connect. *)
Init ==
  \E s \in Sockets :
    /\ connection = s
    /\ readyState = [t \in Sockets |-> IF t = s THEN "CONNECTING" ELSE "CLOSED"]
    /\ listeners = [t \in Sockets |-> IF t = s THEN 1 ELSE 0]
    /\ requestQueue = {} /\ responseQueue = {}
    /\ reconnecting = FALSE /\ reconnectAttempts = 0 /\ timers = 0
    /\ lastChunk = NoChunk /\ chunkTimer = FALSE
    /\ server = [r \in Requests |-> "none"]
    /\ carrier = [r \in Requests |-> s]
    /\ issued = {} /\ calls = [r \in Requests |-> 0] /\ cleared = {}
    /\ listening = TRUE

-----------------------------------------------------------------------------
(* Call the callbacks of the requests in S, then of those in T. *)
CallBack(S, T) ==
  calls' = [r \in Requests |-> calls[r] + (IF r \in S THEN 1 ELSE 0)
                                        + (IF r \in T THEN 1 ELSE 0)]

(* Hand the requests of S to the open socket this.connection: an           *)
(* unserializable payload makes connection.send throw and is answered with *)
(* the error, the others wait in responseQueue for their response.         *)
Transmit(S) ==
  /\ responseQueue' = (responseQueue \union S) \ (S \intersect Unserializable)
  /\ server' = [r \in Requests |->
                  IF r \in S \ Unserializable THEN "sent" ELSE server[r]]
  /\ carrier' = [r \in Requests |->
                  IF r \in S \ Unserializable THEN connection ELSE carrier[r]]
  /\ CallBack(S \intersect Unserializable, {})

Connecting == readyState[connection] = "CONNECTING"

(* send(payload, callback) *)
Send(r) ==
  /\ r \notin issued
  /\ issued' = issued \union {r}
  /\ \/ /\ Connecting \/ reconnecting
        /\ requestQueue' = requestQueue \union {r}
        /\ UNCHANGED <<responseQueue, serverVars, calls>>
     \/ /\ ~(Connecting \/ reconnecting)
        /\ requestQueue' = requestQueue \ {r}
        /\ \/ /\ readyState[connection] # "OPEN"
              /\ CallBack({r}, {})
              /\ UNCHANGED <<responseQueue, serverVars>>
           \/ /\ readyState[connection] = "OPEN"
              /\ Transmit({r})
  /\ UNCHANGED <<socketVars, reconnectVars, chunkVars, cleared, listening>>

(* The connection is there again. *)
Connected_stillReconnecting ==
  reconnectAttempts' = 0 /\ UNCHANGED reconnecting
Connected_countingDown ==
  reconnectAttempts' = reconnectAttempts - 1 /\ reconnecting' = FALSE
Connected ==
  reconnectAttempts' = 0 /\ reconnecting' = FALSE

(* _onConnect, run by the open event of socket s, which need not be the    *)
(* current connection.  Every queued request goes through send again and   *)
(* is then deleted from requestQueue, also when send has just put it back. *)
OnConnect(s) ==
  /\ readyState[s] = "CONNECTING"
  /\ readyState' = [readyState EXCEPT ![s] = "OPEN"]
  /\ Connected
  /\ requestQueue' = {}
  /\ \/ /\ readyState'[connection] = "CONNECTING"
        /\ UNCHANGED <<responseQueue, serverVars, calls>>
     \/ /\ readyState'[connection] \notin {"CONNECTING", "OPEN"}
        /\ CallBack(requestQueue, {})
        /\ UNCHANGED <<responseQueue, serverVars>>
     \/ /\ readyState'[connection] = "OPEN"
        /\ Transmit(requestQueue)
  /\ UNCHANGED <<listeners, connection, timers, chunkVars, issued, cleared,
                 listening>>

-----------------------------------------------------------------------------
(* reconnect(), called n times in a row: the pending requests fail, then   *)
(* each call sets a timer of its own unless the attempts are used up.      *)
AttemptsLeft == MaxAttempts = 0 \/ reconnectAttempts < MaxAttempts

Schedule(n) ==
  /\ timers + n <= MaxTimers
  /\ timers' = timers + n
  /\ reconnecting' = TRUE
  /\ CallBack(responseQueue, {})
  /\ UNCHANGED requestQueue

GiveUp_silently ==
  /\ reconnecting' = FALSE
  /\ requestQueue' = {}
  /\ CallBack(responseQueue, {})
  /\ UNCHANGED timers

GiveUp_stillReconnecting ==
  /\ reconnecting' = TRUE
  /\ CallBack(responseQueue, {})
  /\ UNCHANGED <<timers, requestQueue>>

GiveUp ==
  /\ reconnecting' = FALSE
  /\ requestQueue' = {}
  /\ CallBack(responseQueue, requestQueue)
  /\ UNCHANGED timers

Reconnect_keepingPending(n) ==
  /\ UNCHANGED <<responseQueue, reconnectAttempts>>
  /\ \/ AttemptsLeft /\ Schedule(n)
     \/ ~AttemptsLeft /\ GiveUp

Reconnect(n) ==
  /\ responseQueue' = {}
  /\ UNCHANGED reconnectAttempts
  /\ \/ AttemptsLeft /\ Schedule(n)
     \/ ~AttemptsLeft /\ GiveUp

(* The connection is lost: the node's answers on socket s are gone. *)
Forget(s) ==
  server' = [r \in Requests |->
               IF server[r] \in {"sent", "half"} /\ carrier[r] = s
               THEN "done" ELSE server[r]]

(* The two ways to take the loss of a connection. *)
ReconnectAfter_detached(s) == Reconnect(listeners[s]) /\ listening' = FALSE
ReconnectAfter(s) == Reconnect(listeners[s]) /\ UNCHANGED listening

CloseForGood ==
  /\ requestQueue' = {} /\ responseQueue' = {}
  /\ CallBack(requestQueue, responseQueue)
  /\ listening' = FALSE
  /\ UNCHANGED reconnectVars

(* _onClose, run once per listener set of the socket that closes.  `clean` *)
(* is a close with code 1000 or 1001 and wasClean.                         *)
OnClose(s, clean) ==
  /\ readyState[s] # "CLOSED"
  /\ clean => readyState[s] \in {"OPEN", "CLOSING"}
  /\ readyState' = [readyState EXCEPT ![s] = "CLOSED"]
  /\ listeners' = [listeners EXCEPT ![s] = 0]
  /\ Forget(s)
  /\ \/ AutoReconnect /\ ~clean /\ ReconnectAfter(s)
     \/ ~(AutoReconnect /\ ~clean) /\ CloseForGood
  /\ UNCHANGED <<connection, carrier, chunkVars, issued, cleared>>

(* The timer set by reconnect: connect() makes a new socket and leaves the *)
(* old one as it is, open or not, with its listeners.                      *)
ReconnectTimer ==
  /\ timers > 0
  /\ reconnectAttempts < AttemptBound
  /\ timers' = timers - 1
  /\ reconnectAttempts' = reconnectAttempts + 1
  /\ \E s \in Sockets :
       /\ readyState[s] = "CLOSED"
       /\ connection' = s
       /\ readyState' = [readyState EXCEPT ![s] = "CONNECTING"]
       /\ listeners' = [listeners EXCEPT ![s] = 1]
  /\ UNCHANGED <<requestQueue, responseQueue, reconnecting, chunkVars,
                 serverVars, issued, calls, cleared, listening>>

-----------------------------------------------------------------------------
(* _onMessage and _parseResponse.  Every listener set parses the message   *)
(* again, with the lastChunk that the set before it has left behind.  A    *)
(* text that cannot be parsed becomes (part of) lastChunk and arms the     *)
(* timeout; a text that can be parsed resets both.                         *)
Parsed(chunk) ==
  /\ lastChunk' = chunk
  /\ chunkTimer' = (chunk # NoChunk)

(* The response to r is complete: its callback is called if it is pending. *)
Respond_keepingPending(r) ==
  /\ CallBack({r} \intersect responseQueue, {})
  /\ UNCHANGED responseQueue

Respond(r) ==
  /\ CallBack({r} \intersect responseQueue, {})
  /\ responseQueue' = responseQueue \ {r}

Receiving(s) == readyState[s] \in {"OPEN", "CLOSING"}

(* No other response is half sent on socket s. *)
Frameable(s) == \A q \in Requests : carrier[q] = s => server[q] # "half"

(* A message with the whole response to r. *)
OnWhole(r) ==
  /\ server[r] = "sent" /\ Receiving(carrier[r]) /\ Frameable(carrier[r])
  /\ server' = [server EXCEPT ![r] = "done"]
  /\ \/ /\ lastChunk = NoChunk
        /\ Parsed(NoChunk)
        /\ Respond(r)
     \/ /\ lastChunk # NoChunk
        /\ Parsed(Garbage)
        /\ UNCHANGED <<responseQueue, calls>>
  /\ UNCHANGED <<socketVars, requestQueue, reconnectVars, carrier, issued,
                 cleared, listening>>

(* A message with the first half of the response to r. *)
OnFirstHalf(r) ==
  /\ Chunking
  /\ server[r] = "sent" /\ Receiving(carrier[r]) /\ Frameable(carrier[r])
  /\ server' = [server EXCEPT ![r] = "half"]
  /\ Parsed(IF lastChunk = NoChunk /\ listeners[carrier[r]] = 1
            THEN r ELSE Garbage)
  /\ UNCHANGED <<socketVars, requestQueue, responseQueue, reconnectVars,
                 carrier, issued, calls, cleared, listening>>

(* A message with the second half of the response to r. *)
OnSecondHalf(r) ==
  /\ server[r] = "half" /\ Receiving(carrier[r])
  /\ server' = [server EXCEPT ![r] = "done"]
  /\ \/ /\ lastChunk = r
        /\ Parsed(IF listeners[carrier[r]] = 1 THEN NoChunk ELSE Garbage)
        /\ Respond(r)
     \/ /\ lastChunk # r
        /\ Parsed(Garbage)
        /\ UNCHANGED <<responseQueue, calls>>
  /\ UNCHANGED <<socketVars, requestQueue, reconnectVars, carrier, issued,
                 cleared, listening>>

(* A message with a subscription notification: a `data` event if it can be *)
(* parsed, which leaves the provider as it is.                             *)
OnNotification(s) ==
  /\ Receiving(s) /\ Frameable(s)
  /\ Parsed(IF lastChunk = NoChunk THEN NoChunk ELSE Garbage)
  /\ UNCHANGED <<socketVars, requestQueue, responseQueue, reconnectVars,
                 serverVars, issued, calls, cleared, listening>>

(* The timeout of an incomplete message. *)
ChunkTimeout ==
  /\ chunkTimer
  /\ chunkTimer' = FALSE
  /\ \/ /\ AutoReconnect /\ OnTimeout
        /\ Reconnect(1)
     \/ /\ ~(AutoReconnect /\ OnTimeout)
        /\ CallBack(requestQueue, {})
        /\ requestQueue' = {}
        /\ UNCHANGED <<responseQueue, reconnectVars>>
  /\ UNCHANGED <<socketVars, lastChunk, serverVars, issued, cleared, listening>>

-----------------------------------------------------------------------------
(* The application, or a Subscription, calls reconnect(). *)
AppReconnect ==
  /\ "reconnect" \in AppCalls
  /\ Reconnect(1)
  /\ UNCHANGED <<socketVars, chunkVars, serverVars, issued, cleared, listening>>

(* reset(): both queues are cleared, the listeners of the provider are      *)
(* removed and one more listener set is put on the socket.  It is called by *)
(* RequestManager.clearSubscriptions and, before a listener is added again, *)
(* by RequestManager.setProvider.                                           *)
Reset ==
  /\ \/ "reset" \in AppCalls /\ listening' = FALSE
     \/ "setProvider" \in AppCalls /\ listening' = TRUE
  /\ listeners[connection] < MaxListeners
  /\ cleared' = cleared \union requestQueue \union responseQueue
  /\ requestQueue' = {} /\ responseQueue' = {}
  /\ listeners' = [listeners EXCEPT ![connection] = @ + 1]
  /\ UNCHANGED <<readyState, connection, reconnectVars, chunkVars, serverVars,
                 issued, calls>>

(* disconnect(): closes the socket; its listeners stay, a reconnect timer  *)
(* that is already running is not stopped.                                 *)
Disconnect ==
  /\ "disconnect" \in AppCalls
  /\ \E closing \in [CONNECTING : {"ABORTING"}, OPEN : {"CLOSING"}] :
       /\ readyState[connection] \in DOMAIN closing
       /\ readyState' = [readyState EXCEPT ![connection] = closing[@]]
  /\ UNCHANGED <<listeners, connection, requestQueue, responseQueue,
                 reconnectVars, chunkVars, serverVars, issued, calls, cleared,
                 listening>>

-----------------------------------------------------------------------------
Next ==
  \/ \E r \in Requests :
       Send(r) \/ OnWhole(r) \/ OnFirstHalf(r) \/ OnSecondHalf(r)
  \/ \E s \in Sockets : OnConnect(s) \/ OnNotification(s)
  \/ \E s \in Sockets, clean \in BOOLEAN : OnClose(s, clean)
  \/ ReconnectTimer \/ ChunkTimeout
  \/ AppReconnect \/ Reset \/ Disconnect

Spec == Init /\ [][Next]_vars

(* A socket that is connecting or closing does not stay so. *)
Settle(s) ==
  /\ readyState[s] # "OPEN"
  /\ OnConnect(s) \/ \E clean \in BOOLEAN : OnClose(s, clean)

(* The node answers what it has been asked, as long as the socket lives. *)
NodeAnswers(r) == OnWhole(r) \/ OnFirstHalf(r) \/ OnSecondHalf(r)

(* Timers fire, sockets settle and the node answers.  Nothing is assumed   *)
(* of the application, and nothing keeps a connection from being lost.     *)
Fairness ==
  /\ WF_vars(ReconnectTimer) /\ WF_vars(ChunkTimeout)
  /\ \A s \in Sockets : WF_vars(Settle(s))
  /\ \A r \in Requests : WF_vars(NodeAnswers(r))

LiveSpec == Spec /\ Fairness

-----------------------------------------------------------------------------
(* Safety. *)

(* The requests that the provider holds. *)
Queued == requestQueue \union responseQueue

(* send's callback is called at most once, whatever reconnects, closes,    *)
(* time-outs and late responses do with the request in between.            *)
AnsweredAtMostOnce == \A r \in Requests : calls[r] <= 1

(* A request waits in one queue at most, and only while it is unanswered:  *)
(* nothing that leaves a queue by a callback or a reset can come back.     *)
QueuesHoldUnanswered ==
  /\ requestQueue \intersect responseQueue = {}
  /\ \A r \in Queued :
       r \in issued \ cleared /\ calls[r] = 0

(* A request waits for a response only on a socket that has not fired its  *)
(* close event: there is always an event to come that calls its callback.  *)
PendingHasCarrier ==
  \A r \in responseQueue : readyState[carrier[r]] \in {"OPEN", "CLOSING"}

(* A request that was sent and has neither been answered nor thrown away   *)
(* by reset is in one of the queues.                                       *)
NoRequestLost ==
  \A r \in issued \ cleared :
    calls[r] = 0 => r \in Queued

(* send queues a request only for a connection that is on its way: a timer *)
(* is running or the current socket has yet to open or to fail.            *)
QueuedOnlyWhileConnecting ==
  requestQueue # {} => \/ timers > 0
                       \/ readyState[connection] \in {"CONNECTING", "ABORTING"}

(* While the current socket is open, notifications still reach the         *)
(* RequestManager that attached itself when the provider was set.          *)
NotificationsReachApp == readyState[connection] = "OPEN" => listening

(* The time-out of an incomplete message calls back every waiting request. *)
ChunkTimeoutCancelsAll ==
  [][chunkTimer /\ ~chunkTimer' /\ lastChunk' # NoChunk
       => \A r \in Queued : calls'[r] > calls[r]]_vars

-----------------------------------------------------------------------------
(* The provider as a channel: the abstract status of each request. *)
ChannelStatus ==
  [r \in Requests |->
     IF r \notin issued THEN "idle"
     ELSE IF r \in Queued THEN "pending"
     ELSE IF calls[r] = 0 THEN "dropped"
     ELSE IF calls[r] = 1 THEN "answered" ELSE "answered again"]

DroppingChannel ==
  INSTANCE RpcChannel WITH status <- ChannelStatus, MayDrop <- TRUE
KeepingChannel ==
  INSTANCE RpcChannel WITH status <- ChannelStatus, MayDrop <- FALSE

(* Every behaviour of the provider is one of a channel that may drop. *)
ImplementsChannel == DroppingChannel!Spec

(* Under fairness it is one of the channel that answers every request. *)
ImplementsLiveChannel == KeepingChannel!LiveSpec

(* Every request that is sent is answered, with a response or an error. *)
EveryRequestAnswered ==
  \A r \in Requests : r \in issued ~> calls[r] > 0
=============================================================================
