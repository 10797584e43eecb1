----------------------------- MODULE RequestManager -----------------------------
(***************************************************************************)
(* One RequestManager with its middlewares and its provider, HTTP or IPC,  *)
(* an application that calls the node, alone and in batches, and           *)
(* Subscription objects on top of it.  An application callback has no      *)
(* effect here but that it may throw.                                      *)
(***************************************************************************)
EXTENDS Middleware, HttpProvider, IpcProvider, FiniteSets, FiniteSetsExt

CONSTANTS
  Subscriptions,  \* Subscription objects
  Logs,           \* those of logs, which may ask for past logs, too
  Syncing,        \* those of syncing, which clearSubscriptions may keep
  NoSubscription,
  MaxMiddlewares  \* bound: middlewares for each kind of provider

ASSUME SubscriptionsAssumption ==
  /\ Logs \union Syncing \subseteq Subscriptions
  /\ NoSubscription \notin Subscriptions
  /\ MaxMiddlewares \in [{"http", "ipc"} -> Nat]

VARIABLES
  transport,      \* the kind of provider
  last,           \* messageId: requests are numbered
  request,        \* what each request is
  sent,           \* how often it was passed to the provider
  heard,          \* what its callback was called with
  subscriptions,  \* the table of the manager: the object behind an id
  id,             \* the id a Subscription object has
  hasty,          \* objects that were called while they waited for an id
  deaf            \* somebody reset the provider since setProvider

managerVars == <<transport, last, request, sent, heard, subscriptions, id, hasty,
                 deaf>>
vars == <<managerVars, middlewareVars, httpVars, ipcVars>>

Kinds == {"none", "call", "batch", "batched", "logs", "subscribe", "unsubscribe"}
Records == [what : Kinds, of : Subscriptions \union {NoSubscription},
            target : Ids \union {NoId}]
Request(what, of, target) == [what |-> what, of |-> of, target |-> target]
NotYet == Request("none", NoSubscription, NoId)

Outcomes == {"result", "ErrorResponse", "InvalidResponse", "InvalidConnection",
             "ConnectionTimeout"}

(* Those of an answer whose body was read. *)
Answered == {"result", "ErrorResponse", "InvalidResponse"}

ManagerTypeOK ==
  /\ transport \in {"http", "ipc"}
  /\ last \in {0} \union Requests
  /\ request \in [Requests -> Records]
  /\ sent \in [Requests -> Nat]
  /\ heard \in [Requests -> Seq(Outcomes)]
  /\ subscriptions \in [Ids -> Subscriptions \union {NoSubscription}]
  /\ id \in [Subscriptions -> Ids \union {NoId}]
  /\ hasty \subseteq Subscriptions /\ deaf \in BOOLEAN

TypeOK == MiddlewareTypeOK /\ HttpTypeOK /\ IpcTypeOK /\ ManagerTypeOK

Init ==
  /\ MiddlewareInit /\ HttpInit /\ IpcInit
  /\ transport \in {"http", "ipc"}
  /\ last = 0
  /\ request = [r \in Requests |-> NotYet]
  /\ sent = [r \in Requests |-> 0]
  /\ heard = [r \in Requests |-> <<>>]
  /\ subscriptions = [i \in Ids |-> NoSubscription]
  /\ id = [s \in Subscriptions |-> NoId]
  /\ hasty = {} /\ deaf = FALSE

-----------------------------------------------------------------------------
(* Requests. *)

(* The requests that share the callback of r: those of a batch. *)
Payload(r) == IF request[r].what = "batch" THEN {r, r + 1} ELSE {r}

(* Batch.execute makes an InvalidResponse of every error of its request.   *)
Told(r, outcome) ==
  IF request[r].what \in {"batch", "batched"}
       /\ outcome \notin {"result", "ErrorResponse"}
  THEN "InvalidResponse" ELSE outcome

(* The callbacks of R are called with an outcome. *)
Hear(R, outcome) ==
  heard' = [r \in Requests |->
              IF \E c \in R : r \in Payload(c)
              THEN Append(heard[r], Told(r, outcome)) ELSE heard[r]]

(* Jsonrpc.toPayload numbers the new requests. *)
Numbered(new) == {last + i : i \in DOMAIN new}
Create(new) ==
  /\ Numbered(new) \subseteq Requests
  /\ last' = last + Len(new)
  /\ request' = [r \in Requests |->
                   IF r \in Numbered(new) THEN new[r - last] ELSE request[r]]

Counted(R) == sent' = [r \in Requests |-> IF r \in R THEN sent[r] + 1 ELSE sent[r]]

(* sendRPC *)
ToProvider(R) ==
  /\ Counted(R)
  /\ CASE transport = "ipc" -> IpcSend(R) /\ UNCHANGED httpVars
       [] transport = "http" -> (\E r \in R : HttpSend(r)) /\ UNCHANGED ipcVars

(* send: at once if there is no middleware. *)
Send(R) ==
  IF registered = <<>> \/ R = {}
  THEN ToProvider(R) /\ UNCHANGED middlewareVars
  ELSE ApplyMiddleware(R) /\ UNCHANGED <<sent, httpVars, ipcVars>>

Call ==
  /\ Create(<<Request("call", NoSubscription, NoId)>>)
  /\ Send({last + 1})
  /\ UNCHANGED <<transport, heard, subscriptions, id, hasty, deaf>>

(* Batch.execute and sendBatch, which passes no middleware. *)
ExecuteBatch ==
  /\ Create(<<Request("batch", NoSubscription, NoId),
              Request("batched", NoSubscription, NoId)>>)
  /\ ToProvider({last + 1})
  /\ UNCHANGED <<transport, heard, subscriptions, id, hasty, deaf, middlewareVars>>

(* Bound: middlewares are registered before the first request. *)
Use(m) ==
  /\ last = 0 /\ Len(registered) < MaxMiddlewares[transport]
  /\ RegisterMiddleware(m)
  /\ UNCHANGED <<managerVars, httpVars, ipcVars>>

MiddlewareStep(r) ==
  \/ /\ NextMiddleware(r)
     /\ UNCHANGED <<managerVars, httpVars, ipcVars>>
  \/ /\ NextSends(r) \/ Bypass(r)
     /\ ToProvider({r})
     /\ UNCHANGED <<transport, last, request, heard, subscriptions, id, hasty, deaf>>

-----------------------------------------------------------------------------
(* Subscription objects. *)

(* An object that waits for the id it asked for. *)
Waits(s) ==
  \E r \in 1 .. last :
    request[r].what = "subscribe" /\ request[r].of = s /\ heard[r] = <<>>

(* removeSubscription: the request to make and the table without the id. *)
Known(i) == i \in Ids /\ subscriptions[i] # NoSubscription
RemovalRequest_none(i) == <<>>
RemovalRequest(i) ==
  IF Known(i) THEN <<Request("unsubscribe", NoSubscription, i)>> ELSE <<>>
Removed_not(I) == subscriptions
Removed(I) ==
  [i \in Ids |-> IF i \in I THEN NoSubscription ELSE subscriptions[i]]

(* subscribe, with fromBlock (past) or without. *)
Subscribe(s, past) ==
  LET new == RemovalRequest(id[s])
               \o (IF past THEN <<Request("logs", s, NoId)>> ELSE <<>>)
               \o <<Request("subscribe", s, NoId)>>
  IN /\ transport = "ipc" /\ (past => s \in Logs)
     /\ Create(new) /\ Send(Numbered(new))
     /\ subscriptions' = Removed({id[s]})
     /\ id' = [id EXCEPT ![s] = NoId]
     /\ hasty' = IF Waits(s) THEN hasty \union {s} ELSE hasty
     /\ UNCHANGED <<transport, heard, deaf>>

(* unsubscribe *)
Unsubscribe(s) ==
  LET new == RemovalRequest(id[s])
  IN /\ Create(new) /\ Send(Numbered(new))
     /\ subscriptions' = Removed({id[s]})
     /\ id' = [id EXCEPT ![s] = NoId]
     /\ hasty' = IF Waits(s) THEN hasty \union {s} ELSE hasty
     /\ UNCHANGED <<transport, heard, deaf>>

(* The orders in which the ids of I may be met. *)
Orders(I) == {f \in [1 .. Cardinality(I) -> I] : Range(f) = I}

(* clearSubscriptions, which resets the provider; n listens afterwards. *)
ClearSubscriptions(keepIsSyncing, n) ==
  LET cleared == {i \in Ids : Known(i) /\
                    (keepIsSyncing => subscriptions[i] \notin Syncing)}
  IN /\ transport = "ipc"
     /\ \E order \in Orders(cleared) :
          LET new == [k \in DOMAIN order |->
                        Request("unsubscribe", NoSubscription, order[k])]
              written == IF registered = <<>> THEN Numbered(new) ELSE {}
          IN /\ Create(new)
             /\ IF registered = <<>> THEN UNCHANGED middlewareVars
                ELSE ApplyMiddleware(Numbered(new))
             /\ Counted(written)
             /\ IpcReset(written, n)
             /\ Hear(Failing(written), "InvalidConnection")
     /\ subscriptions' = Removed(cleared)
     /\ UNCHANGED <<transport, id, hasty, httpVars>>

AppClears ==
  /\ \E keepIsSyncing \in BOOLEAN : ClearSubscriptions(keepIsSyncing, 0)
  /\ deaf' = TRUE

(* setProvider with the same object: clears and listens again. *)
SetProvider ==
  /\ ClearSubscriptions(FALSE, 1)
  /\ deaf' = FALSE

(* Another manager of the same object clears its subscriptions. *)
OtherManagerClears ==
  /\ transport = "ipc"
  /\ IpcReset({}, 0)
  /\ Hear(Failing({}), "InvalidConnection")
  /\ deaf' = TRUE
  /\ UNCHANGED <<transport, last, request, sent, subscriptions, id, hasty,
                 middlewareVars, httpVars>>

-----------------------------------------------------------------------------
(* HTTP answers. *)

HttpStep(r) ==
  /\ \/ Success(r) /\ UNCHANGED heard
     \/ /\ BodyEnds(r)
        /\ \E outcome \in Answered :
             \/ Hear({r}, outcome)
             \/ \E thrower \in Payload(r) :
                  heard' = [h \in Requests |->
                              IF h \notin Payload(r) THEN heard[h]
                              ELSE IF h <= thrower THEN <<outcome, "InvalidResponse">>
                              ELSE <<"InvalidResponse">>]
     \/ Failed(r) /\ Hear({r}, "InvalidConnection")
  /\ UNCHANGED <<transport, last, request, sent, subscriptions, id, hasty, deaf,
                 middlewareVars, ipcVars>>

HttpTimer(r) ==
  /\ Aborts(r)
  /\ CASE fetching[r] = "request" ->
            heard' = [h \in Requests |->
                        IF h \in Payload(r)
                        THEN <<Told(h, "ConnectionTimeout"),
                               Told(h, "InvalidConnection")>>
                        ELSE heard[h]]
       [] fetching[r] = "body" -> Hear({r}, "InvalidResponse")
       [] OTHER -> UNCHANGED heard
  /\ UNCHANGED <<transport, last, request, sent, subscriptions, id, hasty, deaf,
                 middlewareVars, ipcVars>>

-----------------------------------------------------------------------------
(* IPC: the node, the socket and what the manager does with messages. *)

NodeAnswers(r) ==
  /\ \/ /\ request[r].what = "subscribe" /\ issued < MaxIds
        /\ issued' = issued + 1
        /\ Answers(r, Response(r, TRUE, issued + 1), live \union {issued + 1})
     \/ /\ request[r].what = "unsubscribe"
        /\ Answers(r, Response(r, TRUE, NoId), live \ {request[r].target})
        /\ UNCHANGED issued
     \/ /\ request[r].what # "unsubscribe"
        /\ \E ok \in {FALSE} \union {request[r].what # "subscribe"} :
             Answers(r, Response(r, ok, NoId), live)
        /\ UNCHANGED issued
  /\ UNCHANGED <<managerVars, middlewareVars, httpVars>>

(* The callback of a response: a subscription that has its id joins the    *)
(* table.                                                                  *)
Deliver ==
  \E m \in {Head(wire)} :
    /\ Parsed
    /\ Hear({m.to} \intersect responseCallbacks,
            IF m.ok THEN "result" ELSE "ErrorResponse")
    /\ IF m.to \in responseCallbacks /\ m.id # NoId
       THEN /\ id' = [id EXCEPT ![request[m.to].of] = m.id]
            /\ subscriptions' = [subscriptions EXCEPT ![m.id] = request[m.to].of]
       ELSE UNCHANGED <<id, subscriptions>>
    /\ UNCHANGED <<transport, last, request, sent, hasty, deaf, middlewareVars,
                   httpVars>>

(* Events that fail whatever waits. *)
IpcFails ==
  /\ Ends \/ ChunkTimeout
  /\ Hear(Failing({}), "InvalidConnection")
  /\ UNCHANGED <<transport, last, request, sent, subscriptions, id, hasty, deaf,
                 middlewareVars, httpVars>>

Socket ==
  /\ Connects \/ IpcReconnect \/ FirstPiece \/ NotParsed
       \/ \E i \in live : Notifies(i)
  /\ UNCHANGED <<managerVars, middlewareVars, httpVars>>

IpcStep ==
  /\ transport = "ipc"
  /\ \/ \E r \in asked : NodeAnswers(r)
     \/ wire # <<>> /\ Deliver
     \/ IpcFails
     \/ Socket

Next ==
  \/ Call \/ ExecuteBatch
  \/ \E m \in Middlewares : Use(m)
  \/ \E s \in Subscriptions :
       \/ \E past \in BOOLEAN : Subscribe(s, past)
       \/ Unsubscribe(s)
  \/ AppClears \/ SetProvider \/ OtherManagerClears
  \/ \E r \in Requests : MiddlewareStep(r) \/ HttpStep(r) \/ HttpTimer(r)
  \/ IpcStep

Spec == Init /\ [][Next]_vars

-----------------------------------------------------------------------------
(* The callback of a request is called once, but for two cases in the HTTP *)
(* provider: a time-out, which is followed by a second error, and an       *)
(* application callback that throws.                                       *)
HeardOnce ==
  \A r \in Requests :
    Len(heard[r]) <= 1
      \/ /\ transport = "http"
         /\ heard[r] \in {<<Told(r, "ConnectionTimeout"),
                            Told(r, "InvalidConnection")>>}
                        \union {<<outcome, "InvalidResponse">> : outcome \in Answered}

(* However often middlewares call next and bypass, a request is sent once. *)
SentOnce == \A r \in Requests : sent[r] <= 1

(* An object knows the id under which the manager calls it, and can thus   *)
(* unsubscribe, unless it was called while it waited for an id; and no two *)
(* objects think that they have one subscription.                          *)
TableMatchesObjects ==
  /\ \A i \in Ids : Known(i) =>
       id[subscriptions[i]] = i \/ subscriptions[i] \in hasty
  /\ \A s, t \in Subscriptions : id[s] # NoId /\ id[s] = id[t] => s = t

(* What the node serves somebody holds, or is about to hold or to end,     *)
(* unless the application was told that the subscription failed.           *)
Ending(i) ==
  \E r \in 1 .. last :
    /\ request[r].what = "unsubscribe" /\ request[r].target = i
    /\ sent[r] = 0 \/ r \in asked
Coming(i) ==
  \E j \in DOMAIN wire :
    wire[j].id = i /\ wire[j].to \in responseCallbacks
Unheld(i) ==
  /\ i \in live
  /\ ~Known(i) /\ ~Ending(i) /\ ~Coming(i)

ServedMeansHeld ==
  \A i \in Ids : Unheld(i) =>
    \/ lastChunk = "garbage"
    \/ \E r \in 1 .. last :
         request[r].what = "subscribe" /\ heard[r] = <<"InvalidConnection">>

(* The manager hears every notification once, unless somebody reset its    *)
(* provider.                                                               *)
ListensOnce == transport = "ipc" => listeners = IF deaf THEN 0 ELSE 1

(* A request that was passed to the provider and not answered waits for    *)
(* something that comes or times out: over IPC the node has it, or its      *)
(* answer is under way, or the timer runs that fails what waits; over HTTP *)
(* its body is being read or its timer runs, unless the answer to another  *)
(* request has taken the timer away.                                       *)
Pending(r) == sent[r] > 0 /\ heard[r] = <<>>
Expected(r) ==
  \/ r \in asked
  \/ \E j \in DOMAIN wire : wire[j].to = r
  \/ chunkTimer
Timed(r) ==
  \/ fetching[r] = "body" \/ ~HasTimeout
  \/ r \in timers
  \/ \E other \in Requests \ {r} : fetching[other] \in {"body", "done"}

NoneForgotten ==
  \A r \in Requests : Pending(r) =>
    CASE transport = "ipc" -> r \in responseCallbacks /\ Expected(r)
      [] transport = "http" -> fetching[r] \in {"request", "body"} /\ Timed(r)
=============================================================================
