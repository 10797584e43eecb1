-------------------------- MODULE WsProviderProofs --------------------------
(***************************************************************************)
(* What holds of WsProvider for any requests, sockets and options, and for *)
(* any calls of the application.  The bounds of the model are guards, so   *)
(* the theorems hold whatever their values are.                            *)
(***************************************************************************)
EXTENDS WsProvider, TLAPS

(* Nothing is called back before it is sent, and what reset throws away is *)
(* never called back afterwards.                                           *)
HistoryInv ==
  /\ \A r \in Requests : calls[r] > 0 => r \in issued
  /\ \A r \in cleared : r \in issued /\ calls[r] = 0

(* AnsweredAtMostOnce is not inductive by itself: a request may be called  *)
(* back because it is in a queue, so the queues must hold only requests    *)
(* that have not been called back, and each of them in one queue only.     *)
Safe ==
  /\ AnsweredAtMostOnce
  /\ QueuesHoldUnanswered
  /\ PendingHasCarrier
  /\ HistoryInv

IInv == TypeOK /\ Safe

-----------------------------------------------------------------------------
(* Types. *)

(* reconnect() keeps the types, however often it is called in a row.       *)
LEMMA ReconnectType ==
  ASSUME TypeOK, NEW n \in Nat, Reconnect(n)
  PROVE  /\ requestQueue' \subseteq Requests
         /\ responseQueue' \subseteq Requests
         /\ calls' \in [Requests -> Nat]
         /\ timers' \in Nat /\ reconnectAttempts' \in Nat
         /\ reconnecting' \in BOOLEAN
<1>1. calls' \in [Requests -> Nat]
  BY DEF TypeOK, Reconnect, Schedule, GiveUp, CallBack
<1>2. timers' \in Nat /\ reconnectAttempts' \in Nat
  BY DEF TypeOK, Reconnect, Schedule, GiveUp
<1>3. QED
  BY <1>1, <1>2 DEF TypeOK, Reconnect, Schedule, GiveUp

(* Every step of the provider keeps every variable in its type.            *)
LEMMA TypeStep == TypeOK /\ [Next]_vars => TypeOK'
<1> USE DEF ReadyStates, ServerStates
<1>1. ASSUME TypeOK, NEW r \in Requests, Send(r) PROVE TypeOK'
  BY <1>1
     DEF TypeOK, Send, Transmit, CallBack, socketVars, reconnectVars,
         chunkVars, serverVars
<1>2. ASSUME TypeOK, NEW s \in Sockets, OnConnect(s) PROVE TypeOK'
  <2>1. /\ responseQueue' \subseteq Requests
        /\ server' \in [Requests -> ServerStates]
        /\ carrier' \in [Requests -> Sockets]
        /\ calls' \in [Requests -> Nat]
    BY <1>2 DEF TypeOK, OnConnect, Connected, Transmit, CallBack, serverVars
  <2>2. QED
    BY <1>2, <2>1 DEF TypeOK, OnConnect, Connected, chunkVars
<1>3. ASSUME TypeOK, NEW s \in Sockets, NEW clean \in BOOLEAN, OnClose(s, clean)
      PROVE  TypeOK'
  <2>1. /\ responseQueue' \subseteq Requests /\ requestQueue' \subseteq Requests
        /\ server' \in [Requests -> ServerStates]
        /\ calls' \in [Requests -> Nat]
    BY <1>3
       DEF TypeOK, OnClose, ReconnectAfter, CloseForGood, Reconnect, Schedule,
           GiveUp, Forget, CallBack
  <2>2. reconnectAttempts' \in Nat /\ timers' \in Nat 
    BY <1>3
       DEF TypeOK, OnClose, ReconnectAfter, CloseForGood, Reconnect, Schedule,
           GiveUp, reconnectVars
  <2>4. reconnecting' \in BOOLEAN /\ listening' \in BOOLEAN
    BY <1>3
       DEF TypeOK, OnClose, ReconnectAfter, CloseForGood, Reconnect, Schedule,
           GiveUp, reconnectVars
  <2>3. QED
    BY <1>3, <2>1, <2>2, <2>4
       DEF TypeOK, OnClose, ReconnectAfter, CloseForGood, chunkVars
<1>4. ASSUME TypeOK, ReconnectTimer PROVE TypeOK'
  BY <1>4 DEF TypeOK, ReconnectTimer, chunkVars, serverVars
<1>5. ASSUME TypeOK, NEW r \in Requests, NodeAnswers(r) PROVE TypeOK'
  <2>1. calls' \in [Requests -> Nat]
    BY <1>5
       DEF TypeOK, NodeAnswers, OnWhole, OnFirstHalf, OnSecondHalf, Respond,
           CallBack
  <2>2. /\ responseQueue' \subseteq Requests
        /\ server' \in [Requests -> ServerStates]
    BY <1>5
       DEF TypeOK, NodeAnswers, OnWhole, OnFirstHalf, OnSecondHalf, Respond
  <2>3. /\ lastChunk' \in Requests \union {NoChunk, Garbage}
        /\ chunkTimer' \in BOOLEAN
    BY <1>5 DEF TypeOK, NodeAnswers, OnWhole, OnFirstHalf, OnSecondHalf, Parsed
  <2>4. QED
    BY <1>5, <2>1, <2>2, <2>3
       DEF TypeOK, NodeAnswers, OnWhole, OnFirstHalf, OnSecondHalf, socketVars,
           reconnectVars
<1>6. ASSUME TypeOK, NEW s \in Sockets, OnNotification(s) PROVE TypeOK'
  BY <1>6
     DEF TypeOK, OnNotification, Parsed, socketVars, reconnectVars, serverVars
<1>7. ASSUME TypeOK, ChunkTimeout PROVE TypeOK'
  <2>1. CASE Reconnect(1)
    BY <1>7, <2>1, ReconnectType
       DEF TypeOK, ChunkTimeout, socketVars, serverVars
  <2>2. CASE ~Reconnect(1)
    <3>1. calls' \in [Requests -> Nat] /\ requestQueue' = {}
      BY <1>7, <2>2 DEF TypeOK, ChunkTimeout, CallBack
    <3>2. QED
      BY <1>7, <2>2, <3>1
         DEF TypeOK, ChunkTimeout, socketVars, reconnectVars, serverVars
  <2>3. QED
    BY <2>1, <2>2
<1>8. ASSUME TypeOK, AppReconnect PROVE TypeOK'
  BY <1>8, ReconnectType
     DEF TypeOK, AppReconnect, socketVars, chunkVars, serverVars
<1>9. ASSUME TypeOK, Reset PROVE TypeOK'
  <2>1. listeners' \in [Sockets -> Nat] /\ cleared' \subseteq Requests
    BY <1>9 DEF TypeOK, Reset
  <2>3. listening' \in BOOLEAN
    BY <1>9 DEF Reset
  <2>2. QED
    BY <1>9, <2>1, <2>3 DEF TypeOK, Reset, reconnectVars, chunkVars, serverVars
<1>10. ASSUME TypeOK, Disconnect PROVE TypeOK'
  BY <1>10 DEF TypeOK, Disconnect, reconnectVars, chunkVars, serverVars
<1>11. ASSUME TypeOK, UNCHANGED vars PROVE TypeOK'
  BY <1>11 DEF TypeOK, vars
<1>12. QED
  BY <1>1, <1>2, <1>3, <1>4, <1>5, <1>6, <1>7, <1>8, <1>9, <1>10, <1>11
     DEF Next, NodeAnswers

(* A new provider has its types. *)
LEMMA InitTypeOK == Init => TypeOK
<1>1. SUFFICES ASSUME Init PROVE TypeOK
  OBVIOUS
<1>2. PICK s \in Sockets :
        /\ connection = s
        /\ readyState = [t \in Sockets |->
                          IF t = s THEN "CONNECTING" ELSE "CLOSED"]
        /\ listeners = [t \in Sockets |-> IF t = s THEN 1 ELSE 0]
        /\ carrier = [r \in Requests |-> s]
  BY <1>1 DEF Init
<1>3. /\ readyState \in [Sockets -> ReadyStates]
      /\ listeners \in [Sockets -> Nat]
      /\ connection \in Sockets
      /\ carrier \in [Requests -> Sockets]
  BY <1>2 DEF ReadyStates
<1>4. server \in [Requests -> ServerStates] /\ calls \in [Requests -> Nat]
  BY <1>1 DEF Init, ServerStates
<1>5. /\ requestQueue = {} /\ responseQueue = {}
      /\ issued = {} /\ cleared = {}
      /\ reconnecting = FALSE /\ chunkTimer = FALSE /\ listening = TRUE
      /\ reconnectAttempts = 0 /\ timers = 0 /\ lastChunk = NoChunk
  BY <1>1 DEF Init
<1>6. QED
  BY <1>3, <1>4, <1>5 DEF TypeOK

(* Every variable keeps its type: each queue holds requests only, and the  *)
(* counters are natural numbers.                                           *)
THEOREM WsTypeCorrect == Spec => []TypeOK
BY InitTypeOK, TypeStep, PTL DEF Spec

-----------------------------------------------------------------------------
(* The invariant. *)

(* Calling disjoint sets of requests that have not been called before is   *)
(* the first call of each, and nothing else changes.                       *)
LEMMA CallBackOnce ==
  ASSUME NEW S, NEW T, calls \in [Requests -> Nat], CallBack(S, T),
         S \intersect T = {},
         \A r \in S \union T : r \in Requests => calls[r] = 0
  PROVE  \A r \in Requests :
           calls'[r] = IF r \in S \union T THEN 1 ELSE calls[r]
BY DEF CallBack

(* A handler that calls back requests of the queues and takes them out, in *)
(* either order, keeps the queues and the counts right.                    *)
LEMMA FailQueues ==
  ASSUME IInv, issued' = issued, cleared' = cleared,
         NEW S \in SUBSET requestQueue, NEW T \in SUBSET responseQueue,
         CallBack(S, T) \/ CallBack(T, S),
         requestQueue' = requestQueue \ S, responseQueue' = responseQueue \ T
  PROVE  AnsweredAtMostOnce' /\ QueuesHoldUnanswered' /\ HistoryInv'
<1>1. \A r \in Requests : calls'[r] = IF r \in S \union T THEN 1 ELSE calls[r]
  BY CallBackOnce DEF IInv, Safe, TypeOK, QueuesHoldUnanswered, Queued
<1>2. QED
  BY <1>1
     DEF IInv, Safe, TypeOK, AnsweredAtMostOnce, QueuesHoldUnanswered, Queued,
         HistoryInv

(* So does a handler that does not touch the queues.                       *)
LEMMA SameQueues ==
  ASSUME IInv, UNCHANGED <<issued, cleared, calls, requestQueue, responseQueue>>
  PROVE  AnsweredAtMostOnce' /\ QueuesHoldUnanswered' /\ HistoryInv'
BY DEF IInv, Safe, AnsweredAtMostOnce, QueuesHoldUnanswered, Queued, HistoryInv

(* A step that hands new or queued requests to an open socket.             *)
TransmitStep(S) ==
  /\ S \subseteq issued' /\ S \intersect responseQueue = {}
  /\ \A r \in S : calls[r] = 0 /\ r \notin cleared
  /\ issued' = issued \union S /\ cleared' = cleared
  /\ connection \in Sockets /\ readyState'[connection] = "OPEN"
  /\ \A s \in Sockets :
       readyState[s] \in {"OPEN", "CLOSING"} => readyState'[s] = readyState[s]
  /\ requestQueue' = requestQueue \ S
  /\ Transmit(S)

(* Such a step keeps the invariant: a request enters responseQueue with an *)
(* open carrier, or is called back for the first time.                     *)
LEMMA TransmitSafe ==
  ASSUME IInv, NEW S \in SUBSET Requests, TransmitStep(S)
  PROVE  Safe'
<1>1. \A r \in Requests :
        calls'[r] = IF r \in S \intersect Unserializable THEN 1 ELSE calls[r]
  BY CallBackOnce DEF IInv, TypeOK, TransmitStep, Transmit
<1>2. PendingHasCarrier'
  BY DEF IInv, Safe, TypeOK, TransmitStep, Transmit, PendingHasCarrier
<1>3. QueuesHoldUnanswered'
  BY <1>1
     DEF IInv, Safe, TypeOK, TransmitStep, Transmit, QueuesHoldUnanswered,
         Queued
<1>4. AnsweredAtMostOnce' /\ HistoryInv'
  BY <1>1
     DEF IInv, Safe, TypeOK, TransmitStep, Transmit, AnsweredAtMostOnce,
         HistoryInv
<1>5. QED
  BY <1>2, <1>3, <1>4 DEF Safe

(* Every step of the provider keeps the invariant.                         *)
LEMMA SafeStep == IInv /\ [Next]_vars => Safe'
<1>1. ASSUME IInv, NEW r \in Requests, Send(r) PROVE Safe'
  <2>1. CASE Connecting \/ reconnecting
    BY <1>1, <2>1
       DEF IInv, Safe, TypeOK, Send, AnsweredAtMostOnce, QueuesHoldUnanswered,
           Queued, PendingHasCarrier, HistoryInv, socketVars, serverVars
  <2>2. CASE ~(Connecting \/ reconnecting) /\ readyState[connection] # "OPEN"
    <3>1. \A q \in Requests : calls'[q] = IF q = r THEN 1 ELSE calls[q]
      BY <1>1, <2>2, CallBackOnce DEF IInv, Safe, TypeOK, Send, HistoryInv
    <3>2. QED
      BY <1>1, <2>2, <3>1
         DEF IInv, Safe, TypeOK, Send, AnsweredAtMostOnce,
             QueuesHoldUnanswered, Queued, PendingHasCarrier, HistoryInv,
             socketVars, serverVars
  <2>3. CASE ~(Connecting \/ reconnecting) /\ readyState[connection] = "OPEN"
    <3>1. r \notin responseQueue /\ calls[r] = 0 /\ r \notin cleared
      BY <1>1
         DEF Send, IInv, Safe, HistoryInv, TypeOK, QueuesHoldUnanswered, Queued
    <3>2. TransmitStep({r})
      BY <1>1, <2>3, <3>1 DEF Send, TransmitStep, socketVars, IInv, TypeOK
    <3>3. QED
      BY <1>1, <3>2, TransmitSafe
  <2>4. QED
    BY <1>1, <2>1, <2>2, <2>3 DEF Send
<1>2. ASSUME IInv, NEW s \in Sockets, OnConnect(s) PROVE Safe'
  <2>1. CASE readyState'[connection] = "OPEN"
    <3>1. /\ requestQueue \subseteq Requests
          /\ requestQueue \subseteq issued \ cleared
          /\ requestQueue \intersect responseQueue = {}
          /\ \A r \in requestQueue : calls[r] = 0
      BY <1>2 DEF IInv, Safe, TypeOK, QueuesHoldUnanswered, Queued
    <3>2. \A t \in Sockets :
            readyState[t] \in {"OPEN", "CLOSING"} =>
              readyState'[t] = readyState[t]
      BY <1>2 DEF OnConnect, Connected, IInv, TypeOK
    <3>3. /\ Transmit(requestQueue)
          /\ connection \in Sockets
          /\ UNCHANGED <<issued, cleared>>
      BY <1>2, <2>1 DEF OnConnect, Connected, IInv, TypeOK
    <3>4. TransmitStep(requestQueue)
      BY <1>2, <2>1, <3>1, <3>2, <3>3 DEF OnConnect, Connected, TransmitStep
    <3>5. QED
      BY <3>1, <3>4, <1>2, TransmitSafe
  <2>2. CASE readyState'[connection] # "OPEN"
    <3>1. PendingHasCarrier'
      BY <1>2, <2>2
         DEF IInv, Safe, TypeOK, OnConnect, Connected, PendingHasCarrier,
             serverVars
    <3>2. CASE readyState'[connection] = "CONNECTING"
      BY <1>2, <2>2, <3>1, <3>2
         DEF IInv, Safe, TypeOK, OnConnect, Connected, AnsweredAtMostOnce,
             QueuesHoldUnanswered, Queued, HistoryInv
    <3>3. CASE readyState'[connection] # "CONNECTING"
      BY <1>2, <2>2, <3>1, <3>3, FailQueues DEF Safe, OnConnect
    <3>4. QED
      BY <3>2, <3>3
  <2>3. QED
    BY <2>1, <2>2
<1>3. ASSUME IInv, NEW s \in Sockets, NEW clean \in BOOLEAN, OnClose(s, clean)
      PROVE  Safe'
  <2>1. PendingHasCarrier'
    BY <1>3
       DEF OnClose, ReconnectAfter, CloseForGood, Reconnect, Schedule, GiveUp,
           PendingHasCarrier
  <2>2. CASE ReconnectAfter(s)
    BY <1>3, <2>1, <2>2, FailQueues
       DEF ReconnectAfter, Reconnect, Schedule, GiveUp, Safe, OnClose
  <2>3. CASE CloseForGood
    BY <1>3, <2>1, <2>3, FailQueues DEF CloseForGood, Safe, OnClose
  <2>4. QED
    BY <1>3, <2>2, <2>3 DEF OnClose
<1>4. ASSUME IInv, ReconnectTimer PROVE Safe'
  <2>1. PendingHasCarrier'
    BY <1>4
       DEF IInv, Safe, TypeOK, ReconnectTimer, PendingHasCarrier, serverVars
  <2>2. QED
    BY <1>4, <2>1, SameQueues DEF ReconnectTimer, Safe
<1>5. ASSUME IInv, NEW r \in Requests, NodeAnswers(r) PROVE Safe'
  <2>1. /\ responseQueue' \subseteq responseQueue
        /\ UNCHANGED <<readyState, carrier>>
    BY <1>5
       DEF NodeAnswers, OnWhole, OnFirstHalf, OnSecondHalf, Respond, socketVars
  <2>2. PendingHasCarrier'
    BY <1>5, <2>1 DEF IInv, Safe, PendingHasCarrier
  <2>3. CASE Respond(r)
    BY <1>5, <2>2, <2>3, FailQueues
       DEF NodeAnswers, OnWhole, OnFirstHalf, OnSecondHalf, Respond, Safe
  <2>4. CASE ~Respond(r)
    BY <1>5, <2>2, <2>4, SameQueues
       DEF NodeAnswers, OnWhole, OnFirstHalf, OnSecondHalf, Safe
  <2>5. QED
    BY <2>3, <2>4
<1>6. ASSUME IInv, NEW s \in Sockets, OnNotification(s) PROVE Safe'
  BY <1>6, SameQueues
     DEF IInv, Safe, OnNotification, PendingHasCarrier, socketVars, serverVars
<1>7. ASSUME IInv, ChunkTimeout PROVE Safe'
  <2>1. PendingHasCarrier'
    BY <1>7
       DEF IInv, Safe, ChunkTimeout, Reconnect, Schedule, GiveUp,
           PendingHasCarrier, socketVars, serverVars
  <2>2. CASE Reconnect(1)
    BY <1>7, <2>1, <2>2, FailQueues
       DEF ChunkTimeout, Reconnect, Schedule, GiveUp, Safe
  <2>3. CASE ~Reconnect(1)
    BY <1>7, <2>1, <2>3, FailQueues DEF ChunkTimeout, Safe
  <2>4. QED
    BY <2>2, <2>3
<1>8. ASSUME IInv, AppReconnect PROVE Safe'
  <2>1. PendingHasCarrier'
    BY <1>8 DEF AppReconnect, Reconnect, Schedule, GiveUp, PendingHasCarrier
  <2>2. QED
    BY <1>8, <2>1, FailQueues
       DEF AppReconnect, Reconnect, Schedule, GiveUp, Safe
<1>9. ASSUME IInv, Reset PROVE Safe'
  BY <1>9
     DEF Reset, IInv, Safe, TypeOK, AnsweredAtMostOnce, QueuesHoldUnanswered,
         Queued, PendingHasCarrier, HistoryInv
<1>10. ASSUME IInv, Disconnect PROVE Safe'
  <2>1. PendingHasCarrier'
    BY <1>10 DEF IInv, Safe, TypeOK, Disconnect, PendingHasCarrier, serverVars
  <2>2. QED
    BY <1>10, <2>1, SameQueues DEF Disconnect, Safe
<1>11. ASSUME IInv, UNCHANGED vars PROVE Safe'
  BY <1>11, SameQueues DEF vars, IInv, Safe, PendingHasCarrier
<1>12. QED
  BY <1>1, <1>2, <1>3, <1>4, <1>5, <1>6, <1>7, <1>8, <1>9, <1>10, <1>11
     DEF Next, NodeAnswers

(* The invariant holds in every reachable state. *)
LEMMA WsInvariant == Spec => []IInv
<1>1. Init => IInv
  BY InitTypeOK
     DEF Init, IInv, Safe, Queued, AnsweredAtMostOnce, QueuesHoldUnanswered,
         PendingHasCarrier, HistoryInv
<1>2. IInv /\ [Next]_vars => IInv'
  BY TypeStep, SafeStep DEF IInv
<1>3. QED
  BY <1>1, <1>2, PTL DEF Spec

(* send's callback is called at most once, whatever reconnects, closes,    *)
(* resets, time-outs and late responses come in between.                   *)
THEOREM WsAnsweredAtMostOnce == Spec => []AnsweredAtMostOnce
<1>1. IInv => AnsweredAtMostOnce
  BY DEF IInv, Safe
<1>2. QED
  BY <1>1, WsInvariant, PTL

(* The two queues are disjoint and hold unanswered requests only. *)
THEOREM WsQueuesHoldUnanswered == Spec => []QueuesHoldUnanswered
<1>1. IInv => QueuesHoldUnanswered
  BY DEF IInv, Safe
<1>2. QED
  BY <1>1, WsInvariant, PTL

(* A request that waits for a response waits on a socket that has yet to   *)
(* fire its close event, also when several sockets are alive at a time.    *)
THEOREM WsPendingHasCarrier == Spec => []PendingHasCarrier
<1>1. IInv => PendingHasCarrier
  BY DEF IInv, Safe
<1>2. QED
  BY <1>1, WsInvariant, PTL
-----------------------------------------------------------------------------
(* The refinement. *)

(* A new provider is a new channel.                                        *)
LEMMA InitChannel == Init => DroppingChannel!Init
BY DEF Init, DroppingChannel!Init, ChannelStatus

(* Calling back requests of the queues and taking them out is an Answer of *)
(* the channel, or nothing if there are none.                              *)
LEMMA AnswerMaps ==
  ASSUME IInv, issued' = issued, NEW S \in SUBSET Queued,
         Queued' = Queued \ S,
         \A r \in Requests : calls'[r] = IF r \in S THEN 1 ELSE calls[r]
  PROVE  [DroppingChannel!Next]_ChannelStatus
<1>1. CASE S = {}
  BY <1>1 DEF ChannelStatus, Queued
<1>2. CASE S # {}
  <2>1. \A r \in S : ChannelStatus[r] = "pending"
    BY DEF ChannelStatus, IInv, Safe, TypeOK, QueuesHoldUnanswered, Queued
  <2>2. ChannelStatus' = [r \in Requests |->
                            IF r \in S THEN "answered" ELSE ChannelStatus[r]]
    <3>1. \A r \in S : r \in issued' /\ r \notin Queued' /\ calls'[r] = 1
      BY DEF IInv, Safe, TypeOK, QueuesHoldUnanswered, Queued
    <3>2. \A r \in Requests \ S :
            calls'[r] = calls[r] /\ (r \in Queued' <=> r \in Queued)
      OBVIOUS
    <3>3. \A r \in Requests :
            ChannelStatus'[r] = IF r \in S THEN "answered" ELSE ChannelStatus[r]
      <4>1. ASSUME NEW r \in S PROVE ChannelStatus'[r] = "answered"
        <5>1. r \in Requests
          BY DEF Queued, IInv, TypeOK
        <5>2. QED
          BY <3>1, <5>1 DEF ChannelStatus
      <4>2. ASSUME NEW r \in Requests \ S
            PROVE  ChannelStatus'[r] = ChannelStatus[r]
        BY <3>2 DEF ChannelStatus
      <4>3. QED
        BY <4>1, <4>2
    <3>4. QED
      BY <3>3 DEF ChannelStatus
  <2>3. DroppingChannel!Answer(S)
    BY <1>2, <2>1, <2>2 DEF DroppingChannel!Answer, DroppingChannel!Move
  <2>4. QED
    BY <2>3 DEF DroppingChannel!Next, Queued, IInv, TypeOK
<1>3. QED
  BY <1>1, <1>2


(* Taking them out without a call is a Drop.                               *)
LEMMA DropMaps ==
  ASSUME IInv, UNCHANGED <<issued, calls>>, NEW S \in SUBSET Queued,
         Queued' = Queued \ S
  PROVE  [DroppingChannel!Next]_ChannelStatus
<1>1. CASE S = {}
  BY <1>1 DEF ChannelStatus, Queued
<1>2. CASE S # {}
  <2>1. \A r \in S : ChannelStatus[r] = "pending"
    BY DEF ChannelStatus, IInv, Safe, TypeOK, QueuesHoldUnanswered, Queued
  <2>2. ChannelStatus' = [r \in Requests |->
                            IF r \in S THEN "dropped" ELSE ChannelStatus[r]]
    BY DEF ChannelStatus, IInv, Safe, TypeOK, QueuesHoldUnanswered, Queued
  <2>3. DroppingChannel!Drop(S)
    BY <1>2, <2>1, <2>2 DEF DroppingChannel!Drop, DroppingChannel!Move
  <2>4. QED
    BY <2>3 DEF DroppingChannel!Next, Queued, IInv, TypeOK
<1>3. QED
  BY <1>1, <1>2

(* send is an Issue, or an Answer if it calls back at once.                *)
LEMMA SendMaps ==
  ASSUME IInv, IInv', NEW r \in Requests, Send(r)
  PROVE  DroppingChannel!Next
<1>1. ChannelStatus[r] = "idle"
  BY DEF Send, ChannelStatus
<1>2. \A q \in Requests : q # r => ChannelStatus'[q] = ChannelStatus[q]
  <2>1. \A q \in Requests \ {r} :
          /\ q \in issued' <=> q \in issued
          /\ q \in Queued' <=> q \in Queued
          /\ calls'[q] = calls[q]
    BY DEF Send, Transmit, CallBack, Queued, IInv, TypeOK
  <2>2. QED
    BY <2>1 DEF ChannelStatus
<1>3. r \in Queued' \/ calls'[r] = 1
  <2>1. calls[r] = 0
    BY DEF Send, IInv, Safe, TypeOK, HistoryInv
  <2>2. QED
    BY <2>1 DEF Send, Transmit, CallBack, Queued, IInv, TypeOK
<1>4. ChannelStatus'[r] \in {"pending", "answered"}
  BY <1>3 DEF Send, Queued, ChannelStatus
<1>5. \A to :
        ChannelStatus'[r] = to =>
          ChannelStatus' = [q \in Requests |->
                              IF q \in {r} THEN to ELSE ChannelStatus[q]]
  BY <1>2 DEF ChannelStatus
<1>6. DroppingChannel!Issue(r) \/ DroppingChannel!Answer({r})
  BY <1>1, <1>4, <1>5
     DEF DroppingChannel!Issue, DroppingChannel!Answer, DroppingChannel!Move
<1>7. QED
  BY <1>6 DEF DroppingChannel!Next

(* A handler that leaves the queues and the counts alone is a stutter.     *)
LEMMA SameMaps ==
  ASSUME UNCHANGED <<issued, calls, requestQueue, responseQueue>>
  PROVE  [DroppingChannel!Next]_ChannelStatus
BY DEF ChannelStatus, Queued

(* A handler that fails requests of both queues is an Answer of them all.  *)
LEMMA CallBackMaps ==
  ASSUME IInv, issued' = issued,
         NEW S \in SUBSET requestQueue, NEW T \in SUBSET responseQueue,
         CallBack(S, T) \/ CallBack(T, S),
         requestQueue' = requestQueue \ S, responseQueue' = responseQueue \ T
  PROVE  [DroppingChannel!Next]_ChannelStatus
<1>1. \A r \in Requests : calls'[r] = IF r \in S \union T THEN 1 ELSE calls[r]
  BY CallBackOnce DEF IInv, Safe, TypeOK, QueuesHoldUnanswered, Queued
<1>2. Queued' = Queued \ (S \union T) /\ S \union T \in SUBSET Queued
  BY DEF IInv, Safe, QueuesHoldUnanswered, Queued
<1>3. QED
  BY <1>1, <1>2, AnswerMaps

(* Every step of the provider is a step of the channel or a stutter.       *)
LEMMA StepMaps ==
  IInv /\ IInv' /\ [Next]_vars => [DroppingChannel!Next]_ChannelStatus
<1>1. ASSUME IInv, IInv', NEW r \in Requests, Send(r)
      PROVE  [DroppingChannel!Next]_ChannelStatus
  BY <1>1, SendMaps
<1>2. ASSUME IInv, NEW s \in Sockets, OnConnect(s)
      PROVE  [DroppingChannel!Next]_ChannelStatus
  <2>1. CASE readyState'[connection] = "OPEN"
    <3>1. Transmit(requestQueue) /\ requestQueue' = {} /\ issued' = issued
      BY <1>2, <2>1 DEF OnConnect
    <3>2. \A r \in Requests :
            calls'[r] = IF r \in requestQueue \intersect Unserializable
                        THEN 1 ELSE calls[r]
      <4>1. \A r \in requestQueue : calls[r] = 0
        BY <1>2 DEF IInv, Safe, QueuesHoldUnanswered, Queued
      <4>2. CallBack(requestQueue \intersect Unserializable, {})
        BY <3>1 DEF Transmit
      <4>3. calls \in [Requests -> Nat]
        BY <1>2 DEF IInv, TypeOK
      <4>4. QED
        BY <4>1, <4>2, <4>3, CallBackOnce
    <3>3. Queued' = Queued \ (requestQueue \intersect Unserializable)
      BY <3>1 DEF Transmit, Queued, IInv, Safe, QueuesHoldUnanswered
    <3>4. QED
      BY <1>2, <3>1, <3>2, <3>3, AnswerMaps DEF Queued
  <2>2. CASE readyState'[connection] = "CONNECTING"
    <3>1. Queued' = Queued \ requestQueue /\ UNCHANGED <<issued, calls>>
      BY <1>2, <2>2
         DEF OnConnect, Connected, Queued, IInv, Safe, QueuesHoldUnanswered
    <3>2. QED
      BY <1>2, <3>1, DropMaps DEF Queued
  <2>3. CASE readyState'[connection] \notin {"OPEN", "CONNECTING"}
    BY <1>2, <2>3, CallBackMaps DEF OnConnect
  <2>4. QED
    BY <2>1, <2>2, <2>3
<1>3. ASSUME IInv, NEW s \in Sockets, NEW clean \in BOOLEAN, OnClose(s, clean)
      PROVE  [DroppingChannel!Next]_ChannelStatus
  <2>1. CASE ReconnectAfter(s)
    BY <1>3, <2>1, CallBackMaps
       DEF ReconnectAfter, Reconnect, Schedule, GiveUp, OnClose
  <2>2. CASE CloseForGood
    BY <1>3, <2>2, CallBackMaps DEF CloseForGood, OnClose
  <2>3. QED
    BY <1>3, <2>1, <2>2 DEF OnClose
<1>4. ASSUME ReconnectTimer PROVE [DroppingChannel!Next]_ChannelStatus
  BY <1>4, SameMaps DEF ReconnectTimer
<1>5. ASSUME IInv, NEW r \in Requests, NodeAnswers(r)
      PROVE  [DroppingChannel!Next]_ChannelStatus
  <2>1. CASE Respond(r)
    BY <1>5, <2>1, CallBackMaps
       DEF NodeAnswers, OnWhole, OnFirstHalf, OnSecondHalf, Respond
  <2>2. CASE ~Respond(r)
    BY <1>5, <2>2, SameMaps DEF NodeAnswers, OnWhole, OnFirstHalf, OnSecondHalf
  <2>3. QED
    BY <2>1, <2>2
<1>6. ASSUME NEW s \in Sockets, OnNotification(s)
      PROVE  [DroppingChannel!Next]_ChannelStatus
  BY <1>6, SameMaps DEF OnNotification
<1>7. ASSUME IInv, ChunkTimeout PROVE [DroppingChannel!Next]_ChannelStatus
  <2>1. CASE Reconnect(1)
    BY <1>7, <2>1, CallBackMaps DEF Reconnect, Schedule, GiveUp, ChunkTimeout
  <2>2. CASE ~Reconnect(1)
    BY <1>7, <2>2, CallBackMaps DEF ChunkTimeout
  <2>3. QED
    BY <2>1, <2>2
<1>8. ASSUME IInv, AppReconnect PROVE [DroppingChannel!Next]_ChannelStatus
  BY <1>8, CallBackMaps DEF AppReconnect, Reconnect, Schedule, GiveUp
<1>9. ASSUME IInv, Reset PROVE [DroppingChannel!Next]_ChannelStatus
  <2>1. Queued' = Queued \ Queued /\ UNCHANGED <<issued, calls>>
    BY <1>9 DEF Reset, Queued
  <2>2. QED
    BY <1>9, <2>1, DropMaps
<1>10. ASSUME Disconnect PROVE [DroppingChannel!Next]_ChannelStatus
  BY <1>10, SameMaps DEF Disconnect
<1>11. ASSUME UNCHANGED vars PROVE [DroppingChannel!Next]_ChannelStatus
  BY <1>11, SameMaps DEF vars
<1>12. QED
  BY <1>1, <1>2, <1>3, <1>4, <1>5, <1>6, <1>7, <1>8, <1>9, <1>10, <1>11
     DEF Next, NodeAnswers

(* The provider implements the channel that answers a request at most once *)
(* and may drop it.                                                        *)
THEOREM WsImplementsChannel == Spec => ImplementsChannel
<1>1. Init => DroppingChannel!Init
  BY InitChannel
<1>2. IInv /\ IInv' /\ [Next]_vars => [DroppingChannel!Next]_ChannelStatus
  BY StepMaps
<1>3. QED
  BY <1>1, <1>2, WsInvariant, PTL
     DEF Spec, ImplementsChannel, DroppingChannel!Spec

-----------------------------------------------------------------------------
(* A provider that has one socket at a time: the application does not call *)
(* reconnect or reset, and an incomplete message does not make the         *)
(* provider reconnect while its socket is open.  Requests, attempts,       *)
(* automatic reconnection and disconnects are arbitrary, and responses may *)
(* come in pieces.                                                         *)

OneSocket ==
  /\ AppCalls \subseteq {"disconnect"}
  /\ ~(AutoReconnect /\ OnTimeout)

Alive(s) == readyState[s] # "CLOSED"

(* The listeners of `close` run once and for the current socket, so at     *)
(* most one timer runs, and only while there is no socket.                 *)
Single ==
  /\ \A s \in Sockets : Alive(s) => s = connection
  /\ Alive(connection) => listeners[connection] = 1 /\ timers = 0
  /\ timers <= 1

(* `reconnecting` is set only while a connection is on its way.            *)
OnItsWay ==
  \/ timers > 0
  \/ readyState[connection] \in {"CONNECTING", "ABORTING"}
ReconnectingInv == reconnecting => AutoReconnect /\ OnItsWay

(* RequestManager stops listening when the last socket is closed for good. *)
ListeningInv == ~listening => ~Alive(connection) /\ timers = 0

OneSocketInv ==
  /\ Single
  /\ ReconnectingInv
  /\ ListeningInv
  /\ NoRequestLost
  /\ QueuedOnlyWhileConnecting
  /\ cleared = {}

-----------------------------------------------------------------------------
(* Every step of such a provider keeps the invariant.                      *)
LEMMA OneSocketStep ==
  ASSUME OneSocket, IInv, OneSocketInv, [Next]_vars
  PROVE  OneSocketInv'
<1> USE DEF IInv, TypeOK, OneSocketInv, Single, ReconnectingInv, OnItsWay,
            ListeningInv, Alive
<1>0. cleared' = {}
  BY DEF Next, Send, OnConnect, OnClose, OnWhole, OnFirstHalf, OnSecondHalf,
         OnNotification, ReconnectTimer, ChunkTimeout, AppReconnect, Reset,
         Disconnect, OneSocket, vars
<1>1. ASSUME NEW r \in Requests, Send(r) PROVE OneSocketInv'
  <2>1. NoRequestLost'
    BY <1>1 DEF Send, Transmit, CallBack, NoRequestLost, Queued
  <2>2. QueuedOnlyWhileConnecting'
    BY <1>1 DEF Send, Connecting, QueuedOnlyWhileConnecting, socketVars, reconnectVars
  <2>3. (Single /\ ReconnectingInv /\ ListeningInv)'
    BY <1>1 DEF Send, socketVars, reconnectVars
  <2>4. QED
    BY <1>0, <2>1, <2>2, <2>3
<1>2. ASSUME NEW s \in Sockets, OnConnect(s) PROVE OneSocketInv'
  <2>1. s = connection /\ readyState'[connection] = "OPEN"
    BY <1>2 DEF OnConnect, Connected
  <2>2. NoRequestLost'
    BY <1>2, <2>1 DEF OnConnect, Connected, Transmit, CallBack, NoRequestLost, Queued
  <2>3. QueuedOnlyWhileConnecting'
    BY <1>2 DEF OnConnect, Connected, QueuedOnlyWhileConnecting
  <2>4. (Single /\ ReconnectingInv /\ ListeningInv)'
    BY <1>2, <2>1 DEF OnConnect, Connected
  <2>5. QED
    BY <1>0, <2>2, <2>3, <2>4
<1>3. ASSUME NEW s \in Sockets, NEW clean \in BOOLEAN, OnClose(s, clean)
      PROVE  OneSocketInv'
  <2>1. /\ s = connection /\ listeners[s] = 1 /\ timers = 0
        /\ \A t \in Sockets : ~Alive(t)'
        /\ UNCHANGED <<connection, issued, cleared>>
    BY <1>3 DEF OnClose
  <2>2. CASE ReconnectAfter(s)
    <3>1. Reconnect(1) /\ UNCHANGED listening /\ AutoReconnect
      BY <1>3, <2>1, <2>2 DEF ReconnectAfter, OnClose, CloseForGood, reconnectVars
    <3>2. NoRequestLost'
      BY <2>1, <3>1 DEF Reconnect, Schedule, GiveUp, CallBack, NoRequestLost, Queued
    <3>3. QueuedOnlyWhileConnecting'
      BY <2>1, <3>1 DEF Reconnect, Schedule, GiveUp, QueuedOnlyWhileConnecting
    <3>4. timers' \in {0, 1} /\ Single'
      BY <2>1, <3>1 DEF Reconnect, Schedule, GiveUp
    <3>5. ReconnectingInv'
      BY <2>1, <3>1 DEF Reconnect, Schedule, GiveUp
    <3>6. listening
      BY <1>3, <2>1 DEF OnClose
    <3>7. ListeningInv'
      BY <3>1, <3>6
    <3>8. QED
      BY <1>0, <3>2, <3>3, <3>4, <3>5, <3>7
  <2>3. CASE ~(AutoReconnect /\ ~clean) /\ CloseForGood
    <3>1. NoRequestLost'
      BY <2>1, <2>3 DEF CloseForGood, CallBack, NoRequestLost, Queued
    <3>2. QueuedOnlyWhileConnecting'
      BY <2>3 DEF CloseForGood, QueuedOnlyWhileConnecting
    <3>3. ~reconnecting
      BY <1>3, <2>1, <2>3 DEF OnClose
    <3>4. (Single /\ ReconnectingInv /\ ListeningInv)'
      BY <2>1, <2>3, <3>3 DEF CloseForGood, reconnectVars
    <3>5. QED
      BY <1>0, <3>1, <3>2, <3>4
  <2>4. QED
    BY <1>3, <2>2, <2>3 DEF OnClose
<1>4. ASSUME ReconnectTimer PROVE OneSocketInv'
  <2>1. NoRequestLost'
    BY <1>4 DEF ReconnectTimer, NoRequestLost, Queued
  <2>2. QueuedOnlyWhileConnecting'
    BY <1>4 DEF ReconnectTimer, QueuedOnlyWhileConnecting
  <2>3. (Single /\ ReconnectingInv /\ ListeningInv)'
    BY <1>4 DEF ReconnectTimer
  <2>4. QED
    BY <1>0, <2>1, <2>2, <2>3
<1>5. ASSUME NEW r \in Requests, NodeAnswers(r) PROVE OneSocketInv'
  <2>1. UNCHANGED <<socketVars, reconnectVars, requestQueue, listening, issued, cleared>>
    BY <1>5 DEF NodeAnswers, OnWhole, OnFirstHalf, OnSecondHalf
  <2>2. Respond(r) \/ UNCHANGED <<responseQueue, calls>>
    BY <1>5 DEF NodeAnswers, OnWhole, OnFirstHalf, OnSecondHalf
  <2>3. NoRequestLost'
    BY <2>1, <2>2 DEF Respond, CallBack, NoRequestLost, Queued
  <2>4. QED
    BY <1>0, <2>1, <2>3 DEF QueuedOnlyWhileConnecting, socketVars, reconnectVars
<1>6. ASSUME NEW s \in Sockets, OnNotification(s) PROVE OneSocketInv'
  BY <1>6
     DEF OnNotification, NoRequestLost, Queued, QueuedOnlyWhileConnecting,
         socketVars, reconnectVars
<1>7. ASSUME ChunkTimeout PROVE OneSocketInv'
  <2>1. /\ CallBack(requestQueue, {}) /\ requestQueue' = {}
        /\ UNCHANGED <<socketVars, reconnectVars, responseQueue, listening,
                       issued, cleared>>
    BY <1>7 DEF ChunkTimeout, OneSocket
  <2>2. NoRequestLost'
    BY <2>1 DEF CallBack, NoRequestLost, Queued
  <2>3. QED
    BY <1>0, <2>1, <2>2 DEF QueuedOnlyWhileConnecting, socketVars, reconnectVars
<1>8. ASSUME AppReconnect \/ Reset PROVE OneSocketInv'
  BY <1>8 DEF AppReconnect, Reset, OneSocket
<1>9. ASSUME Disconnect PROVE OneSocketInv'
  <2>1. NoRequestLost'
    BY <1>9 DEF Disconnect, NoRequestLost, Queued
  <2>2. QueuedOnlyWhileConnecting'
    BY <1>9 DEF Disconnect, QueuedOnlyWhileConnecting, reconnectVars
  <2>3. (Single /\ ReconnectingInv /\ ListeningInv)'
    BY <1>9 DEF Disconnect, reconnectVars
  <2>4. QED
    BY <1>0, <2>1, <2>2, <2>3
<1>10. CASE UNCHANGED vars
  BY <1>10 DEF vars, NoRequestLost, Queued, QueuedOnlyWhileConnecting
<1>11. QED
  BY <1>1, <1>2, <1>3, <1>4, <1>5, <1>6, <1>7, <1>8, <1>9, <1>10
     DEF Next, NodeAnswers

(* A new provider has the invariant. *)
LEMMA OneSocketInit == Init => OneSocketInv
BY DEF Init, OneSocketInv, Single, ReconnectingInv, OnItsWay, ListeningInv, Alive,
       NoRequestLost, QueuedOnlyWhileConnecting

(* The invariant holds of a provider with one socket at a time. *)
LEMMA WsOneSocketInvariant ==
  ASSUME OneSocket
  PROVE  Spec => []OneSocketInv
<1>1. Init => OneSocketInv
  BY OneSocketInit
<1>2. IInv /\ OneSocketInv /\ [Next]_vars => OneSocketInv'
  BY OneSocketStep
<1>3. QED
  BY <1>1, <1>2, WsInvariant, PTL DEF Spec

(* A request given to send is held in a queue until its callback is        *)
(* called: the open handler, failed attempts and time-outs lose none.      *)
THEOREM WsNoRequestLost ==
  ASSUME OneSocket
  PROVE  Spec => []NoRequestLost
<1>1. OneSocketInv => NoRequestLost
  BY DEF OneSocketInv
<1>2. QED
  BY <1>1, WsOneSocketInvariant, PTL

(* send queues no request for a connection that is not on its way: the     *)
(* flag `reconnecting` is never left behind.                               *)
THEOREM WsQueuedOnlyWhileConnecting ==
  ASSUME OneSocket
  PROVE  Spec => []QueuedOnlyWhileConnecting
<1>1. OneSocketInv => QueuedOnlyWhileConnecting
  BY DEF OneSocketInv
<1>2. QED
  BY <1>1, WsOneSocketInvariant, PTL

(* No socket is opened after the one that was closed for good, so that an  *)
(* open socket has a RequestManager that listens.                          *)
THEOREM WsNotificationsReachApp ==
  ASSUME OneSocket
  PROVE  Spec => []NotificationsReachApp
<1>1. OneSocketInv => NotificationsReachApp
  BY DEF OneSocketInv, ListeningInv, Alive, NotificationsReachApp
<1>2. QED
  BY <1>1, WsOneSocketInvariant, PTL

-----------------------------------------------------------------------------
(* Such a provider is a channel that drops nothing.                        *)

(* A step of the channel that may drop, after which nothing is dropped, is *)
(* a step of the one that may not.                                         *)
LEMMA KeepingStep ==
  ASSUME IInv, IInv', OneSocketInv', [Next]_vars
  PROVE  [KeepingChannel!Next]_ChannelStatus
<1>1. [DroppingChannel!Next]_ChannelStatus
  BY StepMaps
<1>2. ASSUME NEW r \in Requests, DroppingChannel!Issue(r)
      PROVE  KeepingChannel!Next
  BY <1>2
     DEF DroppingChannel!Issue, DroppingChannel!Move, KeepingChannel!Next,
         KeepingChannel!Issue, KeepingChannel!Move
<1>3. ASSUME NEW S \in SUBSET Requests, DroppingChannel!Answer(S)
      PROVE  KeepingChannel!Next
  <2>1. KeepingChannel!Answer(S)
    BY <1>3
       DEF DroppingChannel!Answer, DroppingChannel!Move,
           KeepingChannel!Answer, KeepingChannel!Move
  <2>2. QED
    BY <2>1 DEF KeepingChannel!Next
<1>4. ASSUME NEW S \in SUBSET Requests, DroppingChannel!Drop(S)
      PROVE  FALSE
  <2>1. PICK r \in S : ChannelStatus'[r] = "dropped"
    BY <1>4 DEF DroppingChannel!Drop, DroppingChannel!Move
  <2>2. \A q \in Requests : ChannelStatus'[q] # "dropped"
    BY DEF OneSocketInv, NoRequestLost, ChannelStatus
  <2>3. QED
    BY <2>1, <2>2
<1>5. QED
  BY <1>1, <1>2, <1>3, <1>4 DEF DroppingChannel!Next

(* Every request is answered at most once and none is forgotten: with one  *)
(* socket at a time the provider implements the channel that keeps what it *)
(* was given.                                                              *)
THEOREM WsKeepsRequests ==
  ASSUME OneSocket
  PROVE  Spec => KeepingChannel!Spec
<1>1. Init => KeepingChannel!Init
  BY DEF Init, KeepingChannel!Init, ChannelStatus
<1>2. IInv /\ IInv' /\ OneSocketInv' /\ [Next]_vars
        => [KeepingChannel!Next]_ChannelStatus
  BY KeepingStep
<1>3. QED
  BY <1>1, <1>2, WsInvariant, WsOneSocketInvariant, PTL
     DEF Spec, KeepingChannel!Spec
=============================================================================
