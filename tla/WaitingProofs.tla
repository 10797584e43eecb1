----------------------------- MODULE WaitingProofs -----------------------------
(***************************************************************************)
(* No request that was passed to the provider is forgotten: its callback   *)
(* waits for something that comes or times out.                            *)
(***************************************************************************)
EXTENDS RequestManagerProofs

(* A request waits from when it is sent until its callback is called.      *)
PendingWaits == \A r \in Requests : Pending(r) => Waiting(r)

(* The node has a request, or its answer is on the wire; after a message   *)
(* was lost behind half of another one, the timer runs at least.           *)
OnItsWay(r) == r \in asked \/ \E j \in DOMAIN wire : wire[j].to = r
Answerable ==
  \A r \in responseCallbacks :
    OnItsWay(r) \/ (lastChunk = "garbage" /\ chunkTimer)

(* A fetch is timed, unless the answer to another one took its timer.      *)
FetchTimed == \A r \in Requests : fetching[r] = "request" => Timed(r)

WaitingInv == PendingWaits /\ Answerable /\ FetchTimed

-----------------------------------------------------------------------------
(* A request that has not been heard of after Hear was not called by it. *)
LEMMA HearCalls ==
  ASSUME TypeOK, NEW R \in SUBSET Requests, NEW outcome, Hear(R, outcome),
         NEW r \in Requests, heard'[r] = <<>>
  PROVE  heard[r] = <<>> /\ r \notin R
<1>1. heard[r] \in Seq(Outcomes)
  BY DEF TypeOK, ManagerTypeOK
<1>2. CASE \E c \in R : r \in Payload(c)
  <2>1. heard'[r] = Append(heard[r], Told(r, outcome))
    BY <1>2 DEF Hear
  <2>2. Append(heard[r], Told(r, outcome)) # <<>>
    BY <1>1
  <2>3. QED
    BY <2>1, <2>2
<1>3. CASE \A c \in R : r \notin Payload(c)
  <2>1. heard'[r] = heard[r]
    BY <1>3 DEF Hear
  <2>2. r \in R => r \in Payload(r)
    BY DEF Payload
  <2>3. QED
    BY <1>3, <2>1, <2>2
<1>4. QED
  BY <1>2, <1>3

(* Whatever is passed to the provider waits there.                         *)
LEMMA WaitingPasses ==
  ASSUME RequestInv, WaitingInv, NEW W \in SUBSET Requests, Passes(W),
         \A r \in W : sent[r] = 0
  PROVE  WaitingInv'
<1>1. TypeOK /\ HearingInv
  BY DEF RequestInv
<1>2. UNCHANGED <<heard, transport>>
  BY DEF Passes
<1>3. \A r \in Requests : r \in W \/ sent'[r] = sent[r]
  BY DEF Passes, Counted
<1>4. CASE IpcPasses(W)
  <2>1. \A r \in Requests : Waiting(r) \/ r \in W => Waiting(r)'
    BY <1>4 DEF IpcPasses, httpVars, Waiting
  <2>2. PendingWaits'
    BY <1>2, <1>3, <2>1 DEF WaitingInv, PendingWaits, Pending
  <2>3. Answerable'
    BY <1>4 DEF IpcPasses, WaitingInv, Answerable, OnItsWay
  <2>4. FetchTimed'
    BY <1>4 DEF IpcPasses, httpVars, WaitingInv, FetchTimed, Timed
  <2>5. QED
    BY <2>2, <2>3, <2>4 DEF WaitingInv
<1>5. CASE HttpPasses(W) /\ UNCHANGED httpVars
  <2>1. W = {} \/ \E r \in Requests : W = {r} /\ HttpSend(r)
    BY <1>5 DEF HttpPasses
  <2>2. \A r \in Requests : fetching'[r] = fetching[r]
    BY <1>5 DEF httpVars
  <2>3. \A r \in W : FALSE
    BY <1>1, <2>1, <2>2 DEF HttpSend, TypeOK, HttpTypeOK, HearingInv, FetchSent
  <2>4. PendingWaits' /\ Answerable' /\ FetchTimed'
    BY <1>2, <1>3, <1>5, <2>3
       DEF HttpPasses, httpVars, ipcVars, WaitingInv, PendingWaits, Pending, Waiting, Answerable,
           OnItsWay, FetchTimed, Timed
  <2>5. QED
    BY <2>4 DEF WaitingInv
<1>6. ASSUME HttpPasses(W), NEW r \in Requests, W = {r}, HttpSend(r)
      PROVE  WaitingInv'
  <2>1. fetching[r] = "no"
    BY <1>1, <1>6 DEF HearingInv, FetchSent
  <2>2. fetching' = [fetching EXCEPT ![r] = "request"] /\ UNCHANGED ipcVars
    BY <1>6 DEF HttpSend, HttpPasses
  <2>3. \A q \in Requests : Waiting(q) \/ q = r => Waiting(q)'
    BY <1>1, <2>2 DEF Waiting, ipcVars, TypeOK, HttpTypeOK
  <2>4. PendingWaits'
    BY <1>2, <1>3, <1>6, <2>3 DEF WaitingInv, PendingWaits, Pending
  <2>5. Answerable'
    BY <2>2 DEF ipcVars, WaitingInv, Answerable, OnItsWay
  <2>6. FetchTimed'
    <3>1. timers \subseteq timers' /\ (HasTimeout => r \in timers')
      BY <1>6 DEF HttpSend
    <3>2. \A q \in Requests : fetching[q] \in {"body", "done"} => fetching'[q] = fetching[q]
      BY <1>1, <2>1, <2>2 DEF TypeOK, HttpTypeOK
    <3>3. \A q \in Requests \ {r} : fetching'[q] = fetching[q]
      BY <1>1, <2>2 DEF TypeOK, HttpTypeOK
    <3>4. \A q \in Requests : Timed(q) /\ q # r => Timed(q)'
      BY <3>1, <3>2, <3>3 DEF Timed
    <3>5. Timed(r)'
      BY <3>1 DEF Timed
    <3>6. QED
      BY <3>3, <3>4, <3>5 DEF WaitingInv, FetchTimed
  <2>7. QED
    BY <2>4, <2>5, <2>6 DEF WaitingInv
<1>7. QED
  BY <1>4, <1>5, <1>6 DEF Passes, HttpPasses

(* A reset, which fails every request that waits, keeps WaitingInv. *)
LEMMA WaitingClears ==
  ASSUME RequestInv, WaitingInv, NEW W \in SUBSET Requests, Clears(W)
  PROVE  WaitingInv'
<1>1. TypeOK /\ HearingInv
  BY DEF RequestInv
<1>2. Hear(responseCallbacks \union W, "InvalidConnection")
  BY DEF Clears
<1>3. responseCallbacks \union W \in SUBSET Requests
  BY <1>1 DEF TypeOK, IpcTypeOK
<1>4. ASSUME NEW r \in Requests PROVE ~Pending(r)'
  <2>1. SUFFICES ASSUME Pending(r)' PROVE FALSE
    OBVIOUS
  <2>2. heard'[r] = <<>> /\ sent'[r] > 0
    BY <2>1 DEF Pending
  <2>3. heard[r] = <<>> /\ r \notin responseCallbacks \union W
    BY <1>1, <1>2, <1>3, <2>2, HearCalls
  <2>4. sent[r] > 0
    BY <2>2, <2>3 DEF Clears, Counted
  <2>5. Waiting(r)
    BY <2>3, <2>4 DEF WaitingInv, PendingWaits, Pending
  <2>6. QED
    BY <1>1, <2>3, <2>5 DEF Clears, Waiting, HearingInv, OneTransport
<1>5. Answerable'
  BY DEF Clears, Answerable
<1>6. FetchTimed'
  BY DEF Clears, httpVars, WaitingInv, FetchTimed, Timed
<1>7. QED
  BY <1>4, <1>5, <1>6 DEF WaitingInv, PendingWaits

(* No event of HTTP makes a callback unheard. *)
LEMMA HttpCalls ==
  ASSUME TypeOK, NEW r \in Requests, HttpStep(r) \/ HttpTimer(r),
         NEW q \in Requests, heard'[q] = <<>>
  PROVE  heard[q] = <<>>
<1>1. ASSUME NEW outcome, Hear({r}, outcome) PROVE heard[q] = <<>>
  BY <1>1, HearCalls
<1>2. ASSUME NEW outcome \in Answered, NEW thrower \in Payload(r),
             heard' = [h \in Requests |->
                         IF h \notin Payload(r) THEN heard[h]
                         ELSE IF h <= thrower THEN <<outcome, "InvalidResponse">>
                         ELSE <<"InvalidResponse">>]
      PROVE  heard[q] = <<>>
  BY <1>2
<1>3. HttpStep(r) => heard[q] = <<>>
  BY <1>1, <1>2 DEF HttpStep
<1>4. ASSUME HttpTimer(r) PROVE heard[q] = <<>>
  <2>1. fetching[r] = "request" =>
          heard' = [h \in Requests |->
                      IF h \in Payload(r)
                      THEN <<Told(h, "ConnectionTimeout"), Told(h, "InvalidConnection")>>
                      ELSE heard[h]]
    BY <1>4 DEF HttpTimer
  <2>2. fetching[r] = "body" => Hear({r}, "InvalidResponse")
    BY <1>4 DEF HttpTimer
  <2>3. fetching[r] \notin {"request", "body"} => UNCHANGED heard
    BY <1>4 DEF HttpTimer
  <2>4. QED
    BY <1>1, <2>1, <2>2, <2>3
<1>5. QED
  BY <1>3, <1>4

(* An event of HTTP keeps WaitingInv. *)
LEMMA WaitingHttp ==
  ASSUME RequestInv, WaitingInv, NEW r \in Requests, HttpStep(r) \/ HttpTimer(r)
  PROVE  WaitingInv'
<1>1. TypeOK /\ HearingInv
  BY DEF RequestInv
<1>2. UNCHANGED <<transport, request, sent, ipcVars>>
  BY DEF HttpStep, HttpTimer
<1>3. responseCallbacks = {} /\ responseCallbacks' = {}
  <2>1. fetching[r] # "no" \/ r \in timers
    BY DEF HttpStep, HttpTimer, Success, BodyEnds, Failed, Aborts
  <2>2. QED
    BY <1>1, <1>2, <2>1 DEF HearingInv, OneTransport, TypeOK, ManagerTypeOK, ipcVars
<1>4. fetching' \in {[fetching EXCEPT ![r] = "body"], [fetching EXCEPT ![r] = "done"]}
  BY DEF HttpStep, HttpTimer, Success, BodyEnds, Failed, Aborts
<1>5. \A q \in Requests \ {r} : fetching'[q] = fetching[q]
  BY <1>1, <1>4 DEF TypeOK, HttpTypeOK
<1>6. fetching'[r] \in {"body", "done"}
  BY <1>1, <1>4 DEF TypeOK, HttpTypeOK
<1>7. FetchTimed'
  <2>1. \A q \in Requests : fetching'[q] = "request" => q # r
    BY <1>6
  <2>2. QED
    BY <1>6, <2>1 DEF FetchTimed, Timed
<1>8. Answerable'
  BY <1>3 DEF Answerable
<1>9. r \in Payload(r)
  BY DEF Payload
<1>10. \A q \in Requests : heard'[q] = <<>> => heard[q] = <<>>
  BY <1>1, HttpCalls
<1>11. heard'[r] = <<>> => fetching'[r] = "body" \/ ~Waiting(r)
  <2>1. SUFFICES ASSUME heard'[r] = <<>>, fetching'[r] # "body", Waiting(r) PROVE FALSE
    OBVIOUS
  <2>2. \A outcome : ~Hear({r}, outcome)
    BY <1>1, <2>1, HearCalls
  <2>3. fetching[r] \in {"request", "body"}
    BY <1>3, <2>1 DEF Waiting
  <2>4. ASSUME HttpStep(r) PROVE FALSE
    <3>1. ~Success(r)
      BY <1>1, <2>1 DEF Success, TypeOK, HttpTypeOK
    <3>2. PICK outcome \in Answered, thrower \in Payload(r) :
            heard' = [h \in Requests |->
                        IF h \notin Payload(r) THEN heard[h]
                        ELSE IF h <= thrower THEN <<outcome, "InvalidResponse">>
                        ELSE <<"InvalidResponse">>]
      BY <2>2, <2>4, <3>1 DEF HttpStep
    <3>3. QED
      BY <1>9, <2>1, <3>2
  <2>5. ASSUME HttpTimer(r) PROVE FALSE
    <3>1. fetching[r] = "request"
      BY <2>2, <2>3, <2>5 DEF HttpTimer
    <3>2. heard' = [h \in Requests |->
                      IF h \in Payload(r)
                      THEN <<Told(h, "ConnectionTimeout"), Told(h, "InvalidConnection")>>
                      ELSE heard[h]]
      BY <2>5, <3>1 DEF HttpTimer
    <3>3. QED
      BY <1>9, <2>1, <3>2
  <2>6. QED
    BY <2>4, <2>5
<1>12. PendingWaits'
  <2>1. ASSUME NEW q \in Requests, Pending(q)' PROVE Waiting(q)'
    <3>1. Pending(q)
      BY <1>2, <1>10, <2>1 DEF Pending
    <3>2. Waiting(q)
      BY <3>1 DEF WaitingInv, PendingWaits
    <3>3. CASE q = r
      BY <1>11, <2>1, <3>2, <3>3 DEF Pending, Waiting
    <3>4. CASE q # r
      BY <1>3, <1>5, <3>2, <3>4 DEF Waiting
    <3>5. QED
      BY <3>3, <3>4
  <2>2. QED
    BY <2>1 DEF PendingWaits
<1>13. QED
  BY <1>7, <1>8, <1>12 DEF WaitingInv

-----------------------------------------------------------------------------
(* Messages on the wire. *)

(* The wire after a message of the node. *)
LEMMA WireAppends ==
  ASSUME TypeOK, NEW m \in Messages, wire' = Append(wire, m)
  PROVE  /\ Len(wire) \in Nat /\ DOMAIN wire = 1 .. Len(wire)
         /\ DOMAIN wire' = 1 .. Len(wire) + 1
         /\ wire'[Len(wire) + 1] = m
         /\ \A j \in DOMAIN wire : j \in DOMAIN wire' /\ wire'[j] = wire[j]
<1>1. wire \in Seq(Messages)
  BY DEF TypeOK, IpcTypeOK
<1>2. QED
  BY <1>1

(* The wire after a message has arrived. *)
LEMMA WireShrinks ==
  ASSUME TypeOK, wire # <<>>, wire' = Tail(wire)
  PROVE  /\ Len(wire) \in Nat \ {0} /\ DOMAIN wire = 1 .. Len(wire)
         /\ DOMAIN wire' = 1 .. Len(wire) - 1
         /\ Head(wire) = wire[1]
         /\ \A j \in DOMAIN wire' : j + 1 \in DOMAIN wire /\ wire'[j] = wire[j + 1]
         /\ \A j \in DOMAIN wire : j # 1 => j - 1 \in DOMAIN wire' /\ wire'[j - 1] = wire[j]
<1>1. wire \in Seq(Messages) /\ wire # <<>>
  BY DEF TypeOK, IpcTypeOK
<1>2. /\ Len(wire) \in Nat \ {0} /\ DOMAIN wire = 1 .. Len(wire)
      /\ DOMAIN wire' = 1 .. Len(wire) - 1 /\ Head(wire) = wire[1]
  BY <1>1
<1>3. \A j \in 1 .. Len(wire) - 1 : wire'[j] = wire[j + 1]
  BY <1>1
<1>4. \A j \in DOMAIN wire' : j + 1 \in DOMAIN wire /\ wire'[j] = wire[j + 1]
  BY <1>2, <1>3
<1>5. ASSUME NEW j \in DOMAIN wire, j # 1
      PROVE  j - 1 \in DOMAIN wire' /\ wire'[j - 1] = wire[j]
  <2>1. j - 1 \in 1 .. Len(wire) - 1 /\ (j - 1) + 1 = j
    BY <1>2, <1>5
  <2>2. QED
    BY <1>2, <1>3, <2>1
<1>6. QED
  BY <1>2, <1>4, <1>5

(* What the node answers. *)
LEMMA AnswerFacts ==
  ASSUME TypeOK, NEW r \in asked, NodeAnswers(r)
  PROVE  /\ r \in Requests
         /\ \E m \in Messages :
              /\ m.to = r /\ wire' = Append(wire, m)
              /\ \/ /\ request[r].what = "subscribe"
                    /\ m.id = issued + 1 /\ issued + 1 \in Ids /\ issued' = issued + 1
                    /\ live' = live \union {issued + 1}
                 \/ /\ m.id = NoId /\ issued' = issued
                    /\ \/ request[r].what # "unsubscribe" /\ live' = live
                       \/ /\ request[r].what = "unsubscribe"
                          /\ live' = live \ {request[r].target}
         /\ asked' = asked \ {r}
         /\ UNCHANGED <<managerVars, middlewareVars, httpVars, responseCallbacks, lastChunk,
                        chunkTimer>>
<1>1. r \in Requests /\ issued \in 0 .. MaxIds /\ MaxIds \in Nat
  BY WireAssumption DEF TypeOK, IpcTypeOK
<1>2. /\ asked' = asked \ {r}
      /\ UNCHANGED <<managerVars, middlewareVars, httpVars, responseCallbacks, lastChunk,
                     chunkTimer>>
  BY DEF NodeAnswers, Answers
<1>3. CASE /\ request[r].what = "subscribe" /\ issued < MaxIds /\ issued' = issued + 1
           /\ Answers(r, Response(r, TRUE, issued + 1), live \union {issued + 1})
  <2>1. issued + 1 \in Ids
    BY <1>1, <1>3 DEF Ids
  <2>2. Response(r, TRUE, issued + 1) \in Messages
    BY <1>1, <2>1 DEF Response, Messages
  <2>3. Response(r, TRUE, issued + 1).to = r /\ Response(r, TRUE, issued + 1).id = issued + 1
    BY DEF Response
  <2>4. QED
    BY <1>1, <1>2, <1>3, <2>1, <2>2, <2>3 DEF Answers
<1>4. ASSUME NEW ok \in BOOLEAN, NEW served, Answers(r, Response(r, ok, NoId), served),
             UNCHANGED issued,
             \/ request[r].what # "unsubscribe" /\ served = live
             \/ request[r].what = "unsubscribe" /\ served = live \ {request[r].target}
      PROVE  \E m \in Messages :
               /\ m.to = r /\ wire' = Append(wire, m)
               /\ m.id = NoId /\ issued' = issued
               /\ \/ request[r].what # "unsubscribe" /\ live' = live
                  \/ /\ request[r].what = "unsubscribe"
                     /\ live' = live \ {request[r].target}
  <2>1. Response(r, ok, NoId) \in Messages
    BY <1>1 DEF Response, Messages
  <2>2. Response(r, ok, NoId).to = r /\ Response(r, ok, NoId).id = NoId
    BY DEF Response
  <2>3. QED
    BY <1>4, <2>1, <2>2 DEF Answers
<1>5. QED
  BY <1>1, <1>2, <1>3, <1>4 DEF NodeAnswers

(* Those that wait over IPC. *)
LEMMA WaitingSame ==
  ASSUME WaitingInv, UNCHANGED <<managerVars, httpVars, ipcVars>>
  PROVE  WaitingInv'
BY DEF managerVars, httpVars, ipcVars, WaitingInv, PendingWaits, Pending, Waiting, Answerable,
       OnItsWay, FetchTimed, Timed

(* An event of IPC keeps WaitingInv. *)
LEMMA WaitingIpc ==
  ASSUME RequestInv, WaitingInv, IpcStep
  PROVE  WaitingInv'
<1>1. TypeOK /\ HearingInv /\ transport = "ipc"
  BY DEF RequestInv, IpcStep
<1>2. UNCHANGED httpVars
  BY DEF IpcStep, NodeAnswers, Deliver, IpcFails, Socket
<1>3. FetchTimed'
  BY <1>2 DEF httpVars, WaitingInv, FetchTimed, Timed
<1>4. ASSUME UNCHANGED <<managerVars, responseCallbacks>> PROVE PendingWaits'
  BY <1>2, <1>4 DEF managerVars, httpVars, WaitingInv, PendingWaits, Pending, Waiting
<1>5. ASSUME NEW R \in SUBSET responseCallbacks, NEW outcome, Hear(R, outcome),
             responseCallbacks' = responseCallbacks \ R, UNCHANGED sent
      PROVE  PendingWaits'
  <2>1. R \in SUBSET Requests
    BY <1>1 DEF TypeOK, IpcTypeOK
  <2>2. ASSUME NEW r \in Requests, Pending(r)' PROVE Waiting(r)'
    <3>1. heard[r] = <<>> /\ r \notin R
      BY <1>1, <1>5, <2>1, <2>2, HearCalls DEF Pending
    <3>2. Waiting(r)
      BY <1>5, <2>2, <3>1 DEF Pending, WaitingInv, PendingWaits
    <3>3. QED
      BY <1>2, <1>5, <3>1, <3>2 DEF Waiting, httpVars
  <2>3. QED
    BY <2>2 DEF PendingWaits
<1>6. CASE \E r \in asked : NodeAnswers(r)
  <2>1. PICK r \in asked : NodeAnswers(r)
    BY <1>6
  <2>2. PICK m \in Messages : m.to = r /\ wire' = Append(wire, m)
    BY <1>1, <2>1, AnswerFacts
  <2>3. asked' = asked \ {r} /\ UNCHANGED <<managerVars, responseCallbacks, lastChunk, chunkTimer>>
    BY <1>1, <2>1, AnswerFacts
  <2>4. \A q : OnItsWay(q) => OnItsWay(q)'
    <3>1. /\ Len(wire) \in Nat /\ DOMAIN wire' = 1 .. Len(wire) + 1
          /\ wire'[Len(wire) + 1] = m
          /\ \A j \in DOMAIN wire : j \in DOMAIN wire' /\ wire'[j] = wire[j]
      BY <1>1, <2>2, WireAppends
    <3>2. Len(wire) + 1 \in DOMAIN wire'
      BY <3>1
    <3>3. OnItsWay(r)'
      BY <2>2, <3>1, <3>2 DEF OnItsWay
    <3>4. \A q : q # r /\ OnItsWay(q) => OnItsWay(q)'
      BY <2>3, <3>1 DEF OnItsWay
    <3>5. QED
      BY <3>3, <3>4
  <2>5. Answerable'
    BY <2>3, <2>4 DEF WaitingInv, Answerable
  <2>6. QED
    BY <1>3, <1>4, <2>3, <2>5 DEF WaitingInv
<1>7. CASE wire # <<>> /\ Deliver
  <2> DEFINE m == Head(wire)
             R == {m.to} \intersect responseCallbacks
             outcome == IF m.ok THEN "result" ELSE "ErrorResponse"
  <2>1. /\ Hear(R, outcome) /\ Parsed /\ UNCHANGED sent
    BY <1>7 DEF Deliver
  <2>2. /\ responseCallbacks' = responseCallbacks \ {m.to} /\ wire' = Tail(wire)
        /\ lastChunk # "garbage" /\ UNCHANGED asked
    BY <2>1 DEF Parsed
  <2>3. responseCallbacks' = responseCallbacks \ R /\ R \in SUBSET responseCallbacks
    BY <2>2
  <2>4. PendingWaits'
    <3> HIDE DEF R, outcome
    <3>1. QED
      BY <1>5, <2>1, <2>3
  <2>5. Answerable'
    <3>1. ASSUME NEW r \in responseCallbacks' PROVE OnItsWay(r)'
      <4>1. r \in responseCallbacks /\ r # m.to
        BY <2>2, <3>1
      <4>2. OnItsWay(r)
        BY <2>2, <4>1 DEF WaitingInv, Answerable
      <4>3. /\ m = wire[1]
            /\ \A j \in DOMAIN wire : j # 1 => j - 1 \in DOMAIN wire' /\ wire'[j - 1] = wire[j]
        BY <1>1, <1>7, <2>2, WireShrinks
      <4>4. CASE r \in asked
        BY <2>2, <4>4 DEF OnItsWay
      <4>5. ASSUME NEW j \in DOMAIN wire, wire[j].to = r PROVE OnItsWay(r)'
        <5>1. j # 1
          BY <4>1, <4>3, <4>5
        <5>2. j - 1 \in DOMAIN wire' /\ wire'[j - 1].to = r
          BY <4>3, <4>5, <5>1
        <5>3. QED
          BY <5>2 DEF OnItsWay
      <4>6. QED
        BY <4>2, <4>4, <4>5 DEF OnItsWay
    <3>2. QED
      BY <3>1 DEF Answerable
  <2>6. QED
    BY <1>3, <2>4, <2>5 DEF WaitingInv
<1>8. CASE IpcFails
  <2>1. /\ Hear(responseCallbacks, "InvalidConnection") /\ responseCallbacks' = {}
        /\ UNCHANGED sent
    BY <1>8 DEF IpcFails, Ends, ChunkTimeout, Failing
  <2>2. responseCallbacks' = responseCallbacks \ responseCallbacks
    BY <2>1
  <2>3. PendingWaits'
    BY <1>5, <2>1, <2>2
  <2>4. Answerable'
    BY <2>1 DEF Answerable
  <2>5. QED
    BY <1>3, <2>3, <2>4 DEF WaitingInv
<1>9. CASE Socket
  <2>1. UNCHANGED <<managerVars, responseCallbacks>>
    BY <1>9 DEF Socket, Connects, IpcReconnect, FirstPiece, NotParsed, Notifies
  <2>2. ASSUME Connects \/ IpcReconnect \/ FirstPiece PROVE Answerable'
    BY <2>2
       DEF Connects, IpcReconnect, FirstPiece, WaitingInv, Answerable, OnItsWay
  <2>3. ASSUME NotParsed PROVE Answerable'
    BY <2>3 DEF NotParsed, Answerable
  <2>4. ASSUME NEW i \in live, Notifies(i) PROVE Answerable'
    <3>1. Notification(i) \in Messages
      BY <1>1, WireAssumption DEF Notification, Messages, TypeOK, IpcTypeOK, Ids
    <3>2. \A j \in DOMAIN wire : j \in DOMAIN wire' /\ wire'[j] = wire[j]
      BY <1>1, <2>4, <3>1, WireAppends DEF Notifies
    <3>3. QED
      BY <2>4, <3>2 DEF Notifies, WaitingInv, Answerable, OnItsWay
  <2>5. Answerable'
    BY <1>9, <2>2, <2>3, <2>4 DEF Socket
  <2>6. QED
    BY <1>3, <1>4, <2>1, <2>5 DEF WaitingInv
<1>10. QED
  BY <1>6, <1>7, <1>8, <1>9 DEF IpcStep

-----------------------------------------------------------------------------
(* A new manager has the invariant. *)
LEMMA WaitingInit == Init => WaitingInv
<1> SUFFICES ASSUME Init PROVE WaitingInv
  OBVIOUS
<1>1. \A r \in Requests : ~Pending(r) /\ fetching[r] = "no"
  BY DEF Init, HttpInit, Pending
<1>2. responseCallbacks = {}
  BY DEF Init, IpcInit
<1>3. QED
  BY <1>1, <1>2 DEF WaitingInv, PendingWaits, Answerable, FetchTimed

(* Every step keeps the invariant. *)
LEMMA WaitingStep ==
  ASSUME RequestInv, WaitingInv, [Next]_vars
  PROVE  WaitingInv'
<1>1. TypeOK /\ SendingInv
  BY DEF RequestInv
<1>2. ASSUME NEW new \in Seq(Records), NEW W \in SUBSET Requests,
             NEW M \in SUBSET Requests, Makes(new, W, M)
      PROVE  WaitingInv'
  <2>1. \A r \in W : sent[r] = 0
    <3>1. W \subseteq Numbered(new)
      BY <1>2 DEF Makes
    <3>2. \A r \in Numbered(new) : sent[r] = 0
      BY <1>1, <1>2, MakesFacts
    <3>3. QED
      BY <3>1, <3>2
  <2>2. CASE Passes(W)
    BY <2>1, <2>2, WaitingPasses
  <2>3. CASE Clears(W)
    BY <2>3, WaitingClears
  <2>4. QED
    BY <1>2, <2>2, <2>3 DEF Makes
<1>3. ASSUME NEW r \in Requests, Arrives(r) PROVE WaitingInv'
  <2>1. sent[r] = 0 /\ Passes({r})
    BY <1>1, <1>3 DEF Arrives, SendingInv, Chained
  <2>2. {r} \in SUBSET Requests /\ \A q \in {r} : sent[q] = 0
    BY <2>1
  <2>3. QED
    BY <2>1, <2>2, WaitingPasses
<1>4. ASSUME NEW r \in Requests, GoesOn(r) PROVE WaitingInv'
  BY <1>4, WaitingSame DEF GoesOn
<1>5. ASSUME NEW r \in Requests, HttpStep(r) \/ HttpTimer(r) PROVE WaitingInv'
  BY <1>5, WaitingHttp
<1>6. IpcStep => WaitingInv'
  BY WaitingIpc
<1>7. Stays => WaitingInv'
  BY WaitingSame DEF Stays
<1>8. QED
  BY <1>1, <1>2, <1>3, <1>4, <1>5, <1>6, <1>7, StepKinds DEF StepKind

(* A request that was passed to the provider is never forgotten: its       *)
(* callback waits for something that comes or times out, whatever resets,  *)
(* time-outs, lost connections and half messages there were.               *)
THEOREM ManagerNoneForgotten == Spec => []NoneForgotten
<1>1. Spec => []WaitingInv
  <2>1. RequestInv /\ WaitingInv /\ [Next]_vars => WaitingInv'
    BY WaitingStep
  <2>2. QED
    BY <2>1, WaitingInit, RequestInvariant, PTL DEF Spec
<1>2. RequestInv /\ WaitingInv => NoneForgotten
  <2> SUFFICES ASSUME RequestInv, WaitingInv, NEW r \in Requests, Pending(r)
               PROVE  /\ transport = "ipc" => r \in responseCallbacks /\ Expected(r)
                      /\ transport = "http" =>
                           fetching[r] \in {"request", "body"} /\ Timed(r)
    BY DEF NoneForgotten, RequestInv, TypeOK, ManagerTypeOK
  <2>1. Waiting(r)
    BY DEF WaitingInv, PendingWaits
  <2>2. CASE transport = "ipc"
    <3>1. r \in responseCallbacks
      BY <2>1, <2>2 DEF Waiting, RequestInv, HearingInv, OneTransport
    <3>2. Expected(r)
      BY <3>1 DEF WaitingInv, Answerable, OnItsWay, Expected
    <3>3. QED
      BY <2>2, <3>1, <3>2
  <2>3. CASE transport = "http"
    <3>1. fetching[r] \in {"request", "body"}
      BY <2>1, <2>3 DEF Waiting, RequestInv, HearingInv, OneTransport
    <3>2. Timed(r)
      BY <3>1 DEF WaitingInv, FetchTimed, Timed
    <3>3. QED
      BY <2>3, <3>1, <3>2
  <2>4. QED
    BY <2>2, <2>3
<1>3. QED
  BY <1>1, <1>2, RequestInvariant, PTL
=============================================================================
