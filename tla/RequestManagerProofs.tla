------------------------- MODULE RequestManagerProofs -------------------------
(***************************************************************************)
(* What holds of RequestManager for any number of requests, subscriptions, *)
(* middlewares and messages on their way.                                  *)
(***************************************************************************)
EXTENDS RequestManager, SequenceTheorems, FiniteSetTheorems, TLAPS

-----------------------------------------------------------------------------
(* Requests that are made. *)

(* Numbering new requests gives them the numbers after the last.           *)
LEMMA CreateFacts ==
  ASSUME ManagerTypeOK, NEW new \in Seq(Records), Create(new)
  PROVE  /\ last' = last + Len(new) /\ last' \in {0} \union Requests
         /\ Len(new) \in Nat /\ last \in Nat
         /\ Numbered(new) \subseteq Requests
         /\ \A r \in Requests : r \in Numbered(new) <=> last < r /\ r <= last'
         /\ request' = [r \in Requests |->
                          IF r \in Numbered(new) THEN new[r - last] ELSE request[r]]
         /\ \A r \in Numbered(new) : r - last \in 1 .. Len(new)
         /\ request' \in [Requests -> Records]
<1>1. Len(new) \in Nat /\ DOMAIN new = 1 .. Len(new) /\ last \in Nat
  BY DEF ManagerTypeOK, Requests
<1>2. last' = last + Len(new)
  BY DEF Create
<1>3. Numbered(new) \subseteq Requests
  BY DEF Create
<1>4. \A r \in Requests : r \in Numbered(new) <=> last < r /\ r <= last'
  <2>1. ASSUME NEW r \in Requests, last < r, r <= last' PROVE r \in Numbered(new)
    <3>1. r - last \in 1 .. Len(new) /\ r = last + (r - last)
      BY <1>1, <1>2, <2>1 DEF Requests
    <3>2. QED
      BY <1>1, <3>1 DEF Numbered
  <2>2. QED
    BY <1>1, <1>2, <2>1 DEF Numbered
<1>5. \A r \in Numbered(new) : r - last \in 1 .. Len(new)
  BY <1>1 DEF Numbered
<1>6. last' \in {0} \union Requests
  <2>1. CASE Len(new) = 0
    BY <1>1, <1>2, <2>1 DEF ManagerTypeOK
  <2>2. CASE Len(new) # 0
    <3>1. Len(new) \in DOMAIN new
      BY <1>1, <2>2
    <3>2. last' \in Numbered(new)
      BY <1>2, <3>1 DEF Numbered
    <3>3. QED
      BY <1>3, <3>2
  <2>3. QED
    BY <2>1, <2>2
<1>7. request' = [r \in Requests |->
                    IF r \in Numbered(new) THEN new[r - last] ELSE request[r]]
  BY DEF Create
<1>8. request' \in [Requests -> Records]
  BY <1>5, <1>7 DEF ManagerTypeOK
<1>9. QED
  BY <1>1, <1>2, <1>3, <1>4, <1>5, <1>6, <1>7, <1>8

(* The requests that subscribe, unsubscribe and clearSubscriptions make.   *)
LEMMA RequestTyped ==
  ASSUME NEW what \in Kinds, NEW of \in Subscriptions \union {NoSubscription},
         NEW target \in Ids \union {NoId}
  PROVE  Request(what, of, target) \in Records
BY DEF Request, Records

(* The fields of a request. *)
LEMMA RequestFields ==
  \A what, of, target :
    /\ Request(what, of, target).what = what
    /\ Request(what, of, target).of = of
    /\ Request(what, of, target).target = target
BY DEF Request

(* Removing an id asks for at most one unsubscribe, of that id. *)
LEMMA RemovalRequestTyped ==
  ASSUME NEW i \in Ids \union {NoId}
  PROVE  /\ RemovalRequest(i) \in Seq(Records)
         /\ RemovalRequest(i) = <<>> \/
              /\ Known(i)
              /\ RemovalRequest(i) = <<Request("unsubscribe", NoSubscription, i)>>
BY RequestTyped DEF RemovalRequest, Kinds

(* An order lists the ids it is an order of. *)
LEMMA OrdersFacts ==
  ASSUME NEW I \in SUBSET Ids, NEW order \in Orders(I)
  PROVE  \E n \in Nat : order \in [1 .. n -> I] /\ Range(order) = I
<1>1. IsFiniteSet(Ids)
  BY FS_Interval, WireAssumption DEF Ids
<1>2. IsFiniteSet(I)
  BY <1>1, FS_Subset
<1>3. Cardinality(I) \in Nat
  BY <1>2, FS_CardinalityType
<1>4. QED
  BY <1>3 DEF Orders

(* The requests that clearSubscriptions makes, in one of their orders.     *)
LEMMA ClearFacts ==
  ASSUME ManagerTypeOK, NEW keep, NEW n, ClearSubscriptions(keep, n)
  PROVE  \E new \in Seq(Records) :
           /\ Create(new)
           /\ \A k \in 1 .. Len(new) : \E i \in Ids :
                new[k] = Request("unsubscribe", NoSubscription, i)
           /\ \A i \in Ids : subscriptions'[i] # subscriptions[i] =>
                \E k \in 1 .. Len(new) : new[k] = Request("unsubscribe", NoSubscription, i)
           /\ \/ /\ registered = <<>>
                 /\ UNCHANGED middlewareVars
                 /\ Counted(Numbered(new))
                 /\ IpcReset(Numbered(new), n)
                 /\ Hear(Failing(Numbered(new)), "InvalidConnection")
              \/ /\ registered # <<>>
                 /\ ApplyMiddleware(Numbered(new))
                 /\ Counted({})
                 /\ IpcReset({}, n)
                 /\ Hear(Failing({}), "InvalidConnection")
<1> DEFINE cleared == {i \in Ids : Known(i) /\ (keep => subscriptions[i] \notin Syncing)}
           Removals(order) == [k \in DOMAIN order |->
                                 Request("unsubscribe", NoSubscription, order[k])]
<1>1. PICK order \in Orders(cleared) :
        LET new == Removals(order)
            written == IF registered = <<>> THEN Numbered(new) ELSE {}
        IN /\ Create(new)
           /\ IF registered = <<>> THEN UNCHANGED middlewareVars
              ELSE ApplyMiddleware(Numbered(new))
           /\ Counted(written)
           /\ IpcReset(written, n)
           /\ Hear(Failing(written), "InvalidConnection")
  BY DEF ClearSubscriptions
<1>2. PICK m \in Nat : order \in [1 .. m -> cleared] /\ Range(order) = cleared
  BY <1>1, OrdersFacts
<1> DEFINE new == Removals(order)
<1>3. new \in Seq(Records) /\ Len(new) = m /\ DOMAIN new = 1 .. m
  <2>1. \A k \in 1 .. m : Request("unsubscribe", NoSubscription, order[k]) \in Records
    BY <1>2, RequestTyped DEF Kinds
  <2>2. QED
    BY <1>2, <2>1
<1>4. \A k \in 1 .. Len(new) : \E i \in Ids :
        new[k] = Request("unsubscribe", NoSubscription, i)
  BY <1>2, <1>3
<1>5. ASSUME NEW i \in Ids, subscriptions'[i] # subscriptions[i]
      PROVE  \E k \in 1 .. Len(new) : new[k] = Request("unsubscribe", NoSubscription, i)
  <2>1. i \in cleared
    BY <1>5 DEF ClearSubscriptions, Removed, ManagerTypeOK
  <2>2. PICK k \in 1 .. m : order[k] = i
    BY <1>2, <2>1 DEF Range
  <2>3. QED
    BY <1>2, <1>3, <2>2
<1>6. \/ /\ registered = <<>>
         /\ UNCHANGED middlewareVars
         /\ Counted(Numbered(new))
         /\ IpcReset(Numbered(new), n)
         /\ Hear(Failing(Numbered(new)), "InvalidConnection")
      \/ /\ registered # <<>>
         /\ ApplyMiddleware(Numbered(new))
         /\ Counted({})
         /\ IpcReset({}, n)
         /\ Hear(Failing({}), "InvalidConnection")
  <2> HIDE DEF new
  <2>1. CASE registered = <<>>
    BY <1>1, <2>1 DEF new
  <2>2. CASE registered # <<>>
    BY <1>1, <2>2 DEF new
  <2>3. QED
    BY <2>1, <2>2
<1>7. Create(new)
  BY <1>1
<1>8. QED
  BY <1>3, <1>4, <1>5, <1>6, <1>7

-----------------------------------------------------------------------------
(* Types. *)

(* What a step leaves alone keeps its type. *)
LEMMA SameTypes ==
  /\ MiddlewareTypeOK /\ UNCHANGED middlewareVars => MiddlewareTypeOK'
  /\ HttpTypeOK /\ UNCHANGED httpVars => HttpTypeOK'
  /\ ChunkTypeOK /\ UNCHANGED <<lastChunk, chunkTimer>> => ChunkTypeOK'
  /\ IpcTypeOK /\ UNCHANGED ipcVars => IpcTypeOK'
  /\ ManagerTypeOK /\ UNCHANGED managerVars => ManagerTypeOK'
<1>1. MiddlewareTypeOK /\ UNCHANGED middlewareVars => MiddlewareTypeOK'
  BY DEF middlewareVars, MiddlewareTypeOK
<1>2. HttpTypeOK /\ UNCHANGED httpVars => HttpTypeOK'
  BY DEF httpVars, HttpTypeOK
<1>3. ChunkTypeOK /\ UNCHANGED <<lastChunk, chunkTimer>> => ChunkTypeOK'
  BY DEF ChunkTypeOK
<1>4. IpcTypeOK /\ UNCHANGED ipcVars => IpcTypeOK'
  BY <1>3 DEF ipcVars, IpcTypeOK
<1>5. ManagerTypeOK /\ UNCHANGED managerVars => ManagerTypeOK'
  BY DEF managerVars, ManagerTypeOK
<1>6. QED
  BY <1>1, <1>2, <1>3, <1>4, <1>5

(* What sending requests keeps.                                            *)
LEMMA ToProviderType ==
  ASSUME TypeOK, NEW R \in SUBSET Requests, ToProvider(R)
  PROVE  HttpTypeOK' /\ IpcTypeOK' /\ sent' \in [Requests -> Nat]
<1>1. sent' \in [Requests -> Nat]
  BY DEF ToProvider, Counted, TypeOK, ManagerTypeOK
<1>2. CASE transport = "ipc"
  <2>1. HttpTypeOK'
    BY <1>2, SameTypes DEF ToProvider, TypeOK
  <2>2. IpcSend(R)
    BY <1>2 DEF ToProvider
  <2>3. ChunkTypeOK'
    BY <2>2, SameTypes DEF IpcSend, IpcTypeOK, TypeOK
  <2>4. IpcTypeOK'
    BY <2>2, <2>3 DEF IpcSend, Write, IpcTypeOK, TypeOK
  <2>5. QED
    BY <1>1, <2>1, <2>4
<1>3. CASE transport = "http"
  <2>1. IpcTypeOK'
    BY <1>3, SameTypes DEF ToProvider, TypeOK
  <2>2. HttpTypeOK'
    BY <1>3 DEF ToProvider, HttpSend, HttpTypeOK, TypeOK
  <2>3. QED
    BY <1>1, <2>1, <2>2
<1>4. QED
  BY <1>2, <1>3 DEF TypeOK, ManagerTypeOK

(* Handing requests to the middlewares keeps their types. *)
LEMMA ApplyType ==
  ASSUME MiddlewareTypeOK, registered # <<>>, NEW R, ApplyMiddleware(R)
  PROVE  MiddlewareTypeOK'
<1>1. registered \in Seq(Middlewares) /\ registered # <<>>
  BY DEF MiddlewareTypeOK
<1>2. /\ Tail(registered) \in Seq(Middlewares \union {SendRpc})
      /\ Head(registered) \in Middlewares
  BY <1>1
<1>3. Append(Tail(registered), SendRpc) \in Seq(Middlewares \union {SendRpc})
  BY <1>2
<1>4. QED
  BY <1>1, <1>2, <1>3 DEF MiddlewareTypeOK, ApplyMiddleware

(* send and the provider keep the types of what they change. *)
LEMMA SendType ==
  ASSUME TypeOK, NEW R \in SUBSET Requests,
         Send(R) \/ (ToProvider(R) /\ UNCHANGED middlewareVars)
  PROVE  /\ MiddlewareTypeOK' /\ HttpTypeOK' /\ IpcTypeOK'
         /\ sent' \in [Requests -> Nat]
<1>1. CASE ToProvider(R) /\ UNCHANGED middlewareVars
  BY <1>1, ToProviderType, SameTypes DEF TypeOK
<1>2. CASE /\ registered # <<>> /\ ApplyMiddleware(R)
           /\ UNCHANGED <<sent, httpVars, ipcVars>>
  BY <1>2, ApplyType, SameTypes DEF TypeOK, ManagerTypeOK
<1>3. QED
  BY <1>1, <1>2 DEF Send

(* reset of the IPC provider keeps its types. *)
LEMMA ResetType ==
  ASSUME IpcTypeOK, NEW n \in Nat, NEW R \in SUBSET Requests, IpcReset(R, n)
  PROVE  IpcTypeOK'
<1>1. ChunkTypeOK'
  BY SameTypes DEF IpcReset, IpcTypeOK
<1>2. QED
  BY <1>1 DEF IpcReset, Write, IpcTypeOK

(* Calling callbacks keeps the type of what was heard. *)
LEMMA HearType ==
  ASSUME heard \in [Requests -> Seq(Outcomes)], NEW R, NEW outcome \in Outcomes, Hear(R, outcome)
  PROVE  heard' \in [Requests -> Seq(Outcomes)]
<1>1. \A r \in Requests : Told(r, outcome) \in Outcomes
  BY DEF Told, Outcomes
<1>2. \A r \in Requests : Append(heard[r], Told(r, outcome)) \in Seq(Outcomes)
  BY <1>1
<1>3. QED
  BY <1>2 DEF Hear

(* Every step keeps every variable in its type.                            *)
LEMMA TypeStep == TypeOK /\ [Next]_vars => TypeOK'
<1> SUFFICES ASSUME TypeOK, [Next]_vars PROVE TypeOK'
  OBVIOUS
<1> USE DEF TypeOK
<1>1. ASSUME NEW new \in Seq(Records), Create(new),
             \/ Send(Numbered(new))
             \/ new # <<>> /\ ToProvider({last + 1}) /\ UNCHANGED middlewareVars
      PROVE  /\ MiddlewareTypeOK' /\ HttpTypeOK' /\ IpcTypeOK'
             /\ sent' \in [Requests -> Nat]
             /\ request' \in [Requests -> Records]
             /\ last' \in {0} \union Requests
  <2>1. /\ Numbered(new) \subseteq Requests
        /\ request' \in [Requests -> Records] /\ last' \in {0} \union Requests
    BY <1>1, CreateFacts
  <2>2. new # <<>> => last + 1 \in Requests
    <3>1. new # <<>> => 1 \in DOMAIN new
      BY <1>1
    <3>2. QED
      BY <2>1, <3>1 DEF Numbered
  <2>3. CASE Send(Numbered(new))
    <3>1. Numbered(new) \in SUBSET Requests
      BY <2>1
    <3>2. QED
      BY <2>1, <2>3, <3>1, SendType
  <2>4. CASE new # <<>> /\ ToProvider({last + 1}) /\ UNCHANGED middlewareVars
    BY <1>1, <2>1, <2>2, <2>4, SendType
  <2>5. QED
    BY <1>1, <2>3, <2>4
<1>2. CASE Call
  <2>1. <<Request("call", NoSubscription, NoId)>> \in Seq(Records)
    BY RequestTyped DEF Kinds
  <2>2. Numbered(<<Request("call", NoSubscription, NoId)>>) = {last + 1}
    BY DEF Numbered
  <2>3. QED
    BY <1>1, <1>2, <2>1, <2>2 DEF Call, ManagerTypeOK
<1>3. CASE ExecuteBatch
  <2> DEFINE new == <<Request("batch", NoSubscription, NoId),
                      Request("batched", NoSubscription, NoId)>>
  <2>1. new \in Seq(Records) /\ new # <<>>
    BY RequestTyped DEF Kinds
  <2>2. Create(new) /\ ToProvider({last + 1}) /\ UNCHANGED middlewareVars
    BY <1>3 DEF ExecuteBatch
  <2>3. QED
    BY <1>1, <1>3, <2>1, <2>2 DEF ExecuteBatch, ManagerTypeOK
<1>4. ASSUME NEW m \in Middlewares, Use(m) PROVE TypeOK'
  <2>1. MiddlewareTypeOK'
    BY <1>4 DEF Use, RegisterMiddleware, MiddlewareTypeOK
  <2>2. (HttpTypeOK /\ IpcTypeOK /\ ManagerTypeOK)'
    BY <1>4, SameTypes DEF Use
  <2>3. QED
    BY <2>1, <2>2
<1>5. ASSUME NEW s \in Subscriptions, NEW past \in BOOLEAN, Subscribe(s, past)
      PROVE  TypeOK'
  <2> DEFINE new == RemovalRequest(id[s])
               \o (IF past THEN <<Request("logs", s, NoId)>> ELSE <<>>)
               \o <<Request("subscribe", s, NoId)>>
  <2>1. id[s] \in Ids \union {NoId}
    BY DEF ManagerTypeOK
  <2>2. new \in Seq(Records)
    BY <2>1, RequestTyped, RemovalRequestTyped DEF Kinds
  <2>3. Create(new) /\ Send(Numbered(new))
    BY <1>5 DEF Subscribe
  <2>4. QED
    BY <1>1, <1>5, <2>2, <2>3 DEF Subscribe, ManagerTypeOK, Removed
<1>6. ASSUME NEW s \in Subscriptions, Unsubscribe(s) PROVE TypeOK'
  <2>1. id[s] \in Ids \union {NoId}
    BY DEF ManagerTypeOK
  <2>2. QED
    BY <1>1, <1>6, <2>1, RemovalRequestTyped DEF Unsubscribe, ManagerTypeOK, Removed
<1>7. ASSUME NEW keep, NEW n \in Nat, ClearSubscriptions(keep, n)
      PROVE  /\ MiddlewareTypeOK' /\ HttpTypeOK' /\ IpcTypeOK'
             /\ deaf' \in BOOLEAN => ManagerTypeOK'
  <2>1. PICK new \in Seq(Records) :
          /\ Create(new)
          /\ \/ /\ registered = <<>>
                /\ UNCHANGED middlewareVars
                /\ Counted(Numbered(new))
                /\ IpcReset(Numbered(new), n)
                /\ Hear(Failing(Numbered(new)), "InvalidConnection")
             \/ /\ registered # <<>>
                /\ ApplyMiddleware(Numbered(new))
                /\ Counted({})
                /\ IpcReset({}, n)
                /\ Hear(Failing({}), "InvalidConnection")
    BY <1>7, ClearFacts
  <2>2. /\ Numbered(new) \subseteq Requests
        /\ request' \in [Requests -> Records] /\ last' \in {0} \union Requests
    BY <2>1, CreateFacts
  <2>3. MiddlewareTypeOK'
    <3>1. CASE UNCHANGED middlewareVars
      BY <3>1, SameTypes
    <3>2. CASE registered # <<>> /\ ApplyMiddleware(Numbered(new))
      BY <2>2, <3>2, ApplyType
    <3>3. QED
      BY <2>1, <3>1, <3>2
  <2>4. IpcTypeOK'
    BY <1>7, <2>1, <2>2, ResetType
  <2>5. HttpTypeOK' /\ UNCHANGED <<transport, id, hasty>>
    BY <1>7, SameTypes DEF ClearSubscriptions
  <2>6. heard' \in [Requests -> Seq(Outcomes)]
    <3>1. PICK R : Hear(R, "InvalidConnection")
      BY <2>1
    <3>2. QED
      BY <3>1, HearType DEF ManagerTypeOK, Outcomes
  <2>7. sent' \in [Requests -> Nat]
    <3>1. PICK R : Counted(R)
      BY <2>1
    <3>2. QED
      BY <3>1 DEF Counted, ManagerTypeOK
  <2>8. subscriptions' \in [Ids -> Subscriptions \union {NoSubscription}]
    <3>1. \E I : subscriptions' = Removed(I)
      BY <1>7 DEF ClearSubscriptions
    <3>2. QED
      BY <3>1 DEF Removed, ManagerTypeOK
  <2>9. QED
    BY <2>2, <2>3, <2>4, <2>5, <2>6, <2>7, <2>8 DEF ManagerTypeOK
<1>8. CASE AppClears
  BY <1>7, <1>8 DEF AppClears, ManagerTypeOK
<1>9. CASE SetProvider
  BY <1>7, <1>9 DEF SetProvider, ManagerTypeOK
<1>10. CASE OtherManagerClears
  <2>1. IpcTypeOK'
    BY <1>10, ResetType DEF OtherManagerClears
  <2>2. heard' \in [Requests -> Seq(Outcomes)]
    BY <1>10, HearType DEF OtherManagerClears, ManagerTypeOK, Outcomes
  <2>3. MiddlewareTypeOK' /\ HttpTypeOK'
    BY <1>10, SameTypes DEF OtherManagerClears
  <2>4. QED
    BY <1>10, <2>1, <2>2, <2>3 DEF OtherManagerClears, ManagerTypeOK
<1>11. ASSUME NEW r \in Requests, MiddlewareStep(r) PROVE TypeOK'
  <2>1. MiddlewareTypeOK'
    <3>1. list[r] # <<>> => /\ Tail(list[r]) \in Seq(Middlewares \union {SendRpc})
                           /\ Head(list[r]) \in Middlewares \union {SendRpc}
      BY DEF MiddlewareTypeOK
    <3>2. CASE NextMiddleware(r)
      BY <3>1, <3>2 DEF NextMiddleware, MiddlewareTypeOK
    <3>3. CASE NextSends(r)
      BY <3>1, <3>3 DEF NextSends, MiddlewareTypeOK
    <3>4. CASE Bypass(r)
      BY <3>4 DEF Bypass, MiddlewareTypeOK
    <3>5. QED
      BY <1>11, <3>2, <3>3, <3>4 DEF MiddlewareStep
  <2>2. CASE NextMiddleware(r) /\ UNCHANGED <<managerVars, httpVars, ipcVars>>
    BY <2>1, <2>2, SameTypes
  <2>3. CASE ToProvider({r}) /\ UNCHANGED <<transport, last, request, heard, subscriptions, id, hasty, deaf>>
    BY <2>1, <2>3, ToProviderType DEF ManagerTypeOK
  <2>4. QED
    BY <1>11, <2>2, <2>3 DEF MiddlewareStep
<1>12. ASSUME NEW r \in Requests, HttpStep(r) PROVE TypeOK'
  <2>1. heard' \in [Requests -> Seq(Outcomes)]
    <3>1. CASE UNCHANGED heard
      BY <3>1 DEF ManagerTypeOK
    <3>2. CASE \E outcome \in Outcomes : Hear({r}, outcome)
      BY <3>2, HearType DEF ManagerTypeOK
    <3>3. CASE \E outcome \in Answered, thrower \in Payload(r) :
                 heard' = [h \in Requests |->
                             IF h \notin Payload(r) THEN heard[h]
                             ELSE IF h <= thrower THEN <<outcome, "InvalidResponse">>
                             ELSE <<"InvalidResponse">>]
      <4>1. Answered \subseteq Outcomes /\ "InvalidResponse" \in Outcomes
        BY DEF Answered, Outcomes
      <4>2. \A outcome \in Answered :
              <<outcome, "InvalidResponse">> \in Seq(Outcomes) /\ <<"InvalidResponse">> \in Seq(Outcomes)
        BY <4>1
      <4>3. QED
        BY <3>3, <4>2 DEF ManagerTypeOK
    <3>4. QED
      BY <1>12, <3>1, <3>2, <3>3 DEF HttpStep, Answered, Outcomes
  <2>2. HttpTypeOK'
    BY <1>12 DEF HttpStep, Success, BodyEnds, Failed, HttpTypeOK
  <2>3. QED
    BY <1>12, <2>1, <2>2, SameTypes DEF HttpStep, ManagerTypeOK
<1>13. ASSUME NEW r \in Requests, HttpTimer(r) PROVE TypeOK'
  <2>1. heard' \in [Requests -> Seq(Outcomes)]
    <3>1. \A h \in Requests :
            <<Told(h, "ConnectionTimeout"), Told(h, "InvalidConnection")>> \in Seq(Outcomes)
      BY DEF Told, Outcomes
    <3>2. Hear({r}, "InvalidResponse") => heard' \in [Requests -> Seq(Outcomes)]
      BY HearType DEF ManagerTypeOK, Outcomes
    <3>3. QED
      BY <1>13, <3>1, <3>2 DEF HttpTimer, ManagerTypeOK
  <2>2. HttpTypeOK'
    BY <1>13 DEF HttpTimer, Aborts, HttpTypeOK
  <2>3. QED
    BY <1>13, <2>1, <2>2, SameTypes DEF HttpTimer, ManagerTypeOK
<1>14. CASE IpcStep
  <2>1. MiddlewareTypeOK' /\ HttpTypeOK'
    BY <1>14, SameTypes DEF IpcStep, NodeAnswers, Deliver, IpcFails, Socket
  <2>2. CASE \E r \in asked : NodeAnswers(r)
    <3>1. ManagerTypeOK'
      BY <2>2, SameTypes DEF NodeAnswers
    <3>2. PICK r \in asked : NodeAnswers(r)
      BY <2>2
    <3>3. /\ issued \in 0 .. MaxIds /\ r \in Requests
          /\ \A ok \in BOOLEAN : Response(r, ok, NoId) \in Messages
          /\ issued < MaxIds => Response(r, TRUE, issued + 1) \in Messages
      BY WireAssumption DEF Response, Messages, IpcTypeOK, Ids
    <3>4. PICK message \in Messages, served \in SUBSET Nat :
            /\ Answers(r, message, served)
            /\ \/ served = live \union {issued + 1} /\ issued' = issued + 1 /\ issued < MaxIds
               \/ served \subseteq live /\ issued' = issued
      <4>1. live \in SUBSET Nat /\ live \union {issued + 1} \in SUBSET Nat
            /\ \A i : live \ {i} \in SUBSET Nat
        <5>1. live \subseteq 1 .. issued /\ issued \in Nat
          BY <3>3, WireAssumption DEF IpcTypeOK
        <5>2. live \subseteq Nat /\ issued + 1 \in Nat
          BY <5>1
        <5>3. QED
          BY <5>2
      <4>2. CASE /\ issued < MaxIds /\ issued' = issued + 1
                 /\ Answers(r, Response(r, TRUE, issued + 1), live \union {issued + 1})
        BY <3>3, <4>1, <4>2
      <4>3. CASE /\ Answers(r, Response(r, TRUE, NoId), live \ {request[r].target})
                 /\ UNCHANGED issued
        BY <3>3, <4>1, <4>3
      <4>4. CASE /\ \E ok \in BOOLEAN : Answers(r, Response(r, ok, NoId), live)
                 /\ UNCHANGED issued
        BY <3>3, <4>1, <4>4
      <4>5. QED
        BY <3>2, <4>2, <4>3, <4>4 DEF NodeAnswers
    <3>5. Append(wire, message) \in Seq(Messages) /\ Len(Append(wire, message)) = Len(wire) + 1
      BY <3>4 DEF IpcTypeOK
    <3>6. ChunkTypeOK'
      BY <3>4, SameTypes DEF Answers, IpcTypeOK
    <3>7. live' \subseteq 1 .. issued' /\ issued' \in 0 .. MaxIds
      <4>1. issued \in Nat /\ MaxIds \in Nat /\ live \subseteq 1 .. issued /\ live' = served
        BY <3>3, <3>4, WireAssumption DEF Answers, IpcTypeOK
      <4>2. CASE served \subseteq live /\ issued' = issued
        BY <3>3, <4>1, <4>2
      <4>3. CASE served = live \union {issued + 1} /\ issued' = issued + 1 /\ issued < MaxIds
        <5>1. \A i \in served : i \in 1 .. issued + 1
          BY <4>1, <4>3
        <5>2. QED
          BY <4>1, <4>3, <5>1
      <4>4. QED
        BY <3>4, <4>2, <4>3
    <3>8. IpcTypeOK'
      BY <3>4, <3>5, <3>6, <3>7, WireAssumption DEF Answers, Room, IpcTypeOK
    <3>9. QED
      BY <2>1, <3>1, <3>8
  <2>3. CASE wire # <<>> /\ Deliver
    <3>1. Head(wire) \in Messages /\ Tail(wire) \in Seq(Messages) /\ Len(Tail(wire)) = Len(wire) - 1
      BY <2>3 DEF IpcTypeOK
    <3> DEFINE m == Head(wire)
    <3>2. /\ Parsed
          /\ Hear({m.to} \intersect responseCallbacks,
                  IF m.ok THEN "result" ELSE "ErrorResponse")
          /\ IF m.to \in responseCallbacks /\ m.id # NoId
             THEN /\ id' = [id EXCEPT ![request[m.to].of] = m.id]
                  /\ subscriptions' = [subscriptions EXCEPT ![m.id] = request[m.to].of]
             ELSE UNCHANGED <<id, subscriptions>>
          /\ UNCHANGED <<transport, last, request, sent, hasty, deaf, middlewareVars,
                         httpVars>>
      BY <2>3 DEF Deliver
    <3>3. IpcTypeOK'
      <4>1. ChunkTypeOK'
        BY <3>2 DEF Parsed, ChunkTypeOK
      <4>2. QED
        BY <3>1, <3>2, <4>1, WireAssumption DEF Parsed, IpcTypeOK
    <3>4. heard' \in [Requests -> Seq(Outcomes)]
      BY <3>2, HearType DEF ManagerTypeOK, Outcomes
    <3>5. /\ subscriptions' \in [Ids -> Subscriptions \union {NoSubscription}]
          /\ id' \in [Subscriptions -> Ids \union {NoId}]
      BY <3>1, <3>2 DEF ManagerTypeOK, Messages, Records, IpcTypeOK
    <3>6. QED
      BY <2>1, <3>2, <3>3, <3>4, <3>5 DEF ManagerTypeOK
  <2>4. CASE IpcFails
    <3>1. IpcTypeOK'
      <4>1. CASE Ends
        <5>1. ChunkTypeOK'
          BY <4>1 DEF Ends, ChunkTypeOK, IpcTypeOK
        <5>2. wire' = <<>> /\ Len(wire') = 0 /\ wire' \in Seq(Messages)
          BY <4>1 DEF Ends
        <5>3. QED
          BY <4>1, <5>1, <5>2, WireAssumption DEF Ends, IpcTypeOK
      <4>2. CASE ChunkTimeout
        <5>1. ChunkTypeOK'
          BY <4>2 DEF ChunkTimeout, ChunkTypeOK, IpcTypeOK
        <5>2. QED
          BY <4>2, <5>1 DEF ChunkTimeout, IpcTypeOK
      <4>3. QED
        BY <2>4, <4>1, <4>2 DEF IpcFails
    <3>2. heard' \in [Requests -> Seq(Outcomes)]
      BY <2>4, HearType DEF IpcFails, ManagerTypeOK, Outcomes
    <3>3. QED
      BY <2>1, <2>4, <3>1, <3>2 DEF IpcFails, ManagerTypeOK
  <2>5. CASE Socket
    <3>1. ManagerTypeOK'
      BY <2>5, SameTypes DEF Socket
    <3>2. CASE \E i \in live : Notifies(i)
      <4>1. PICK i \in live : Notifies(i)
        BY <3>2
      <4>2. Notification(i) \in Messages
        BY WireAssumption DEF Notification, Messages, IpcTypeOK, Ids
      <4>3. Append(wire, Notification(i)) \in Seq(Messages) /\ Len(Append(wire, Notification(i))) = 1
        BY <4>1, <4>2 DEF Notifies, IpcTypeOK
      <4>4. ChunkTypeOK'
        BY <4>1, SameTypes DEF Notifies, IpcTypeOK
      <4>5. IpcTypeOK'
        BY <4>1, <4>3, <4>4, WireAssumption DEF Notifies, IpcTypeOK
      <4>6. QED
        BY <2>1, <3>1, <4>5
    <3>3. CASE Connects \/ IpcReconnect \/ FirstPiece
      <4>1. ChunkTypeOK'
        BY <3>3, SameTypes DEF Connects, IpcReconnect, FirstPiece, ChunkTypeOK, IpcTypeOK
      <4>2. IpcTypeOK'
        BY <3>3, <4>1 DEF Connects, IpcReconnect, FirstPiece, IpcTypeOK
      <4>3. QED
        BY <2>1, <3>1, <4>2
    <3>4. CASE NotParsed
      <4>1. wire # <<>> => Tail(wire) \in Seq(Messages) /\ Len(Tail(wire)) = Len(wire) - 1
        BY DEF IpcTypeOK
      <4>2. ChunkTypeOK'
        BY <3>4 DEF NotParsed, ChunkTypeOK, IpcTypeOK
      <4>3. IpcTypeOK'
        BY <3>4, <4>1, <4>2, WireAssumption DEF NotParsed, IpcTypeOK
      <4>4. QED
        BY <2>1, <3>1, <4>3
    <3>5. QED
      BY <2>5, <3>2, <3>3, <3>4 DEF Socket
  <2>6. QED
    BY <1>14, <2>2, <2>3, <2>4, <2>5 DEF IpcStep
<1>15. CASE UNCHANGED vars
  BY <1>15, SameTypes DEF vars
<1>16. QED
  BY <1>2, <1>3, <1>4, <1>5, <1>6, <1>8, <1>9, <1>10, <1>11, <1>12, <1>13, <1>14, <1>15
     DEF Next

(* The initial state has its types. *)
LEMMA TypeInit == Init => TypeOK
<1> SUFFICES ASSUME Init PROVE TypeOK
  OBVIOUS
<1>1. MiddlewareTypeOK
  BY DEF Init, MiddlewareInit, MiddlewareTypeOK
<1>2. HttpTypeOK
  BY DEF Init, HttpInit, HttpTypeOK
<1>3. IpcTypeOK
  <2>1. ChunkTypeOK
    BY DEF Init, IpcInit, ChunkTypeOK
  <2>2. wire = <<>> /\ Len(wire) = 0 /\ wire \in Seq(Messages)
    BY DEF Init, IpcInit
  <2>3. QED
    BY <2>1, <2>2, WireAssumption DEF Init, IpcInit, IpcTypeOK
<1>4. ManagerTypeOK
  <2>1. NotYet \in Records
    BY RequestTyped DEF NotYet, Kinds
  <2>2. QED
    <3>1. heard \in [Requests -> Seq(Outcomes)]
      BY DEF Init
    <3>2. /\ transport \in {"http", "ipc"} /\ last \in {0} \union Requests
          /\ hasty \subseteq Subscriptions /\ deaf \in BOOLEAN
      BY DEF Init
    <3>3. /\ sent \in [Requests -> Nat] /\ request \in [Requests -> Records]
          /\ subscriptions \in [Ids -> Subscriptions \union {NoSubscription}]
          /\ id \in [Subscriptions -> Ids \union {NoId}]
      BY <2>1 DEF Init
    <3>4. QED
      BY <3>1, <3>2, <3>3 DEF ManagerTypeOK
<1>5. QED
  BY <1>1, <1>2, <1>3, <1>4 DEF TypeOK

-----------------------------------------------------------------------------
(* What the steps do to requests. *)

(* The requests W are passed to the provider, where callbacks wait for     *)
(* them.                                                                   *)
IpcPasses(W) ==
  /\ transport = "ipc"
  /\ asked' = asked \union W
  /\ responseCallbacks' = responseCallbacks \union W
  /\ UNCHANGED <<lastChunk, chunkTimer, wire, live, issued, httpVars>>
HttpPasses(W) ==
  /\ transport = "http"
  /\ \/ W = {} /\ UNCHANGED httpVars
     \/ \E r \in Requests : W = {r} /\ HttpSend(r)
  /\ UNCHANGED ipcVars
Passes(W) ==
  /\ Counted(W)
  /\ IpcPasses(W) \/ HttpPasses(W)
  /\ UNCHANGED <<transport, heard>>

(* They are, and the provider is reset: all that wait are given an error.  *)
Clears(W) ==
  /\ Counted(W)
  /\ transport = "ipc"
  /\ asked' = asked \union W
  /\ responseCallbacks' = {}
  /\ Hear(responseCallbacks \union W, "InvalidConnection")
  /\ UNCHANGED <<transport, lastChunk, chunkTimer, wire, live, issued, httpVars>>

(* The requests M are handed to the first middleware.                      *)
Hands(M) ==
  /\ M = {} \/ registered # <<>>
  /\ list' = [r \in Requests |->
                IF r \in M THEN Append(Tail(registered), SendRpc) ELSE list[r]]

(* Of the two requests of a batch only the first is sent.                  *)
WholeBatches(new, S) ==
  \A k \in 1 .. Len(new) :
    /\ new[k].what = "batch" => k < Len(new) /\ new[k + 1].what = "batched"
    /\ new[k].what = "batched" =>
         k > 1 /\ new[k - 1].what = "batch" /\ last + k \notin S

(* Requests are made, and each is passed on, handed to a middleware, or,   *)
(* in a batch, left alone.                                                 *)
Makes(new, W, M) ==
  /\ Create(new) /\ W \union M \subseteq Numbered(new) /\ W \intersect M = {}
  /\ WholeBatches(new, W \union M)
  /\ Passes(W) \/ Clears(W)
  /\ Hands(M)

(* A request goes on to the next middleware, or to the provider.           *)
GoesOn(r) ==
  /\ list[r] # <<>> /\ Head(list[r]) # SendRpc
  /\ list' = [list EXCEPT ![r] = Tail(@)]
  /\ UNCHANGED <<managerVars, httpVars, ipcVars>>
Arrives(r) ==
  /\ list[r] # <<>>
  /\ \/ Head(list[r]) = SendRpc /\ list' = [list EXCEPT ![r] = Tail(@)]
     \/ list' = [list EXCEPT ![r] = <<>>]
  /\ Passes({r})
  /\ UNCHANGED <<last, request, subscriptions, id, hasty>>

(* Nothing happens to any request.                                         *)
Stays == UNCHANGED <<managerVars, list, httpVars, ipcVars>>

StepKind ==
  \/ \E new \in Seq(Records), W, M \in SUBSET Requests : Makes(new, W, M)
  \/ \E r \in Requests : GoesOn(r) \/ Arrives(r) \/ HttpStep(r) \/ HttpTimer(r)
  \/ IpcStep \/ Stays

(* Requests given to the provider are passed to it. *)
LEMMA PassKind ==
  ASSUME TypeOK, NEW R \in SUBSET Requests, ToProvider(R), UNCHANGED <<transport, heard>>,
         transport = "http" => \A q, r \in R : q = r
  PROVE  Passes(R)
<1>1. CASE transport = "ipc"
  BY <1>1 DEF ToProvider, IpcSend, Write, Passes, IpcPasses
<1>2. CASE transport = "http"
  <2>1. PICK r \in R : HttpSend(r)
    BY <1>2 DEF ToProvider
  <2>2. R = {r}
    BY <1>2
  <2>3. QED
    BY <1>2, <2>1, <2>2 DEF ToProvider, Passes, HttpPasses
<1>3. QED
  BY <1>1, <1>2 DEF TypeOK, ManagerTypeOK

(* send passes requests to the provider or hands them to a middleware. *)
LEMMA SendKind ==
  ASSUME TypeOK, NEW R \in SUBSET Requests, Send(R), UNCHANGED <<transport, heard>>,
         transport = "http" => \A q, r \in R : q = r
  PROVE  \E W, M \in SUBSET Requests :
           W \union M = R /\ W \intersect M = {} /\ Passes(W) /\ Hands(M)
<1>1. list \in [Requests -> Seq(Middlewares \union {SendRpc})]
  BY DEF TypeOK, MiddlewareTypeOK
<1>2. CASE ToProvider(R) /\ UNCHANGED middlewareVars
  <2>1. Passes(R)
    BY <1>2, PassKind
  <2>2. Hands({})
    BY <1>1, <1>2 DEF Hands, middlewareVars
  <2>3. QED
    BY <2>1, <2>2
<1>3. CASE registered # <<>> /\ ApplyMiddleware(R) /\ UNCHANGED <<sent, httpVars, ipcVars>>
  <2>1. Counted({})
    BY <1>3 DEF Counted, TypeOK, ManagerTypeOK
  <2>2. Passes({})
    BY <1>3, <2>1 DEF Passes, IpcPasses, HttpPasses, ipcVars, TypeOK, ManagerTypeOK
  <2>3. Hands(R)
    BY <1>3 DEF Hands, ApplyMiddleware
  <2>4. QED
    BY <2>2, <2>3
<1>4. QED
  BY <1>2, <1>3 DEF Send

(* What is made by send of all the requests of new, none of them in a      *)
(* batch.                                                                  *)
LEMMA MakeKind ==
  ASSUME TypeOK, NEW new \in Seq(Records), Create(new), Send(Numbered(new)),
         UNCHANGED <<transport, heard>>,
         \A k \in 1 .. Len(new) : new[k].what \notin {"batch", "batched"},
         transport = "http" => Len(new) <= 1
  PROVE  StepKind
<1>1. Numbered(new) \in SUBSET Requests
  BY CreateFacts DEF TypeOK
<1>2. transport = "http" => \A q, r \in Numbered(new) : q = r
  <2>1. DOMAIN new = 1 .. Len(new) /\ Len(new) \in Nat
    OBVIOUS
  <2>2. Len(new) <= 1 => \A j, k \in DOMAIN new : j = k
    BY <2>1
  <2>3. QED
    BY <2>2 DEF Numbered
<1>3. PICK W, M \in SUBSET Requests :
        W \union M = Numbered(new) /\ W \intersect M = {} /\ Passes(W) /\ Hands(M)
  BY <1>1, <1>2, SendKind
<1>4. WholeBatches(new, W \union M)
  BY DEF WholeBatches
<1>5. Makes(new, W, M)
  BY <1>3, <1>4 DEF Makes
<1>6. QED
  BY <1>5 DEF StepKind

(* What clearSubscriptions makes. *)
LEMMA ClearKind ==
  ASSUME TypeOK, NEW keep, NEW n, ClearSubscriptions(keep, n)
  PROVE  StepKind
<1>1. PICK new \in Seq(Records) :
        /\ Create(new)
        /\ \A k \in 1 .. Len(new) : \E i \in Ids :
             new[k] = Request("unsubscribe", NoSubscription, i)
        /\ \/ /\ registered = <<>>
              /\ UNCHANGED middlewareVars
              /\ Counted(Numbered(new))
              /\ IpcReset(Numbered(new), n)
              /\ Hear(Failing(Numbered(new)), "InvalidConnection")
           \/ /\ registered # <<>>
              /\ ApplyMiddleware(Numbered(new))
              /\ Counted({})
              /\ IpcReset({}, n)
              /\ Hear(Failing({}), "InvalidConnection")
  BY ClearFacts DEF TypeOK
<1>2. Numbered(new) \in SUBSET Requests
  BY <1>1, CreateFacts DEF TypeOK
<1>3. transport = "ipc" /\ UNCHANGED <<transport, httpVars>>
  BY DEF ClearSubscriptions
<1>4. \A S : WholeBatches(new, S)
  <2>1. \A k \in 1 .. Len(new) : \E i \in Ids :
          new[k] = Request("unsubscribe", NoSubscription, i)
    BY <1>1
  <2>2. \A k \in 1 .. Len(new) : new[k].what = "unsubscribe"
    BY <2>1, RequestFields
  <2>3. QED
    BY <2>2 DEF WholeBatches
<1>5. CASE /\ registered = <<>>
           /\ UNCHANGED middlewareVars
           /\ Counted(Numbered(new))
           /\ IpcReset(Numbered(new), n)
           /\ Hear(Failing(Numbered(new)), "InvalidConnection")
  <2>1. Clears(Numbered(new))
    BY <1>3, <1>5 DEF Clears, IpcReset, Write, Failing
  <2>2. Hands({})
    BY <1>5 DEF Hands, middlewareVars, TypeOK, MiddlewareTypeOK
  <2>3. Makes(new, Numbered(new), {})
    BY <1>1, <1>4, <2>1, <2>2 DEF Makes
  <2>4. QED
    BY <1>2, <2>3 DEF StepKind
<1>6. CASE /\ registered # <<>>
           /\ ApplyMiddleware(Numbered(new))
           /\ Counted({})
           /\ IpcReset({}, n)
           /\ Hear(Failing({}), "InvalidConnection")
  <2>1. Clears({})
    BY <1>3, <1>6 DEF Clears, IpcReset, Write, Failing
  <2>2. Hands(Numbered(new))
    BY <1>6 DEF Hands, ApplyMiddleware
  <2>3. Makes(new, {}, Numbered(new))
    BY <1>1, <1>4, <2>1, <2>2 DEF Makes
  <2>4. QED
    BY <1>2, <2>3 DEF StepKind
<1>7. QED
  BY <1>1, <1>5, <1>6

(* Every step is of one of the kinds the proofs distinguish. *)
LEMMA StepKinds == TypeOK /\ [Next]_vars => StepKind
<1> SUFFICES ASSUME TypeOK, [Next]_vars PROVE StepKind
  OBVIOUS
<1>1. CASE Call
  <2> DEFINE new == <<Request("call", NoSubscription, NoId)>>
  <2>1. new \in Seq(Records) /\ Len(new) <= 1
    BY RequestTyped DEF Kinds
  <2>2. \A k \in 1 .. Len(new) : new[k].what \notin {"batch", "batched"}
    BY DEF Request
  <2>3. Numbered(new) = {last + 1}
    BY DEF Numbered
  <2> HIDE DEF new
  <2>4. Create(new) /\ Send(Numbered(new)) /\ UNCHANGED <<transport, heard>>
    BY <1>1, <2>3 DEF Call, new
  <2>5. QED
    BY <2>1, <2>2, <2>4, MakeKind
<1>2. CASE ExecuteBatch
  <2> DEFINE new == <<Request("batch", NoSubscription, NoId),
                      Request("batched", NoSubscription, NoId)>>
  <2>1. new \in Seq(Records) /\ Len(new) = 2 /\ last \in Nat
    <3>1. /\ Request("batch", NoSubscription, NoId) \in Records
          /\ Request("batched", NoSubscription, NoId) \in Records
      BY RequestTyped DEF Kinds
    <3>2. last \in Nat
      BY DEF TypeOK, ManagerTypeOK, Requests
    <3>3. QED
      BY <3>1, <3>2
  <2>2. WholeBatches(new, {last + 1})
    BY <2>1 DEF WholeBatches, Request
  <2>3. last + 1 \in Numbered(new)
    BY DEF Numbered
  <2>4. Create(new) /\ ToProvider({last + 1}) /\ UNCHANGED <<transport, heard, middlewareVars>>
    BY <1>2 DEF ExecuteBatch
  <2> HIDE DEF new
  <2>5. {last + 1} \in SUBSET Requests
    BY <2>1, <2>3, <2>4, CreateFacts DEF TypeOK
  <2>6. Passes({last + 1})
    BY <2>4, <2>5, PassKind
  <2>7. Hands({})
    BY <2>4 DEF Hands, middlewareVars, TypeOK, MiddlewareTypeOK
  <2>8. Makes(new, {last + 1}, {})
    BY <2>2, <2>3, <2>4, <2>6, <2>7 DEF Makes
  <2>9. QED
    BY <2>1, <2>5, <2>8 DEF StepKind
<1>3. ASSUME NEW m \in Middlewares, Use(m) PROVE StepKind
  BY <1>3 DEF Use, RegisterMiddleware, StepKind, Stays
<1>4. ASSUME NEW s \in Subscriptions, NEW past \in BOOLEAN, Subscribe(s, past)
      PROVE  StepKind
  <2> DEFINE new == RemovalRequest(id[s])
               \o (IF past THEN <<Request("logs", s, NoId)>> ELSE <<>>)
               \o <<Request("subscribe", s, NoId)>>
  <2>1. id[s] \in Ids \union {NoId}
    BY DEF TypeOK, ManagerTypeOK
  <2>2. new \in Seq(Records)
    BY <2>1, RequestTyped, RemovalRequestTyped DEF Kinds
  <2>3. \A k \in 1 .. Len(new) : new[k].what \notin {"batch", "batched"}
    BY <2>1, RemovalRequestTyped DEF Request
  <2>4. /\ Create(new) /\ Send(Numbered(new)) /\ UNCHANGED <<transport, heard>>
        /\ transport = "ipc"
    BY <1>4 DEF Subscribe
  <2>5. QED
    BY <2>2, <2>3, <2>4, MakeKind
<1>5. ASSUME NEW s \in Subscriptions, Unsubscribe(s) PROVE StepKind
  <2> DEFINE new == RemovalRequest(id[s])
  <2>1. id[s] \in Ids \union {NoId}
    BY DEF TypeOK, ManagerTypeOK
  <2>2. new \in Seq(Records) /\ Len(new) <= 1
    <3>1. CASE new = <<>>
      BY <3>1
    <3>2. CASE new = <<Request("unsubscribe", NoSubscription, id[s])>>
      <4>1. new \in Seq(Records)
        BY <2>1, RemovalRequestTyped
      <4>2. Len(new) = 1
        BY <3>2
      <4>3. QED
        BY <4>1, <4>2
    <3>3. QED
      BY <2>1, <3>1, <3>2, RemovalRequestTyped
  <2>3. \A k \in 1 .. Len(new) : new[k].what \notin {"batch", "batched"}
    BY <2>1, RemovalRequestTyped DEF Request
  <2>4. Create(new) /\ Send(Numbered(new)) /\ UNCHANGED <<transport, heard>>
    BY <1>5 DEF Unsubscribe
  <2>5. QED
    BY <2>2, <2>3, <2>4, MakeKind
<1>6. CASE AppClears \/ SetProvider
  BY <1>6, ClearKind DEF AppClears, SetProvider
<1>7. CASE OtherManagerClears
  <2>1. /\ <<>> \in Seq(Records) /\ Len(<<>>) = 0 /\ Numbered(<<>>) = {}
        /\ last \in Nat
    BY DEF Numbered, TypeOK, ManagerTypeOK, Requests
  <2>2. Create(<<>>)
    BY <1>7, <2>1 DEF OtherManagerClears, Create, TypeOK, ManagerTypeOK
  <2>3. Counted({}) /\ Hands({})
    BY <1>7 DEF OtherManagerClears, Counted, Hands, middlewareVars, TypeOK, ManagerTypeOK,
                MiddlewareTypeOK
  <2>4. Clears({})
    BY <1>7, <2>3 DEF OtherManagerClears, Clears, IpcReset, Write, Failing
  <2>5. Makes(<<>>, {}, {})
    BY <2>1, <2>2, <2>3, <2>4 DEF Makes, WholeBatches
  <2>6. QED
    BY <2>1, <2>5 DEF StepKind
<1>8. ASSUME NEW r \in Requests, MiddlewareStep(r) PROVE StepKind
  <2>1. CASE NextMiddleware(r) /\ UNCHANGED <<managerVars, httpVars, ipcVars>>
    BY <2>1 DEF NextMiddleware, StepKind, GoesOn
  <2>2. CASE /\ NextSends(r) \/ Bypass(r)
             /\ ToProvider({r})
             /\ UNCHANGED <<transport, last, request, heard, subscriptions, id, hasty, deaf>>
    <3>1. Passes({r})
      BY <2>2, PassKind
    <3>2. Arrives(r)
      BY <2>2, <3>1 DEF NextSends, Bypass, Arrives
    <3>3. QED
      BY <3>2 DEF StepKind
  <2>3. QED
    BY <1>8, <2>1, <2>2 DEF MiddlewareStep
<1>9. ASSUME NEW r \in Requests, HttpStep(r) \/ HttpTimer(r) PROVE StepKind
  BY <1>9 DEF StepKind
<1>10. CASE IpcStep
  BY <1>10 DEF StepKind
<1>11. CASE UNCHANGED vars
  BY <1>11 DEF vars, middlewareVars, StepKind, Stays
<1>12. QED
  BY <1>1, <1>2, <1>3, <1>4, <1>5, <1>6, <1>7, <1>8, <1>9, <1>10, <1>11 DEF Next

-----------------------------------------------------------------------------
(* Sending. *)

(* A number that was not given out yet is unused; a request with functions *)
(* left in its list was not sent, and only the last of them sends; the     *)
(* second request of a batch is never sent by itself.                      *)
Fresh ==
  \A r \in Requests : r > last =>
    request[r] = NotYet /\ sent[r] = 0 /\ list[r] = <<>>
Chained ==
  \A r \in Requests : list[r] # <<>> =>
    sent[r] = 0 /\ \A k \in 1 .. Len(list[r]) - 1 : list[r][k] # SendRpc
Batches ==
  \A r \in Requests :
    /\ request[r].what = "batched" =>
         /\ sent[r] = 0 /\ list[r] = <<>>
         /\ r - 1 \in Requests /\ request[r - 1].what = "batch"
    /\ request[r].what = "batch" =>
         r + 1 \in Requests /\ request[r + 1].what = "batched"
SendingInv == Fresh /\ Chained /\ Batches /\ SentOnce

(* The requests that Makes makes are fresh ones, and the others stay.      *)
LEMMA MakesFacts ==
  ASSUME TypeOK, SendingInv, NEW new \in Seq(Records),
         NEW W \in SUBSET Requests, NEW M \in SUBSET Requests, Makes(new, W, M)
  PROVE  /\ last' = last + Len(new) /\ last' \in Nat /\ last \in Nat /\ Len(new) \in Nat
         /\ \A r \in Requests : r \in Numbered(new) <=> last < r /\ r <= last'
         /\ \A r \in Numbered(new) : r \in Requests /\ r - last \in 1 .. Len(new)
         /\ \A r \in Requests \ Numbered(new) :
              request'[r] = request[r] /\ sent'[r] = sent[r] /\ list'[r] = list[r]
         /\ \A r \in Numbered(new) :
              /\ request[r] = NotYet /\ sent[r] = 0 /\ list[r] = <<>>
              /\ request'[r] = new[r - last]
              /\ sent'[r] = IF r \in W THEN 1 ELSE 0
              /\ list'[r] = IF r \in M THEN Append(Tail(registered), SendRpc) ELSE <<>>
<1>1. Create(new) /\ ManagerTypeOK
  BY DEF Makes, TypeOK
<1>2. /\ last' = last + Len(new) /\ last' \in {0} \union Requests
      /\ Len(new) \in Nat /\ last \in Nat
      /\ Numbered(new) \subseteq Requests
      /\ \A r \in Requests : r \in Numbered(new) <=> last < r /\ r <= last'
      /\ request' = [r \in Requests |->
                       IF r \in Numbered(new) THEN new[r - last] ELSE request[r]]
      /\ \A r \in Numbered(new) : r - last \in 1 .. Len(new)
  BY <1>1, CreateFacts
<1>3. last' \in Nat
  BY <1>2 DEF Requests
<1>4. \A r \in Numbered(new) : r \in Requests /\ r > last
  BY <1>2 DEF Requests
<1>5. \A r \in Numbered(new) : request[r] = NotYet /\ sent[r] = 0 /\ list[r] = <<>>
  BY <1>4 DEF SendingInv, Fresh
<1>6. /\ W \subseteq Numbered(new) /\ M \subseteq Numbered(new)
      /\ sent' = [r \in Requests |-> IF r \in W THEN sent[r] + 1 ELSE sent[r]]
      /\ list' = [r \in Requests |->
                    IF r \in M THEN Append(Tail(registered), SendRpc) ELSE list[r]]
  BY DEF Makes, Passes, Clears, Counted, Hands
<1>7. \A r \in Requests \ Numbered(new) :
        request'[r] = request[r] /\ sent'[r] = sent[r] /\ list'[r] = list[r]
  BY <1>2, <1>6
<1>8. ASSUME NEW r \in Numbered(new)
      PROVE  /\ request'[r] = new[r - last]
             /\ sent'[r] = IF r \in W THEN 1 ELSE 0
             /\ list'[r] = IF r \in M THEN Append(Tail(registered), SendRpc) ELSE <<>>
  BY <1>2, <1>4, <1>5, <1>6
<1>9. QED
  BY <1>2, <1>3, <1>4, <1>5, <1>7, <1>8

(* The chain a request sets out with ends in SendRpc and has it nowhere    *)
(* else.                                                                   *)
LEMMA ChainFacts ==
  ASSUME NEW mm \in Seq(Middlewares), mm # <<>>
  PROVE  \A k \in 1 .. Len(Append(Tail(mm), SendRpc)) - 1 :
           Append(Tail(mm), SendRpc)[k] # SendRpc
<1> DEFINE chain == Append(Tail(mm), SendRpc)
<1>1. Tail(mm) \in Seq(Middlewares)
  OBVIOUS
<1>2. Len(chain) - 1 = Len(Tail(mm)) /\ \A k \in 1 .. Len(Tail(mm)) : chain[k] = Tail(mm)[k]
  BY <1>1
<1>3. \A k \in 1 .. Len(Tail(mm)) : Tail(mm)[k] \in Middlewares
  BY <1>1
<1>4. QED
  BY <1>2, <1>3, SendRpcAssumption

(* No step sends a request that was sent, or part of a batch by itself. *)
LEMMA SendingStep ==
  ASSUME TypeOK, SendingInv, [Next]_vars
  PROVE  SendingInv'
<1> USE DEF SendingInv
<1>1. ASSUME NEW new \in Seq(Records), NEW W \in SUBSET Requests,
             NEW M \in SUBSET Requests, Makes(new, W, M)
      PROVE  SendingInv'
  <2>1. /\ last' = last + Len(new) /\ last' \in Nat /\ last \in Nat /\ Len(new) \in Nat
        /\ \A r \in Requests : r \in Numbered(new) <=> last < r /\ r <= last'
        /\ \A r \in Numbered(new) : r \in Requests /\ r - last \in 1 .. Len(new)
        /\ \A r \in Requests \ Numbered(new) :
             request'[r] = request[r] /\ sent'[r] = sent[r] /\ list'[r] = list[r]
        /\ \A r \in Numbered(new) :
             /\ request[r] = NotYet /\ sent[r] = 0 /\ list[r] = <<>>
             /\ request'[r] = new[r - last]
             /\ sent'[r] = IF r \in W THEN 1 ELSE 0
             /\ list'[r] = IF r \in M THEN Append(Tail(registered), SendRpc) ELSE <<>>
    BY <1>1, MakesFacts
  <2>2. W \intersect M = {} /\ (M = {} \/ registered # <<>>)
    BY <1>1 DEF Makes, Hands
  <2>3. Fresh'
    <3>1. \A r \in Requests : r > last' => r > last /\ r \notin Numbered(new)
      BY <2>1 DEF Requests
    <3>2. QED
      BY <2>1, <3>1 DEF Fresh
  <2>4. Chained'
    <3>1. ASSUME NEW r \in Numbered(new), r \in M
          PROVE  sent'[r] = 0 /\ \A k \in 1 .. Len(list'[r]) - 1 : list'[r][k] # SendRpc
      <4>1. registered \in Seq(Middlewares) /\ registered # <<>>
        BY <2>2, <3>1 DEF TypeOK, MiddlewareTypeOK
      <4>2. list'[r] = Append(Tail(registered), SendRpc) /\ sent'[r] = IF r \in W THEN 1 ELSE 0
        BY <2>1, <3>1
      <4>3. r \notin W
        BY <2>2, <3>1
      <4>4. QED
        BY <4>1, <4>2, <4>3, ChainFacts
    <3>2. QED
      BY <2>1, <3>1 DEF Chained
  <2>5. Batches'
    <3>1. ASSUME NEW r \in Numbered(new), new[r - last].what = "batched"
          PROVE  /\ sent'[r] = 0 /\ list'[r] = <<>>
                 /\ r - 1 \in Requests /\ request'[r - 1].what = "batch"
      <4>1. /\ r - last > 1 /\ new[r - last - 1].what = "batch"
            /\ last + (r - last) \notin W \union M
        BY <1>1, <2>1, <3>1 DEF Makes, WholeBatches
      <4>2. last + (r - last) = r /\ r - 1 - last = r - last - 1
        BY <2>1 DEF Requests
      <4>3. r - 1 \in Requests /\ last < r - 1 /\ r - 1 <= last'
        BY <2>1, <4>1, MaxRequestsAssumption DEF Requests
      <4>4. r - 1 \in Numbered(new)
        BY <2>1, <4>3
      <4>5. QED
        BY <2>1, <4>1, <4>2, <4>3, <4>4
    <3>2. ASSUME NEW r \in Numbered(new), new[r - last].what = "batch"
          PROVE  r + 1 \in Requests /\ request'[r + 1].what = "batched"
      <4>1. r - last < Len(new) /\ new[r - last + 1].what = "batched"
        BY <1>1, <2>1, <3>2 DEF Makes, WholeBatches
      <4>2. r - last + 1 \in DOMAIN new /\ r + 1 = last + (r - last + 1)
        BY <2>1, <4>1 DEF Requests
      <4>3. r + 1 \in Numbered(new)
        BY <4>2 DEF Numbered
      <4>4. (r + 1) - last = r - last + 1
        BY <2>1 DEF Requests
      <4>5. request'[r + 1] = new[(r + 1) - last] /\ r + 1 \in Requests
        <5>1. \A q \in Numbered(new) : q \in Requests /\ request'[q] = new[q - last]
          BY <2>1
        <5>2. QED
          BY <4>3, <5>1
      <4>6. new[(r + 1) - last].what = "batched"
        BY <4>1, <4>4
      <4>7. QED
        BY <4>5, <4>6
    <3>3. ASSUME NEW r \in Requests \ Numbered(new)
          PROVE  /\ request[r].what = "batched" => r - 1 \notin Numbered(new)
                 /\ request[r].what = "batch" => r + 1 \notin Numbered(new)
      <4>1. NotYet.what = "none"
        BY RequestFields DEF NotYet
      <4>2. request[r].what = "batch" => r + 1 \notin Numbered(new)
        BY <2>1, <4>1 DEF Batches
      <4>3. request[r].what = "batched" => r - 1 \notin Numbered(new)
        BY <2>1, <4>1 DEF Batches
      <4>4. QED
        BY <4>2, <4>3
    <3>4. QED
      BY <2>1, <3>1, <3>2, <3>3 DEF Batches
  <2>6. SentOnce'
    BY <2>1 DEF SentOnce
  <2>7. QED
    BY <2>3, <2>4, <2>5, <2>6
<1>2. ASSUME NEW r \in Requests, GoesOn(r) PROVE SendingInv'
  <2>1. /\ list[r] \in Seq(Middlewares \union {SendRpc}) /\ list[r] # <<>>
        /\ list' = [list EXCEPT ![r] = Tail(@)] /\ DOMAIN list = Requests
        /\ UNCHANGED <<last, request, sent>>
    BY <1>2 DEF GoesOn, TypeOK, MiddlewareTypeOK, managerVars
  <2>2. \A k \in 1 .. Len(Tail(list[r])) - 1 :
          k + 1 \in 1 .. Len(list[r]) - 1 /\ Tail(list[r])[k] = list[r][k + 1]
    BY <2>1
  <2>3. Chained'
    BY <2>1, <2>2 DEF Chained
  <2>4. Fresh' /\ Batches' /\ SentOnce'
    BY <2>1 DEF Fresh, Batches, SentOnce
  <2>5. QED
    BY <2>3, <2>4
<1>3. ASSUME NEW r \in Requests, Arrives(r) PROVE SendingInv'
  <2>1. /\ list[r] \in Seq(Middlewares \union {SendRpc}) /\ list[r] # <<>>
        /\ DOMAIN list = Requests
        /\ UNCHANGED <<last, request>>
        /\ sent' = [q \in Requests |-> IF q \in {r} THEN sent[q] + 1 ELSE sent[q]]
    BY <1>3 DEF Arrives, Passes, Counted, TypeOK, MiddlewareTypeOK
  <2>2. list' = [list EXCEPT ![r] = <<>>]
    <3>1. CASE Head(list[r]) = SendRpc /\ list' = [list EXCEPT ![r] = Tail(@)]
      <4>1. Len(list[r]) >= 1 /\ list[r][1] = SendRpc
        BY <2>1, <3>1
      <4>2. ~(1 <= Len(list[r]) - 1)
        BY <2>1, <4>1 DEF Chained
      <4>3. Len(list[r]) = 1
        <5>1. Len(list[r]) \in Nat
          BY <2>1
        <5>2. \A n \in Nat : n >= 1 /\ ~(1 <= n - 1) => n = 1
          OBVIOUS
        <5>3. QED
          BY <4>1, <4>2, <5>1, <5>2
      <4>4. Tail(list[r]) = <<>>
        <5>1. Tail(list[r]) \in Seq(Middlewares \union {SendRpc}) /\ Len(Tail(list[r])) = 0
          BY <2>1, <4>3
        <5>2. QED
          BY <5>1, EmptySeq
      <4>5. QED
        BY <2>1, <3>1, <4>4
    <3>2. QED
      BY <1>3, <3>1 DEF Arrives
  <2>3. sent[r] = 0
    BY <2>1 DEF Chained
  <2>4. Chained' /\ SentOnce'
    BY <2>1, <2>2, <2>3 DEF Chained, SentOnce
  <2>5. Fresh' /\ Batches'
    BY <2>1, <2>2 DEF Fresh, Batches
  <2>6. QED
    BY <2>4, <2>5
<1>4. CASE UNCHANGED <<last, request, sent, list>>
  BY <1>4 DEF Fresh, Chained, Batches, SentOnce
<1>5. ASSUME NEW r \in Requests, HttpStep(r) \/ HttpTimer(r)
      PROVE  UNCHANGED <<last, request, sent, list>>
  BY <1>5 DEF HttpStep, HttpTimer, middlewareVars
<1>6. IpcStep => UNCHANGED <<last, request, sent, list>>
  BY DEF IpcStep, NodeAnswers, Deliver, IpcFails, Socket, managerVars, middlewareVars
<1>7. Stays => UNCHANGED <<last, request, sent, list>>
  BY DEF Stays, managerVars
<1>8. QED
  BY <1>1, <1>2, <1>3, <1>4, <1>5, <1>6, <1>7, StepKinds DEF StepKind

-----------------------------------------------------------------------------
(* Hearing. *)

(* A callback that waits was sent with its request and has not been called *)
(* yet; neither has that of a request that was not sent.                   *)
Waiting(r) == r \in responseCallbacks \/ fetching[r] \in {"request", "body"}
Quiet(r) == \A p \in Requests : p \in Payload(r) => heard[p] = <<>>
WaitingQuiet == \A r \in Requests : Waiting(r) => sent[r] = 1 /\ Quiet(r)
UnsentQuiet ==
  \A r \in Requests : sent[r] = 0 /\ request[r].what # "batched" => Quiet(r)

(* The provider that is not there has nothing to do; a fetch, and its      *)
(* timer, belong to a request that was sent.                               *)
OneTransport ==
  /\ transport = "http" => responseCallbacks = {}
  /\ transport = "ipc" => timers = {} /\ \A r \in Requests : fetching[r] = "no"
FetchSent ==
  /\ \A r \in Requests : fetching[r] # "no" => sent[r] = 1
  /\ \A r \in timers : fetching[r] # "no"

HearingInv ==
  WaitingQuiet /\ UnsentQuiet /\ OneTransport /\ FetchSent /\ HeardOnce

(* What a callback that is called more than once may have heard.           *)
HeardTwice(r) ==
  /\ transport = "http"
  /\ heard[r] \in {<<Told(r, "ConnectionTimeout"), Told(r, "InvalidConnection")>>}
                    \union {<<outcome, "InvalidResponse">> : outcome \in Answered}

(* No callback belongs to two requests.                                    *)
LEMMA PayloadsDisjoint ==
  ASSUME TypeOK, SendingInv, NEW c \in Requests, NEW d \in Requests, c # d,
         request[c].what # "batched", request[d].what # "batched",
         NEW p \in Payload(c)
  PROVE  p \notin Payload(d)
<1>1. request[c].what = "batch" => request[c + 1].what = "batched"
  BY DEF SendingInv, Batches
<1>2. request[d].what = "batch" => request[d + 1].what = "batched"
  BY DEF SendingInv, Batches
<1>3. c + 1 = d + 1 => c = d
  BY DEF Requests
<1>4. QED
  BY <1>1, <1>2, <1>3 DEF Payload

(* When the callbacks of the requests R are called the others stay quiet.  *)
LEMMA OthersQuiet ==
  ASSUME TypeOK, SendingInv, NEW R \in SUBSET Requests,
         \A c \in R : request[c].what # "batched",
         \A h \in Requests : (\A c \in R : h \notin Payload(c)) => heard'[h] = heard[h],
         NEW d \in Requests \ R, request[d].what # "batched", Quiet(d)
  PROVE  \A p \in Requests : p \in Payload(d) => heard'[p] = <<>>
BY PayloadsDisjoint DEF Quiet

(* Whose callbacks Hear calls, and with what. *)
LEMMA HearFacts ==
  ASSUME TypeOK, NEW R \in SUBSET Requests, NEW outcome, Hear(R, outcome)
  PROVE  /\ \A h \in Requests : (\A c \in R : h \notin Payload(c)) => heard'[h] = heard[h]
         /\ \A h \in Requests : (\E c \in R : h \in Payload(c) /\ Quiet(c)) =>
              heard'[h] = <<Told(h, outcome)>>
<1>1. \A h \in Requests : (\A c \in R : h \notin Payload(c)) => heard'[h] = heard[h]
  BY DEF Hear
<1>2. ASSUME NEW h \in Requests, NEW c \in R, h \in Payload(c), Quiet(c)
      PROVE  heard'[h] = <<Told(h, outcome)>>
  <2>1. heard[h] = <<>>
    BY <1>2 DEF Quiet
  <2>2. heard'[h] = Append(heard[h], Told(h, outcome))
    BY <1>2 DEF Hear
  <2>3. Append(<<>>, Told(h, outcome)) = <<Told(h, outcome)>>
    OBVIOUS
  <2>4. QED
    BY <2>1, <2>2, <2>3
<1>3. QED
  BY <1>1, <1>2

(* The callbacks of R, which wait, are called and wait no more.            *)
LEMMA CallbacksCalled ==
  ASSUME TypeOK, SendingInv, HearingInv, NEW R \in SUBSET Requests,
         \A c \in R : Waiting(c),
         \A h \in Requests : (\A c \in R : h \notin Payload(c)) => heard'[h] = heard[h],
         \A h \in Requests : (\E c \in R : h \in Payload(c)) =>
            Len(heard'[h]) <= 1 \/ HeardTwice(h)',
         UNCHANGED <<transport, request, sent>>,
         \A r \in Requests : Waiting(r)' => Waiting(r) /\ r \notin R
  PROVE  (WaitingQuiet /\ UnsentQuiet /\ HeardOnce)'
<1>1. \A r \in Requests : Payload(r)' = Payload(r)
  BY DEF Payload
<1>2. \A c \in R : request[c].what # "batched" /\ sent[c] = 1
  BY DEF HearingInv, WaitingQuiet, SendingInv, Batches
<1>3. \A d \in Requests \ R :
        request[d].what # "batched" /\ Quiet(d) =>
          \A p \in Requests : p \in Payload(d) => heard'[p] = <<>>
  BY <1>2, OthersQuiet
<1>4. \A d \in Requests \ R : request[d].what # "batched" /\ Quiet(d) => Quiet(d)'
  BY <1>1, <1>3 DEF Quiet
<1>5. WaitingQuiet'
  <2>1. ASSUME NEW r \in Requests, Waiting(r)' PROVE sent'[r] = 1 /\ Quiet(r)'
    <3>1. Waiting(r) /\ r \notin R
      BY <2>1
    <3>2. sent[r] = 1 /\ Quiet(r) /\ request[r].what # "batched"
      BY <3>1 DEF HearingInv, WaitingQuiet, SendingInv, Batches
    <3>3. QED
      BY <1>4, <3>1, <3>2
  <2>2. QED
    BY <2>1 DEF WaitingQuiet
<1>6. UnsentQuiet'
  BY <1>2, <1>4 DEF HearingInv, UnsentQuiet
<1>7. HeardOnce'
  <2>1. ASSUME NEW h \in Requests PROVE Len(heard'[h]) <= 1 \/ HeardTwice(h)'
    <3>1. CASE \E c \in R : h \in Payload(c)
      BY <3>1
    <3>2. CASE \A c \in R : h \notin Payload(c)
      <4>1. Len(heard[h]) <= 1 \/ HeardTwice(h)
        BY DEF HearingInv, HeardOnce, HeardTwice
      <4>2. heard'[h] = heard[h]
        BY <3>2
      <4>3. QED
        BY <4>1, <4>2 DEF HeardTwice, Told
    <3>3. QED
      BY <3>1, <3>2
  <2>2. QED
    BY <2>1 DEF HeardOnce, HeardTwice
<1>8. QED
  BY <1>5, <1>6, <1>7

(* Requests are made: their callbacks are new, and, if the provider is     *)
(* reset, those that wait are called.                                      *)
LEMMA HearingMakes ==
  ASSUME TypeOK, SendingInv, SendingInv', HearingInv, NEW new \in Seq(Records),
         NEW W \in SUBSET Requests, NEW M \in SUBSET Requests, Makes(new, W, M)
  PROVE  HearingInv'
<1>1. /\ last' = last + Len(new) /\ last' \in Nat /\ last \in Nat /\ Len(new) \in Nat
      /\ \A r \in Requests : r \in Numbered(new) <=> last < r /\ r <= last'
      /\ \A r \in Numbered(new) : r \in Requests /\ r - last \in 1 .. Len(new)
      /\ \A r \in Requests \ Numbered(new) :
           request'[r] = request[r] /\ sent'[r] = sent[r] /\ list'[r] = list[r]
      /\ \A r \in Numbered(new) :
           /\ request[r] = NotYet /\ sent[r] = 0 /\ list[r] = <<>>
           /\ request'[r] = new[r - last]
           /\ sent'[r] = IF r \in W THEN 1 ELSE 0
           /\ list'[r] = IF r \in M THEN Append(Tail(registered), SendRpc) ELSE <<>>
  BY MakesFacts
<1>2. /\ W \subseteq Numbered(new)
      /\ Passes(W) \/ Clears(W)
      /\ UNCHANGED transport
  BY DEF Makes, Passes, Clears
<1>3. NotYet.what = "none"
  BY RequestFields DEF NotYet
<1>4. \A r \in Numbered(new) : request[r].what # "batched" /\ Quiet(r) /\ Payload(r) = {r}
  BY <1>1, <1>3 DEF HearingInv, UnsentQuiet, Payload
<1>5. \A r \in Numbered(new) : ~Waiting(r)
  BY <1>1 DEF HearingInv, WaitingQuiet
(* Who is called, if anybody. *)
<1>6. PICK R \in SUBSET Requests :
        /\ \A c \in R : Waiting(c) \/ c \in W
        /\ \A h \in Requests : (\A c \in R : h \notin Payload(c)) => heard'[h] = heard[h]
        /\ \A h \in Requests : (\E c \in R : h \in Payload(c)) => Len(heard'[h]) <= 1
        /\ \A r \in Requests : Waiting(r)' => (Waiting(r) \/ r \in W) /\ r \notin R
  <2>1. CASE UNCHANGED heard /\ IpcPasses(W)
    <3>1. \A r \in Requests : Waiting(r)' => Waiting(r) \/ r \in W
      BY <2>1 DEF IpcPasses, httpVars, Waiting
    <3>2. QED
      BY <2>1, <3>1
  <2>2. CASE Clears(W)
    <3> DEFINE R == responseCallbacks \union W
    <3>1. R \in SUBSET Requests
      BY DEF TypeOK, IpcTypeOK
    <3>2. \A c \in R : Quiet(c)
      BY <1>2, <1>4, <3>1 DEF HearingInv, WaitingQuiet, Waiting
    <3>3. \A h \in Requests : (\E c \in R : h \in Payload(c)) =>
            heard'[h] = <<Told(h, "InvalidConnection")>>
      BY <2>2, <3>1, <3>2, HearFacts DEF Clears
    <3>4. \A h \in Requests : (\A c \in R : h \notin Payload(c)) => heard'[h] = heard[h]
      BY <2>2, <3>1, HearFacts DEF Clears
    <3>5. \A r \in Requests : ~Waiting(r)'
      BY <2>2 DEF Clears, httpVars, Waiting, HearingInv, OneTransport
    <3>6. \A x : Len(<<x>>) <= 1
      OBVIOUS
    <3>7. \A h \in Requests : (\E c \in R : h \in Payload(c)) => Len(heard'[h]) <= 1
      BY <3>3, <3>6
    <3>8. \A c \in R : Waiting(c) \/ c \in W
      BY DEF Waiting
    <3> HIDE DEF R
    <3>9. QED
      BY <3>1, <3>4, <3>5, <3>7, <3>8
  <2>3. CASE UNCHANGED heard /\ HttpPasses(W)
    <3>1. UNCHANGED <<heard, responseCallbacks>>
      BY <2>3 DEF HttpPasses, ipcVars
    <3>2. \A r \in Requests : Waiting(r)' => Waiting(r) \/ r \in W
      BY <2>3, <3>1 DEF HttpPasses, HttpSend, httpVars, Waiting, TypeOK, HttpTypeOK
    <3>3. QED
      BY <3>1, <3>2
  <2>4. QED
    BY <1>2, <2>1, <2>2, <2>3 DEF Passes
<1>7. \A c \in R : request[c].what # "batched"
  BY <1>2, <1>4, <1>6 DEF HearingInv, WaitingQuiet, SendingInv, Batches
<1>8. \A d \in Requests \ R :
        request[d].what # "batched" /\ Quiet(d) =>
          \A p \in Requests : p \in Payload(d) => heard'[p] = <<>>
  BY <1>6, <1>7, OthersQuiet
(* Nothing was heard of a new request that is not passed on. *)
<1>9. \A r \in Numbered(new) \ R : heard'[r] = <<>>
  BY <1>1, <1>4, <1>8
<1>10. \A r \in Requests \ Numbered(new) : Payload(r)' = Payload(r)
  BY <1>1 DEF Payload
<1>11. ASSUME NEW r \in Numbered(new), r \notin R, request'[r].what # "batched"
       PROVE  Quiet(r)'
  <2>1. ASSUME request'[r].what = "batch"
        PROVE  r + 1 \in Numbered(new) \ R
    <3>1. r + 1 \in Requests /\ request'[r + 1].what = "batched" /\ sent'[r + 1] = 0
      BY <1>1, <2>1 DEF SendingInv, Batches
    <3>2. r + 1 <= last'
      <4>1. ~(r + 1 > last')
        BY <1>3, <3>1 DEF SendingInv, Fresh
      <4>2. QED
        BY <1>1, <4>1 DEF Requests
    <3>3. r + 1 \in Numbered(new)
      BY <1>1, <3>1, <3>2 DEF Requests
    <3>4. r + 1 \notin W
      BY <1>1, <3>1, <3>3
    <3>5. QED
      BY <1>5, <1>6, <3>3, <3>4
  <2>2. QED
    BY <1>9, <1>11, <2>1 DEF Quiet, Payload
<1>12. ASSUME NEW r \in Requests \ Numbered(new), r \notin R, request[r].what # "batched",
              Quiet(r)
       PROVE  Quiet(r)'
  BY <1>8, <1>10, <1>12 DEF Quiet
<1>13. WaitingQuiet'
  <2>1. ASSUME NEW r \in Requests, Waiting(r)' PROVE sent'[r] = 1 /\ Quiet(r)'
    <3>1. (Waiting(r) \/ r \in W) /\ r \notin R
      BY <1>6, <2>1
    <3>2. CASE r \in W
      <4>1. sent'[r] = 1 /\ r \in Numbered(new)
        BY <1>1, <1>2, <3>2
      <4>2. request'[r].what # "batched"
        BY <4>1 DEF SendingInv, Batches
      <4>3. QED
        BY <1>11, <3>1, <4>1, <4>2
    <3>3. CASE Waiting(r) /\ r \notin W
      <4>1. sent[r] = 1 /\ Quiet(r) /\ r \notin Numbered(new)
        BY <1>5, <3>3 DEF HearingInv, WaitingQuiet
      <4>2. request[r].what # "batched"
        BY <4>1 DEF SendingInv, Batches
      <4>3. QED
        BY <1>1, <1>12, <3>1, <4>1, <4>2
    <3>4. QED
      BY <3>1, <3>2, <3>3
  <2>2. QED
    BY <2>1 DEF WaitingQuiet
<1>14. UnsentQuiet'
  <2>1. ASSUME NEW r \in Requests, sent'[r] = 0, request'[r].what # "batched"
        PROVE  Quiet(r)'
    <3>1. r \notin R
      BY <1>1, <1>2, <1>6, <2>1 DEF HearingInv, WaitingQuiet
    <3>2. CASE r \in Numbered(new)
      BY <1>11, <2>1, <3>1, <3>2
    <3>3. CASE r \notin Numbered(new)
      <4>1. sent[r] = 0 /\ request[r].what # "batched"
        BY <1>1, <2>1, <3>3
      <4>2. QED
        BY <1>12, <3>1, <3>3, <4>1 DEF HearingInv, UnsentQuiet
    <3>4. QED
      BY <3>2, <3>3
  <2>2. QED
    BY <2>1 DEF UnsentQuiet
<1>15. HeardOnce'
  <2>1. ASSUME NEW h \in Requests PROVE Len(heard'[h]) <= 1 \/ HeardTwice(h)'
    <3>1. CASE \E c \in R : h \in Payload(c)
      BY <1>6, <3>1
    <3>2. CASE (\A c \in R : h \notin Payload(c)) /\ h \in Numbered(new)
      <4>1. heard'[h] = <<>>
        BY <1>4, <1>9, <3>2
      <4>2. QED
        BY <4>1
    <3>3. CASE (\A c \in R : h \notin Payload(c)) /\ h \notin Numbered(new)
      <4>1. Len(heard[h]) <= 1 \/ HeardTwice(h)
        BY DEF HearingInv, HeardOnce, HeardTwice
      <4>2. heard'[h] = heard[h] /\ request'[h] = request[h]
        BY <1>1, <1>6, <3>3
      <4>3. QED
        BY <1>2, <4>1, <4>2 DEF HeardTwice, Told
    <3>4. QED
      BY <3>1, <3>2, <3>3
  <2>2. QED
    BY <2>1 DEF HeardOnce, HeardTwice
<1>16. OneTransport'
  BY <1>2 DEF Passes, Clears, IpcPasses, HttpPasses, httpVars, ipcVars, HearingInv,
              OneTransport
<1>17. FetchSent'
  <2>1. \A r \in Requests : sent[r] = 1 => sent'[r] = 1
    BY <1>1
  <2>2. CASE IpcPasses(W) \/ Clears(W)
    BY <2>1, <2>2 DEF IpcPasses, Clears, httpVars, HearingInv, FetchSent, TypeOK, HttpTypeOK
  <2>3. CASE HttpPasses(W) /\ UNCHANGED httpVars
    BY <2>1, <2>3 DEF httpVars, HearingInv, FetchSent, TypeOK, HttpTypeOK
  <2>4. ASSUME NEW r \in Requests, W = {r}, HttpSend(r) PROVE FetchSent'
    <3>1. sent'[r] = 1
      BY <1>1, <1>2, <2>4
    <3>2. QED
      BY <2>1, <2>4, <3>1 DEF HttpSend, HearingInv, FetchSent, TypeOK, HttpTypeOK
  <2>5. QED
    BY <1>2, <2>2, <2>3, <2>4 DEF Passes, HttpPasses
<1>18. QED
  BY <1>13, <1>14, <1>15, <1>16, <1>17 DEF HearingInv

(* The arrival of a request at the provider calls no callback twice. *)
LEMMA HearingArrives ==
  ASSUME TypeOK, SendingInv, HearingInv, NEW r \in Requests, Arrives(r)
  PROVE  HearingInv'
<1>1. sent[r] = 0 /\ request[r].what # "batched" /\ Quiet(r)
  BY DEF Arrives, SendingInv, Chained, Batches, HearingInv, UnsentQuiet
<1>2. /\ sent'[r] = 1 /\ \A q \in Requests \ {r} : sent'[q] = sent[q]
      /\ UNCHANGED <<transport, request, heard>>
  <2>1. /\ sent' = [q \in Requests |-> IF q \in {r} THEN sent[q] + 1 ELSE sent[q]]
        /\ UNCHANGED <<transport, request, heard>>
    BY DEF Arrives, Passes, Counted
  <2>2. sent \in [Requests -> Nat]
    BY DEF TypeOK, ManagerTypeOK
  <2>3. QED
    BY <1>1, <2>1, <2>2
<1>3. \A q \in Requests : Waiting(q)' => Waiting(q) \/ q = r
  BY DEF Arrives, Passes, IpcPasses, HttpPasses, HttpSend, httpVars, ipcVars, Waiting, TypeOK,
         HttpTypeOK
<1>4. \A q \in Requests : Quiet(q) => Quiet(q)'
  BY <1>2 DEF Quiet, Payload
<1>5. WaitingQuiet' /\ UnsentQuiet'
  BY <1>1, <1>2, <1>3, <1>4 DEF HearingInv, WaitingQuiet, UnsentQuiet, TypeOK, ManagerTypeOK
<1>6. HeardOnce'
  BY <1>2 DEF HearingInv, HeardOnce, Told
<1>7. OneTransport'
  BY DEF Arrives, Passes, IpcPasses, HttpPasses, httpVars, ipcVars, HearingInv, OneTransport
<1>8. FetchSent'
  <2>1. \A q \in Requests : (sent[q] = 1 => sent'[q] = 1) /\ sent'[r] = 1
    BY <1>2 DEF TypeOK, ManagerTypeOK
  <2>2. CASE UNCHANGED httpVars
    BY <2>1, <2>2 DEF httpVars, HearingInv, FetchSent, TypeOK, HttpTypeOK
  <2>3. CASE HttpSend(r)
    BY <2>1, <2>3 DEF HttpSend, HearingInv, FetchSent, TypeOK, HttpTypeOK
  <2>4. QED
    BY <2>2, <2>3 DEF Arrives, Passes, IpcPasses, HttpPasses
<1>9. QED
  BY <1>5, <1>6, <1>7, <1>8 DEF HearingInv

(* An answer or a time-out calls the callback of its request.              *)
LEMMA HearingHttp ==
  ASSUME TypeOK, SendingInv, HearingInv, NEW r \in Requests, HttpStep(r) \/ HttpTimer(r)
  PROVE  HearingInv'
<1>1. UNCHANGED <<transport, request, sent, ipcVars>>
  BY DEF HttpStep, HttpTimer
<1>2. transport = "http" /\ responseCallbacks = {} /\ responseCallbacks' = {}
  <2>1. fetching[r] # "no" \/ r \in timers
    BY DEF HttpStep, HttpTimer, Success, BodyEnds, Failed, Aborts
  <2>2. QED
    BY <1>1, <2>1 DEF HearingInv, OneTransport, TypeOK, ManagerTypeOK, ipcVars
<1>3. \/ UNCHANGED heard /\ fetching' = [fetching EXCEPT ![r] = "body"] /\ fetching[r] = "request"
      \/ UNCHANGED heard /\ fetching' = [fetching EXCEPT ![r] = "done"] /\ ~Waiting(r)
      \/ /\ Waiting(r) /\ fetching' = [fetching EXCEPT ![r] = "done"]
         /\ \A h \in Requests \ Payload(r) : heard'[h] = heard[h]
         /\ \A h \in Requests : h \in Payload(r) => Len(heard'[h]) <= 1 \/ HeardTwice(h)'
  <2>1. ASSUME NEW outcome, Hear({r}, outcome), Waiting(r)
        PROVE  /\ \A h \in Requests \ Payload(r) : heard'[h] = heard[h]
               /\ \A h \in Requests : h \in Payload(r) => Len(heard'[h]) <= 1
    <3>1. Quiet(r)
      BY <2>1 DEF HearingInv, WaitingQuiet
    <3>2. \A h \in Requests : h \in Payload(r) => heard'[h] = <<Told(h, outcome)>>
      BY <2>1, <3>1, HearFacts
    <3>3. \A x : Len(<<x>>) <= 1
      OBVIOUS
    <3>4. \A h \in Requests \ Payload(r) : heard'[h] = heard[h]
      BY <2>1, HearFacts
    <3>5. QED
      BY <3>2, <3>3, <3>4
  <2>2. CASE Success(r) /\ UNCHANGED heard
    BY <2>2 DEF Success
  <2>3. CASE BodyEnds(r) /\ \E outcome \in Answered : Hear({r}, outcome)
    BY <2>1, <2>3 DEF BodyEnds, Waiting
  <2>4. ASSUME BodyEnds(r), NEW outcome \in Answered, NEW thrower \in Payload(r),
               heard' = [h \in Requests |->
                           IF h \notin Payload(r) THEN heard[h]
                           ELSE IF h <= thrower THEN <<outcome, "InvalidResponse">>
                           ELSE <<"InvalidResponse">>]
        PROVE  /\ Waiting(r) /\ fetching' = [fetching EXCEPT ![r] = "done"]
               /\ \A h \in Requests \ Payload(r) : heard'[h] = heard[h]
               /\ \A h \in Requests : h \in Payload(r) =>
                    Len(heard'[h]) <= 1 \/ HeardTwice(h)'
    <3>1. \A h \in Requests : h \in Payload(r) =>
            heard'[h] = <<outcome, "InvalidResponse">> \/ heard'[h] = <<"InvalidResponse">>
      BY <2>4
    <3>2. Len(<<"InvalidResponse">>) <= 1
      OBVIOUS
    <3>3. \A h \in Requests : heard'[h] = <<outcome, "InvalidResponse">> => HeardTwice(h)'
      BY <1>1, <1>2 DEF HeardTwice
    <3>4. QED
      BY <2>4, <3>1, <3>2, <3>3 DEF BodyEnds, Waiting
  <2>5. CASE Failed(r) /\ Hear({r}, "InvalidConnection")
    BY <2>1, <2>5 DEF Failed, Waiting
  <2>6. CASE HttpStep(r)
    BY <2>2, <2>3, <2>4, <2>5, <2>6 DEF HttpStep
  <2>7. CASE HttpTimer(r)
    <3>1. fetching' = [fetching EXCEPT ![r] = "done"]
      BY <2>7 DEF HttpTimer, Aborts
    <3>2. CASE fetching[r] = "request"
      <4>1. heard' = [h \in Requests |->
                        IF h \in Payload(r)
                        THEN <<Told(h, "ConnectionTimeout"), Told(h, "InvalidConnection")>>
                        ELSE heard[h]]
        BY <2>7, <3>2 DEF HttpTimer
      <4>2. \A h \in Requests : Told(h, "ConnectionTimeout")' = Told(h, "ConnectionTimeout")
              /\ Told(h, "InvalidConnection")' = Told(h, "InvalidConnection")
        BY <1>1 DEF Told
      <4>3. \A h \in Requests : h \in Payload(r) => HeardTwice(h)'
        BY <1>1, <1>2, <4>1, <4>2 DEF HeardTwice
      <4>4. QED
        BY <3>1, <3>2, <4>1, <4>3 DEF Waiting
    <3>3. CASE fetching[r] = "body"
      <4>1. Hear({r}, "InvalidResponse")
        BY <2>7, <3>3 DEF HttpTimer
      <4>2. QED
        BY <2>1, <3>1, <3>3, <4>1 DEF Waiting
    <3>4. CASE fetching[r] \notin {"request", "body"}
      <4>1. UNCHANGED heard
        BY <2>7, <3>4 DEF HttpTimer
      <4>2. QED
        BY <1>2, <3>1, <3>4, <4>1 DEF Waiting
    <3>5. QED
      BY <3>2, <3>3, <3>4
  <2>8. QED
    BY <2>6, <2>7
<1>4. (WaitingQuiet /\ UnsentQuiet /\ HeardOnce)'
  <2>1. CASE UNCHANGED heard /\ \A q \in Requests : Waiting(q)' => Waiting(q)
    <3>1. \A q \in Requests : Quiet(q) => Quiet(q)'
      BY <1>1, <2>1 DEF Quiet, Payload
    <3>2. WaitingQuiet' /\ UnsentQuiet'
      BY <1>1, <2>1, <3>1 DEF HearingInv, WaitingQuiet, UnsentQuiet
    <3>3. HeardOnce'
      BY <1>1, <2>1 DEF HearingInv, HeardOnce, Told
    <3>4. QED
      BY <3>2, <3>3
  <2>2. CASE /\ Waiting(r) /\ fetching' = [fetching EXCEPT ![r] = "done"]
             /\ \A h \in Requests \ Payload(r) : heard'[h] = heard[h]
             /\ \A h \in Requests : h \in Payload(r) => Len(heard'[h]) <= 1 \/ HeardTwice(h)'
    <3>1. \A q \in Requests : Waiting(q)' => Waiting(q) /\ q \notin {r}
      BY <1>2, <2>2 DEF Waiting, TypeOK, HttpTypeOK
    <3>2. QED
      BY <1>1, <2>2, <3>1, CallbacksCalled
  <2>3. QED
    BY <1>2, <1>3, <2>1, <2>2 DEF Waiting, TypeOK, HttpTypeOK
<1>5. OneTransport'
  BY <1>1, <1>2 DEF OneTransport
<1>6. FetchSent'
  <2>1. timers' \subseteq timers
    BY DEF HttpStep, HttpTimer, Success, BodyEnds, Failed, Aborts
  <2>2. sent[r] = 1
    BY DEF HttpStep, HttpTimer, Success, BodyEnds, Failed, Aborts, HearingInv, FetchSent
  <2>3. fetching' \in {[fetching EXCEPT ![r] = "body"], [fetching EXCEPT ![r] = "done"]}
    BY <1>3
  <2>4. QED
    BY <1>1, <2>1, <2>2, <2>3 DEF HearingInv, FetchSent, TypeOK, HttpTypeOK
<1>7. QED
  BY <1>4, <1>5, <1>6 DEF HearingInv

(* Over IPC the callbacks R are called, one with a response or all of them *)
(* with an error, and are removed.                                         *)
LEMMA IpcCalls ==
  ASSUME TypeOK, SendingInv, HearingInv, NEW R \in SUBSET responseCallbacks,
         NEW outcome, Hear(R, outcome), responseCallbacks' = responseCallbacks \ R,
         UNCHANGED <<transport, request, sent, httpVars>>, transport = "ipc"
  PROVE  HearingInv'
<1>1. R \in SUBSET Requests /\ \A c \in R : Waiting(c) /\ Quiet(c)
  BY DEF TypeOK, IpcTypeOK, HearingInv, WaitingQuiet, Waiting
<1>2. \A h \in Requests : (\A c \in R : h \notin Payload(c)) => heard'[h] = heard[h]
  BY <1>1, HearFacts
<1>3. \A h \in Requests : (\E c \in R : h \in Payload(c)) =>
        heard'[h] = <<Told(h, outcome)>>
  BY <1>1, HearFacts
<1>4. \A x : Len(<<x>>) <= 1
  OBVIOUS
<1>5. \A r \in Requests : Waiting(r)' => Waiting(r) /\ r \notin R
  BY DEF Waiting, HearingInv, OneTransport, httpVars
<1>6. (WaitingQuiet /\ UnsentQuiet /\ HeardOnce)'
  BY <1>1, <1>2, <1>3, <1>4, <1>5, CallbacksCalled
<1>7. OneTransport' /\ FetchSent'
  BY DEF OneTransport, FetchSent, HearingInv, httpVars
<1>8. QED
  BY <1>6, <1>7 DEF HearingInv

(* A step that leaves callbacks alone keeps HearingInv. *)
LEMMA HearingSame ==
  ASSUME HearingInv, UNCHANGED <<managerVars, httpVars, responseCallbacks>>
  PROVE  HearingInv'
<1>1. \A r \in Requests : (Waiting(r)' => Waiting(r)) /\ (Quiet(r) => Quiet(r)')
  BY DEF managerVars, httpVars, Waiting, Quiet, Payload
<1>2. WaitingQuiet' /\ UnsentQuiet'
  BY <1>1 DEF managerVars, HearingInv, WaitingQuiet, UnsentQuiet
<1>3. HeardOnce'
  BY DEF managerVars, HearingInv, HeardOnce, Told
<1>4. OneTransport' /\ FetchSent'
  BY DEF managerVars, httpVars, HearingInv, OneTransport, FetchSent
<1>5. QED
  BY <1>2, <1>3, <1>4 DEF HearingInv

(* An answer or a time-out of IPC calls only callbacks that wait. *)
LEMMA HearingIpc ==
  ASSUME TypeOK, SendingInv, HearingInv, IpcStep
  PROVE  HearingInv'
<1>1. transport = "ipc"
  BY DEF IpcStep
<1>2. CASE \E r \in asked : NodeAnswers(r)
  BY <1>2, HearingSame DEF NodeAnswers, Answers
<1>3. CASE wire # <<>> /\ Deliver
  <2> DEFINE m == Head(wire)
             R == {m.to} \intersect responseCallbacks
             outcome == IF m.ok THEN "result" ELSE "ErrorResponse"
  <2>1. /\ Hear(R, outcome) /\ responseCallbacks' = responseCallbacks \ {m.to}
        /\ UNCHANGED <<transport, request, sent, httpVars>>
    BY <1>3 DEF Deliver, Parsed
  <2>2. responseCallbacks' = responseCallbacks \ R
    BY <2>1
  <2>3. R \in SUBSET responseCallbacks
    OBVIOUS
  <2> HIDE DEF R, outcome
  <2>4. QED
    BY <1>1, <2>1, <2>2, <2>3, IpcCalls
<1>4. CASE IpcFails
  <2>1. /\ Hear(responseCallbacks, "InvalidConnection") /\ responseCallbacks' = {}
        /\ UNCHANGED <<transport, request, sent, httpVars>>
    BY <1>4 DEF IpcFails, Ends, ChunkTimeout, Failing
  <2>2. responseCallbacks' = responseCallbacks \ responseCallbacks
    BY <2>1
  <2>3. QED
    BY <1>1, <2>1, <2>2, IpcCalls
<1>5. CASE Socket
  BY <1>5, HearingSame
     DEF Socket, Connects, IpcReconnect, FirstPiece, NotParsed, Notifies
<1>6. QED
  BY <1>2, <1>3, <1>4, <1>5 DEF IpcStep

-----------------------------------------------------------------------------
(* The inductive invariant of requests. *)
RequestInv == TypeOK /\ SendingInv /\ HearingInv

(* A new manager has the invariant. *)
LEMMA RequestInit == Init => RequestInv
<1> SUFFICES ASSUME Init PROVE RequestInv
  OBVIOUS
<1>1. NotYet.what = "none"
  BY RequestFields DEF NotYet
<1>2. SendingInv
  BY <1>1 DEF Init, MiddlewareInit, SendingInv, Fresh, Chained, Batches, SentOnce
<1>3. HearingInv
  <2>1. \A r \in Requests : Quiet(r) /\ ~Waiting(r) /\ Len(heard[r]) <= 1
    BY DEF Init, HttpInit, IpcInit, Quiet, Waiting
  <2>2. OneTransport /\ FetchSent
    BY DEF Init, HttpInit, IpcInit, OneTransport, FetchSent
  <2>3. QED
    BY <2>1, <2>2 DEF HearingInv, WaitingQuiet, UnsentQuiet, HeardOnce
<1>4. QED
  BY <1>2, <1>3, TypeInit DEF RequestInv

(* Every step keeps the invariant. *)
LEMMA RequestStep == RequestInv /\ [Next]_vars => RequestInv'
<1> SUFFICES ASSUME RequestInv, [Next]_vars PROVE RequestInv'
  OBVIOUS
<1>1. TypeOK /\ SendingInv /\ HearingInv /\ TypeOK' /\ SendingInv'
  BY TypeStep, SendingStep DEF RequestInv
<1>2. ASSUME NEW new \in Seq(Records), NEW W \in SUBSET Requests,
             NEW M \in SUBSET Requests, Makes(new, W, M)
      PROVE  HearingInv'
  BY <1>1, <1>2, HearingMakes
<1>3. ASSUME NEW r \in Requests, GoesOn(r) PROVE HearingInv'
  BY <1>1, <1>3, HearingSame DEF GoesOn, ipcVars
<1>4. ASSUME NEW r \in Requests, Arrives(r) PROVE HearingInv'
  BY <1>1, <1>4, HearingArrives
<1>5. ASSUME NEW r \in Requests, HttpStep(r) \/ HttpTimer(r) PROVE HearingInv'
  BY <1>1, <1>5, HearingHttp
<1>6. IpcStep => HearingInv'
  BY <1>1, HearingIpc
<1>7. Stays => HearingInv'
  BY <1>1, HearingSame DEF Stays, ipcVars
<1>8. QED
  BY <1>1, <1>2, <1>3, <1>4, <1>5, <1>6, <1>7, StepKinds DEF RequestInv, StepKind

(* In every state of every behaviour the types hold and requests are sent  *)
(* and heard as SendingInv and HearingInv say: the invariant all theorems  *)
(* about send, sendBatch and the providers' answers rest on.               *)
THEOREM RequestInvariant == Spec => []RequestInv
BY RequestInit, RequestStep, PTL DEF Spec

-----------------------------------------------------------------------------
(* Every variable keeps its type.                                          *)
THEOREM ManagerTypeCorrect == Spec => []TypeOK
<1>1. RequestInv => TypeOK
  BY DEF RequestInv
<1>2. QED
  BY <1>1, RequestInvariant, PTL

(* Whatever middlewares do with next and bypass, send and sendBatch pass a *)
(* request to the provider once at most.                                   *)
THEOREM ManagerSentOnce == Spec => []SentOnce
<1>1. RequestInv => SentOnce
  BY DEF RequestInv, SendingInv
<1>2. QED
  BY <1>1, RequestInvariant, PTL

(* Whatever answers, time-outs, resets and lost connections come, the      *)
(* callback of a request is called once, but for the two cases of the HTTP *)
(* provider.                                                               *)
THEOREM ManagerHeardOnce == Spec => []HeardOnce
<1>1. RequestInv => HeardOnce
  BY DEF RequestInv, HearingInv
<1>2. QED
  BY <1>1, RequestInvariant, PTL

(* The manager listens to notifications once, unless somebody reset its    *)
(* provider after setProvider.                                             *)
THEOREM ManagerListensOnce == Spec => []ListensOnce
<1>1. Init => ListensOnce
  BY DEF Init, IpcInit, ListensOnce
<1>2. TypeOK /\ ListensOnce /\ [Next]_vars => ListensOnce'
  <2> SUFFICES ASSUME TypeOK, ListensOnce, [Next]_vars PROVE ListensOnce'
    OBVIOUS
  <2>1. CASE UNCHANGED <<transport, listeners, deaf>>
    BY <2>1 DEF ListensOnce
  <2>2. ASSUME NEW R, Send(R) \/ ToProvider(R) PROVE UNCHANGED listeners
    BY <2>2 DEF Send, ToProvider, IpcSend, ipcVars, TypeOK, ManagerTypeOK
  <2>3. ASSUME Call \/ ExecuteBatch
               \/ \E s \in Subscriptions :
                    Unsubscribe(s) \/ \E past \in BOOLEAN : Subscribe(s, past)
        PROVE  UNCHANGED <<transport, listeners, deaf>>
    BY <2>2, <2>3 DEF Call, ExecuteBatch, Subscribe, Unsubscribe
  <2>4. CASE AppClears \/ SetProvider \/ OtherManagerClears
    BY <2>4
       DEF AppClears, SetProvider, OtherManagerClears, ClearSubscriptions, IpcReset, ListensOnce
  <2>5. ASSUME NEW r \in Requests, MiddlewareStep(r)
        PROVE  UNCHANGED <<transport, listeners, deaf>>
    BY <2>2, <2>5 DEF MiddlewareStep, managerVars, ipcVars
  <2>6. ASSUME \/ \E m \in Middlewares : Use(m)
               \/ \E r \in Requests : HttpStep(r) \/ HttpTimer(r)
        PROVE  UNCHANGED <<transport, listeners, deaf>>
    BY <2>6 DEF Use, HttpStep, HttpTimer, managerVars, ipcVars
  <2>7. IpcStep => UNCHANGED <<transport, listeners, deaf>>
    BY DEF IpcStep, NodeAnswers, Answers, Deliver, Parsed, IpcFails, Ends, ChunkTimeout, Socket,
           Connects, IpcReconnect, FirstPiece, NotParsed, Notifies, managerVars
  <2>8. UNCHANGED vars => UNCHANGED <<transport, listeners, deaf>>
    BY DEF vars, managerVars, ipcVars
  <2>9. QED
    BY <2>1, <2>3, <2>4, <2>5, <2>6, <2>7, <2>8 DEF Next
<1>3. QED
  BY <1>1, <1>2, ManagerTypeCorrect, PTL DEF Spec
=============================================================================
