--------------------------- MODULE SubscriptionProofs ---------------------------
(***************************************************************************)
(* Subscription objects: the table of the manager agrees with what they    *)
(* know, and what the node serves somebody holds.                          *)
(***************************************************************************)
EXTENDS WaitingProofs

(* What steps do to callbacks that were called, or were not.               *)
LEMMA HeardStays ==
  ASSUME RequestInv, [Next]_vars, NEW q \in Requests, heard'[q] = <<>>
  PROVE  heard[q] = <<>>
<1>1. TypeOK
  BY DEF RequestInv
<1>2. ASSUME NEW R \in SUBSET Requests, NEW outcome, Hear(R, outcome) PROVE heard[q] = <<>>
  BY <1>1, <1>2, HearCalls
<1>3. UNCHANGED heard => heard[q] = <<>>
  OBVIOUS
<1>4. responseCallbacks \in SUBSET Requests
  BY <1>1 DEF TypeOK, IpcTypeOK
<1>5. ASSUME NEW new \in Seq(Records), NEW W \in SUBSET Requests,
             NEW M \in SUBSET Requests, Makes(new, W, M)
      PROVE  heard[q] = <<>>
  <2>1. Passes(W) => heard[q] = <<>>
    BY <1>3 DEF Passes
  <2>2. responseCallbacks \union W \in SUBSET Requests
    BY <1>4
  <2>3. Clears(W) => heard[q] = <<>>
    BY <1>2, <2>2 DEF Clears
  <2>4. QED
    BY <1>5, <2>1, <2>3 DEF Makes
<1>6. ASSUME NEW r \in Requests, GoesOn(r) \/ Arrives(r) PROVE heard[q] = <<>>
  BY <1>3, <1>6 DEF GoesOn, Arrives, Passes, managerVars
<1>7. ASSUME NEW r \in Requests, HttpStep(r) \/ HttpTimer(r) PROVE heard[q] = <<>>
  BY <1>1, <1>7, HttpCalls
<1>8. ASSUME IpcStep PROVE heard[q] = <<>>
  <2>1. Deliver => heard[q] = <<>>
    <3> SUFFICES ASSUME Deliver PROVE heard[q] = <<>>
      OBVIOUS
    <3>1. PICK R \in SUBSET Requests, outcome \in Outcomes : Hear(R, outcome)
      BY <1>4 DEF Deliver, Outcomes
    <3>2. QED
      BY <1>2, <3>1
  <2>2. IpcFails => heard[q] = <<>>
    BY <1>2, <1>4 DEF IpcFails, Failing
  <2>3. Socket \/ (\E r \in asked : NodeAnswers(r)) => heard[q] = <<>>
    BY <1>3 DEF Socket, NodeAnswers, managerVars
  <2>4. QED
    BY <1>8, <2>1, <2>2, <2>3 DEF IpcStep
<1>9. Stays => heard[q] = <<>>
  BY <1>3 DEF Stays, managerVars
<1>10. QED
  BY <1>1, <1>5, <1>6, <1>7, <1>8, <1>9, StepKinds DEF StepKind

-----------------------------------------------------------------------------
(* The table. *)

(* An id on the wire belongs to the subscribe request that it answers; it  *)
(* was given out, nobody knows it yet, and it is there once.               *)
Carries(m) == m.to # NoRequest /\ m.id # NoId
Free(i) == subscriptions[i] = NoSubscription /\ \A s \in Subscriptions : id[s] # i
WireIds ==
  /\ \A j \in DOMAIN wire : Carries(wire[j]) =>
       /\ request[wire[j].to].what = "subscribe"
       /\ wire[j].id <= issued /\ Free(wire[j].id)
  /\ \A j, k \in DOMAIN wire :
       Carries(wire[j]) /\ Carries(wire[k]) /\ wire[j].id = wire[k].id => j = k
Unissued == \A i \in Ids : i > issued => Free(i)

(* An object that was not called while it waited for an id waits for one   *)
(* at most, and has none meanwhile.                                        *)
Asking(r, s) == request[r].what = "subscribe" /\ request[r].of = s /\ heard[r] = <<>>
Subscribers == \A r \in Requests : request[r].what = "subscribe" => request[r].of \in Subscriptions
NoIdYet ==
  \A s \in Subscriptions \ hasty, r \in Requests : Asking(r, s) => id[s] = NoId
AskOnce ==
  \A s \in Subscriptions \ hasty : \A q, r \in Requests :
    Asking(q, s) /\ Asking(r, s) => q = r

IdsInv == WireIds /\ Unissued /\ TableMatchesObjects
AskInv == Subscribers /\ NoIdYet /\ AskOnce

(* Steps that only take ids away.                                          *)
Forgets ==
  /\ \A i \in Ids : subscriptions'[i] # subscriptions[i] => subscriptions'[i] = NoSubscription
  /\ \A s \in Subscriptions : id'[s] # id[s] =>
       id'[s] = NoId /\ \A i \in Ids : subscriptions'[i] = s => id[s] # i
  /\ hasty \subseteq hasty'
  /\ \A r \in Requests : request[r].what = "subscribe" => request'[r] = request[r]
WireKept ==
  /\ \A j \in DOMAIN wire' : Carries(wire'[j]) => \E k \in DOMAIN wire : wire'[j] = wire[k]
  /\ \A j, k \in DOMAIN wire' :
       Carries(wire'[j]) /\ Carries(wire'[k]) /\ wire'[j].id = wire'[k].id => j = k

(* Messages on the wire, and those that carry an id. *)
LEMMA WireTyped ==
  ASSUME TypeOK
  PROVE  \A j \in DOMAIN wire : /\ wire[j] \in Messages
                                /\ Carries(wire[j]) => wire[j].to \in Requests /\ wire[j].id \in Ids
<1>1. wire \in Seq(Messages)
  BY DEF TypeOK, IpcTypeOK
<1>2. \A j \in DOMAIN wire : wire[j] \in Messages
  BY <1>1
<1>3. QED
  BY <1>2 DEF Messages, Carries, NoRequest, NoId

(* Forgetting ids, with no new one on the wire, keeps IdsInv. *)
LEMMA IdsForgotten ==
  ASSUME TypeOK, TypeOK', IdsInv, Forgets, WireKept, UNCHANGED issued
  PROVE  IdsInv'
<1> USE DEF IdsInv
<1>1. \A i \in Ids : Free(i) => Free(i)'
  <2> SUFFICES ASSUME NEW i \in Ids, Free(i) PROVE Free(i)'
    OBVIOUS
  <2>1. i # NoId
    BY WireAssumption DEF Ids, NoId
  <2>2. QED
    BY <2>1 DEF Free, Forgets
<1>2. Unissued'
  BY <1>1 DEF Unissued
<1>3. WireIds'
  <2>1. ASSUME NEW j \in DOMAIN wire', Carries(wire'[j])
        PROVE  /\ request'[wire'[j].to].what = "subscribe"
               /\ \E i \in Ids : wire'[j].id = i /\ i <= issued /\ Free(i)
    <3>1. PICK k \in DOMAIN wire : wire'[j] = wire[k]
      BY <2>1 DEF WireKept
    <3>2. Carries(wire[k])
      BY <2>1, <3>1
    <3>3. wire[k].to \in Requests /\ wire[k].id \in Ids
      BY <3>2, WireTyped
    <3>4. QED
      BY <3>1, <3>2, <3>3 DEF WireIds, Forgets
  <2>2. \A j \in DOMAIN wire' : Carries(wire'[j]) =>
          /\ request'[wire'[j].to].what = "subscribe"
          /\ wire'[j].id <= issued' /\ wire'[j].id \in Ids /\ Free(wire'[j].id)
    BY <2>1
  <2>3. QED
    BY <1>1, <2>2 DEF WireIds, WireKept, Free
<1>4. TableMatchesObjects'
  <2>1. ASSUME NEW i \in Ids, Known(i)'
        PROVE  id'[subscriptions'[i]] = i \/ subscriptions'[i] \in hasty'
    <3>1. subscriptions'[i] = subscriptions[i] /\ Known(i) /\ subscriptions[i] \in Subscriptions
      BY <2>1 DEF Forgets, Known, TypeOK, ManagerTypeOK
    <3>2. id[subscriptions[i]] = i \/ subscriptions[i] \in hasty
      BY <3>1 DEF TableMatchesObjects
    <3>3. QED
      BY <3>1, <3>2 DEF Forgets
  <2>2. \A s, t \in Subscriptions : id'[s] # NoId /\ id'[s] = id'[t] => s = t
    BY DEF Forgets, TableMatchesObjects
  <2>3. QED
    BY <2>1, <2>2 DEF TableMatchesObjects
<1>5. QED
  BY <1>2, <1>3, <1>4

(* Steps that put no id on the wire. *)
LEMMA WireKeeps ==
  ASSUME TypeOK, WireIds,
         \/ wire' = wire \/ wire' = <<>> \/ (wire # <<>> /\ wire' = Tail(wire))
         \/ \E m \in Messages : ~Carries(m) /\ wire' = Append(wire, m)
  PROVE  WireKept
<1>1. CASE wire' = wire
  BY <1>1 DEF WireKept, WireIds, Carries
<1>2. CASE wire' = <<>>
  BY <1>2 DEF WireKept
<1>3. CASE wire # <<>> /\ wire' = Tail(wire)
  <2>1. /\ Len(wire) \in Nat \ {0} /\ DOMAIN wire' = 1 .. Len(wire) - 1
        /\ \A j \in DOMAIN wire' : j + 1 \in DOMAIN wire /\ wire'[j] = wire[j + 1]
    BY <1>3, WireShrinks
  <2>2. \A j, k \in DOMAIN wire' : j + 1 = k + 1 => j = k
    BY <2>1
  <2>3. \A j, k \in DOMAIN wire' :
          Carries(wire'[j]) /\ Carries(wire'[k]) /\ wire'[j].id = wire'[k].id => j + 1 = k + 1
    BY <2>1 DEF WireIds
  <2>4. QED
    BY <2>1, <2>2, <2>3 DEF WireKept
<1>4. ASSUME NEW m \in Messages, ~Carries(m), wire' = Append(wire, m)
      PROVE  WireKept
  <2>1. /\ Len(wire) \in Nat /\ DOMAIN wire = 1 .. Len(wire)
        /\ DOMAIN wire' = 1 .. Len(wire) + 1 /\ wire'[Len(wire) + 1] = m
        /\ \A j \in DOMAIN wire : wire'[j] = wire[j]
    BY <1>4, WireAppends
  <2>2. \A j \in DOMAIN wire' : Carries(wire'[j]) => j # Len(wire) + 1
    BY <1>4, <2>1 DEF Carries
  <2>3. \A j \in DOMAIN wire' : j # Len(wire) + 1 => j \in DOMAIN wire /\ wire'[j] = wire[j]
    <3>1. Len(wire) \in Nat
      BY <2>1
    <3>2. \A j \in 1 .. Len(wire) + 1 : j # Len(wire) + 1 => j \in 1 .. Len(wire)
      BY <3>1
    <3>3. QED
      BY <2>1, <3>2
  <2>4. \A j \in DOMAIN wire' : Carries(wire'[j]) => j \in DOMAIN wire /\ wire'[j] = wire[j]
    BY <2>2, <2>3
  <2>5. QED
    BY <2>4 DEF WireKept, WireIds
<1>5. QED
  BY <1>1, <1>2, <1>3, <1>4

(* Nobody asks anew. *)
LEMMA AsksStay ==
  ASSUME AskInv, hasty \subseteq hasty',
         \A r \in Requests : request'[r].what = "subscribe" => request'[r] = request[r],
         \A r \in Requests : heard'[r] = <<>> => heard[r] = <<>>,
         \A s \in Subscriptions : id'[s] \in {id[s], NoId}
  PROVE  AskInv'
<1>1. \A r \in Requests, s \in Subscriptions : Asking(r, s)' => Asking(r, s)
  BY DEF Asking
<1>2. Subscribers'
  BY DEF AskInv, Subscribers
<1>3. NoIdYet'
  BY <1>1 DEF AskInv, NoIdYet
<1>4. AskOnce'
  BY <1>1 DEF AskInv, AskOnce
<1>5. QED
  BY <1>2, <1>3, <1>4 DEF AskInv

-----------------------------------------------------------------------------
(* What steps make and remove. *)

(* New requests get new numbers. *)
LEMMA CreateKeeps ==
  ASSUME TypeOK, Fresh, NEW new \in Seq(Records), Create(new)
  PROVE  /\ \A r \in Requests : request[r].what = "subscribe" => request'[r] = request[r]
         /\ \A r \in Requests : request'[r] # request[r] =>
              \E k \in 1 .. Len(new) : r = last + k /\ request'[r] = new[k]
<1>1. /\ Len(new) \in Nat /\ last \in Nat
      /\ \A r \in Requests : r \in Numbered(new) <=> last < r /\ r <= last'
      /\ request' = [r \in Requests |->
                       IF r \in Numbered(new) THEN new[r - last] ELSE request[r]]
      /\ \A r \in Numbered(new) : r - last \in 1 .. Len(new)
  BY CreateFacts DEF TypeOK
<1>2. \A r \in Requests : r \in Numbered(new) => request[r].what = "none"
  <2>1. \A r \in Requests : r \in Numbered(new) => r > last
    BY <1>1 DEF Requests
  <2>2. QED
    BY <2>1, RequestFields DEF Fresh, NotYet
<1>3. \A r \in Requests : request[r].what = "subscribe" => request'[r] = request[r]
  BY <1>1, <1>2
<1>4. ASSUME NEW r \in Requests, request'[r] # request[r]
      PROVE  \E k \in 1 .. Len(new) : r = last + k /\ request'[r] = new[k]
  <2>1. r \in Numbered(new) /\ request'[r] = new[r - last] /\ r - last \in 1 .. Len(new)
    BY <1>1, <1>4
  <2>2. r = last + (r - last)
    BY <1>1 DEF Requests
  <2>3. QED
    BY <2>1, <2>2
<1>5. QED
  BY <1>3, <1>4

(* unsubscribe forgets the id of one object and its entry. *)
LEMMA RemovedFacts ==
  ASSUME TypeOK, NEW s \in Subscriptions, subscriptions' = Removed({id[s]}),
         id' = [id EXCEPT ![s] = NoId]
  PROVE  /\ \A i \in Ids : subscriptions'[i] # subscriptions[i] =>
              subscriptions'[i] = NoSubscription
         /\ \A t \in Subscriptions : id'[t] # id[t] =>
              id'[t] = NoId /\ \A i \in Ids : subscriptions'[i] = t => id[t] # i
         /\ \A t \in Subscriptions : id'[t] \in {id[t], NoId}
BY SubscriptionsAssumption DEF Removed, TypeOK, ManagerTypeOK

(* Sending does not touch the wire or what the node serves. *)
LEMMA SendWire ==
  ASSUME TypeOK, NEW R, Send(R) \/ ToProvider(R)
  PROVE  UNCHANGED <<wire, live, issued, lastChunk>>
BY DEF Send, ToProvider, IpcSend, ipcVars, TypeOK, ManagerTypeOK

(* A step that only forgets ids keeps both invariants. *)
LEMMA TableForgets ==
  ASSUME RequestInv, TypeOK', [Next]_vars, IdsInv, AskInv, Forgets, WireKept, UNCHANGED issued,
         \A r \in Requests : request'[r].what = "subscribe" => request'[r] = request[r],
         \A s \in Subscriptions : id'[s] \in {id[s], NoId}
  PROVE  IdsInv' /\ AskInv'
<1>1. IdsInv'
  BY IdsForgotten DEF RequestInv
<1>2. \A r \in Requests : heard'[r] = <<>> => heard[r] = <<>>
  BY HeardStays
<1>3. QED
  BY <1>1, <1>2, AsksStay DEF Forgets

(* Steps that leave the table alone.                                       *)
LEMMA TableStays ==
  ASSUME RequestInv, TypeOK', [Next]_vars, IdsInv, AskInv, WireKept,
         UNCHANGED <<issued, request, subscriptions, id, hasty>>
  PROVE  IdsInv' /\ AskInv'
<1>1. Forgets
  BY DEF Forgets
<1>2. QED
  BY <1>1, TableForgets

(* Requests are made, none of them to subscribe.                           *)
LEMMA TableMakes ==
  ASSUME RequestInv, TypeOK', [Next]_vars, IdsInv, AskInv,
         NEW new \in Seq(Records), Create(new),
         \A k \in 1 .. Len(new) : new[k].what # "subscribe",
         \A i \in Ids : subscriptions'[i] # subscriptions[i] =>
           subscriptions'[i] = NoSubscription,
         \A s \in Subscriptions : id'[s] # id[s] =>
           id'[s] = NoId /\ \A i \in Ids : subscriptions'[i] = s => id[s] # i,
         hasty \subseteq hasty', UNCHANGED <<wire, issued>>
  PROVE  IdsInv' /\ AskInv'
<1>1. TypeOK /\ Fresh
  BY DEF RequestInv, SendingInv
<1>2. /\ \A r \in Requests : request[r].what = "subscribe" => request'[r] = request[r]
      /\ \A r \in Requests : request'[r].what = "subscribe" => request'[r] = request[r]
  BY <1>1, CreateKeeps
<1>3. Forgets
  BY <1>2 DEF Forgets
<1>4. WireKept
  BY <1>1, WireKeeps DEF IdsInv
<1>5. QED
  BY <1>2, <1>3, <1>4, TableForgets

(* subscribe makes one request to subscribe, the last of all.              *)
LEMMA SubscribeFacts ==
  ASSUME TypeOK, NEW s \in Subscriptions, NEW past \in BOOLEAN, Subscribe(s, past)
  PROVE  \E new \in Seq(Records) :
           /\ Create(new) /\ Send(Numbered(new))
           /\ Len(new) \in Nat \ {0} /\ new[Len(new)] = Request("subscribe", s, NoId)
           /\ \A k \in 1 .. Len(new) - 1 : new[k].what # "subscribe"
           /\ Known(id[s]) =>
                \E k \in 1 .. Len(new) : new[k] = Request("unsubscribe", NoSubscription, id[s])
<1> DEFINE removal == RemovalRequest(id[s])
           logs == IF past THEN <<Request("logs", s, NoId)>> ELSE <<>>
           new == removal \o logs \o <<Request("subscribe", s, NoId)>>
<1>1. Create(new) /\ Send(Numbered(new))
  BY DEF Subscribe
<1>2. id[s] \in Ids \union {NoId}
  BY DEF TypeOK, ManagerTypeOK
<1>3. /\ removal \in Seq(Records) /\ logs \in Seq(Records)
      /\ Request("subscribe", s, NoId) \in Records
  BY <1>2, RequestTyped, RemovalRequestTyped DEF Kinds
<1>4. /\ \A k \in 1 .. Len(removal) : removal[k].what # "subscribe"
      /\ \A k \in 1 .. Len(logs) : logs[k].what # "subscribe"
  BY <1>2, RemovalRequestTyped DEF Request
<1>5. Known(id[s]) => removal = <<Request("unsubscribe", NoSubscription, id[s])>>
  BY DEF RemovalRequest
<1> HIDE DEF removal, logs
<1>6. /\ new \in Seq(Records) /\ Len(removal) \in Nat /\ Len(logs) \in Nat
      /\ Len(new) = Len(removal) + Len(logs) + 1
      /\ new[Len(new)] = Request("subscribe", s, NoId)
      /\ \A k \in 1 .. Len(removal) : new[k] = removal[k]
      /\ \A k \in Len(removal) + 1 .. Len(removal) + Len(logs) :
           new[k] = logs[k - Len(removal)]
  BY <1>3
<1>7. \A k \in 1 .. Len(new) - 1 : new[k].what # "subscribe"
  <2>1. \A k \in 1 .. Len(new) - 1 :
          \/ k \in 1 .. Len(removal)
          \/ /\ k \in Len(removal) + 1 .. Len(removal) + Len(logs)
             /\ k - Len(removal) \in 1 .. Len(logs)
    BY <1>6
  <2>2. QED
    BY <1>4, <1>6, <2>1
<1>8. ASSUME Known(id[s])
      PROVE  \E k \in 1 .. Len(new) : new[k] = Request("unsubscribe", NoSubscription, id[s])
  <2>1. Len(removal) = 1 /\ removal[1] = Request("unsubscribe", NoSubscription, id[s])
    BY <1>5, <1>8
  <2>2. 1 \in 1 .. Len(new) /\ 1 \in 1 .. Len(removal)
    BY <1>6, <2>1
  <2>3. QED
    BY <1>6, <2>1, <2>2
<1>9. Len(new) \in Nat \ {0}
  BY <1>6
<1> HIDE DEF new
<1>10. QED
  BY <1>1, <1>6, <1>7, <1>8, <1>9

(* subscribe keeps both invariants. *)
LEMMA TableSubscribes ==
  ASSUME RequestInv, TypeOK', [Next]_vars, IdsInv, AskInv,
         NEW s \in Subscriptions, NEW past \in BOOLEAN, Subscribe(s, past)
  PROVE  IdsInv' /\ AskInv'
<1>1. TypeOK /\ Fresh
  BY DEF RequestInv, SendingInv
<1>2. PICK new \in Seq(Records) :
        /\ Create(new) /\ Send(Numbered(new))
        /\ Len(new) \in Nat \ {0} /\ new[Len(new)] = Request("subscribe", s, NoId)
        /\ \A k \in 1 .. Len(new) - 1 : new[k].what # "subscribe"
  BY <1>1, SubscribeFacts
<1> DEFINE asked0 == last + Len(new)
<1>3. /\ \A r \in Requests : request[r].what = "subscribe" => request'[r] = request[r]
      /\ \A r \in Requests : request'[r] # request[r] =>
           \E k \in 1 .. Len(new) : r = last + k /\ request'[r] = new[k]
  BY <1>1, <1>2, CreateKeeps
<1>4. /\ subscriptions' = Removed({id[s]}) /\ id' = [id EXCEPT ![s] = NoId]
      /\ hasty' = IF Waits(s) THEN hasty \union {s} ELSE hasty
      /\ UNCHANGED heard
  BY DEF Subscribe
<1>5. /\ \A i \in Ids : subscriptions'[i] # subscriptions[i] =>
           subscriptions'[i] = NoSubscription
      /\ \A t \in Subscriptions : id'[t] # id[t] =>
           id'[t] = NoId /\ \A i \in Ids : subscriptions'[i] = t => id[t] # i
      /\ \A t \in Subscriptions : id'[t] \in {id[t], NoId}
  BY <1>1, <1>4, RemovedFacts
<1>6. IdsInv'
  <2>1. Forgets
    BY <1>3, <1>4, <1>5 DEF Forgets
  <2>2. UNCHANGED <<wire, issued>>
    BY <1>1, <1>2, SendWire
  <2>3. WireKept
    BY <1>1, <2>2, WireKeeps DEF IdsInv
  <2>4. QED
    BY <1>1, <2>1, <2>2, <2>3, IdsForgotten
<1>7. \A r \in Requests :
        request'[r] = request[r] \/ request'[r].what # "subscribe"
          \/ (r = asked0 /\ request'[r].of = s)
  <2>1. \A k \in 1 .. Len(new) : k \in 1 .. Len(new) - 1 \/ k = Len(new)
    BY <1>2
  <2>2. QED
    BY <1>2, <1>3, <2>1, RequestFields
<1>8. Subscribers'
  BY <1>7 DEF AskInv, Subscribers
<1>9. \A r \in Requests, t \in Subscriptions :
        Asking(r, t)' => Asking(r, t) \/ (r = asked0 /\ t = s)
  BY <1>4, <1>7 DEF Asking
<1>10. s \notin hasty' => \A r \in Requests : ~Asking(r, s)
  <2>1. SUFFICES ASSUME ~Waits(s), NEW r \in Requests, Asking(r, s) PROVE FALSE
    BY <1>4
  <2>2. r <= last
    <3>1. r \in Nat /\ last \in Nat
      BY <1>1 DEF TypeOK, ManagerTypeOK, Requests
    <3>2. r > last => request[r].what = "none"
      BY <1>1, RequestFields DEF Fresh, NotYet
    <3>3. ~(r > last)
      BY <2>1, <3>2 DEF Asking
    <3>4. QED
      BY <3>1, <3>3
  <2>3. r \in 1 .. last
    BY <1>1, <2>2 DEF TypeOK, ManagerTypeOK, Requests
  <2>4. QED
    BY <2>1, <2>3 DEF Waits, Asking
<1>11. NoIdYet'
  <2>1. id'[s] = NoId
    BY <1>1, <1>4 DEF TypeOK, ManagerTypeOK
  <2>2. ASSUME NEW t \in Subscriptions \ hasty', NEW r \in Requests, Asking(r, t)'
        PROVE  id'[t] = NoId
    <3>1. CASE t = s
      BY <2>1, <3>1
    <3>2. CASE t # s
      <4>1. Asking(r, t) /\ t \notin hasty
        BY <1>4, <1>9, <2>2, <3>2
      <4>2. id[t] = NoId
        BY <4>1 DEF AskInv, NoIdYet
      <4>3. QED
        BY <1>5, <4>2
    <3>3. QED
      BY <3>1, <3>2
  <2>3. QED
    BY <2>2 DEF NoIdYet
<1>12. AskOnce'
  <2>1. ASSUME NEW t \in Subscriptions \ hasty', NEW q \in Requests, NEW r \in Requests,
               Asking(q, t)', Asking(r, t)'
        PROVE  q = r
    <3>1. CASE t = s
      BY <1>9, <1>10, <2>1, <3>1
    <3>2. CASE t # s
      BY <1>4, <1>9, <2>1, <3>2 DEF AskInv, AskOnce
    <3>3. QED
      BY <3>1, <3>2
  <2>2. QED
    BY <2>1 DEF AskOnce
<1>13. QED
  BY <1>6, <1>8, <1>11, <1>12 DEF AskInv

(* The node gives out an id, or answers otherwise.                         *)
LEMMA TableAnswers ==
  ASSUME RequestInv, TypeOK', [Next]_vars, IdsInv, AskInv, NEW r \in asked, NodeAnswers(r)
  PROVE  IdsInv' /\ AskInv'
<1>1. TypeOK
  BY DEF RequestInv
<1>2. PICK m \in Messages :
        /\ m.to = r /\ wire' = Append(wire, m)
        /\ \/ /\ request[r].what = "subscribe"
              /\ m.id = issued + 1 /\ issued + 1 \in Ids /\ issued' = issued + 1
           \/ m.id = NoId /\ issued' = issued
  BY <1>1, AnswerFacts
<1>3. UNCHANGED <<request, subscriptions, id, hasty>>
  BY DEF NodeAnswers, managerVars
<1>4. CASE m.id = NoId /\ issued' = issued
  <2>1. WireKept
    BY <1>1, <1>2, <1>4, WireKeeps DEF IdsInv, Carries
  <2>2. QED
    BY <1>3, <1>4, <2>1, TableStays
<1>5. CASE /\ request[r].what = "subscribe"
           /\ m.id = issued + 1 /\ issued + 1 \in Ids /\ issued' = issued + 1
  <2>1. /\ Len(wire) \in Nat /\ DOMAIN wire = 1 .. Len(wire)
        /\ DOMAIN wire' = 1 .. Len(wire) + 1 /\ wire'[Len(wire) + 1] = m
        /\ \A j \in DOMAIN wire : wire'[j] = wire[j]
    BY <1>1, <1>2, WireAppends
  <2>2. \A j \in DOMAIN wire' : j \in DOMAIN wire \/ j = Len(wire) + 1
    <3>1. Len(wire) \in Nat
      BY <2>1
    <3>2. \A j \in 1 .. Len(wire) + 1 : j \in 1 .. Len(wire) \/ j = Len(wire) + 1
      BY <3>1
    <3>3. QED
      BY <2>1, <3>2
  <2>3. issued \in Nat
    BY <1>1, WireAssumption DEF TypeOK, IpcTypeOK
  <2>4. Free(issued + 1)
    BY <1>5, <2>3 DEF IdsInv, Unissued
  <2>5. \A j \in DOMAIN wire : Carries(wire[j]) =>
          /\ request[wire[j].to].what = "subscribe"
          /\ wire[j].id \in Ids /\ wire[j].id <= issued /\ Free(wire[j].id)
    BY <1>1, WireTyped DEF IdsInv, WireIds
  <2>6. \A j \in DOMAIN wire : Carries(wire[j]) => wire[j].id # issued + 1
    <3>1. \A i \in Ids : i <= issued => i # issued + 1
      BY <2>3 DEF Ids
    <3>2. QED
      BY <2>5, <3>1
  <2>7. \A i \in Ids : Free(i)' <=> Free(i)
    BY <1>3 DEF Free
  <2>8. \A i \in Ids : i <= issued => i <= issued + 1
    BY <2>3 DEF Ids
  <2>9. \A j \in DOMAIN wire' : Carries(wire'[j]) =>
          /\ request'[wire'[j].to].what = "subscribe"
          /\ wire'[j].id \in Ids /\ wire'[j].id <= issued' /\ Free(wire'[j].id)
    <3>1. ASSUME NEW j \in DOMAIN wire, Carries(wire'[j])
          PROVE  /\ request'[wire'[j].to].what = "subscribe"
                 /\ wire'[j].id \in Ids /\ wire'[j].id <= issued' /\ Free(wire'[j].id)
      BY <1>3, <1>5, <2>1, <2>5, <2>8, <3>1
    <3>2. /\ request'[m.to].what = "subscribe"
          /\ m.id \in Ids /\ m.id <= issued' /\ Free(m.id)
      BY <1>2, <1>3, <1>5, <2>3, <2>4
    <3>3. QED
      BY <2>1, <2>2, <3>1, <3>2
  <2>10. \A j, k \in DOMAIN wire' :
           Carries(wire'[j]) /\ Carries(wire'[k]) /\ wire'[j].id = wire'[k].id => j = k
    BY <1>5, <2>1, <2>2, <2>6 DEF IdsInv, WireIds
  <2>11. WireIds'
    BY <1>3, <2>9, <2>10 DEF WireIds, Free
  <2>12. Unissued'
    <3>1. \A i \in Ids : i > issued + 1 => i > issued
      BY <2>3 DEF Ids
    <3>2. QED
      BY <1>5, <2>7, <3>1 DEF IdsInv, Unissued
  <2>13. TableMatchesObjects'
    BY <1>3 DEF IdsInv, TableMatchesObjects, Known
  <2>14. AskInv'
    <3>1. \A q \in Requests : heard'[q] = <<>> => heard[q] = <<>>
      BY HeardStays
    <3>2. QED
      BY <1>3, <3>1, AsksStay
  <2>15. QED
    BY <2>11, <2>12, <2>13, <2>14 DEF IdsInv
<1>6. QED
  BY <1>2, <1>4, <1>5

(* An object gets its id, unless nobody waits for the answer any more.     *)
LEMMA TableDelivers ==
  ASSUME RequestInv, TypeOK', [Next]_vars, IdsInv, AskInv, wire # <<>>, Deliver
  PROVE  IdsInv' /\ AskInv'
<1>1. TypeOK /\ WaitingQuiet
  BY DEF RequestInv, HearingInv
<1> DEFINE m == Head(wire)
           r == m.to
           i0 == m.id
           s0 == request[r].of
<1>2. /\ wire' = Tail(wire) /\ UNCHANGED <<request, hasty, issued>>
      /\ IF r \in responseCallbacks /\ i0 # NoId
         THEN /\ id' = [id EXCEPT ![s0] = i0]
              /\ subscriptions' = [subscriptions EXCEPT ![i0] = s0]
         ELSE UNCHANGED <<id, subscriptions>>
  BY DEF Deliver, Parsed
<1>3. PICK R \in SUBSET Requests, outcome \in Outcomes :
        /\ Hear(R, outcome)
        /\ r \in responseCallbacks => r \in R
  BY <1>1 DEF Deliver, TypeOK, IpcTypeOK, Outcomes
<1>4. WireKept
  BY <1>1, <1>2, WireKeeps DEF IdsInv
<1>5. CASE ~(r \in responseCallbacks /\ i0 # NoId)
  BY <1>2, <1>4, <1>5, TableStays
<1>6. CASE r \in responseCallbacks /\ i0 # NoId
  <2>1. /\ m = wire[1] /\ 1 \in DOMAIN wire
        /\ \A j \in DOMAIN wire' : j + 1 \in DOMAIN wire /\ wire'[j] = wire[j + 1]
        /\ \A j \in DOMAIN wire' : j + 1 # 1
    <3>1. /\ Len(wire) \in Nat \ {0} /\ DOMAIN wire = 1 .. Len(wire)
          /\ DOMAIN wire' = 1 .. Len(wire) - 1 /\ m = wire[1]
          /\ \A j \in DOMAIN wire' : j + 1 \in DOMAIN wire /\ wire'[j] = wire[j + 1]
      BY <1>1, <1>2, WireShrinks
    <3>2. Len(wire) \in Nat \ {0} => 1 \in 1 .. Len(wire)
      OBVIOUS
    <3>3. Len(wire) \in Nat \ {0} => \A j \in 1 .. Len(wire) - 1 : j + 1 # 1
      OBVIOUS
    <3>4. QED
      BY <3>1, <3>2, <3>3
  <2>2. r \in Requests /\ r # NoRequest
    <3>1. r \in Requests
      BY <1>1, <1>6 DEF TypeOK, IpcTypeOK
    <3>2. \A q \in Requests : q # NoRequest
      BY MaxRequestsAssumption DEF Requests, NoRequest
    <3>3. QED
      BY <3>1, <3>2
  <2>3. Carries(wire[1]) /\ i0 \in Ids
    BY <1>1, <1>6, <2>1, <2>2, WireTyped DEF Carries
  <2>4. request[r].what = "subscribe" /\ i0 <= issued /\ Free(i0)
    BY <2>1, <2>3 DEF IdsInv, WireIds
  <2>5. s0 \in Subscriptions
    BY <2>2, <2>4 DEF AskInv, Subscribers
  <2>6. Asking(r, s0)
    <3>1. heard[r] = <<>>
      BY <1>1, <1>6, <2>2 DEF WaitingQuiet, Waiting, Quiet, Payload
    <3>2. QED
      BY <2>4, <3>1 DEF Asking
  <2> HIDE DEF m, i0, s0
  <2>7. /\ id'[s0] = i0 /\ \A t \in Subscriptions \ {s0} : id'[t] = id[t]
        /\ subscriptions'[i0] = s0 /\ \A i \in Ids \ {i0} : subscriptions'[i] = subscriptions[i]
    BY <1>1, <1>2, <1>6, <2>3, <2>5 DEF TypeOK, ManagerTypeOK
  <2>8. \A i \in Ids : i # i0 /\ Free(i) => Free(i)'
    BY <2>7 DEF Free
  <2>9. WireIds'
    <3>1. \A j \in DOMAIN wire' : Carries(wire'[j]) => wire'[j].id # i0
      BY <2>1, <2>3 DEF IdsInv, WireIds, i0
    <3>2. \A j \in DOMAIN wire' : Carries(wire'[j]) =>
            /\ request[wire'[j].to].what = "subscribe"
            /\ wire'[j].id \in Ids /\ wire'[j].id <= issued /\ Free(wire'[j].id)
      BY <1>1, <2>1, WireTyped DEF IdsInv, WireIds
    <3>3. QED
      BY <1>2, <1>4, <2>8, <3>1, <3>2 DEF WireIds, WireKept, Free
  <2>10. Unissued'
    <3>1. \A i \in Ids : i > issued => i # i0
      <4>1. issued \in Nat
        BY <1>1, WireAssumption DEF TypeOK, IpcTypeOK
      <4>2. QED
        BY <2>3, <2>4, <4>1 DEF Ids
    <3>2. QED
      BY <1>2, <2>8, <3>1 DEF IdsInv, Unissued
  <2>11. TableMatchesObjects'
    <3>1. ASSUME NEW i \in Ids, Known(i)'
          PROVE  id'[subscriptions'[i]] = i \/ subscriptions'[i] \in hasty'
      <4>1. CASE i = i0
        BY <2>7, <4>1
      <4>2. CASE i # i0
        <5>1. subscriptions'[i] = subscriptions[i] /\ Known(i) /\ subscriptions[i] \in Subscriptions
          BY <1>1, <2>7, <3>1, <4>2 DEF Known, TypeOK, ManagerTypeOK
        <5>2. id[subscriptions[i]] = i \/ subscriptions[i] \in hasty
          BY <5>1 DEF IdsInv, TableMatchesObjects
        <5>3. s0 \notin hasty => id[s0] = NoId
          BY <2>2, <2>5, <2>6 DEF AskInv, NoIdYet
        <5>4. i # NoId
          BY WireAssumption DEF Ids, NoId
        <5>5. QED
          BY <1>2, <2>7, <5>1, <5>2, <5>3, <5>4
      <4>3. QED
        BY <4>1, <4>2
    <3>2. \A s, t \in Subscriptions : id'[s] # NoId /\ id'[s] = id'[t] => s = t
      BY <2>4, <2>7 DEF Free, IdsInv, TableMatchesObjects
    <3>3. QED
      BY <3>1, <3>2 DEF TableMatchesObjects
  <2>12. \A q \in Requests, t \in Subscriptions : Asking(q, t)' => Asking(q, t) /\ q # r
    BY <1>1, <1>2, <1>3, <1>6, HearCalls DEF Asking
  <2>13. NoIdYet'
    BY <1>2, <2>2, <2>5, <2>6, <2>7, <2>12 DEF AskInv, NoIdYet, AskOnce
  <2>14. AskOnce' /\ Subscribers'
    BY <1>2, <2>12 DEF AskInv, AskOnce, Subscribers
  <2>15. QED
    BY <2>9, <2>10, <2>11, <2>13, <2>14 DEF IdsInv, AskInv
<1>7. QED
  BY <1>5, <1>6

(* A new manager has both invariants. *)
LEMMA TableInit == Init => IdsInv /\ AskInv
<1> SUFFICES ASSUME Init PROVE IdsInv /\ AskInv
  OBVIOUS
<1>1. \A r \in Requests : request[r].what = "none"
  BY RequestFields DEF Init, NotYet
<1>2. AskInv
  BY <1>1 DEF AskInv, Subscribers, NoIdYet, AskOnce, Asking
<1>3. \A i \in Ids : Free(i) /\ ~Known(i)
  <2>1. \A i \in Ids : i # NoId
    BY WireAssumption DEF Ids, NoId
  <2>2. QED
    BY <2>1 DEF Init, Free, Known
<1>4. \A s \in Subscriptions : id[s] = NoId
  BY DEF Init
<1>5. wire = <<>>
  BY DEF Init, IpcInit
<1>6. QED
  BY <1>2, <1>3, <1>4, <1>5 DEF IdsInv, WireIds, Unissued, TableMatchesObjects

(* Every step keeps both invariants. *)
LEMMA TableStep ==
  ASSUME RequestInv, TypeOK', [Next]_vars, IdsInv, AskInv
  PROVE  IdsInv' /\ AskInv'
<1>1. TypeOK
  BY DEF RequestInv
<1>2. UNCHANGED wire => WireKept
  BY <1>1, WireKeeps DEF IdsInv
<1>3. CASE Call
  <2> DEFINE new == <<Request("call", NoSubscription, NoId)>>
  <2>1. new \in Seq(Records) /\ \A k \in 1 .. Len(new) : new[k].what # "subscribe"
    BY RequestTyped DEF Kinds, Request
  <2>2. Create(new) /\ UNCHANGED <<subscriptions, id, hasty, wire, issued>>
    BY <1>1, <1>3, SendWire DEF Call
  <2> HIDE DEF new
  <2>3. QED
    BY <2>1, <2>2, TableMakes
<1>4. CASE ExecuteBatch
  <2> DEFINE new == <<Request("batch", NoSubscription, NoId),
                      Request("batched", NoSubscription, NoId)>>
  <2>1. /\ Request("batch", NoSubscription, NoId) \in Records
        /\ Request("batched", NoSubscription, NoId) \in Records
    BY RequestTyped DEF Kinds
  <2>2. new \in Seq(Records) /\ \A k \in 1 .. Len(new) : new[k].what # "subscribe"
    BY <2>1 DEF Request
  <2>3. Create(new) /\ UNCHANGED <<subscriptions, id, hasty, wire, issued>>
    BY <1>1, <1>4, SendWire DEF ExecuteBatch
  <2> HIDE DEF new
  <2>4. QED
    BY <2>2, <2>3, TableMakes
<1>5. ASSUME NEW s \in Subscriptions, NEW past \in BOOLEAN, Subscribe(s, past)
      PROVE  IdsInv' /\ AskInv'
  BY <1>5, TableSubscribes
<1>6. ASSUME NEW s \in Subscriptions, Unsubscribe(s) PROVE IdsInv' /\ AskInv'
  <2> DEFINE new == RemovalRequest(id[s])
  <2>1. id[s] \in Ids \union {NoId}
    BY <1>1 DEF TypeOK, ManagerTypeOK
  <2>2. new \in Seq(Records) /\ \A k \in 1 .. Len(new) : new[k].what # "subscribe"
    BY <2>1, RemovalRequestTyped DEF Request
  <2> HIDE DEF new
  <2>3. /\ Create(new) /\ hasty \subseteq hasty' /\ UNCHANGED <<wire, issued>>
        /\ subscriptions' = Removed({id[s]}) /\ id' = [id EXCEPT ![s] = NoId]
    BY <1>1, <1>6, SendWire DEF Unsubscribe, new
  <2>4. /\ \A i \in Ids : subscriptions'[i] # subscriptions[i] =>
             subscriptions'[i] = NoSubscription
        /\ \A t \in Subscriptions : id'[t] # id[t] =>
             id'[t] = NoId /\ \A i \in Ids : subscriptions'[i] = t => id[t] # i
    BY <1>1, <2>3, RemovedFacts
  <2>5. QED
    BY <2>2, <2>3, <2>4, TableMakes
<1>7. ASSUME NEW keep, NEW n, ClearSubscriptions(keep, n) PROVE IdsInv' /\ AskInv'
  <2>1. PICK new \in Seq(Records) :
          /\ Create(new)
          /\ \A k \in 1 .. Len(new) : \E i \in Ids :
               new[k] = Request("unsubscribe", NoSubscription, i)
    BY <1>1, <1>7, ClearFacts DEF TypeOK
  <2>2. \A k \in 1 .. Len(new) : new[k].what # "subscribe"
    BY <2>1, RequestFields
  <2>3. UNCHANGED <<id, hasty, wire, issued>>
    BY <1>7 DEF ClearSubscriptions, IpcReset
  <2>4. \A i \in Ids : subscriptions'[i] # subscriptions[i] => subscriptions'[i] = NoSubscription
    BY <1>7 DEF ClearSubscriptions, Removed
  <2>5. QED
    BY <2>1, <2>2, <2>3, <2>4, TableMakes
<1>8. ASSUME \/ OtherManagerClears
             \/ \E m \in Middlewares : Use(m)
             \/ \E r \in Requests : MiddlewareStep(r) \/ HttpStep(r) \/ HttpTimer(r)
             \/ UNCHANGED vars
      PROVE  IdsInv' /\ AskInv'
  <2>1. UNCHANGED <<request, subscriptions, id, hasty, wire, issued>>
    <3>1. ASSUME NEW r \in Requests, MiddlewareStep(r)
          PROVE  UNCHANGED <<request, subscriptions, id, hasty, wire, issued>>
      BY <1>1, <3>1, SendWire DEF MiddlewareStep, managerVars, ipcVars
    <3>2. QED
      BY <1>8, <3>1
         DEF OtherManagerClears, IpcReset, Use, HttpStep, HttpTimer, vars, managerVars, ipcVars
  <2>2. QED
    BY <1>2, <2>1, TableStays
<1>9. ASSUME IpcFails \/ Socket PROVE IdsInv' /\ AskInv'
  <2>1. UNCHANGED <<request, subscriptions, id, hasty, issued>>
    BY <1>9 DEF IpcFails, Ends, ChunkTimeout, Socket, Connects, IpcReconnect, FirstPiece, NotParsed,
                Notifies, managerVars
  <2>2. ASSUME NEW i \in live, Notifies(i) PROVE WireKept
    <3>1. Notification(i) \in Messages /\ ~Carries(Notification(i))
      BY <1>1, WireAssumption
         DEF Notification, Messages, TypeOK, IpcTypeOK, Ids, Carries, NoId, NoRequest
    <3>2. QED
      BY <1>1, <2>2, <3>1, WireKeeps DEF Notifies, IdsInv
  <2>3. \/ wire' = wire \/ wire' = <<>> \/ (wire # <<>> /\ wire' = Tail(wire))
        \/ \E i \in live : Notifies(i)
    BY <1>9 DEF IpcFails, Ends, ChunkTimeout, Socket, Connects, IpcReconnect, FirstPiece, NotParsed
  <2>4. WireKept
    BY <1>1, <2>2, <2>3, WireKeeps DEF IdsInv
  <2>5. QED
    BY <2>1, <2>4, TableStays
<1>10. CASE IpcStep
  BY <1>9, <1>10, TableAnswers, TableDelivers DEF IpcStep
<1>11. QED
  BY <1>3, <1>4, <1>5, <1>6, <1>7, <1>8, <1>10 DEF Next, AppClears, SetProvider

(* However subscribe, unsubscribe and clearSubscriptions overlap with the  *)
(* answers they wait for, an object that was not called meanwhile knows    *)
(* the id under which the manager has it, and no two objects share one.    *)
THEOREM ManagerTableMatchesObjects == Spec => []TableMatchesObjects
<1>1. Spec => [](IdsInv /\ AskInv)
  <2>1. RequestInv /\ RequestInv' /\ IdsInv /\ AskInv /\ [Next]_vars => IdsInv' /\ AskInv'
    BY TableStep DEF RequestInv
  <2>2. QED
    BY <2>1, TableInit, RequestInvariant, PTL DEF Spec
<1>2. IdsInv => TableMatchesObjects
  BY DEF IdsInv
<1>3. QED
  BY <1>1, <1>2, PTL

-----------------------------------------------------------------------------
(* What the node serves. *)

(* A request is with the node or its answer is on the wire, not both, and  *)
(* there is one answer.                                                    *)
AnsweredOnce ==
  /\ \A r \in asked : sent[r] # 0
  /\ \A j \in DOMAIN wire : wire[j].to # NoRequest =>
       sent[wire[j].to] # 0 /\ wire[j].to \notin asked
  /\ \A j, k \in DOMAIN wire : wire[j].to # NoRequest /\ wire[j].to = wire[k].to => j = k

(* The application was told that a subscribe request failed.               *)
Denied(r) == request[r].what = "subscribe" /\ heard[r] = <<"InvalidConnection">>

(* If nobody waits any more for the answer to a subscribe, the application *)
(* was told so.                                                            *)
GivenUp ==
  \A r \in Requests :
    request[r].what = "subscribe" /\ OnItsWay(r) /\ r \notin responseCallbacks => Denied(r)

(* An unsubscribe of i that has not reached the node yet.                  *)
Removes(r, i) ==
  /\ request[r].what = "unsubscribe" /\ request[r].target = i
  /\ sent[r] = 0 \/ r \in asked

(* A subscription that is served is accounted for: its answer was refused, *)
(* or the manager holds it, its removal or its id is on the way.           *)
Lost == \E r \in Requests : Denied(r)
Held == \A i \in live : Known(i) \/ (\E r \in Requests : Removes(r, i)) \/ Coming(i)

(* The node of an HTTP provider is not modelled.                           *)
NodeQuiet == transport = "http" => asked = {} /\ wire = <<>> /\ live = {}

ServedInv ==
  /\ AnsweredOnce /\ GivenUp /\ NodeQuiet
  /\ lastChunk = "garbage" \/ Lost \/ Held

(* The transport never changes. *)
LEMMA TransportFixed ==
  ASSUME [Next]_vars
  PROVE  UNCHANGED transport
BY DEF Next, Call, ExecuteBatch, Use, Subscribe, Unsubscribe, AppClears, SetProvider,
       ClearSubscriptions, OtherManagerClears, MiddlewareStep, HttpStep, HttpTimer, IpcStep,
       NodeAnswers, Deliver, IpcFails, Socket, managerVars, vars

(* Over IPC a callback that was called is never called again.              *)
LEMMA HeardFixed ==
  ASSUME RequestInv, RequestInv', [Next]_vars, transport = "ipc",
         NEW q \in Requests, heard[q] # <<>>
  PROVE  heard'[q] = heard[q]
<1>1. TypeOK /\ OneTransport /\ HeardOnce'
  BY DEF RequestInv, HearingInv
<1>2. UNCHANGED transport
  BY TransportFixed
<1>3. heard[q] \in Seq(Outcomes) /\ Len(heard'[q]) <= 1
  BY <1>1, <1>2 DEF TypeOK, ManagerTypeOK, HeardOnce
<1>4. ASSUME NEW R, NEW outcome, Hear(R, outcome) PROVE heard'[q] = heard[q]
  <2>1. \A told : ~(Len(Append(heard[q], told)) <= 1)
    BY <1>3
  <2>2. heard'[q] = heard[q] \/ heard'[q] = Append(heard[q], Told(q, outcome))
    BY <1>4 DEF Hear
  <2>3. QED
    BY <1>3, <2>1, <2>2
<1>5. UNCHANGED heard => heard'[q] = heard[q]
  OBVIOUS
<1>6. ASSUME NEW new \in Seq(Records), NEW W \in SUBSET Requests,
             NEW M \in SUBSET Requests, Makes(new, W, M)
      PROVE  heard'[q] = heard[q]
  BY <1>4, <1>6 DEF Makes, Passes, Clears
<1>7. ASSUME NEW r \in Requests, GoesOn(r) \/ Arrives(r) PROVE heard'[q] = heard[q]
  BY <1>7 DEF GoesOn, Arrives, Passes, managerVars
<1>8. ASSUME NEW r \in Requests PROVE ~HttpStep(r) /\ ~HttpTimer(r)
  BY <1>1 DEF OneTransport, HttpStep, HttpTimer, Success, BodyEnds, Failed, Aborts
<1>9. ASSUME IpcStep PROVE heard'[q] = heard[q]
  <2>1. Deliver => \E R \in {{Head(wire).to} \intersect responseCallbacks}, outcome \in Outcomes :
                     Hear(R, outcome)
    BY DEF Deliver, Outcomes
  <2>2. IpcFails => heard'[q] = heard[q]
    BY <1>4 DEF IpcFails
  <2>3. Socket \/ (\E r \in asked : NodeAnswers(r)) => heard'[q] = heard[q]
    BY DEF Socket, NodeAnswers, managerVars
  <2>4. QED
    BY <1>4, <1>9, <2>1, <2>2, <2>3 DEF IpcStep
<1>10. Stays => heard'[q] = heard[q]
  BY DEF Stays, managerVars
<1>11. QED
  BY <1>1, <1>6, <1>7, <1>8, <1>9, <1>10, StepKinds DEF StepKind

(* When all that wait are given an error, so are the subscribe requests.   *)
LEMMA AllFail ==
  ASSUME RequestInv, NEW W, Hear(responseCallbacks \union W, "InvalidConnection"),
         NEW r \in Requests, r \in responseCallbacks, request[r].what = "subscribe",
         request'[r] = request[r]
  PROVE  Denied(r)'
<1>1. heard[r] = <<>>
  BY DEF RequestInv, HearingInv, WaitingQuiet, Waiting, Quiet, Payload
<1>2. r \in Payload(r)
  BY DEF Payload
<1>3. Told(r, "InvalidConnection") = "InvalidConnection"
  BY DEF Told
<1>4. heard'[r] = Append(heard[r], "InvalidConnection")
  BY <1>2, <1>3 DEF Hear
<1>5. heard'[r] = <<"InvalidConnection">>
  BY <1>1, <1>4
<1>6. QED
  BY <1>5 DEF Denied

(* Requests are passed to the node that were not passed before.            *)
LEMMA AnsweredPasses ==
  ASSUME TypeOK, AnsweredOnce, NEW W \in SUBSET Requests, Counted(W), UNCHANGED wire,
         asked' \subseteq asked \union W, \A r \in W : sent[r] = 0
  PROVE  AnsweredOnce'
<1>1. \A r \in Requests : (r \in W => sent'[r] # 0) /\ (sent[r] # 0 => sent'[r] # 0)
  BY DEF Counted, TypeOK, ManagerTypeOK
<1>2. asked \subseteq Requests
  BY DEF TypeOK, IpcTypeOK
<1>3. \A j \in DOMAIN wire : wire[j].to # NoRequest => wire[j].to \in Requests
  BY WireTyped DEF Messages, NoId, NoRequest
<1>4. \A r \in asked' : sent'[r] # 0
  BY <1>1, <1>2 DEF AnsweredOnce
<1>5. \A j \in DOMAIN wire : wire[j].to # NoRequest =>
        sent'[wire[j].to] # 0 /\ wire[j].to \notin asked'
  BY <1>1, <1>3 DEF AnsweredOnce
<1>6. QED
  BY <1>4, <1>5 DEF AnsweredOnce

(* The node gives one answer to a request. *)
LEMMA AnsweredStep ==
  ASSUME RequestInv, AnsweredOnce, [Next]_vars
  PROVE  AnsweredOnce'
<1>1. TypeOK /\ SendingInv
  BY DEF RequestInv
<1>2. UNCHANGED <<sent, asked, wire>> => AnsweredOnce'
  BY DEF AnsweredOnce
<1>3. ASSUME NEW new \in Seq(Records), NEW W \in SUBSET Requests,
             NEW M \in SUBSET Requests, Makes(new, W, M)
      PROVE  AnsweredOnce'
  <2>1. \A r \in W : sent[r] = 0
    BY <1>1, <1>3, MakesFacts DEF Makes
  <2>2. Counted(W) /\ UNCHANGED wire /\ asked' \subseteq asked \union W
    BY <1>3 DEF Makes, Passes, IpcPasses, HttpPasses, Clears, ipcVars
  <2>3. QED
    BY <1>1, <2>1, <2>2, AnsweredPasses
<1>4. ASSUME NEW r \in Requests, Arrives(r) PROVE AnsweredOnce'
  <2>1. sent[r] = 0
    BY <1>1, <1>4 DEF Arrives, SendingInv, Chained
  <2>2. Counted({r}) /\ UNCHANGED wire /\ asked' \subseteq asked \union {r}
    BY <1>4 DEF Arrives, Passes, IpcPasses, HttpPasses, ipcVars
  <2>3. {r} \in SUBSET Requests /\ \A q \in {r} : sent[q] = 0
    BY <2>1
  <2>4. QED
    BY <1>1, <2>2, <2>3, AnsweredPasses
<1>5. ASSUME NEW r \in Requests, GoesOn(r) \/ HttpStep(r) \/ HttpTimer(r) PROVE AnsweredOnce'
  BY <1>2, <1>5 DEF GoesOn, HttpStep, HttpTimer, managerVars, ipcVars
<1>6. ASSUME NEW r \in asked, NodeAnswers(r) PROVE AnsweredOnce'
  <2>1. PICK m \in Messages : m.to = r /\ wire' = Append(wire, m)
    BY <1>1, <1>6, AnswerFacts
  <2>2. asked' = asked \ {r} /\ UNCHANGED sent
    BY <1>1, <1>6, AnswerFacts DEF managerVars
  <2>3. /\ \A j \in DOMAIN wire' : j \in DOMAIN wire \/ j = Len(wire) + 1
        /\ wire'[Len(wire) + 1] = m
        /\ \A j \in DOMAIN wire : wire'[j] = wire[j]
    <3>1. /\ Len(wire) \in Nat /\ DOMAIN wire = 1 .. Len(wire)
          /\ DOMAIN wire' = 1 .. Len(wire) + 1 /\ wire'[Len(wire) + 1] = m
          /\ \A j \in DOMAIN wire : wire'[j] = wire[j]
      BY <1>1, <2>1, WireAppends
    <3>2. Len(wire) \in Nat =>
            \A j \in 1 .. Len(wire) + 1 : j \in 1 .. Len(wire) \/ j = Len(wire) + 1
      OBVIOUS
    <3>3. QED
      BY <3>1, <3>2
  <2>4. \A j \in DOMAIN wire : wire[j].to # NoRequest => wire[j].to # r
    BY <1>6 DEF AnsweredOnce
  <2>5. \A j \in DOMAIN wire' : wire'[j].to # NoRequest =>
          sent'[wire'[j].to] # 0 /\ wire'[j].to \notin asked'
    BY <1>6, <2>1, <2>2, <2>3 DEF AnsweredOnce
  <2>6. \A j, k \in DOMAIN wire' : wire'[j].to # NoRequest /\ wire'[j].to = wire'[k].to => j = k
    BY <2>1, <2>3, <2>4 DEF AnsweredOnce
  <2>7. QED
    BY <2>2, <2>5, <2>6 DEF AnsweredOnce
<1>7. ASSUME wire # <<>>, wire' = Tail(wire), UNCHANGED <<sent, asked>> PROVE AnsweredOnce'
  <2>1. /\ \A j \in DOMAIN wire' : j + 1 \in DOMAIN wire /\ wire'[j] = wire[j + 1]
        /\ \A j, k \in DOMAIN wire' : j + 1 = k + 1 => j = k
    <3>1. /\ Len(wire) \in Nat \ {0} /\ DOMAIN wire' = 1 .. Len(wire) - 1
          /\ \A j \in DOMAIN wire' : j + 1 \in DOMAIN wire /\ wire'[j] = wire[j + 1]
      BY <1>1, <1>7, WireShrinks
    <3>2. Len(wire) \in Nat \ {0} => \A j, k \in 1 .. Len(wire) - 1 : j + 1 = k + 1 => j = k
      OBVIOUS
    <3>3. QED
      BY <3>1, <3>2
  <2>2. \A j, k \in DOMAIN wire' :
          wire'[j].to # NoRequest /\ wire'[j].to = wire'[k].to => j + 1 = k + 1
    BY <2>1 DEF AnsweredOnce
  <2>3. QED
    BY <1>7, <2>1, <2>2 DEF AnsweredOnce
<1>8. ASSUME NEW i \in live, Notifies(i), UNCHANGED sent PROVE AnsweredOnce'
  <2>1. Notification(i) \in Messages /\ Notification(i).to = NoRequest
    BY <1>1, WireAssumption
       DEF Notification, Messages, TypeOK, IpcTypeOK, Ids, NoId, NoRequest
  <2>2. /\ Len(wire) \in Nat /\ DOMAIN wire = 1 .. Len(wire)
        /\ DOMAIN wire' = 1 .. Len(wire) + 1 /\ wire'[Len(wire) + 1] = Notification(i)
        /\ \A j \in DOMAIN wire : wire'[j] = wire[j]
    BY <1>1, <1>8, <2>1, WireAppends DEF Notifies
  <2>3. Len(wire) \in Nat =>
          \A j \in 1 .. Len(wire) + 1 : j \in 1 .. Len(wire) \/ j = Len(wire) + 1
    OBVIOUS
  <2>4. \A j \in DOMAIN wire' : wire'[j].to # NoRequest => j \in DOMAIN wire /\ wire'[j] = wire[j]
    BY <2>1, <2>2, <2>3
  <2>5. asked' = asked
    BY <1>8 DEF Notifies
  <2>6. QED
    BY <1>8, <2>4, <2>5 DEF AnsweredOnce
<1>9. ASSUME IpcStep PROVE AnsweredOnce'
  <2>1. Deliver => wire # <<>> /\ wire' = Tail(wire) /\ UNCHANGED <<sent, asked>>
    BY DEF Deliver, Parsed
  <2>2. IpcFails => AnsweredOnce'
    <3>1. IpcFails /\ Ends => asked' = {} /\ wire' = <<>>
      BY DEF Ends
    <3>2. IpcFails /\ ChunkTimeout => UNCHANGED <<sent, asked, wire>>
      BY DEF IpcFails, ChunkTimeout
    <3>3. asked' = {} /\ wire' = <<>> => AnsweredOnce'
      BY DEF AnsweredOnce
    <3>4. QED
      BY <1>2, <3>1, <3>2, <3>3 DEF IpcFails
  <2>3. Socket => \/ UNCHANGED <<sent, asked, wire>>
                  \/ wire # <<>> /\ wire' = Tail(wire) /\ UNCHANGED <<sent, asked>>
                  \/ (\E i \in live : Notifies(i)) /\ UNCHANGED sent
    BY DEF Socket, Connects, IpcReconnect, FirstPiece, NotParsed, managerVars
  <2>4. QED
    BY <1>2, <1>6, <1>7, <1>8, <1>9, <2>1, <2>2, <2>3 DEF IpcStep
<1>10. Stays => AnsweredOnce'
  BY <1>2 DEF Stays, managerVars, ipcVars
<1>11. QED
  BY <1>1, <1>3, <1>4, <1>5, <1>9, <1>10, StepKinds DEF StepKind

(* Without a socket there are no notifications. *)
LEMMA QuietStep ==
  ASSUME RequestInv, NodeQuiet, [Next]_vars
  PROVE  NodeQuiet'
<1>1. transport \in {"http", "ipc"} /\ TypeOK
  BY DEF RequestInv, TypeOK, ManagerTypeOK
<1>2. CASE transport = "ipc"
  <2>1. UNCHANGED transport
    BY TransportFixed
  <2>2. QED
    BY <1>2, <2>1 DEF NodeQuiet
<1>3. CASE transport = "http"
  <2>1. ASSUME NEW new \in Seq(Records), NEW W \in SUBSET Requests,
               NEW M \in SUBSET Requests, Makes(new, W, M)
        PROVE  UNCHANGED ipcVars
    BY <1>3, <2>1 DEF Makes, Passes, IpcPasses, HttpPasses, Clears
  <2>2. ASSUME NEW r \in Requests, GoesOn(r) \/ Arrives(r) \/ HttpStep(r) \/ HttpTimer(r)
        PROVE  UNCHANGED ipcVars
    BY <1>3, <2>2 DEF GoesOn, Arrives, Passes, IpcPasses, HttpPasses, HttpStep, HttpTimer
  <2>3. ~IpcStep /\ (Stays => UNCHANGED ipcVars)
    BY <1>3 DEF IpcStep, Stays
  <2>4. UNCHANGED ipcVars
    BY <1>1, <2>1, <2>2, <2>3, StepKinds DEF StepKind
  <2>5. QED
    BY <1>3, <2>4 DEF ipcVars, NodeQuiet
<1>4. QED
  BY <1>1, <1>2, <1>3

(* What steps do to the requests that are on their way.                    *)
LEMMA KnownRequest ==
  ASSUME RequestInv, NEW new \in Seq(Records), Create(new), NEW r \in Requests, sent[r] # 0
  PROVE  request'[r] = request[r]
<1>1. TypeOK /\ Fresh
  BY DEF RequestInv, SendingInv
<1>2. /\ last \in Nat
      /\ r \in Numbered(new) <=> last < r /\ r <= last'
      /\ request' = [q \in Requests |->
                       IF q \in Numbered(new) THEN new[q - last] ELSE request[q]]
  BY <1>1, CreateFacts DEF TypeOK
<1>3. r \notin Numbered(new)
  BY <1>1, <1>2 DEF Fresh, Requests
<1>4. QED
  BY <1>2, <1>3

(* What is on its way when the wire changes.                               *)
LEMMA WayAppends ==
  ASSUME TypeOK, NEW m \in Messages, wire' = Append(wire, m)
  PROVE  \A j \in DOMAIN wire' : wire'[j] = m \/ (j \in DOMAIN wire /\ wire'[j] = wire[j])
<1>1. /\ Len(wire) \in Nat /\ DOMAIN wire = 1 .. Len(wire)
      /\ DOMAIN wire' = 1 .. Len(wire) + 1 /\ wire'[Len(wire) + 1] = m
      /\ \A j \in DOMAIN wire : wire'[j] = wire[j]
  BY WireAppends
<1>2. Len(wire) \in Nat =>
        \A j \in 1 .. Len(wire) + 1 : j \in 1 .. Len(wire) \/ j = Len(wire) + 1
  OBVIOUS
<1>3. QED
  BY <1>1, <1>2

(* What is on its way after an arrival was on its way before. *)
LEMMA WayShrinks ==
  ASSUME TypeOK, AnsweredOnce, wire # <<>>, wire' = Tail(wire), UNCHANGED asked,
         NEW r \in Requests, OnItsWay(r)'
  PROVE  OnItsWay(r) /\ r # Head(wire).to
<1>1. /\ Head(wire) = wire[1] /\ 1 \in DOMAIN wire
      /\ \A j \in DOMAIN wire' : j + 1 \in DOMAIN wire /\ j + 1 # 1 /\ wire'[j] = wire[j + 1]
  <2>1. /\ Len(wire) \in Nat \ {0} /\ DOMAIN wire = 1 .. Len(wire)
        /\ DOMAIN wire' = 1 .. Len(wire) - 1 /\ Head(wire) = wire[1]
        /\ \A j \in DOMAIN wire' : j + 1 \in DOMAIN wire /\ wire'[j] = wire[j + 1]
    BY WireShrinks
  <2>2. Len(wire) \in Nat \ {0} =>
          1 \in 1 .. Len(wire) /\ \A j \in 1 .. Len(wire) - 1 : j + 1 # 1
    OBVIOUS
  <2>3. QED
    BY <2>1, <2>2
<1>2. r # NoRequest
  BY MaxRequestsAssumption DEF Requests, NoRequest
<1>3. CASE r \in asked
  BY <1>1, <1>2, <1>3 DEF AnsweredOnce, OnItsWay
<1>4. ASSUME NEW j \in DOMAIN wire', wire'[j].to = r
      PROVE  OnItsWay(r) /\ r # Head(wire).to
  <2>1. j + 1 \in DOMAIN wire /\ j + 1 # 1 /\ wire[j + 1].to = r
    BY <1>1, <1>4
  <2>2. OnItsWay(r)
    BY <2>1 DEF OnItsWay
  <2>3. QED
    BY <1>1, <1>2, <2>1, <2>2 DEF AnsweredOnce
<1>5. QED
  BY <1>3, <1>4 DEF OnItsWay

(* Nobody stops waiting for an id without being told. *)
LEMMA GivenUpStep ==
  ASSUME RequestInv, RequestInv', AnsweredOnce, GivenUp, NodeQuiet, NodeQuiet', [Next]_vars
  PROVE  GivenUp'
<1>1. TypeOK /\ SendingInv /\ transport \in {"http", "ipc"}
  BY DEF RequestInv, TypeOK, ManagerTypeOK
<1>2. UNCHANGED transport
  BY TransportFixed
<1>3. CASE transport = "http"
  BY <1>2, <1>3 DEF NodeQuiet, GivenUp, OnItsWay
<1>4. ASSUME transport = "ipc" PROVE GivenUp'
  <2>1. \A r \in Requests : OnItsWay(r) => sent[r] # 0
    BY DEF OnItsWay, AnsweredOnce, Requests, NoRequest
  <2>2. ASSUME NEW r \in Requests, OnItsWay(r), r \notin responseCallbacks,
               request'[r] = request[r], request[r].what = "subscribe"
        PROVE  Denied(r)'
    <3>1. Denied(r) /\ heard[r] # <<>>
      BY <2>2 DEF GivenUp, Denied
    <3>2. heard'[r] = heard[r]
      BY <1>4, <3>1, HeardFixed
    <3>3. QED
      BY <2>2, <3>1, <3>2 DEF Denied
  <2>3. ASSUME NEW W \in SUBSET Requests, Passes(W),
               \A r \in Requests : sent[r] # 0 => request'[r] = request[r]
        PROVE  GivenUp'
    <3>1. /\ asked' = asked \union W /\ responseCallbacks' = responseCallbacks \union W
          /\ UNCHANGED wire
      BY <1>4, <2>3 DEF Passes, IpcPasses, HttpPasses
    <3>2. \A r \in Requests : OnItsWay(r)' /\ r \notin responseCallbacks' =>
            OnItsWay(r) /\ r \notin responseCallbacks
      BY <3>1 DEF OnItsWay
    <3>3. QED
      BY <2>1, <2>2, <2>3, <3>2 DEF GivenUp
  <2>4. ASSUME NEW W \in SUBSET Requests, Hear(responseCallbacks \union W, "InvalidConnection"),
               responseCallbacks' = {}, asked' = asked \union W, UNCHANGED wire,
               \A r \in W : sent[r] = 0 /\ request[r] = NotYet,
               \A r \in Requests : sent[r] # 0 => request'[r] = request[r]
        PROVE  GivenUp'
    <3>1. ASSUME NEW r \in Requests, OnItsWay(r)', request'[r].what = "subscribe"
          PROVE  Denied(r)'
      <4>1. OnItsWay(r) \/ r \in W
        BY <2>4, <3>1 DEF OnItsWay
      <4>2. CASE r \in W
        <5>1. request[r].what = "none"
          BY <2>4, <4>2, RequestFields DEF NotYet
        <5>2. heard[r] = <<>>
          BY <2>4, <4>2, <5>1 DEF RequestInv, HearingInv, UnsentQuiet, Quiet, Payload
        <5>3. r \in Payload(r) /\ Told(r, "InvalidConnection") = "InvalidConnection"
          BY <5>1 DEF Payload, Told
        <5>4. heard'[r] = Append(heard[r], "InvalidConnection")
          BY <2>4, <4>2, <5>3 DEF Hear
        <5>5. heard'[r] = <<"InvalidConnection">>
          BY <5>2, <5>4
        <5>6. QED
          BY <3>1, <5>5 DEF Denied
      <4>3. CASE OnItsWay(r) /\ r \in responseCallbacks
        <5>1. request'[r] = request[r]
          BY <2>1, <2>4, <4>3
        <5>2. QED
          BY <2>4, <3>1, <4>3, <5>1, AllFail
      <4>4. CASE OnItsWay(r) /\ r \notin responseCallbacks
        BY <2>1, <2>2, <2>4, <3>1, <4>4
      <4>5. QED
        BY <4>1, <4>2, <4>3, <4>4
    <3>2. QED
      BY <3>1 DEF GivenUp
  <2>5. ASSUME NEW new \in Seq(Records), NEW W \in SUBSET Requests,
               NEW M \in SUBSET Requests, Makes(new, W, M)
        PROVE  GivenUp'
    <3>1. \A r \in W : sent[r] = 0 /\ request[r] = NotYet
      BY <1>1, <2>5, MakesFacts DEF Makes
    <3>2. \A r \in Requests : sent[r] # 0 => request'[r] = request[r]
      BY <2>5, KnownRequest DEF Makes
    <3>3. Clears(W) => GivenUp'
      BY <2>4, <3>1, <3>2 DEF Clears
    <3>4. Passes(W) => GivenUp'
      BY <2>3, <3>2
    <3>5. QED
      BY <2>5, <3>3, <3>4 DEF Makes
  <2>6. ASSUME NEW r \in Requests, Arrives(r) PROVE GivenUp'
    <3>1. Passes({r}) /\ {r} \in SUBSET Requests /\ UNCHANGED request
      BY <2>6 DEF Arrives
    <3>2. QED
      BY <2>3, <3>1
  <2>7. ASSUME UNCHANGED <<request, responseCallbacks>>,
               \A r \in Requests : OnItsWay(r)' => OnItsWay(r)
        PROVE  GivenUp'
    BY <2>2, <2>7 DEF GivenUp
  <2>8. ASSUME NEW r \in Requests, GoesOn(r) \/ HttpStep(r) \/ HttpTimer(r) PROVE GivenUp'
    BY <2>7, <2>8 DEF GoesOn, HttpStep, HttpTimer, managerVars, ipcVars, OnItsWay
  <2>9. Stays => GivenUp'
    BY <2>7 DEF Stays, managerVars, ipcVars, OnItsWay
  <2>10. ASSUME IpcStep PROVE GivenUp'
    <3>1. ASSUME NEW q \in asked, NodeAnswers(q) PROVE GivenUp'
      <4>1. PICK m \in Messages : m.to = q /\ wire' = Append(wire, m)
        BY <1>1, <3>1, AnswerFacts
      <4>2. asked' = asked \ {q} /\ UNCHANGED <<request, responseCallbacks>>
        BY <1>1, <3>1, AnswerFacts DEF managerVars
      <4>3. \A r \in Requests : OnItsWay(r)' => OnItsWay(r)
        BY <1>1, <4>1, <4>2, WayAppends DEF OnItsWay
      <4>4. QED
        BY <2>7, <4>2, <4>3
    <3>2. ASSUME wire # <<>>, Deliver PROVE GivenUp'
      <4>1. /\ wire' = Tail(wire) /\ UNCHANGED <<asked, request>>
            /\ responseCallbacks' = responseCallbacks \ {Head(wire).to}
        BY <3>2 DEF Deliver, Parsed
      <4>2. \A r \in Requests : OnItsWay(r)' => OnItsWay(r) /\ r # Head(wire).to
        BY <1>1, <3>2, <4>1, WayShrinks
      <4>3. \A r \in Requests : OnItsWay(r)' /\ r \notin responseCallbacks' =>
              OnItsWay(r) /\ r \notin responseCallbacks
        BY <4>1, <4>2
      <4>4. QED
        BY <2>2, <4>1, <4>3 DEF GivenUp
    <3>3. CASE IpcFails /\ Ends
      BY <3>3 DEF Ends, GivenUp, OnItsWay
    <3>4. CASE IpcFails /\ ChunkTimeout
      <4>1. /\ Hear(responseCallbacks \union {}, "InvalidConnection")
            /\ responseCallbacks' = {} /\ asked' = asked \union {}
            /\ UNCHANGED <<wire, request>>
        BY <3>4 DEF IpcFails, ChunkTimeout, Failing
      <4>2. QED
        BY <2>4, <4>1
    <3>5. ASSUME Socket PROVE GivenUp'
      <4>1. UNCHANGED <<request, responseCallbacks, asked>>
        BY <3>5 DEF Socket, Connects, IpcReconnect, FirstPiece, NotParsed, Notifies, managerVars
      <4>2. \/ UNCHANGED wire
            \/ wire # <<>> /\ wire' = Tail(wire)
            \/ \E i \in live : Notifies(i)
        BY <3>5 DEF Socket, Connects, IpcReconnect, FirstPiece, NotParsed
      <4>3. UNCHANGED wire => \A r \in Requests : OnItsWay(r)' => OnItsWay(r)
        BY <4>1 DEF OnItsWay
      <4>4. wire # <<>> /\ wire' = Tail(wire) => \A r \in Requests : OnItsWay(r)' => OnItsWay(r)
        BY <1>1, <4>1, WayShrinks
      <4>5. ASSUME NEW i \in live, Notifies(i), NEW r \in Requests, OnItsWay(r)' PROVE OnItsWay(r)
        <5>1. Notification(i) \in Messages /\ Notification(i).to = NoRequest
          BY <1>1, WireAssumption
             DEF Notification, Messages, TypeOK, IpcTypeOK, Ids, NoId, NoRequest
        <5>2. r # NoRequest
          BY MaxRequestsAssumption DEF Requests, NoRequest
        <5>3. wire' = Append(wire, Notification(i))
          BY <4>5 DEF Notifies
        <5>4. \A j \in DOMAIN wire' :
                wire'[j] = Notification(i) \/ (j \in DOMAIN wire /\ wire'[j] = wire[j])
          BY <1>1, <5>1, <5>3, WayAppends
        <5>5. QED
          BY <4>1, <4>5, <5>1, <5>2, <5>4 DEF OnItsWay
      <4>6. QED
        BY <2>7, <4>1, <4>2, <4>3, <4>4, <4>5
    <3>6. QED
      BY <2>10, <3>1, <3>2, <3>3, <3>4, <3>5 DEF IpcStep, IpcFails
  <2>11. QED
    BY <1>1, <2>5, <2>6, <2>8, <2>9, <2>10, StepKinds DEF StepKind
<1>5. QED
  BY <1>1, <1>3, <1>4

(* A request that was made is never changed. *)
LEMMA RequestKept ==
  ASSUME RequestInv, [Next]_vars, NEW r \in Requests, request[r].what # "none"
  PROVE  request'[r] = request[r]
<1>1. TypeOK /\ SendingInv /\ ~(r > last)
  BY RequestFields DEF RequestInv, SendingInv, Fresh, NotYet
<1>2. ASSUME NEW new \in Seq(Records), NEW W \in SUBSET Requests,
             NEW M \in SUBSET Requests, Makes(new, W, M)
      PROVE  request'[r] = request[r]
  <2>1. /\ last \in Nat
        /\ r \in Numbered(new) => last < r
        /\ r \notin Numbered(new) => request'[r] = request[r]
    BY <1>1, <1>2, MakesFacts
  <2>2. r \notin Numbered(new)
    BY <1>1, <2>1 DEF Requests
  <2>3. QED
    BY <2>1, <2>2
<1>3. ASSUME NEW q \in Requests, GoesOn(q) \/ Arrives(q) \/ HttpStep(q) \/ HttpTimer(q)
      PROVE  request'[r] = request[r]
  BY <1>3 DEF GoesOn, Arrives, HttpStep, HttpTimer, managerVars
<1>4. IpcStep \/ Stays => request'[r] = request[r]
  BY DEF IpcStep, NodeAnswers, Deliver, IpcFails, Socket, Stays, managerVars
<1>5. QED
  BY <1>1, <1>2, <1>3, <1>4, StepKinds DEF StepKind

(* When an id leaves the table, a request is made to remove it.            *)
RemovalMade(i) ==
  \E r \in Requests : r > last /\ request'[r] = Request("unsubscribe", NoSubscription, i)

(* A new unsubscribe request is under its number. *)
LEMMA RemovalNumbered ==
  ASSUME TypeOK, NEW new \in Seq(Records), Create(new), NEW i,
         NEW k \in 1 .. Len(new), new[k] = Request("unsubscribe", NoSubscription, i)
  PROVE  RemovalMade(i)
<1>1. /\ last \in Nat /\ Numbered(new) \subseteq Requests
      /\ request' = [r \in Requests |->
                       IF r \in Numbered(new) THEN new[r - last] ELSE request[r]]
  BY CreateFacts DEF TypeOK
<1>2. last + k > last /\ (last + k) - last = k
  BY <1>1
<1>3. last + k \in Numbered(new)
  BY DEF Numbered
<1>4. request'[last + k] = new[k]
  BY <1>1, <1>2, <1>3
<1>5. QED
  BY <1>1, <1>2, <1>3, <1>4 DEF RemovalMade

(* The head of the wire, if it carries an id to a callback that waits.      *)
LEMMA HeadCarries ==
  ASSUME TypeOK, IdsInv, wire # <<>>, Head(wire).to \in responseCallbacks, Head(wire).id \in Ids
  PROVE  /\ Head(wire).to \in Requests /\ Head(wire).to # NoRequest
         /\ request[Head(wire).to].what = "subscribe"
<1>1. Head(wire) = wire[1] /\ 1 \in DOMAIN wire
  <2>1. wire \in Seq(Messages)
    BY DEF TypeOK, IpcTypeOK
  <2>2. QED
    BY <2>1
<1>2. Head(wire).to \in Requests
  BY DEF TypeOK, IpcTypeOK
<1>3. /\ \A r \in Requests : r # NoRequest
      /\ \A i \in Ids : i # NoId
  BY MaxRequestsAssumption, WireAssumption DEF Requests, NoRequest, Ids, NoId
<1>4. Carries(wire[1])
  BY <1>1, <1>2, <1>3 DEF Carries
<1>5. QED
  BY <1>1, <1>2, <1>3, <1>4 DEF IdsInv, WireIds

(* An id leaves the table only with an unsubscribe request. *)
LEMMA RemovalsAreMade ==
  ASSUME RequestInv, IdsInv, AskInv, [Next]_vars, NEW i \in Ids, Known(i), ~Known(i)'
  PROVE  RemovalMade(i)
<1>1. TypeOK
  BY DEF RequestInv
<1>2. UNCHANGED subscriptions => FALSE
  BY DEF Known
<1>3. ASSUME NEW s \in Subscriptions, NEW past \in BOOLEAN, Subscribe(s, past)
      PROVE  RemovalMade(i)
  <2>1. PICK new \in Seq(Records) :
          /\ Create(new)
          /\ Known(id[s]) =>
               \E k \in 1 .. Len(new) : new[k] = Request("unsubscribe", NoSubscription, id[s])
    BY <1>1, <1>3, SubscribeFacts
  <2>2. i = id[s]
    BY <1>3 DEF Subscribe, Removed, Known
  <2>3. QED
    BY <1>1, <2>1, <2>2, RemovalNumbered
<1>4. ASSUME NEW s \in Subscriptions, Unsubscribe(s) PROVE RemovalMade(i)
  <2> DEFINE new == RemovalRequest(id[s])
  <2>1. i = id[s]
    BY <1>4 DEF Unsubscribe, Removed, Known
  <2>2. new = <<Request("unsubscribe", NoSubscription, i)>> /\ Create(new)
    BY <1>4, <2>1 DEF Unsubscribe, RemovalRequest
  <2>3. new \in Seq(Records)
    BY <2>1, RemovalRequestTyped
  <2>4. 1 \in 1 .. Len(new) /\ new[1] = Request("unsubscribe", NoSubscription, i)
    BY <2>2
  <2> HIDE DEF new
  <2>5. QED
    BY <1>1, <2>2, <2>3, <2>4, RemovalNumbered
<1>5. ASSUME NEW keep, NEW n, ClearSubscriptions(keep, n) PROVE RemovalMade(i)
  <2>1. PICK new \in Seq(Records) :
          /\ Create(new)
          /\ \A h \in Ids : subscriptions'[h] # subscriptions[h] =>
               \E k \in 1 .. Len(new) : new[k] = Request("unsubscribe", NoSubscription, h)
    BY <1>1, <1>5, ClearFacts DEF TypeOK
  <2>2. subscriptions'[i] # subscriptions[i]
    BY DEF Known
  <2>3. QED
    BY <1>1, <2>1, <2>2, RemovalNumbered
<1>6. ASSUME wire # <<>>, Deliver PROVE FALSE
  <2> DEFINE m == Head(wire)
  <2>1. UNCHANGED subscriptions
          \/ /\ m.to \in responseCallbacks
             /\ subscriptions' = [subscriptions EXCEPT ![m.id] = request[m.to].of]
    BY <1>6 DEF Deliver
  <2>2. subscriptions \in [Ids -> Subscriptions \union {NoSubscription}]
    BY <1>1 DEF TypeOK, ManagerTypeOK
  <2>3. m.id = i /\ m.to \in responseCallbacks /\ subscriptions'[i] = request[m.to].of
    BY <1>2, <2>1, <2>2 DEF Known
  <2>4. m.to \in Requests /\ request[m.to].what = "subscribe"
    BY <1>1, <1>6, <2>3, HeadCarries
  <2>5. QED
    BY <2>3, <2>4, SubscriptionsAssumption DEF AskInv, Subscribers, Known
<1>7. IpcStep => FALSE
  BY <1>2, <1>6
     DEF IpcStep, NodeAnswers, IpcFails, Socket, managerVars
<1>8. ASSUME \/ Call \/ ExecuteBatch \/ OtherManagerClears
             \/ \E m \in Middlewares : Use(m)
             \/ \E r \in Requests : MiddlewareStep(r) \/ HttpStep(r) \/ HttpTimer(r)
             \/ UNCHANGED vars
      PROVE  FALSE
  <2>1. UNCHANGED subscriptions
    BY <1>8 DEF Call, ExecuteBatch, OtherManagerClears, Use, MiddlewareStep, HttpStep, HttpTimer,
                vars, managerVars
  <2>2. QED
    BY <1>2, <2>1
<1>9. QED
  BY <1>3, <1>4, <1>5, <1>7, <1>8 DEF Next, AppClears, SetProvider

(* What the application was told stays told. *)
LEMMA LostStays ==
  ASSUME RequestInv, RequestInv', [Next]_vars, transport = "ipc", Lost
  PROVE  Lost'
<1>1. PICK r \in Requests : Denied(r)
  BY DEF Lost
<1>2. request'[r] = request[r]
  BY <1>1, RequestKept DEF Denied
<1>3. heard[r] # <<>>
  BY <1>1 DEF Denied
<1>4. heard'[r] = heard[r]
  BY <1>3, HeardFixed
<1>5. QED
  BY <1>1, <1>2, <1>4 DEF Lost, Denied

(* The node serves ids. *)
LEMMA LiveIds ==
  ASSUME TypeOK
  PROVE  live \subseteq Ids /\ \A i \in Ids : i # NoId
<1>1. \A n \in 0 .. MaxIds : \A i \in 1 .. n : i \in 1 .. MaxIds
  BY WireAssumption
<1>2. live \subseteq 1 .. issued /\ issued \in 0 .. MaxIds
  BY DEF TypeOK, IpcTypeOK
<1>3. \A i \in Ids : i # NoId
  BY WireAssumption DEF Ids, NoId
<1>4. QED
  BY <1>1, <1>2, <1>3 DEF Ids

(* A removal that was made goes out sooner or later and ends what it is    *)
(* for, or is kept by a middleware.                                        *)
LEMMA HeldPasses ==
  ASSUME RequestInv, RequestInv', [Next]_vars, IdsInv, AskInv, Held,
         UNCHANGED <<wire, live>>, asked \subseteq asked',
         \A r \in Requests : sent'[r] = sent[r] \/ r \in asked',
         \/ responseCallbacks \subseteq responseCallbacks'
         \/ \E W \in SUBSET Requests : Hear(responseCallbacks \union W, "InvalidConnection")
  PROVE  Lost' \/ Held'
<1>1. TypeOK /\ Fresh
  BY DEF RequestInv, SendingInv
<1>2. SUFFICES ASSUME NEW i \in live
               PROVE  Lost' \/ Known(i)' \/ (\E r \in Requests : Removes(r, i)') \/ Coming(i)'
  BY DEF Held
<1>3. i \in Ids
  BY <1>1, LiveIds
<1>4. ASSUME Known(i), ~Known(i)' PROVE \E r \in Requests : Removes(r, i)'
  <2>1. PICK r \in Requests : r > last /\ request'[r] = Request("unsubscribe", NoSubscription, i)
    BY <1>3, <1>4, RemovalsAreMade DEF RemovalMade
  <2>2. sent[r] = 0
    BY <1>1, <2>1 DEF Fresh
  <2>3. sent'[r] = 0 \/ r \in asked'
    BY <2>2
  <2>4. QED
    BY <2>1, <2>3, RequestFields DEF Removes
<1>5. ASSUME NEW r \in Requests, Removes(r, i) PROVE Removes(r, i)'
  <2>1. request'[r] = request[r]
    BY <1>5, RequestKept DEF Removes
  <2>2. sent'[r] = 0 \/ r \in asked'
    BY <1>5 DEF Removes
  <2>3. QED
    BY <1>5, <2>1, <2>2 DEF Removes
<1>6. ASSUME Coming(i) PROVE Lost' \/ Coming(i)'
  <2>1. PICK j \in DOMAIN wire : wire[j].id = i /\ wire[j].to \in responseCallbacks
    BY <1>6 DEF Coming
  <2>2. wire[j].to \in Requests /\ Carries(wire[j])
    <3>1. wire[j].to \in Requests
      BY <1>1, <2>1 DEF TypeOK, IpcTypeOK
    <3>2. /\ \A r \in Requests : r # NoRequest
          /\ \A h \in Ids : h # NoId
      BY MaxRequestsAssumption, WireAssumption DEF Requests, NoRequest, Ids, NoId
    <3>3. QED
      BY <1>3, <2>1, <3>1, <3>2 DEF Carries
  <2>3. request[wire[j].to].what = "subscribe"
    BY <2>2 DEF IdsInv, WireIds
  <2>4. request'[wire[j].to] = request[wire[j].to]
    BY <2>2, <2>3, RequestKept
  <2>5. CASE responseCallbacks \subseteq responseCallbacks'
    BY <2>1, <2>5 DEF Coming
  <2>6. ASSUME NEW W \in SUBSET Requests, Hear(responseCallbacks \union W, "InvalidConnection")
        PROVE  Lost'
    <3>1. PICK r \in Requests : r = wire[j].to
      BY <2>2
    <3>2. Denied(r)'
      BY <2>1, <2>3, <2>4, <2>6, <3>1, AllFail
    <3>3. QED
      BY <3>2 DEF Lost
  <2>7. QED
    BY <2>5, <2>6
<1>7. QED
  BY <1>4, <1>5, <1>6 DEF Held

(* A subscription the node starts to serve is held or lost. *)
LEMMA HeldAnswers ==
  ASSUME RequestInv, IdsInv, AnsweredOnce, GivenUp, Held, NEW r \in asked, NodeAnswers(r)
  PROVE  Lost' \/ Held'
<1>1. TypeOK
  BY DEF RequestInv
<1>2. PICK m \in Messages :
        /\ m.to = r /\ wire' = Append(wire, m)
        /\ \/ /\ request[r].what = "subscribe"
              /\ m.id = issued + 1 /\ issued + 1 \in Ids /\ live' = live \union {issued + 1}
           \/ request[r].what # "unsubscribe" /\ live' = live
           \/ request[r].what = "unsubscribe" /\ live' = live \ {request[r].target}
  BY <1>1, AnswerFacts
<1>3. /\ r \in Requests /\ asked' = asked \ {r}
      /\ UNCHANGED <<request, sent, heard, subscriptions, responseCallbacks>>
  BY <1>1, AnswerFacts DEF managerVars
<1>4. /\ Len(wire) + 1 \in DOMAIN wire' /\ wire'[Len(wire) + 1] = m
      /\ \A j \in DOMAIN wire : j \in DOMAIN wire' /\ wire'[j] = wire[j]
  <2>1. /\ Len(wire) \in Nat /\ DOMAIN wire' = 1 .. Len(wire) + 1
        /\ wire'[Len(wire) + 1] = m
        /\ \A j \in DOMAIN wire : j \in DOMAIN wire' /\ wire'[j] = wire[j]
    BY <1>1, <1>2, WireAppends
  <2>2. Len(wire) \in Nat => Len(wire) + 1 \in 1 .. Len(wire) + 1
    OBVIOUS
  <2>3. QED
    BY <2>1, <2>2
<1>5. ASSUME NEW i \in live, i \in live'
      PROVE  Known(i)' \/ (\E q \in Requests : Removes(q, i)') \/ Coming(i)'
  <2>1. Known(i) => Known(i)'
    BY <1>3 DEF Known
  <2>2. ASSUME NEW q \in Requests, Removes(q, i) PROVE Removes(q, i)'
    <3>1. q # r
      BY <1>2, <1>5, <2>2 DEF Removes
    <3>2. QED
      BY <1>3, <2>2, <3>1 DEF Removes
  <2>3. Coming(i) => Coming(i)'
    BY <1>3, <1>4 DEF Coming
  <2>4. QED
    BY <2>1, <2>2, <2>3 DEF Held
<1>6. ASSUME request[r].what = "subscribe", NEW i, m.id = i PROVE Lost' \/ Coming(i)'
  <2>1. CASE r \in responseCallbacks
    BY <1>2, <1>3, <1>4, <1>6, <2>1 DEF Coming
  <2>2. CASE r \notin responseCallbacks
    <3>1. Denied(r)
      BY <1>3, <1>6, <2>2 DEF GivenUp, OnItsWay
    <3>2. QED
      BY <1>3, <3>1 DEF Lost, Denied
  <2>3. QED
    BY <2>1, <2>2
<1>7. live' \subseteq Ids
  BY <1>1, <1>2, LiveIds
<1>8. ASSUME NEW i \in Ids, i \in live', ~Lost'
      PROVE  Known(i)' \/ (\E q \in Requests : Removes(q, i)') \/ Coming(i)'
  <2>1. i \in live \/ (request[r].what = "subscribe" /\ m.id = i)
    BY <1>2, <1>8
  <2>2. QED
    BY <1>5, <1>6, <1>8, <2>1
<1>9. ASSUME ~Lost' PROVE Held'
  <2>1. \A i \in Ids : i \in live' =>
          Known(i)' \/ (\E q \in Requests : Removes(q, i)') \/ Coming(i)'
    BY <1>8, <1>9
  <2>2. QED
    BY <1>7, <2>1 DEF Held, Known, Removes, Coming
<1>10. QED
  BY <1>9

(* An arrival leaves what is served accounted for. *)
LEMMA HeldDelivers ==
  ASSUME RequestInv, IdsInv, AskInv, AnsweredOnce, Held, wire # <<>>, Deliver
  PROVE  Held'
<1>1. TypeOK
  BY DEF RequestInv
<1> DEFINE m == Head(wire)
<1>2. /\ wire' = Tail(wire) /\ responseCallbacks' = responseCallbacks \ {m.to}
      /\ UNCHANGED <<request, sent, asked, live>>
      /\ \/ UNCHANGED subscriptions /\ ~(m.to \in responseCallbacks /\ m.id # NoId)
         \/ /\ m.to \in responseCallbacks
            /\ subscriptions' = [subscriptions EXCEPT ![m.id] = request[m.to].of]
  BY DEF Deliver, Parsed
<1>3. /\ m = wire[1] /\ 1 \in DOMAIN wire
      /\ \A j \in DOMAIN wire : j # 1 => j - 1 \in DOMAIN wire' /\ wire'[j - 1] = wire[j]
  <2>1. /\ Len(wire) \in Nat \ {0} /\ DOMAIN wire = 1 .. Len(wire) /\ m = wire[1]
        /\ \A j \in DOMAIN wire : j # 1 => j - 1 \in DOMAIN wire' /\ wire'[j - 1] = wire[j]
    BY <1>1, <1>2, WireShrinks
  <2>2. Len(wire) \in Nat \ {0} => 1 \in 1 .. Len(wire)
    OBVIOUS
  <2>3. QED
    BY <2>1, <2>2
<1>4. SUFFICES ASSUME NEW i \in live
               PROVE  Known(i)' \/ (\E r \in Requests : Removes(r, i)') \/ Coming(i)'
  BY <1>2 DEF Held
<1>5. i \in Ids /\ i # NoId
  BY <1>1, LiveIds
<1>6. ASSUME m.to \in responseCallbacks, m.id = i PROVE Known(i)'
  <2>1. m.to \in Requests /\ request[m.to].what = "subscribe"
    BY <1>1, <1>5, <1>6, HeadCarries
  <2>2. subscriptions'[i] = request[m.to].of
    BY <1>1, <1>2, <1>5, <1>6 DEF TypeOK, ManagerTypeOK
  <2>3. QED
    BY <1>5, <2>1, <2>2, SubscriptionsAssumption DEF AskInv, Subscribers, Known
<1>7. Known(i) => Known(i)'
  <2>1. ASSUME Known(i), ~(m.to \in responseCallbacks /\ m.id = i) PROVE Known(i)'
    <3>1. subscriptions'[i] = subscriptions[i]
      BY <1>1, <1>2, <1>5, <2>1 DEF TypeOK, ManagerTypeOK
    <3>2. QED
      BY <2>1, <3>1 DEF Known
  <2>2. QED
    BY <1>6, <2>1
<1>8. \A r \in Requests : Removes(r, i) => Removes(r, i)'
  BY <1>2 DEF Removes
<1>9. ASSUME Coming(i) PROVE Known(i)' \/ Coming(i)'
  <2>1. PICK j \in DOMAIN wire : wire[j].id = i /\ wire[j].to \in responseCallbacks
    BY <1>9 DEF Coming
  <2>2. CASE j = 1
    BY <1>3, <1>6, <2>1, <2>2
  <2>3. CASE j # 1
    <3>1. wire[j].to # NoRequest
      <4>1. \A r \in Requests : r # NoRequest
        BY MaxRequestsAssumption DEF Requests, NoRequest
      <4>2. QED
        BY <1>1, <2>1, <4>1 DEF TypeOK, IpcTypeOK
    <3>2. wire[j].to # m.to
      BY <1>3, <2>3, <3>1 DEF AnsweredOnce
    <3>3. /\ j - 1 \in DOMAIN wire' /\ wire'[j - 1].id = i
          /\ wire'[j - 1].to \in responseCallbacks'
      BY <1>2, <1>3, <2>1, <2>3, <3>2
    <3>4. QED
      BY <3>3 DEF Coming
  <2>4. QED
    BY <2>2, <2>3
<1>10. QED
  BY <1>7, <1>8, <1>9 DEF Held

(* A notification leaves what is served accounted for. *)
LEMMA HeldNotifies ==
  ASSUME TypeOK, Held, NEW i \in live, Notifies(i), UNCHANGED managerVars
  PROVE  Held'
<1>1. Notification(i) \in Messages
  BY WireAssumption DEF Notification, Messages, TypeOK, IpcTypeOK, Ids
<1>2. wire' = Append(wire, Notification(i)) /\ UNCHANGED <<responseCallbacks, asked, live>>
  BY DEF Notifies
<1>3. \A j \in DOMAIN wire : j \in DOMAIN wire' /\ wire'[j] = wire[j]
  BY <1>1, <1>2, WireAppends
<1>4. UNCHANGED <<request, sent, subscriptions>>
  BY DEF managerVars
<1>5. QED
  BY <1>2, <1>3, <1>4 DEF Held, Known, Removes, Coming

(* Half a message that is never completed stays.                           *)
LEMMA GarbageStays ==
  ASSUME TypeOK, [Next]_vars, lastChunk = "garbage"
  PROVE  lastChunk' = "garbage"
<1>1. ASSUME NEW new \in Seq(Records), NEW W \in SUBSET Requests,
             NEW M \in SUBSET Requests, Makes(new, W, M)
      PROVE  UNCHANGED lastChunk
  BY <1>1 DEF Makes, Passes, IpcPasses, HttpPasses, Clears, ipcVars
<1>2. ASSUME NEW r \in Requests, GoesOn(r) \/ Arrives(r) \/ HttpStep(r) \/ HttpTimer(r)
      PROVE  UNCHANGED lastChunk
  BY <1>2 DEF GoesOn, Arrives, Passes, IpcPasses, HttpPasses, HttpStep, HttpTimer, ipcVars
<1>3. IpcStep => lastChunk' = "garbage"
  BY DEF IpcStep, NodeAnswers, Answers, Deliver, Parsed, IpcFails, Ends, ChunkTimeout, Socket,
         Connects, IpcReconnect, FirstPiece, NotParsed, Notifies
<1>4. Stays => UNCHANGED lastChunk
  BY DEF Stays, ipcVars
<1>5. QED
  BY <1>1, <1>2, <1>3, <1>4, StepKinds DEF StepKind

(* No step loses a subscription that is served without a trace. *)
LEMMA HeldStep ==
  ASSUME RequestInv, RequestInv', [Next]_vars, IdsInv, AskInv, ServedInv, transport = "ipc", Held
  PROVE  lastChunk' = "garbage" \/ Lost' \/ Held'
<1>1. TypeOK /\ AnsweredOnce /\ GivenUp
  BY DEF RequestInv, ServedInv
<1>2. ASSUME UNCHANGED <<wire, live, asked, sent, responseCallbacks>> PROVE Lost' \/ Held'
  BY <1>2, HeldPasses
<1>3. ASSUME NEW W \in SUBSET Requests, Counted(W), UNCHANGED <<wire, live>>,
             asked' = asked \union W,
             \/ responseCallbacks' = responseCallbacks \union W
             \/ Hear(responseCallbacks \union W, "InvalidConnection")
      PROVE  Lost' \/ Held'
  <2>1. \A r \in Requests : sent'[r] = sent[r] \/ r \in asked'
    BY <1>3 DEF Counted
  <2>2. QED
    BY <1>3, <2>1, HeldPasses
<1>4. ASSUME NEW W \in SUBSET Requests, Passes(W) \/ Clears(W) PROVE Lost' \/ Held'
  <2>1. Counted(W) /\ UNCHANGED <<wire, live>> /\ asked' = asked \union W
    BY <1>4 DEF Passes, IpcPasses, HttpPasses, Clears
  <2>2. \/ responseCallbacks' = responseCallbacks \union W
        \/ Hear(responseCallbacks \union W, "InvalidConnection")
    BY <1>4 DEF Passes, IpcPasses, HttpPasses, Clears
  <2>3. QED
    BY <1>3, <2>1, <2>2
<1>5. ASSUME NEW new \in Seq(Records), NEW W \in SUBSET Requests,
             NEW M \in SUBSET Requests, Makes(new, W, M)
      PROVE  Lost' \/ Held'
  BY <1>4, <1>5 DEF Makes
<1>6. ASSUME NEW r \in Requests, Arrives(r) PROVE Lost' \/ Held'
  <2>1. Passes({r}) /\ {r} \in SUBSET Requests
    BY <1>6 DEF Arrives
  <2>2. QED
    BY <1>4, <2>1
<1>7. ASSUME NEW r \in Requests, GoesOn(r) \/ HttpStep(r) \/ HttpTimer(r) PROVE Lost' \/ Held'
  BY <1>2, <1>7 DEF GoesOn, HttpStep, HttpTimer, managerVars, ipcVars
<1>8. Stays => Lost' \/ Held'
  BY <1>2 DEF Stays, managerVars, ipcVars
<1>9. ASSUME IpcStep PROVE lastChunk' = "garbage" \/ Lost' \/ Held'
  <2>1. CASE \E r \in asked : NodeAnswers(r)
    BY <1>1, <2>1, HeldAnswers
  <2>2. CASE wire # <<>> /\ Deliver
    BY <1>1, <2>2, HeldDelivers
  <2>3. CASE IpcFails /\ Ends
    BY <2>3 DEF Ends, Held
  <2>4. CASE IpcFails /\ ChunkTimeout
    <3>1. /\ Hear(responseCallbacks, "InvalidConnection") /\ responseCallbacks \in SUBSET Requests
          /\ UNCHANGED <<wire, live, asked, sent>>
      BY <1>1, <2>4 DEF IpcFails, ChunkTimeout, Failing, TypeOK, IpcTypeOK
    <3>2. Hear(responseCallbacks \union {}, "InvalidConnection") /\ {} \in SUBSET Requests
      BY <3>1
    <3>3. QED
      BY <3>1, <3>2, HeldPasses
  <2>5. CASE Socket /\ (Connects \/ IpcReconnect \/ FirstPiece)
    <3>1. UNCHANGED <<wire, live, asked, sent, responseCallbacks>>
      BY <2>5 DEF Socket, Connects, IpcReconnect, FirstPiece, managerVars
    <3>2. QED
      BY <1>2, <3>1
  <2>6. CASE Socket /\ NotParsed
    BY <2>6 DEF NotParsed
  <2>7. CASE Socket /\ \E i \in live : Notifies(i)
    BY <1>1, <2>7, HeldNotifies DEF Socket
  <2>8. QED
    BY <1>9, <2>1, <2>2, <2>3, <2>4, <2>5, <2>6, <2>7 DEF IpcStep, IpcFails, Socket
<1>10. QED
  BY <1>1, <1>5, <1>6, <1>7, <1>8, <1>9, StepKinds DEF StepKind

(* Every step keeps ServedInv. *)
LEMMA ServedStep ==
  ASSUME RequestInv, RequestInv', [Next]_vars, IdsInv, AskInv, ServedInv
  PROVE  ServedInv'
<1>1. TypeOK /\ AnsweredOnce /\ GivenUp /\ NodeQuiet
  BY DEF RequestInv, ServedInv
<1>2. AnsweredOnce' /\ NodeQuiet'
  BY <1>1, AnsweredStep, QuietStep
<1>3. GivenUp'
  BY <1>1, <1>2, GivenUpStep
<1>4. transport \in {"http", "ipc"} /\ UNCHANGED transport
  BY <1>1, TransportFixed DEF TypeOK, ManagerTypeOK
<1>5. CASE transport = "http"
  BY <1>2, <1>3, <1>4, <1>5 DEF NodeQuiet, Held, ServedInv
<1>6. CASE transport = "ipc"
  <2>1. lastChunk = "garbage" => lastChunk' = "garbage"
    BY <1>1, GarbageStays
  <2>2. Lost => Lost'
    BY <1>6, LostStays
  <2>3. Held => lastChunk' = "garbage" \/ Lost' \/ Held'
    BY <1>6, HeldStep
  <2>4. QED
    BY <1>2, <1>3, <2>1, <2>2, <2>3 DEF ServedInv
<1>7. QED
  BY <1>4, <1>5, <1>6

(* A new manager has the invariant. *)
LEMMA ServedInit == Init => ServedInv
BY DEF Init, IpcInit, ServedInv, AnsweredOnce, GivenUp, OnItsWay, NodeQuiet, Held

(* However subscribe, unsubscribe, clearSubscriptions, middlewares, resets *)
(* and lost connections overlap with what the node does, a subscription    *)
(* that the node serves is in the table, or about to be, or about to be    *)
(* ended, unless the application was told that a subscription failed or    *)
(* half a message spoils the connection.                                   *)
THEOREM ManagerServedMeansHeld == Spec => []ServedMeansHeld
<1>1. Spec => [](RequestInv /\ IdsInv /\ AskInv /\ ServedInv)
  <2>1. Init => RequestInv /\ IdsInv /\ AskInv /\ ServedInv
    BY RequestInit, TableInit, ServedInit
  <2>2. RequestInv /\ IdsInv /\ AskInv /\ ServedInv /\ [Next]_vars =>
          RequestInv' /\ IdsInv' /\ AskInv' /\ ServedInv'
    <3> SUFFICES ASSUME RequestInv, IdsInv, AskInv, ServedInv, [Next]_vars
                 PROVE  RequestInv' /\ IdsInv' /\ AskInv' /\ ServedInv'
      OBVIOUS
    <3>1. RequestInv' /\ TypeOK'
      BY RequestStep DEF RequestInv
    <3>2. QED
      BY <3>1, TableStep, ServedStep
  <2>3. QED
    BY <2>1, <2>2, PTL DEF Spec
<1>2. RequestInv /\ ServedInv => ServedMeansHeld
  <2> SUFFICES ASSUME RequestInv, ServedInv, NEW i \in Ids, Unheld(i), lastChunk # "garbage"
               PROVE  \E r \in 1 .. last :
                        request[r].what = "subscribe" /\ heard[r] = <<"InvalidConnection">>
    BY DEF ServedMeansHeld
  <2>1. \A r \in Requests : request[r].what # "none" => r \in 1 .. last
    BY RequestFields DEF RequestInv, SendingInv, Fresh, NotYet, TypeOK, ManagerTypeOK, Requests
  <2>2. \A r \in Requests : ~Removes(r, i)
    <3>1. \A r \in Requests : Removes(r, i) => r \in 1 .. last
      BY <2>1 DEF Removes
    <3>2. QED
      BY <3>1 DEF Unheld, Ending, Removes
  <2>3. Lost
    BY <2>2 DEF ServedInv, Held, Unheld
  <2>4. QED
    BY <2>1, <2>3 DEF Lost, Denied
<1>3. QED
  BY <1>1, <1>2, PTL
=============================================================================
