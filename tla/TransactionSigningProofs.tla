----------------------- MODULE TransactionSigningProofs -----------------------
(***************************************************************************)
(* Signatures of TransactionSigning, for any number of instances, signers  *)
(* and fee payers, as long as the application leaves an instance alone     *)
(* that lacks a nonce or a price while it is being signed.                 *)
(***************************************************************************)
EXTENDS TransactionSigning, TLAPS

(* What a call has read is what the instance has: only an instance with    *)
(* nothing to ask for is signed by several calls at a time.                *)
Reading ==
  \A c \in calls :
    /\ tx[c.instance].nonce = c.nonce
    /\ tx[c.instance].price = c.price
    /\ ~Filled(c) => \A d \in calls : d.instance = c.instance => d = c

-----------------------------------------------------------------------------
(* Combining. *)

LEMMA CombineType ==
  ASSUME NEW x \in Transaction, NEW y \in Transaction, NEW fill \in BOOLEAN
  PROVE  CombineStep(x, y, fill) \in Transaction
<1>1. FeePayerAfter(x, y, fill) \in FeePayers \union {Undefined}
  BY DEF Transaction, FeePayerAfter
<1>2. Combined(x, y, fill) \in Transaction
  BY <1>1 DEF Transaction, Combined
<1>3. Refused(x, y, fill) \in Transaction
  BY <1>1 DEF Transaction, Refused, Supplied
<1>4. QED
  BY <1>2, <1>3 DEF CombineStep

(* Combining changes no nonce and no price that is there. *)
LEMMA CombineKeeps ==
  ASSUME NEW x \in Transaction, NEW y \in Transaction, NEW fill \in BOOLEAN
  PROVE  /\ x.nonce # Undefined => CombineStep(x, y, fill).nonce = x.nonce
         /\ x.price # Undefined => CombineStep(x, y, fill).price = x.price
  BY DEF Transaction, CombineStep, Combined, Combinable, Refused, Supplied,
         SameNonce, SamePrice

(* The signatures of senders that are combined are of one transaction.     *)
LEMMA CombineSenders ==
  ASSUME NEW x \in Transaction, NEW y \in Transaction, NEW fill \in BOOLEAN,
         SendersMatch(x), SendersMatch(y)
  PROVE  SendersMatch(CombineStep(x, y, fill))
<1> DEFINE z == CombineStep(x, y, fill)
<1> SUFFICES ASSUME NEW s \in z.signatures
             PROVE  s.hash = HashOf(z)
  BY DEF SendersMatch
<1>1. z.content = x.content
  BY DEF Transaction, CombineStep, Combined, Refused
<1>2. ASSUME s \in x.signatures PROVE s.hash = HashOf(z)
  <2>1. s.hash = HashOf(x)
    BY <1>2 DEF SendersMatch
  <2>2. s.hash.nonce \in Nonces /\ s.hash.price \in Prices
    BY <1>2 DEF Transaction, Hash
  <2>3. x.nonce # Undefined /\ x.price # Undefined
    BY <2>1, <2>2, SigningAssumption DEF HashOf
  <2>4. z.nonce = x.nonce /\ z.price = x.price
    BY <2>3, CombineKeeps
  <2>5. QED
    BY <1>1, <2>1, <2>4 DEF HashOf
<1>3. ASSUME s \notin x.signatures PROVE s.hash = HashOf(z)
  <2>1. Combinable(x, y, fill) /\ z = Combined(x, y, fill)
    BY <1>3 DEF CombineStep, Refused, Transaction
  <2>2. s \in y.signatures
    BY <1>3, <2>1 DEF Combined, Transaction
  <2>3. s.hash = HashOf(y)
    BY <2>2 DEF SendersMatch
  <2>4. z.content = y.content /\ z.nonce = y.nonce /\ z.price = y.price
    BY <2>1 DEF Combined, Combinable, Transaction
  <2>5. QED
    BY <2>3, <2>4 DEF HashOf
<1>4. QED
  BY <1>2, <1>3

(* The signatures of fee payers that are combined are of one transaction,  *)
(* if there is one fee payer only.                                         *)
LEMMA CombineFeePayers ==
  ASSUME \A p, q \in FeePayers : p = q,
         NEW x \in Transaction, NEW y \in Transaction, NEW fill \in BOOLEAN,
         FeePayersMatch(x), FeePayersMatch(y)
  PROVE  FeePayersMatch(CombineStep(x, y, fill))
<1> DEFINE z == CombineStep(x, y, fill)
<1> SUFFICES ASSUME NEW s \in z.feePayerSignatures
             PROVE  s.hash = FeePayerHashOf(z)
  BY DEF FeePayersMatch
<1>1. z.content = x.content
  BY DEF Transaction, CombineStep, Combined, Refused
<1>2. ASSUME s \in x.feePayerSignatures PROVE s.hash = FeePayerHashOf(z)
  <2>1. s.hash = FeePayerHashOf(x)
    BY <1>2 DEF FeePayersMatch
  <2>2. /\ s.hash.nonce \in Nonces /\ s.hash.price \in Prices
        /\ s.hash.payer \in FeePayers
    BY <1>2 DEF Transaction, FeePayerHash
  <2>3. x.nonce # Undefined /\ x.price # Undefined /\ x.payer \in FeePayers
    BY <2>1, <2>2, SigningAssumption DEF FeePayerHashOf
  <2>4. z.nonce = x.nonce /\ z.price = x.price
    BY <2>3, CombineKeeps
  <2>5. FeePayerAfter(x, y, fill) = x.payer
    BY <2>3, SigningAssumption DEF FeePayerAfter, Transaction
  <2>6. z.payer = x.payer
    BY <2>5 DEF CombineStep, Combined, Refused, Transaction
  <2>7. QED
    BY <1>1, <2>1, <2>4, <2>6 DEF FeePayerHashOf
<1>3. ASSUME s \notin x.feePayerSignatures PROVE s.hash = FeePayerHashOf(z)
  <2>1. Combinable(x, y, fill) /\ z = Combined(x, y, fill)
    BY <1>3 DEF CombineStep, Refused, Transaction
  <2>2. s \in y.feePayerSignatures
    BY <1>3, <2>1 DEF Combined, Transaction
  <2>3. s.hash = FeePayerHashOf(y)
    BY <2>2 DEF FeePayersMatch
  <2>4. y.payer # Undefined
    <3>1. s.hash.payer \in FeePayers
      BY <2>2 DEF Transaction, FeePayerHash
    <3>2. QED
      BY <2>3, <3>1, SigningAssumption DEF FeePayerHashOf
  <2>5. /\ z.content = y.content /\ z.nonce = y.nonce /\ z.price = y.price
        /\ z.payer = y.payer
    BY <2>1, <2>4 DEF Combined, Combinable, SameFeePayer, Transaction
  <2>6. QED
    BY <2>3, <2>5 DEF FeePayerHashOf
<1>4. QED
  BY <1>2, <1>3

-----------------------------------------------------------------------------
(* Combining as a step: with one encoding, and with two of which the first *)
(* is accepted.                                                            *)

LEMMA CombineCases ==
  ASSUME TypeOK,
         NEW t \in Instances, NEW u \in Instances, NEW v \in Instances,
         Combine(t, u) \/ CombineTwo(t, u, v)
  PROVE  \E x \in {tx[t], CombineStep(tx[t], tx[u], MayFill(tx[t]))},
            y \in {tx[u], tx[v]} :
           tx' = [tx EXCEPT ![t] = CombineStep(x, y, MayFill(tx[t]))]
<1>1. CASE Combine(t, u)
  BY <1>1 DEF Combine
<1>2. CASE CombineTwo(t, u, v)
  <2>1. CombineStep(tx[t], tx[u], MayFill(tx[t]))
          = Combined(tx[t], tx[u], MayFill(tx[t]))
    BY <1>2 DEF CombineTwo, CombineStep
  <2>2. QED
    BY <1>2, <2>1 DEF CombineTwo
<1>3. QED
  BY <1>1, <1>2

LEMMA MayFillType == ASSUME NEW x PROVE MayFill(x) \in BOOLEAN
  BY DEF MayFill

-----------------------------------------------------------------------------
(* Types. *)

LEMMA SignedType ==
  ASSUME NEW x \in Transaction, Filled(x)
  PROVE  /\ \A key \in Keys : SignedBySender(x, key) \in Transaction
         /\ x.payer # Undefined =>
              \A key \in FeePayers : SignedByFeePayer(x, key) \in Transaction
<1>1. HashOf(x) \in Hash
  BY DEF Transaction, Filled, HashOf, Hash
<1>2. x.payer # Undefined => FeePayerHashOf(x) \in FeePayerHash
  BY DEF Transaction, Filled, FeePayerHashOf, FeePayerHash
<1>3. QED
  BY <1>1, <1>2 DEF Transaction, SignedBySender, SignedByFeePayer

(* A call of signAsFeePayer finds a fee payer when it comes back. *)
PayerThere ==
  \A c \in calls : c.role = "payer" => tx[c.instance].payer # Undefined

(* A step that combines changes one instance only, and gives it a type.    *)
LEMMA CombineTypeStep ==
  ASSUME TypeOK,
         NEW t \in Instances, NEW u \in Instances, NEW v \in Instances,
         Combine(t, u) \/ CombineTwo(t, u, v)
  PROVE  TypeOK' /\ (PayerThere => PayerThere')
<1>1. PICK x \in {tx[t], CombineStep(tx[t], tx[u], MayFill(tx[t]))},
           y \in {tx[u], tx[v]} :
        tx' = [tx EXCEPT ![t] = CombineStep(x, y, MayFill(tx[t]))]
  BY CombineCases
<1>2. tx[t] \in Transaction /\ tx[u] \in Transaction /\ tx[v] \in Transaction
  BY DEF TypeOK
<1>3. x \in Transaction /\ y \in Transaction
  BY <1>2, MayFillType, CombineType
<1>4. CombineStep(x, y, MayFill(tx[t])) \in Transaction
  BY <1>3, MayFillType, CombineType
<1>5. UNCHANGED calls
  BY DEF Combine, CombineTwo
<1>6. TypeOK'
  BY <1>1, <1>4, <1>5 DEF TypeOK
<1>7. \A a \in Transaction, b \in Transaction, fill \in BOOLEAN :
        a.payer # Undefined => CombineStep(a, b, fill).payer # Undefined
  BY DEF CombineStep, Combined, Refused, FeePayerAfter, Transaction
<1>8. tx[t].payer # Undefined => tx'[t].payer # Undefined
  <2>1. tx'[t] = CombineStep(x, y, MayFill(tx[t]))
    BY <1>1 DEF TypeOK
  <2>2. tx[t].payer # Undefined => x.payer # Undefined
    BY <1>2, <1>7, MayFillType
  <2>3. QED
    BY <1>3, <1>7, <2>1, <2>2, MayFillType
<1>9. \A w \in Instances : w # t => tx'[w] = tx[w]
  BY <1>1 DEF TypeOK
<1>10. PayerThere => PayerThere'
  <2>1. \A c \in calls : c.instance \in Instances
    BY DEF TypeOK, Call
  <2>2. QED
    BY <1>5, <1>8, <1>9, <2>1 DEF PayerThere
<1>11. QED
  BY <1>6, <1>10

Typed == TypeOK /\ PayerThere

(* What Finish makes of the instance of its call. *)
LEMMA FinishResult ==
  ASSUME Typed, NEW c \in calls, NEW nonce \in Nonces, NEW price \in Prices,
         Finish(c, nonce, price)
  PROVE  \E x \in Transaction, y \in Transaction :
           /\ x = Assigned(tx[c.instance], nonce, price)
           /\ tx' = [tx EXCEPT ![c.instance] = y]
           /\ \/ y = SignedBySender(x, c.key)
              \/ y = SignedByFeePayer(x, c.key)
<1> DEFINE x == Assigned(tx[c.instance], nonce, price)
<1>1. c \in Call /\ c.instance \in Instances /\ tx[c.instance] \in Transaction
  BY DEF Typed, TypeOK, Call
<1>2. x \in Transaction /\ x.payer = tx[c.instance].payer
  BY <1>1 DEF Transaction, Assigned
<1>3. Filled(x)
  BY <1>1, SigningAssumption DEF Filled, Transaction, Assigned
<1>4. CASE c.role = "sender"
  <2>1. c.key \in Keys
    BY <1>1, <1>4 DEF Call
  <2>2. SignedBySender(x, c.key) \in Transaction
    BY <1>2, <1>3, <2>1, SignedType
  <2>3. tx' = [tx EXCEPT ![c.instance] = SignedBySender(x, c.key)]
    BY <1>4 DEF Finish
  <2>4. QED
    BY <1>2, <2>2, <2>3
<1>5. CASE c.role = "payer"
  <2>1. c.key \in FeePayers
    BY <1>1, <1>5 DEF Call
  <2>2. x.payer # Undefined
    BY <1>2, <1>5 DEF Typed, PayerThere
  <2>3. SignedByFeePayer(x, c.key) \in Transaction
    BY <1>2, <1>3, <2>1, <2>2, SignedType
  <2>4. tx' = [tx EXCEPT ![c.instance] = SignedByFeePayer(x, c.key)]
    BY <1>5 DEF Finish
  <2>5. QED
    BY <1>2, <2>3, <2>4
<1>6. QED
  BY <1>1, <1>4, <1>5 DEF Call

(* Every step keeps the instances and the calls in their types.            *)
LEMMA TypeStep == Typed /\ [Next]_vars => Typed'
<1>1. ASSUME Typed, NEW t \in Instances, NEW key \in Keys, Sign(t, key)
      PROVE  Typed'
  <2>1. calls' \subseteq Call
    BY <1>1 DEF Typed, TypeOK, Sign, Fill, Call, Transaction
  <2>2. QED
    BY <1>1, <2>1 DEF Typed, TypeOK, PayerThere, Sign, Fill
<1>2. ASSUME Typed, NEW t \in Instances, NEW payer \in FeePayers,
             SignAsFeePayer(t, payer)
      PROVE  Typed'
  <2>1. calls' \subseteq Call
    BY <1>2 DEF Typed, TypeOK, SignAsFeePayer, Fill, Call, Transaction
  <2>2. tx' \in [Instances -> Transaction]
    BY <1>2 DEF Typed, TypeOK, SignAsFeePayer, Transaction
  <2>3. tx'[t].payer = payer /\ \A u \in Instances : u # t => tx'[u] = tx[u]
    BY <1>2 DEF Typed, TypeOK, SignAsFeePayer, Transaction
  <2>4. payer # Undefined
    BY SigningAssumption
  <2>5. ASSUME NEW c \in calls', c.role = "payer"
        PROVE  tx'[c.instance].payer # Undefined
    <3>1. c.instance \in Instances
      BY <2>1 DEF Call
    <3>2. c.instance # t => c \in calls
      BY <1>2 DEF SignAsFeePayer, Fill
    <3>3. QED
      BY <1>2, <2>3, <2>4, <2>5, <3>1, <3>2 DEF Typed, PayerThere
  <2>6. TypeOK'
    BY <2>1, <2>2 DEF TypeOK
  <2>7. PayerThere'
    BY <2>5 DEF PayerThere
  <2>8. QED
    BY <2>6, <2>7 DEF Typed
<1>3. ASSUME Typed, NEW t \in Instances, NEW nonce \in Nonces,
             SetNonce(t, nonce)
      PROVE  Typed'
  BY <1>3 DEF Typed, TypeOK, PayerThere, SetNonce, CallsOn, Call, Transaction
<1>4. ASSUME Typed, NEW c \in calls, NEW nonce \in Nonces, NEW price \in Prices,
             Finish(c, nonce, price)
      PROVE  Typed'
  <2>1. PICK x \in Transaction, y \in Transaction :
          /\ x = Assigned(tx[c.instance], nonce, price)
          /\ tx' = [tx EXCEPT ![c.instance] = y]
          /\ \/ y = SignedBySender(x, c.key)
             \/ y = SignedByFeePayer(x, c.key)
    BY <1>4, FinishResult
  <2>2. y.payer = tx[c.instance].payer
    <3>1. tx[c.instance] \in Transaction
      BY <1>4 DEF Typed, TypeOK, Call
    <3>2. x.payer = tx[c.instance].payer
      BY <2>1, <3>1 DEF Transaction, Assigned
    <3>3. y.payer = x.payer
      BY <2>1 DEF SignedBySender, SignedByFeePayer, Transaction
    <3>4. QED
      BY <3>2, <3>3
  <2>3. calls' \subseteq calls
    BY <1>4 DEF Finish
  <2>4. QED
    BY <1>4, <2>1, <2>2, <2>3 DEF Typed, TypeOK, PayerThere, Call
<1>5. ASSUME Typed, NEW c \in calls, FillFails(c) PROVE Typed'
  BY <1>5 DEF Typed, TypeOK, PayerThere, FillFails
<1>6. ASSUME Typed, NEW t \in Instances, NEW u \in Instances, Decode(t, u)
      PROVE  Typed'
  BY <1>6 DEF Typed, TypeOK, PayerThere, Decode, CallsOn, Call
<1>7. ASSUME Typed, NEW t \in Instances, NEW u \in Instances,
             NEW v \in Instances, Combine(t, u) \/ CombineTwo(t, u, v)
      PROVE  Typed'
  BY <1>7, CombineTypeStep DEF Typed
<1>8. ASSUME Typed, UNCHANGED vars PROVE Typed'
  BY <1>8 DEF Typed, TypeOK, PayerThere, vars
<1>9. QED
  BY <1>1, <1>2, <1>3, <1>4, <1>5, <1>6, <1>7, <1>8 DEF Next

-----------------------------------------------------------------------------
(* What a call has read stays what the instance has. *)

(* An instance with a call under way keeps nonce and price, if it has them. *)
LEMMA CombineReading ==
  ASSUME ~Overlapping, Typed, Reading,
         NEW t \in Instances, NEW u \in Instances, NEW v \in Instances,
         Combine(t, u) \/ CombineTwo(t, u, v)
  PROVE  Reading'
<1>1. PICK x \in {tx[t], CombineStep(tx[t], tx[u], MayFill(tx[t]))},
           y \in {tx[u], tx[v]} :
        tx' = [tx EXCEPT ![t] = CombineStep(x, y, MayFill(tx[t]))]
  BY CombineCases DEF Typed
<1>2. tx[t] \in Transaction /\ tx[u] \in Transaction /\ tx[v] \in Transaction
  BY DEF Typed, TypeOK
<1>3. x \in Transaction /\ y \in Transaction
  BY <1>2, MayFillType, CombineType
<1>4. Filled(tx[t]) => x.nonce = tx[t].nonce /\ x.price = tx[t].price
  BY <1>2, MayFillType, CombineKeeps DEF Filled
<1>5. tx'[t] = CombineStep(x, y, MayFill(tx[t]))
  BY <1>1 DEF Typed, TypeOK
<1>6. Filled(tx[t]) => tx'[t].nonce = tx[t].nonce /\ tx'[t].price = tx[t].price
  BY <1>3, <1>4, <1>5, MayFillType, CombineKeeps DEF Filled
<1>7. UNCHANGED calls /\ (CallsOn(t) = {} \/ Filled(tx[t]))
  BY DEF Combine, CombineTwo, Usable
<1>8. \A w \in Instances : w # t => tx'[w] = tx[w]
  BY <1>1 DEF Typed, TypeOK
<1>9. \A c \in calls : c.instance \in Instances
  BY DEF Typed, TypeOK, Call
<1>10. ASSUME NEW c \in calls
       PROVE  tx'[c.instance].nonce = c.nonce /\ tx'[c.instance].price = c.price
  BY <1>6, <1>7, <1>8, <1>9 DEF Reading, CallsOn
<1>11. QED
  BY <1>7, <1>10 DEF Reading

LEMMA ReadingStep == ~Overlapping /\ Typed /\ Reading /\ [Next]_vars => Reading'
<1> SUFFICES ASSUME ~Overlapping, Typed, Reading, [Next]_vars PROVE Reading'
  OBVIOUS
<1>0. \A c \in calls : c.instance \in Instances
  BY DEF Typed, TypeOK, Call
<1>1. ASSUME NEW t \in Instances, NEW role, NEW key, NEW x,
             Usable(t), Fill(t, role, key),
             \A u \in Instances :
               tx'[u].nonce = tx[u].nonce /\ tx'[u].price = tx[u].price
      PROVE  Reading'
  <2> DEFINE new == [instance |-> t, role |-> role, key |-> key,
                     nonce |-> tx[t].nonce, price |-> tx[t].price]
  <2>1. calls' = calls \union {new}
    BY <1>1 DEF Fill
  <2>2. new.instance = t /\ new.nonce = tx[t].nonce /\ new.price = tx[t].price
    OBVIOUS
  <2>3. \A c \in calls' : /\ tx'[c.instance].nonce = c.nonce
                          /\ tx'[c.instance].price = c.price
    BY <1>0, <1>1, <2>1, <2>2 DEF Reading
  <2>4. ASSUME NEW c \in calls', ~Filled(c),
               NEW d \in calls', d.instance = c.instance
        PROVE  d = c
    <3>1. CASE Filled(tx[t])
      <4>1. Filled(new)
        BY <2>2, <3>1 DEF Filled
      <4>2. c # new /\ c \in calls /\ c.instance # t
        BY <2>1, <2>4, <3>1, <4>1 DEF Reading, Filled
      <4>3. d \in calls
        BY <2>1, <2>2, <2>4, <4>2
      <4>4. QED
        BY <2>4, <4>2, <4>3 DEF Reading
    <3>2. CASE ~Filled(tx[t])
      <4>1. \A e \in calls : e.instance # t
        BY <1>1, <3>2 DEF Usable, CallsOn
      <4>2. QED
        BY <2>1, <2>2, <2>4, <4>1 DEF Reading
    <3>3. QED
      BY <3>1, <3>2
  <2>5. QED
    BY <2>3, <2>4 DEF Reading
<1>2. ASSUME NEW t \in Instances, NEW key \in Keys, Sign(t, key)
      PROVE  Reading'
  BY <1>1, <1>2 DEF Sign
<1>3. ASSUME NEW t \in Instances, NEW payer \in FeePayers,
             SignAsFeePayer(t, payer)
      PROVE  Reading'
  <2>1. \A u \in Instances :
          tx'[u].nonce = tx[u].nonce /\ tx'[u].price = tx[u].price
    BY <1>3 DEF SignAsFeePayer, Typed, TypeOK, Transaction
  <2>2. QED
    BY <1>1, <1>3, <2>1 DEF SignAsFeePayer
<1>4. ASSUME NEW t \in Instances, NEW nonce \in Nonces, SetNonce(t, nonce)
      PROVE  Reading'
  BY <1>0, <1>4 DEF Reading, SetNonce, CallsOn, Typed, TypeOK
<1>5. ASSUME NEW c \in calls, NEW nonce \in Nonces, NEW price \in Prices,
             Finish(c, nonce, price)
      PROVE  Reading'
  <2>1. PICK x \in Transaction, y \in Transaction :
          /\ x = Assigned(tx[c.instance], nonce, price)
          /\ tx' = [tx EXCEPT ![c.instance] = y]
          /\ \/ y = SignedBySender(x, c.key)
             \/ y = SignedByFeePayer(x, c.key)
    BY <1>5, FinishResult
  <2>2. tx[c.instance] \in Transaction
    BY <1>0 DEF Typed, TypeOK
  <2>3. y.nonce = nonce /\ y.price = price
    BY <2>1, <2>2 DEF SignedBySender, SignedByFeePayer, Assigned, Transaction
  <2>4. tx'[c.instance] = y /\ \A w \in Instances \ {c.instance} : tx'[w] = tx[w]
    BY <1>0, <2>1 DEF Typed, TypeOK
  <2>5. calls' = calls \ {c} /\ Answers(c, nonce, price)
    BY <1>5 DEF Finish
  <2>6. ASSUME NEW d \in calls'
        PROVE  tx'[d.instance].nonce = d.nonce /\ tx'[d.instance].price = d.price
    <3>1. CASE d.instance = c.instance
      <4>1. Filled(c)
        BY <2>5, <3>1 DEF Reading
      <4>2. nonce = c.nonce /\ price = c.price
        BY <2>5, <4>1 DEF Answers, Filled
      <4>3. QED
        BY <2>3, <2>4, <2>5, <3>1, <4>2 DEF Reading
    <3>2. CASE d.instance # c.instance
      BY <1>0, <2>4, <2>5, <3>2 DEF Reading
    <3>3. QED
      BY <3>1, <3>2
  <2>7. QED
    BY <2>5, <2>6 DEF Reading
<1>6. ASSUME NEW c \in calls, FillFails(c) PROVE Reading'
  BY <1>6 DEF Reading, FillFails
<1>7. ASSUME NEW t \in Instances, NEW u \in Instances, Decode(t, u)
      PROVE  Reading'
  BY <1>0, <1>7 DEF Reading, Decode, CallsOn, Typed, TypeOK
<1>8. ASSUME NEW t \in Instances, NEW u \in Instances, NEW v \in Instances,
             Combine(t, u) \/ CombineTwo(t, u, v)
      PROVE  Reading'
  BY <1>8, CombineReading
<1>9. ASSUME UNCHANGED vars PROVE Reading'
  BY <1>9 DEF Reading, vars
<1>10. QED
  BY <1>2, <1>3, <1>4, <1>5, <1>6, <1>7, <1>8, <1>9 DEF Next

-----------------------------------------------------------------------------
(* Signatures. *)

(* What is assigned after the await is what the instance has, if it has    *)
(* anything.                                                               *)
LEMMA FinishKeeps ==
  ASSUME Typed, Reading,
         NEW c \in calls, NEW nonce \in Nonces, NEW price \in Prices,
         Finish(c, nonce, price)
  PROVE  /\ tx[c.instance].nonce # Undefined => nonce = tx[c.instance].nonce
         /\ tx[c.instance].price # Undefined => price = tx[c.instance].price
  BY DEF Finish, Answers, Reading

(* The call's own signature joins those of the instance. *)
LEMMA FinishMatches ==
  ASSUME Typed, Reading,
         NEW c \in calls, NEW nonce \in Nonces, NEW price \in Prices,
         Finish(c, nonce, price)
  PROVE  \A t \in Instances :
           /\ SendersMatch(tx[t]) => SendersMatch(tx'[t])
           /\ FeePayersMatch(tx[t]) => FeePayersMatch(tx'[t])
<1> DEFINE old == tx[c.instance]
<1>1. PICK x \in Transaction, y \in Transaction :
        /\ x = Assigned(old, nonce, price)
        /\ tx' = [tx EXCEPT ![c.instance] = y]
        /\ \/ y = SignedBySender(x, c.key)
           \/ y = SignedByFeePayer(x, c.key)
  BY FinishResult
<1>2. c.instance \in Instances /\ old \in Transaction
  BY DEF Typed, TypeOK, Call
<1>3. tx'[c.instance] = y /\ \A w \in Instances \ {c.instance} : tx'[w] = tx[w]
  BY <1>1, <1>2 DEF Typed, TypeOK
<1>4. /\ x.content = old.content /\ x.payer = old.payer
      /\ x.nonce = nonce /\ x.price = price
      /\ x.signatures = old.signatures
      /\ x.feePayerSignatures = old.feePayerSignatures
  BY <1>1, <1>2 DEF Assigned, Transaction
<1>5. HashOf(y) = HashOf(x) /\ FeePayerHashOf(y) = FeePayerHashOf(x)
  BY <1>1 DEF SignedBySender, SignedByFeePayer, HashOf, FeePayerHashOf,
              Transaction
<1>6. ASSUME SendersMatch(old) PROVE SendersMatch(y)
  <2>1. ASSUME NEW s \in old.signatures PROVE s.hash = HashOf(x)
    <3>1. s.hash = HashOf(old)
      BY <1>6 DEF SendersMatch
    <3>2. s.hash.nonce \in Nonces /\ s.hash.price \in Prices
      BY <1>2 DEF Transaction, Hash
    <3>3. old.nonce # Undefined /\ old.price # Undefined
      BY <3>1, <3>2, SigningAssumption DEF HashOf
    <3>4. QED
      BY <1>4, <3>1, <3>3, FinishKeeps DEF HashOf
  <2>2. \A s \in y.signatures : s \in x.signatures \/ s.hash = HashOf(x)
    BY <1>1 DEF SignedBySender, SignedByFeePayer, Transaction
  <2>3. QED
    BY <1>4, <1>5, <2>1, <2>2 DEF SendersMatch
<1>7. ASSUME FeePayersMatch(old) PROVE FeePayersMatch(y)
  <2>1. ASSUME NEW s \in old.feePayerSignatures PROVE s.hash = FeePayerHashOf(x)
    <3>1. s.hash = FeePayerHashOf(old)
      BY <1>7 DEF FeePayersMatch
    <3>2. s.hash.nonce \in Nonces /\ s.hash.price \in Prices
      BY <1>2 DEF Transaction, FeePayerHash
    <3>3. old.nonce # Undefined /\ old.price # Undefined
      BY <3>1, <3>2, SigningAssumption DEF FeePayerHashOf
    <3>4. QED
      BY <1>4, <3>1, <3>3, FinishKeeps DEF FeePayerHashOf
  <2>2. \A s \in y.feePayerSignatures :
          s \in x.feePayerSignatures \/ s.hash = FeePayerHashOf(x)
    BY <1>1 DEF SignedBySender, SignedByFeePayer, Transaction
  <2>3. QED
    BY <1>4, <1>5, <2>1, <2>2 DEF FeePayersMatch
<1>8. QED
  BY <1>2, <1>3, <1>6, <1>7

(* A fee payer is entered only into an instance that nobody has signed as  *)
(* another one, and no signature of the sender depends on it.              *)
LEMMA PayerMatches ==
  ASSUME Typed, NEW t \in Instances, NEW payer \in FeePayers,
         SignAsFeePayer(t, payer), NEW u \in Instances
  PROVE  /\ SendersMatch(tx[u]) => SendersMatch(tx'[u])
         /\ FeePayersMatch(tx[u]) => FeePayersMatch(tx'[u])
<1>1. tx[u] \in Transaction
  BY DEF Typed, TypeOK
<1>2. \/ tx'[u] = tx[u]
      \/ tx[u].payer = Undefined /\ tx'[u] = [tx[u] EXCEPT !.payer = payer]
  BY <1>1 DEF SignAsFeePayer, Typed, TypeOK, Transaction
<1>3. SendersMatch(tx[u]) => SendersMatch(tx'[u])
  BY <1>1, <1>2 DEF SendersMatch, HashOf, Transaction
<1>4. CASE tx[u].payer = Undefined /\ FeePayersMatch(tx[u])
  <2>1. ASSUME NEW s \in tx[u].feePayerSignatures PROVE FALSE
    <3>1. s.hash.payer \in FeePayers
      BY <1>1, <2>1 DEF Transaction, FeePayerHash
    <3>2. s.hash.payer = Undefined
      BY <1>4, <2>1 DEF FeePayersMatch, FeePayerHashOf
    <3>3. QED
      BY <3>1, <3>2, SigningAssumption
  <2>2. tx'[u].feePayerSignatures = tx[u].feePayerSignatures
    BY <1>1, <1>2 DEF Transaction
  <2>3. QED
    BY <1>3, <2>1, <2>2 DEF FeePayersMatch
<1>5. QED
  BY <1>2, <1>3, <1>4

(* An instance that combines accepts signatures of its own transaction.    *)
LEMMA CombineMatches ==
  ASSUME Typed,
         NEW t \in Instances, NEW u \in Instances, NEW v \in Instances,
         Combine(t, u) \/ CombineTwo(t, u, v)
  PROVE  /\ SignaturesMatch => SignaturesMatch'
         /\ (\A p, q \in FeePayers : p = q) =>
              (FeePayerSignaturesMatch => FeePayerSignaturesMatch')
<1>1. PICK x \in {tx[t], CombineStep(tx[t], tx[u], MayFill(tx[t]))},
           y \in {tx[u], tx[v]} :
        tx' = [tx EXCEPT ![t] = CombineStep(x, y, MayFill(tx[t]))]
  BY CombineCases DEF Typed
<1>2. tx[t] \in Transaction /\ tx[u] \in Transaction /\ tx[v] \in Transaction
  BY DEF Typed, TypeOK
<1>3. x \in Transaction /\ y \in Transaction
  BY <1>2, MayFillType, CombineType
<1>4. /\ tx'[t] = CombineStep(x, y, MayFill(tx[t]))
      /\ \A w \in Instances : w # t => tx'[w] = tx[w]
  BY <1>1 DEF Typed, TypeOK
<1>5. ASSUME SignaturesMatch PROVE SignaturesMatch'
  <2>1. SendersMatch(tx[t]) /\ SendersMatch(tx[u]) /\ SendersMatch(tx[v])
    BY <1>5 DEF SignaturesMatch
  <2>2. SendersMatch(x) /\ SendersMatch(y)
    BY <1>2, <2>1, MayFillType, CombineSenders
  <2>3. SendersMatch(tx'[t])
    BY <1>3, <1>4, <2>2, MayFillType, CombineSenders
  <2>4. QED
    BY <1>4, <1>5, <2>3 DEF SignaturesMatch
<1>6. ASSUME \A p, q \in FeePayers : p = q, FeePayerSignaturesMatch
      PROVE  FeePayerSignaturesMatch'
  <2>1. FeePayersMatch(tx[t]) /\ FeePayersMatch(tx[u]) /\ FeePayersMatch(tx[v])
    BY <1>6 DEF FeePayerSignaturesMatch
  <2>2. FeePayersMatch(x) /\ FeePayersMatch(y)
    BY <1>2, <1>6, <2>1, MayFillType, CombineFeePayers
  <2>3. FeePayersMatch(tx'[t])
    BY <1>3, <1>4, <1>6, <2>2, MayFillType, CombineFeePayers
  <2>4. QED
    BY <1>4, <1>6, <2>3 DEF FeePayerSignaturesMatch
<1>7. QED
  BY <1>5, <1>6

LEMMA MatchStep ==
  ASSUME Typed, Reading, [Next]_vars
  PROVE  /\ SignaturesMatch => SignaturesMatch'
         /\ (\A p, q \in FeePayers : p = q) =>
              (FeePayerSignaturesMatch => FeePayerSignaturesMatch')
<1> DEFINE Goal == /\ SignaturesMatch => SignaturesMatch'
                   /\ (\A p, q \in FeePayers : p = q) =>
                        (FeePayerSignaturesMatch => FeePayerSignaturesMatch')
<1>1. ASSUME UNCHANGED tx PROVE Goal
  BY <1>1 DEF SignaturesMatch, FeePayerSignaturesMatch
<1>2. ASSUME \A t \in Instances :
               /\ SendersMatch(tx[t]) => SendersMatch(tx'[t])
               /\ FeePayersMatch(tx[t]) => FeePayersMatch(tx'[t])
      PROVE  Goal
  BY <1>2 DEF SignaturesMatch, FeePayerSignaturesMatch
<1>3. ASSUME NEW t \in Instances, NEW key \in Keys, Sign(t, key) PROVE Goal
  BY <1>1, <1>3 DEF Sign
<1>4. ASSUME NEW t \in Instances, NEW payer \in FeePayers,
             SignAsFeePayer(t, payer)
      PROVE  Goal
  BY <1>2, <1>4, PayerMatches
<1>5. ASSUME NEW t \in Instances, NEW nonce \in Nonces, SetNonce(t, nonce)
      PROVE  Goal
  <2>1. /\ tx'[t].signatures = {} /\ tx'[t].feePayerSignatures = {}
        /\ \A u \in Instances : u # t => tx'[u] = tx[u]
    BY <1>5 DEF SetNonce, Typed, TypeOK, Transaction
  <2>2. SendersMatch(tx'[t]) /\ FeePayersMatch(tx'[t])
    BY <2>1 DEF SendersMatch, FeePayersMatch
  <2>3. QED
    BY <1>2, <2>1, <2>2
<1>6. ASSUME NEW c \in calls, NEW nonce \in Nonces, NEW price \in Prices,
             Finish(c, nonce, price)
      PROVE  Goal
  BY <1>2, <1>6, FinishMatches
<1>7. ASSUME NEW c \in calls, FillFails(c) PROVE Goal
  BY <1>1, <1>7 DEF FillFails
<1>8. ASSUME NEW t \in Instances, NEW u \in Instances, Decode(t, u) PROVE Goal
  <2>1. \A w \in Instances : tx'[w] \in {tx[w], tx[u]}
    BY <1>8 DEF Decode, Typed, TypeOK
  <2>2. SignaturesMatch => SignaturesMatch'
    BY <2>1 DEF SignaturesMatch
  <2>3. FeePayerSignaturesMatch => FeePayerSignaturesMatch'
    BY <2>1 DEF FeePayerSignaturesMatch
  <2>4. QED
    BY <2>2, <2>3
<1>9. ASSUME NEW t \in Instances, NEW u \in Instances, NEW v \in Instances,
             Combine(t, u) \/ CombineTwo(t, u, v)
      PROVE  Goal
  BY <1>9, CombineMatches
<1>10. ASSUME UNCHANGED vars PROVE Goal
  BY <1>1, <1>10 DEF vars
<1>11. QED
  BY <1>3, <1>4, <1>5, <1>6, <1>7, <1>8, <1>9, <1>10 DEF Next

-----------------------------------------------------------------------------
(* The theorems. *)

LEMMA InitInv ==
  Init => Typed /\ Reading /\ SignaturesMatch /\ FeePayerSignaturesMatch
<1> SUFFICES ASSUME Init
             PROVE  Typed /\ Reading /\ SignaturesMatch /\ FeePayerSignaturesMatch
  OBVIOUS
<1>1. tx \in [Instances -> Transaction]
  BY DEF Init, Transaction
<1>2. \A t \in Instances :
        tx[t].signatures = {} /\ tx[t].feePayerSignatures = {}
  BY DEF Init
<1>3. SignaturesMatch /\ FeePayerSignaturesMatch
  BY <1>2 DEF SignaturesMatch, SendersMatch, FeePayerSignaturesMatch,
              FeePayersMatch
<1>4. QED
  BY <1>1, <1>3 DEF Init, Typed, TypeOK, PayerThere, Reading

(* The fields and signatures of all instances keep their types, and a      *)
(* signature is made only over fields that are there.                      *)
THEOREM SigningTypeCorrect == Spec => []TypeOK
<1>1. Init => Typed
  BY InitInv
<1>2. Typed => TypeOK
  BY DEF Typed
<1>3. QED
  BY <1>1, <1>2, TypeStep, PTL DEF Spec

LEMMA ReadingAlways == ~Overlapping /\ Spec => [](Typed /\ Reading)
<1>1. Init => Typed /\ Reading
  BY InitInv
<1>2. ASSUME ~Overlapping
      PROVE  Typed /\ Reading /\ [Next]_vars => (Typed /\ Reading)'
  BY <1>2, TypeStep, ReadingStep
<1>3. CASE Overlapping
  BY <1>3
<1>4. CASE ~Overlapping
  <2>1. Typed /\ Reading /\ [Next]_vars => (Typed /\ Reading)'
    BY <1>2, <1>4
  <2>2. QED
    BY <1>1, <2>1, PTL DEF Spec
<1>5. QED
  BY <1>3, <1>4

(* All signatures of an instance are of the transaction it now is, however *)
(* many parties sign, fill, decode and combine, if no party uses an        *)
(* instance that lacks a nonce or a price while it is being signed.        *)
THEOREM SigningSignaturesMatch ==
  ASSUME ~Overlapping
  PROVE  Spec => []SignaturesMatch
<1>1. Init => SignaturesMatch
  BY InitInv
<1>2. Typed /\ Reading /\ SignaturesMatch /\ [Next]_vars => SignaturesMatch'
  BY MatchStep
<1>3. Spec => [](Typed /\ Reading)
  BY ReadingAlways
<1>4. QED
  BY <1>1, <1>2, <1>3, PTL DEF Spec

(* The same of fee payers, if there is only one of them.                   *)
THEOREM SigningFeePayerSignaturesMatch ==
  ASSUME ~Overlapping, \A p, q \in FeePayers : p = q
  PROVE  Spec => []FeePayerSignaturesMatch
<1>1. Init => FeePayerSignaturesMatch
  BY InitInv
<1>2. Typed /\ Reading /\ FeePayerSignaturesMatch /\ [Next]_vars
        => FeePayerSignaturesMatch'
  BY MatchStep
<1>3. Spec => [](Typed /\ Reading)
  BY ReadingAlways
<1>4. QED
  BY <1>1, <1>2, <1>3, PTL DEF Spec

(* A call that comes back from fillTransaction changes no field that the   *)
(* instance has by then.                                                   *)
THEOREM SigningFillKeepsDefined ==
  ASSUME ~Overlapping
  PROVE  Spec => FillKeepsDefined
<1> DEFINE Kept ==
      \A c \in calls \ calls', f \in {"nonce", "price"} :
        tx[c.instance][f] # Undefined =>
          tx'[c.instance][f] = tx[c.instance][f]
<1>1. ASSUME Typed, Reading, [Next]_vars PROVE Kept
  <2> SUFFICES ASSUME NEW c \in calls \ calls'
               PROVE  /\ tx[c.instance].nonce # Undefined =>
                           tx'[c.instance].nonce = tx[c.instance].nonce
                      /\ tx[c.instance].price # Undefined =>
                           tx'[c.instance].price = tx[c.instance].price
    OBVIOUS
  <2>1. CASE UNCHANGED tx
    BY <2>1
  <2>2. ASSUME NEW nonce \in Nonces, NEW price \in Prices,
               Finish(c, nonce, price)
        PROVE  tx'[c.instance].nonce = nonce /\ tx'[c.instance].price = price
    <3>1. c.instance \in Instances /\ tx[c.instance] \in Transaction
      BY <1>1 DEF Typed, TypeOK, Call
    <3>2. PICK x \in Transaction, y \in Transaction :
            /\ x = Assigned(tx[c.instance], nonce, price)
            /\ tx' = [tx EXCEPT ![c.instance] = y]
            /\ \/ y = SignedBySender(x, c.key)
               \/ y = SignedByFeePayer(x, c.key)
      BY <1>1, <2>2, FinishResult
    <3>3. y.nonce = nonce /\ y.price = price
      BY <3>1, <3>2 DEF Assigned, SignedBySender, SignedByFeePayer, Transaction
    <3>4. QED
      BY <1>1, <3>1, <3>2, <3>3 DEF Typed, TypeOK
  <2>3. CASE \E nonce \in Nonces, price \in Prices : Finish(c, nonce, price)
    BY <1>1, <2>2, <2>3, FinishKeeps
  <2>4. \/ UNCHANGED tx
        \/ \E nonce \in Nonces, price \in Prices : Finish(c, nonce, price)
    <3>1. ASSUME NEW d \in calls, NEW nonce \in Nonces, NEW price \in Prices,
                 Finish(d, nonce, price)
          PROVE  Finish(c, nonce, price)
      <4>1. c = d
        BY <3>1 DEF Finish
      <4>2. QED
        BY <3>1, <4>1
    <3>2. QED
      BY <1>1, <3>1
         DEF Next, Sign, SignAsFeePayer, Fill, SetNonce, FillFails, Decode,
             Combine, CombineTwo, vars
  <2>5. QED
    BY <2>1, <2>3, <2>4
<1>2. Typed /\ Reading /\ [Next]_vars => [Kept]_vars
  BY <1>1
<1>3. Spec => [](Typed /\ Reading)
  BY ReadingAlways
<1>4. Spec => [][Kept]_vars
  BY <1>2, <1>3, PTL DEF Spec
<1>5. QED
  BY <1>4 DEF FillKeepsDefined
=============================================================================
