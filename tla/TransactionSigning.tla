-------------------------- MODULE TransactionSigning --------------------------
(***************************************************************************)
(* Signing a transaction: instances of caver-transaction that several      *)
(* parties sign as senders or fee payers, with the await of fillTransaction *)
(* in between, pass on RLP-encoded and combine into one.  All instances    *)
(* are of one type and one sender on one chain, so type, from, gas and     *)
(* chainId never differ; `content` stands for the other fixed fields.      *)
(*                                                                         *)
(* An operator X_mistake is X with a mistake in it.  Next does not use it; *)
(* it shows which property would catch the mistake.                        *)
(***************************************************************************)
CONSTANTS
  Instances,     \* transaction instances
  Contents,      \* what an instance is made to transfer or execute
  Nonces,        \* the nonces that a node or an application may come up with
  Prices,        \* likewise the gas prices
  Keys,          \* the private keys of the sender
  FeePayers,     \* addresses of fee payers, with a key each
  Undefined,     \* a field that is not there
  FeeDelegated,  \* do the instances extend AbstractFeeDelegatedTransaction?
  Overlapping    \* does the application use an instance that lacks a nonce
                 \* or a price while it is being signed?

ASSUME SigningAssumption ==
  /\ Undefined \notin Nonces \union Prices \union FeePayers
  /\ FeeDelegated \in BOOLEAN /\ Overlapping \in BOOLEAN

VARIABLES
  tx,     \* the fields of each instance
  calls   \* the calls of sign and signAsFeePayer that await fillTransaction

vars == <<tx, calls>>

(* What getHashForSignature and getHashForFeePayerSignature depend on. *)
Hash == [content : Contents, nonce : Nonces, price : Prices]
FeePayerHash ==
  [content : Contents, nonce : Nonces, price : Prices, payer : FeePayers]

Transaction ==
  [content : Contents, nonce : Nonces \union {Undefined},
   price : Prices \union {Undefined}, payer : FeePayers \union {Undefined},
   signatures : SUBSET [key : Keys, hash : Hash],
   feePayerSignatures : SUBSET [key : FeePayers, hash : FeePayerHash]]

(* A call has read nonce and price before it waits; what is not there is   *)
(* asked of the node.                                                      *)
Call ==
  [instance : Instances, role : {"sender"}, key : Keys,
   nonce : Nonces \union {Undefined}, price : Prices \union {Undefined}]
  \union
  [instance : Instances, role : {"payer"}, key : FeePayers,
   nonce : Nonces \union {Undefined}, price : Prices \union {Undefined}]

TypeOK == tx \in [Instances -> Transaction] /\ calls \subseteq Call

(* Instances made by create, with or without a nonce and a price.          *)
Init ==
  /\ tx \in [Instances ->
              [content : Contents, nonce : Nonces \union {Undefined},
               price : Prices \union {Undefined}, payer : {Undefined},
               signatures : {{}}, feePayerSignatures : {{}}]]
  /\ calls = {}

-----------------------------------------------------------------------------
(* Signing. *)

CallsOn(t) == {c \in calls : c.instance = t}

(* validateOptionalValues *)
Filled(x) == x.nonce # Undefined /\ x.price # Undefined

(* May the application use instance t now? *)
Usable(t) == Overlapping \/ CallsOn(t) = {} \/ Filled(tx[t])

(* fillTransaction, up to its await. *)
Fill(t, role, key) ==
  calls' = calls \union
             {[instance |-> t, role |-> role, key |-> key,
               nonce |-> tx[t].nonce, price |-> tx[t].price]}

Sign(t, key) ==
  /\ Usable(t)
  /\ Fill(t, "sender", key)
  /\ UNCHANGED tx

SignAsFeePayer_unset(t, payer) ==
  /\ FeeDelegated
  /\ Usable(t)
  /\ tx[t].payer \in {Undefined, payer}
  /\ UNCHANGED tx
  /\ Fill(t, "payer", payer)

(* An instance without a fee payer gets the one who signs, before it is    *)
(* known whether the call will succeed.                                    *)
SignAsFeePayer(t, payer) ==
  /\ FeeDelegated
  /\ Usable(t)
  /\ tx[t].payer \in {Undefined, payer}
  /\ tx' = [tx EXCEPT ![t].payer = payer]
  /\ Fill(t, "payer", payer)

(* What fillTransaction assigns: what the call has read, or else what the  *)
(* node has answered.                                                      *)
Answers_askingAgain(c, nonce, price) ==
  c.price # Undefined => price = c.price
Answers(c, nonce, price) ==
  /\ c.nonce # Undefined => nonce = c.nonce
  /\ c.price # Undefined => price = c.price

Assigned(x, nonce, price) == [x EXCEPT !.nonce = nonce, !.price = price]

HashOf(x) == [content |-> x.content, nonce |-> x.nonce, price |-> x.price]
FeePayerHashOf(x) ==
  [content |-> x.content, nonce |-> x.nonce, price |-> x.price,
   payer |-> x.payer]

SignedBySender(x, key) ==
  [x EXCEPT !.signatures = @ \union {[key |-> key, hash |-> HashOf(x)]}]
SignedByFeePayer(x, key) ==
  [x EXCEPT !.feePayerSignatures =
              @ \union {[key |-> key, hash |-> FeePayerHashOf(x)]}]

(* sign and signAsFeePayer after the await: the fields are assigned,       *)
(* whatever they are by now; then the instance is hashed and signed.       *)
Finish(c, nonce, price) ==
  /\ c \in calls
  /\ calls' = calls \ {c}
  /\ Answers(c, nonce, price)
  /\ \E x \in {Assigned(tx[c.instance], nonce, price)} :
       \/ /\ c.role = "sender"
          /\ tx' = [tx EXCEPT ![c.instance] = SignedBySender(x, c.key)]
       \/ /\ c.role = "payer"
          /\ tx' = [tx EXCEPT ![c.instance] = SignedByFeePayer(x, c.key)]

(* The node answers a question of fillTransaction with an error, maybe the *)
(* one for the chainId, which a decoded instance always asks.              *)
FillFails(c) ==
  /\ c \in calls
  /\ calls' = calls \ {c}
  /\ UNCHANGED tx

(* The application assigns a nonce to an instance nobody has signed or is  *)
(* signing.                                                                *)
SetNonce(t, nonce) ==
  /\ CallsOn(t) = {}
  /\ tx[t].signatures = {} /\ tx[t].feePayerSignatures = {}
  /\ tx' = [tx EXCEPT ![t].nonce = nonce]
  /\ UNCHANGED calls

-----------------------------------------------------------------------------
(* Encoded transactions.  The encoding of an instance holds all its fields *)
(* and signatures; an older encoding is that of an instance left alone.    *)

(* decode: instance t is made anew from the encoding of u. *)
Decode(t, u) ==
  /\ t # u /\ CallsOn(t) = {} /\ Filled(tx[u])
  /\ tx' = [tx EXCEPT ![t] = tx[u]]
  /\ UNCHANGED calls

(* What combineSignedRawTransactions makes of a field that x lacks. *)
Supplied(v, w, fill) == IF v = Undefined /\ fill THEN w ELSE v

(* Its fee payer: that of the encoding replaces the one of x, undefined or *)
(* not, as long as fields may be filled.                                   *)
FeePayerAfter(x, y, fill) ==
  IF FeeDelegated /\ fill /\ (y.payer # Undefined \/ x.payer = Undefined)
  THEN y.payer ELSE x.payer

SameNonce(x, y, fill) == Supplied(x.nonce, y.nonce, fill) = y.nonce
SamePrice(x, y, fill) == Supplied(x.price, y.price, fill) = y.price
SameFeePayer(x, y, fill) ==
  y.payer = Undefined \/ FeePayerAfter(x, y, fill) = y.payer

(* Does x accept the signatures of y? *)
Combinable_anyContent(x, y, fill) ==
  SameNonce(x, y, fill) /\ SameFeePayer(x, y, fill) /\ SamePrice(x, y, fill)
Combinable(x, y, fill) ==
  /\ SameNonce(x, y, fill)
  /\ SameFeePayer(x, y, fill)
  /\ x.content = y.content
  /\ SamePrice(x, y, fill)

Combined(x, y, fill) ==
  [x EXCEPT !.nonce = y.nonce, !.price = y.price,
            !.payer = FeePayerAfter(x, y, fill),
            !.signatures = @ \union y.signatures,
            !.feePayerSignatures = @ \union y.feePayerSignatures]

(* The fields are compared one by one, nonce, fee payer, content, price,   *)
(* and what was filled in before the error stays.                          *)
Refused(x, y, fill) ==
  [x EXCEPT !.nonce = Supplied(x.nonce, y.nonce, fill),
            !.payer = IF SameNonce(x, y, fill)
                      THEN FeePayerAfter(x, y, fill) ELSE x.payer]

CombineStep(x, y, fill) ==
  IF Combinable(x, y, fill) THEN Combined(x, y, fill) ELSE Refused(x, y, fill)

(* Fields may be filled in if a kind of signature is missing at the start. *)
MayFill(x) ==
  x.signatures = {} \/ (FeeDelegated /\ x.feePayerSignatures = {})

(* combineSignedRawTransactions with the encoding of u, and with those of  *)
(* u and v: the second is looked at only if the first was accepted.        *)
Combine(t, u) ==
  /\ Usable(t)
  /\ Filled(tx[u])
  /\ tx' = [tx EXCEPT ![t] = CombineStep(@, tx[u], MayFill(@))]
  /\ UNCHANGED calls

CombineTwo(t, u, v) ==
  /\ Usable(t)
  /\ Filled(tx[u]) /\ Filled(tx[v])
  /\ Combinable(tx[t], tx[u], MayFill(tx[t]))
  /\ tx' = [tx EXCEPT ![t] =
              CombineStep(Combined(@, tx[u], MayFill(@)), tx[v], MayFill(@))]
  /\ UNCHANGED calls

-----------------------------------------------------------------------------
Next ==
  \/ \E t \in Instances, key \in Keys : Sign(t, key)
  \/ \E t \in Instances, payer \in FeePayers : SignAsFeePayer(t, payer)
  \/ \E t \in Instances, nonce \in Nonces : SetNonce(t, nonce)
  \/ \E c \in calls, nonce \in Nonces, price \in Prices : Finish(c, nonce, price)
  \/ \E c \in calls : FillFails(c)
  \/ \E t, u \in Instances : Decode(t, u) \/ Combine(t, u)
  \/ \E t, u, v \in Instances : CombineTwo(t, u, v)

Spec == Init /\ [][Next]_vars

-----------------------------------------------------------------------------
(* Every signature of an instance is one of the transaction that the       *)
(* instance now is: a node that gets its encoding recovers the keys that   *)
(* signed.  Calls, fills and combinations of several parties lie between.  *)
SendersMatch(x) == \A s \in x.signatures : s.hash = HashOf(x)
SignaturesMatch == \A t \in Instances : SendersMatch(tx[t])

(* Likewise for the fee payer, whose hash has the fee payer in it. *)
FeePayersMatch(x) ==
  \A s \in x.feePayerSignatures : s.hash = FeePayerHashOf(x)
FeePayerSignaturesMatch == \A t \in Instances : FeePayersMatch(tx[t])

(* fillTransaction provides what is not defined: when a call comes back    *)
(* from it, the fields that the instance has by then keep their values.    *)
FillKeepsDefined ==
  [][\A c \in calls \ calls', f \in {"nonce", "price"} :
       tx[c.instance][f] # Undefined =>
         tx'[c.instance][f] = tx[c.instance][f]]_vars
=============================================================================
