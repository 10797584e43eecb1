-------------------------- MODULE TransactionExchange --------------------------
(***************************************************************************)
(* Encoded transactions that go round among parties, some of whom use      *)
(* caver.transaction and some caver.klay.accounts: each decodes one, signs *)
(* it or combines it with another, and passes on the encoding.  All are of *)
(* one type and chain; there may be two different transactions among them. *)
(*                                                                         *)
(* Every call is one step: what can happen while a call awaits a node is   *)
(* the subject of TransactionSigning, and so are several fee payers.       *)
(*                                                                         *)
(* The parties avoid three conversions that lose something: Loses... below. *)
(***************************************************************************)
EXTENDS TransactionValidation, LegacyEncoding

CONSTANTS
  Keys,            \* keys that sign as the sender
  FeePayer,        \* the one fee payer, who has one key
  NoPayer,         \* the zero address
  DifferingFields, \* the fields in which the two transactions may differ
  MaxRaws          \* bound: encoded transactions in circulation

ASSUME ExchangeAssumption == NoPayer # FeePayer /\ MaxRaws \in Nat \ {0}

VARIABLES
  kind,        \* the type
  documents,   \* the transactions, as fields
  raws         \* the encoded transactions in circulation

vars == <<kind, documents, raws>>

AccountKeys ==
  {"legacy", "fail", "public", "multisig", "two roles", "three roles"}
Values(field) ==
  CASE field = "account" -> AccountKeys
    [] field = "humanReadable" -> {"true", "false"}
    [] field = "accessList" -> {"empty", "some"}
    [] OTHER -> {"a", "b"}

(* A transaction of type k, and those that differ from it in one field. *)
Document(k, special) ==
  [f \in FieldsOf(k) |->
     <<f, IF f \in DOMAIN special THEN special[f] ELSE "a">>]
Documents(k) ==
  {Document(k, [account |-> a, humanReadable |-> h, accessList |-> l]) :
     a \in AccountKeys, h \in {"true", "false"}, l \in {"empty", "some"}}
Variants(d) ==
  UNION {{[d EXCEPT ![f] = <<f, v>>] : v \in Values(f)} :
           f \in DifferingFields \intersect DOMAIN d}

Init ==
  /\ kind \in Kinds
  /\ \E d \in Documents(kind) : \E e \in Variants(d) : documents = {d, e}
  /\ raws = {}

-----------------------------------------------------------------------------
(* An encoded transaction, and what a node verifies its signatures with:   *)
(* the list of values as it stands in the encoding.                        *)
Raw(body, signatures, payer, payerSignatures) ==
  [body |-> body, signatures |-> signatures,
   payer |-> payer, payerSignatures |-> payerSignatures]

NodePayload(body) == <<kind, body, "sender">>
NodeFeePayerPayload(body, payer) == <<kind, body, payer>>

Payloads ==
  {<<kind, Encode(Classes[kind].signed, d), w>> :
     d \in documents, w \in {"sender", FeePayer}}
    \union {<<kind, LegacyBody(kind, d), w>> :
              d \in {e \in documents : kind \in LegacyKinds},
              w \in {"sender", FeePayer}}

Signature == [key : Keys \union {FeePayer}, over : Payloads]

TypeOK ==
  /\ kind \in Kinds
  /\ documents \subseteq UNION {{d} \union Variants(d) : d \in Documents(kind)}
  /\ \A r \in raws :
       /\ r.signatures \subseteq Signature
       /\ r.payerSignatures \subseteq Signature
       /\ r.payer \in {NoPayer} \union (IF Delegated(kind) THEN {FeePayer} ELSE {})

(* The new encoding r goes round. *)
Publish(r) ==
  /\ Cardinality(raws \union {r}) <= MaxRaws
  /\ raws' = raws \union {r}
  /\ UNCHANGED <<kind, documents>>

(* An encoding that nobody has any more. *)
Discard(r) ==
  /\ raws' = raws \ {r}
  /\ UNCHANGED <<kind, documents>>

ValueOf(body, field) ==
  IF field \in FieldsOf(kind)
  THEN Decode(Classes[kind].encoded, body)[field][2] ELSE "none"

(* What the parties avoid: decoding a deploy transaction with a human-     *)
(* readable address, giving an encoded Ethereum typed transaction to       *)
(* create, and having caver.klay.accounts write a role-based key of fewer  *)
(* than three roles.                                                       *)
LosesByDecode(body) == kind \in Deploys /\ ValueOf(body, "humanReadable") = "true"
LosesByCreate(body) == ValueOf(body, "accessList") = "some"
LosesByRewriting(body) == ValueOf(body, "account") = "two roles"

-----------------------------------------------------------------------------
(* caver.transaction *)

(* The names in the object that is given to a constructor. *)
NamesOf(fields) == DOMAIN fields
PayerNames == IF Delegated(kind) THEN {"feePayer", "feePayerSignatures"} ELSE {}

(* humanReadable is set to true after the creation. *)
Constructible(fields) ==
  ValidParams(kind, TRUE, NamesOf(fields) \union PayerNames, "false")

SignatureOver(key, payload) == [key |-> key, over |-> payload]

(* create, maybe with the address of a fee payer, and getRLPEncoding. *)
NewEncode_anyPayer(d, payer) ==
  /\ Constructible(d)
  /\ Publish(Raw(Encode(Classes[kind].encoded, d), {}, payer, {}))
NewEncode(d, payer) ==
  /\ Constructible(d)
  /\ payer = NoPayer \/ Delegated(kind)
  /\ Publish(Raw(Encode(Classes[kind].encoded, d), {}, payer, {}))

(* appendSignatures of the Ethereum types refuses a second signature. *)
MaySign(r) == kind \in EthereumKinds => r.signatures = {}

(* What decode and create make of an encoded transaction. *)
Opened(r, how) ==
  IF how = "decode" THEN Decoded(kind, r.body) ELSE Created(kind, r.body)
Openable(r, how) ==
  /\ ~LosesByDecode(r.body)
  /\ how = "create" => ~LosesByCreate(r.body)
  /\ Constructible(Opened(r, how))

Signed(r, fields, key) ==
  Raw(Encode(Classes[kind].encoded, fields),
      r.signatures \union {SignatureOver(key, SigningPayload(kind, fields))},
      r.payer, r.payerSignatures)

(* sign on an instance made from an encoded transaction; signing the one   *)
(* that has just been encoded is signing right after create.               *)
NewSign(r, how, key) ==
  /\ Openable(r, how)
  /\ MaySign(r)
  /\ Publish(Signed(r, Opened(r, how), key))

SignedAsFeePayer(r, fields) ==
  Raw(Encode(Classes[kind].encoded, fields), r.signatures, FeePayer,
      r.payerSignatures \union
        {SignatureOver(FeePayer, FeePayerSigningPayload(kind, fields, FeePayer))})

(* An instance with humanReadable true is signed before it is encoded. *)
NewSignReadable(d, key) ==
  /\ "humanReadable" \in DOMAIN d /\ Constructible(d)
  /\ Publish(Signed(Raw(<<>>, {}, NoPayer, {}), d, key))

NewSignAsFeePayer(r, how) ==
  /\ Delegated(kind)
  /\ Openable(r, how)
  /\ Publish(SignedAsFeePayer(r, Opened(r, how)))

(* combineSignedRawTransactions on the instance decoded from x. *)
NewCombinable_unchecked(x, r) == MaySign(x)
NewCombinable(x, r) ==
  /\ Decoded(kind, x.body) = Decoded(kind, r.body)
  /\ MaySign(x)

NewCombined(x, r) ==
  Raw(Encode(Classes[kind].encoded, Decoded(kind, x.body)),
      x.signatures \union r.signatures,
      IF r.payer = NoPayer THEN x.payer ELSE r.payer,
      x.payerSignatures \union r.payerSignatures)

NewCombine(x, r) ==
  /\ Openable(x, "decode") /\ Openable(r, "decode")
  /\ NewCombinable(x, r)
  /\ Publish(NewCombined(x, r))

-----------------------------------------------------------------------------
(* caver.klay.accounts *)

(* An object of the application says who sends it. *)
LegacyValid(fields, names) ==
  /\ kind \in LegacyKinds
  /\ ValidParams(kind, FALSE, names, IF kind \in Deploys
                                     THEN fields["humanReadable"][2] ELSE "false")

LegacySignature(key, body, whom) == SignatureOver(key, <<kind, body, whom>>)

(* signTransaction of an object, which has no signatures yet. *)
LegacySign(d, key) ==
  /\ LegacyValid(d, ObjectNames(kind, d) \union {"from"})
  /\ \E body \in {LegacyBody(kind, d)} :
       Publish(Raw(body, {LegacySignature(key, body, "sender")}, NoPayer, {}))

LegacyReadable(r) ==
  /\ kind \in LegacyKinds
  /\ LegacyValid(LegacyFields(kind, r.body),
                 ObjectNames(kind, LegacyFields(kind, r.body)))

(* signTransaction of an encoded transaction: signatures and fee payer     *)
(* stay.                                                                   *)
LegacyResigned(r, key, body) ==
  Raw(body, r.signatures \union {LegacySignature(key, body, "sender")},
      r.payer, r.payerSignatures)

LegacyResign(r, key) ==
  /\ LegacyReadable(r) /\ ~LosesByRewriting(r.body)
  /\ kind # "LegacyTransaction"
  /\ Publish(LegacyResigned(r, key,
               LegacyBody(kind, LegacyFields(kind, r.body))))

(* feePayerSignTransaction of an encoded transaction: splitFeePayer, and    *)
(* signTransaction of {senderRawTransaction, feePayer}.                    *)
LegacyFeePayerSigned(r, body) ==
  Raw(body, r.signatures, FeePayer,
      r.payerSignatures \union {LegacySignature(FeePayer, body, FeePayer)})

LegacyFeePayerSign(r) ==
  /\ kind \in LegacyKinds /\ Delegated(kind)
  /\ ValidFeePayerParams({"senderRawTransaction", "feePayer"})
  /\ Publish(LegacyFeePayerSigned(r, LegacyReencoded(kind, r.body)))

(* feePayerSignTransaction of an object. *)
LegacyFeePayerSignObject(d) ==
  /\ Delegated(kind)
  /\ LegacyValid(d, ObjectNames(kind, d) \union {"from"})
  /\ Publish(LegacyFeePayerSigned(Raw(<<>>, {}, NoPayer, {}),
               LegacyReencoded(kind, LegacyBody(kind, d))))

(* combineSignatures of <<x, r>>: the fee payer of the second, if it has   *)
(* one, with the signatures of both; or else what the first has.           *)
LegacyCombinable(x, r) ==
  kind \in LegacyKinds /\ LegacyFields(kind, x.body) = LegacyFields(kind, r.body)

LegacyCombined_firstOnly(x, r) ==
  Raw(LegacyBody(kind, LegacyFields(kind, x.body)),
      x.signatures \union r.signatures, x.payer, x.payerSignatures)
LegacyCombined(x, r) ==
  Raw(LegacyBody(kind, LegacyFields(kind, x.body)),
      x.signatures \union r.signatures,
      IF r.payer # NoPayer THEN r.payer ELSE x.payer,
      IF r.payer # NoPayer THEN x.payerSignatures \union r.payerSignatures
      ELSE x.payerSignatures)

LegacyCombine(x, r) ==
  /\ LegacyCombinable(x, r)
  /\ LegacyReadable(x) /\ ~LosesByRewriting(x.body)
  /\ Publish(LegacyCombined(x, r))

(* getRawTransactionWithSignatures of an object with the signatures that   *)
(* others made of it, and of an encoded transaction with signatures of the *)
(* fee payer.                                                              *)
LegacyAttach(d, r) ==
  /\ LegacyValid(d, ObjectNames(kind, d) \union {"from"})
  /\ r.body = LegacyBody(kind, d)
  /\ Publish(Raw(LegacyBody(kind, d), r.signatures, NoPayer, {}))

LegacyAttachFeePayer(x, r) ==
  /\ Delegated(kind) /\ r.payer = FeePayer
  /\ LegacyReadable(x) /\ ~LosesByRewriting(x.body)
  /\ ValidFeePayerParams({"senderRawTransaction", "feePayer", "feePayerSignatures"})
  /\ r.body = x.body
  /\ Publish(Raw(LegacyBody(kind, LegacyFields(kind, x.body)), x.signatures,
                 FeePayer, x.payerSignatures \union r.payerSignatures))

-----------------------------------------------------------------------------
Next ==
  \/ \E d \in documents :
       \/ \E payer \in {NoPayer, FeePayer} : NewEncode(d, payer)
       \/ \E key \in Keys : NewSignReadable(d, key) \/ LegacySign(d, key)
       \/ LegacyFeePayerSignObject(d)
       \/ \E r \in raws : LegacyAttach(d, r)
  \/ \E r \in raws :
       \/ \E key \in Keys, how \in {"decode", "create"} : NewSign(r, how, key)
       \/ \E how \in {"decode", "create"} : NewSignAsFeePayer(r, how)
       \/ \E key \in Keys : LegacyResign(r, key)
       \/ LegacyFeePayerSign(r)
       \/ Discard(r)
       \/ \E x \in raws :
            NewCombine(x, r) \/ LegacyCombine(x, r) \/ LegacyAttachFeePayer(x, r)

Spec == Init /\ [][Next]_vars

-----------------------------------------------------------------------------
(* Whoever encoded, decoded and encoded again, through either API, what    *)
(* goes round is one of the transactions that were made.                   *)
TransactionUnchanged ==
  \A r \in raws : \E d \in documents :
    \/ r.body = Encode(Classes[kind].encoded, d)
    \/ kind \in LegacyKinds /\ r.body = LegacyBody(kind, d)

(* A node that takes the values out of an encoded transaction as they      *)
(* stand there finds every signature made for them: those of the sender,   *)
(* and those of the fee payer, made for the fee payer too.                 *)
SignaturesCoverTransaction ==
  \A r \in raws :
    /\ \A s \in r.signatures : s.over = NodePayload(r.body)
    /\ \A s \in r.payerSignatures : s.over = NodeFeePayerPayload(r.body, r.payer)

(* What one party encodes the next can read: decode and create yield an    *)
(* object that its validation accepts and that encodes to the same values, *)
(* and so does caver.klay.accounts with the types that it has, but for a   *)
(* legacy transaction, whose encoding lacks the sender it wants.           *)
ReadableAgain ==
  \A r \in raws :
    /\ ~LosesByDecode(r.body) =>
         /\ Constructible(Decoded(kind, r.body))
         /\ Encode(Classes[kind].encoded, Decoded(kind, r.body)) = r.body
    /\ kind \in LegacyTxTypes \ {"LegacyTransaction"}
         /\ ~LosesByDecode(r.body) /\ ~LosesByRewriting(r.body) =>
         /\ LegacyReadable(r)
         /\ LegacyBody(kind, LegacyFields(kind, r.body)) = r.body

(* Two encodings can be combined if and only if they are of the same       *)
(* transaction, in both APIs, but for types that take one signature.       *)
CombinableIffSame ==
  \A x, r \in raws :
    /\ ~LosesByDecode(x.body) /\ ~LosesByDecode(r.body) /\ MaySign(x) =>
         (NewCombinable(x, r) <=> x.body = r.body)
    /\ kind \in LegacyKinds => (LegacyCombinable(x, r) <=> x.body = r.body)

(* A combination has the signatures of both, its fee payer the one they    *)
(* name; signing once more keeps what was there.                           *)
Keeps(y, x, r) ==
  /\ x.signatures \union r.signatures \subseteq y.signatures
  /\ x.payerSignatures \union r.payerSignatures \subseteq y.payerSignatures
  /\ y.payer = NoPayer => x.payer = NoPayer /\ r.payer = NoPayer

NothingLost ==
  \A x, r \in raws :
    /\ Keeps(NewCombined(x, r), x, r)
    /\ LegacyCombinable(x, r) => Keeps(LegacyCombined(x, r), x, r)
    /\ \A key \in Keys : Keeps(LegacyResigned(r, key, r.body), r, r)

(* No field of an object is ignored: what validation lets pass beside the  *)
(* fields of the type is another name of one of them, or needed to sign.   *)
NothingIgnored ==
  \A d \in documents, f \in AllFields \ FieldsOf(kind) :
    /\ ValidParams(kind, TRUE, DOMAIN d \union {f}, "false")
         => \/ f = "chainId" \/ (f = "from" /\ kind \in EthereumKinds)
            \/ f \in {"feePayer", "feePayerSignatures"} /\ Delegated(kind)
    /\ kind \in LegacyKinds =>
         \E names \in {ObjectNames(kind, d) \union {"from"}} :
           f \notin names /\ ValidParams(kind, FALSE, names \union {f}, "false")
             => f = "chainId" \/ (f \in RoleKeyFields /\ names \intersect RoleKeyFields # {})
=============================================================================
