---------------------------- MODULE ContractCalls ----------------------------
(***************************************************************************)
(* A method of a Contract that uses caver.wallet is executed: sent, or     *)
(* only signed by its sender or fee payer.  _executeMethod awaits at every *)
(* turn (whether the wallet has the keyring, what fills the transaction,   *)
(* what the node signs), and the wallet, the chain and the options of the  *)
(* contract may change between any two of its steps.  A KCT token          *)
(* (caver-kct) determines the options itself and estimates the gas before  *)
(* it executes the method.  In the end the node decides on what was sent,  *)
(* and the Validator on what was only signed.                              *)
(***************************************************************************)
EXTENDS Wallet

CONSTANTS Sender,     \* the address that calls, options.from
          Payers,     \* addresses that may pay the fee
          Undefined,  \* an option that is not given
          MaxSettings \* bound: settings of the contract's options

ASSUME CallAssumption ==
  Sender \in Addresses /\ Payers \subseteq Addresses /\ MaxSettings \in Nat

VARIABLES
  options,    \* contract.options: feeDelegation and feePayer
  settings,   \* how many times they were set
  call        \* the execution under way

contractVars == <<options, settings, call>>

Options == [delegated : {Undefined, TRUE, FALSE}, payer : Payers \union {Undefined}]

NoCall == [phase |-> "none"]

(* Phases in which the promise of the call is settled. *)
Final == {"none", "accepted", "rejected", "validated"}

ContractInit ==
  /\ options = [delegated |-> Undefined, payer |-> Undefined]
  /\ settings = 0
  /\ call = NoCall

-----------------------------------------------------------------------------
(* Options.  Setting an option to nothing leaves it as it is. *)

SetFeePayer(a) == options' = [options EXCEPT !.payer = a]
SetFeeDelegation(b) == options' = [options EXCEPT !.delegated = b]
SetOptions ==
  /\ settings < MaxSettings
  /\ settings' = settings + 1
  /\ \/ \E a \in Payers : SetFeePayer(a)
     \/ \E b \in BOOLEAN : SetFeeDelegation(b)
  /\ UNCHANGED call

(* _getOrSetDefaultOptions: the contract's option counts where the call    *)
(* gives none, and also where the call says FALSE.                         *)
WithDefaults(given) ==
  [delegated |-> IF given.delegated = TRUE THEN TRUE ELSE options.delegated,
   payer |-> IF given.payer # Undefined THEN given.payer ELSE options.payer]

Delegated(o) == o.delegated = TRUE

(* createTransactionFromArgs. *)
TransactionMade(type, o) ==
  IF Delegated(o)
  THEN type = "signAsFeePayer" => o.payer # Undefined
  ELSE type # "signAsFeePayer" /\ o.payer = Undefined

(* The transaction of a call that has options o. *)
Transaction(type, o) ==
  [phase |-> "made", type |-> type, delegated |-> Delegated(o), payer |-> o.payer,
   signatures |-> << >>, payerSignatures |-> << >>,
   signer |-> NoKeyring, payerSigner |-> NoKeyring, own |-> FALSE]

(* sign, signAsFeePayer and send of a contract. *)
Execute(type, given) ==
  LET o == WithDefaults(given)
  IN /\ call.phase \in Final
     /\ TransactionMade(type, o)
     /\ call' = Transaction(type, o)
     /\ UNCHANGED <<options, settings>>

(* A method of a token: determineSendParams joins the options of the call  *)
(* with those of the contract and estimates the gas.                       *)
SendParams(given) ==
  [delegated |-> IF given.delegated # Undefined THEN given.delegated ELSE options.delegated,
   payer |-> IF given.payer # Undefined THEN given.payer ELSE options.payer]
ExecuteToken(given) ==
  LET o == SendParams(given)
  IN /\ call.phase \in Final
     /\ call' = [phase |-> "estimating", params |-> o]
     /\ UNCHANGED <<options, settings>>

(* The gas is estimated; the options of the contract are joined again.     *)
Estimated ==
  LET o == WithDefaults(call.params)
  IN /\ call.phase = "estimating"
     /\ call' = IF (call.params.delegated = Undefined => call.params.payer = Undefined)
                   /\ TransactionMade("send", o)
                THEN Transaction("send", o) ELSE NoCall
     /\ UNCHANGED <<options, settings>>

-----------------------------------------------------------------------------
(* Steps of a call. *)

Step(from, c) ==
  /\ call.phase = from
  /\ call' = c
  /\ UNCHANGED <<options, settings>>

(* The promise is rejected. *)
Fails ==
  /\ call.phase \notin Final \union {"sent", "returned", "validating"}
  /\ call' = NoCall
  /\ UNCHANGED <<options, settings>>

IsSend == call.type = "send"
ForPayer == call.type = "signAsFeePayer"

(* await wallet.isExisted(from or fee payer). *)
LookedUp ==
  Step("made", [call EXCEPT !.phase = "looked",
                            !.own = IsExisted(IF ForPayer THEN call.payer ELSE Sender)])

(* wallet.sign and wallet.signAsFeePayer look the keyring up again and     *)
(* keep it while the transaction is filled.                                *)
CaptureSender ==
  /\ call.phase = "looked" /\ call.own /\ ~ForPayer
  /\ IsExisted(Sender)
  /\ Step("looked", [call EXCEPT !.phase = "signing", !.signer = keyrings[Sender]])
CapturePayer ==
  /\ call.phase = "payerLooked" \/ (call.phase = "looked" /\ ForPayer)
  /\ call.own \/ call.phase = "payerLooked"
  /\ call.payer # Undefined /\ IsExisted(call.payer)
  /\ Step(call.phase, [call EXCEPT !.phase = "payerSigning",
                                   !.payerSigner = keyrings[call.payer]])

(* refineSignatures, in the setters of a transaction's signatures: of equal *)
(* ones the first stays.                                                   *)
Refined_keepingAll(signatures) == signatures
Refined(signatures) ==
  LET firsts == {i \in DOMAIN signatures :
                   \A j \in 1 .. i - 1 : signatures[j] # signatures[i]}
      place(n) == CHOOSE i \in firsts : Cardinality({j \in firsts : j <= i}) = n
  IN [n \in 1 .. Cardinality(firsts) |-> signatures[place(n)]]

SignedBy(keyring, role) == Refined(KeysByRole(keyring, role))

SenderSigns ==
  /\ call.phase = "signing"
  /\ HasKeyFor(call.signer, TransactionRole)
  /\ Step("signing", [call EXCEPT !.phase = IF IsSend THEN "filling" ELSE "returned",
                                  !.signatures = SignedBy(call.signer, TransactionRole)])

(* fillFeePayerSignatures: fill, then look for the fee payer. *)
PayerLookedUp ==
  /\ call.phase = "filling" /\ call.delegated /\ call.payer # Undefined
  /\ Step("filling",
          [call EXCEPT !.phase = IF IsExisted(call.payer) THEN "payerLooked" ELSE "nodePays"])
WithoutPayer ==
  /\ call.phase = "filling" /\ ~call.delegated
  /\ Step("filling", [call EXCEPT !.phase = IF call.own THEN "sent" ELSE "nodeSigns"])
NoOwnSender ==
  /\ call.phase = "looked" /\ ~call.own
  /\ Step("looked",
          [call EXCEPT !.phase = IF IsSend THEN "filling"
                                 ELSE IF ForPayer THEN "nodePays" ELSE "nodeSigns"])

(* Where a call goes on when the fee payer has signed. *)
AfterPayer ==
  IF ~IsSend THEN "returned" ELSE IF call.own THEN "sent" ELSE "nodeSigns"
PayerSigns ==
  /\ call.phase = "payerSigning"
  /\ HasKeyFor(call.payerSigner, FeePayerRole)
  /\ Step("payerSigning",
          [call EXCEPT !.phase = AfterPayer,
                       !.payerSignatures = SignedBy(call.payerSigner, FeePayerRole)])

(* The node signs with the keys it holds for an address, which are those   *)
(* of the account.                                                         *)
HeldByNode(a, role) ==
  LET key == KeyForRole(accountKey[a], role)
  IN CASE key.type = "legacy" -> <<DerivedOf[a]>>
       [] key.type = "public" -> <<key.key>>
       [] key.type = "multisig" -> [i \in DOMAIN key.keys |-> key.keys[i].key]
       [] OTHER -> << >>
NodePays ==
  /\ call.phase = "nodePays"
  /\ Step("nodePays",
          [call EXCEPT !.phase = AfterPayer,
                       !.payerSignatures = Refined(HeldByNode(call.payer, FeePayerRole))])
(* klay_signTransaction, whose signatures replace those of the             *)
(* transaction, or klay_sendTransaction.                                   *)
NodeSigns ==
  /\ call.phase = "nodeSigns"
  /\ Step("nodeSigns",
          [call EXCEPT !.phase = IF IsSend THEN "sent" ELSE "returned",
                       !.signatures = Refined(HeldByNode(Sender, TransactionRole))])

-----------------------------------------------------------------------------
(* What sign, or signAsFeePayer, of a contract returned is passed on, and  *)
(* the other party signs it with caver.wallet.  A transaction without a    *)
(* fee payer gets the one who signs, no other may sign as one.             *)

SignReturnedAsFeePayer(a) ==
  /\ call.phase = "returned" /\ call.delegated /\ call.payerSignatures = << >>
  /\ IsExisted(a)
  /\ call.payer \in {Undefined, a}
  /\ Step("returned", [call EXCEPT !.phase = "payerSigning", !.payer = a,
                                   !.payerSigner = keyrings[a]])
SignReturned ==
  /\ call.phase = "returned" /\ call.signatures = << >>
  /\ IsExisted(Sender)
  /\ Step("returned", [call EXCEPT !.phase = "signing", !.signer = keyrings[Sender]])

-----------------------------------------------------------------------------
(* What becomes of it. *)

SenderAccepted ==
  NodeAccepts(Sender, accountKey[Sender], Range(call.signatures), TransactionRole)
PayerAccepted ==
  NodeAccepts(call.payer, accountKey[call.payer], Range(call.payerSignatures), FeePayerRole)

NodeDecides ==
  Step("sent", [phase |-> IF SenderAccepted /\ (call.delegated => PayerAccepted)
                          THEN "accepted" ELSE "rejected"])

(* validator.validateTransaction of a transaction that was signed: the     *)
(* sender, and if that is valid the fee payer.  The account key is asked   *)
(* for first, the signatures recovered when it has come.                   *)
Validate ==
  Step("returned",
       [phase |-> "validating", delegated |-> call.delegated, payer |-> call.payer,
        signatures |-> call.signatures, payerSignatures |-> call.payerSignatures,
        senderKey |-> accountKey[Sender], payerKey |-> AccountKeyNil, verdict |-> "none"])

Validation(a, key, signatures, role) ==
  IF signatures = << >> \/ ~Validatable(key, role) THEN "thrown"
  ELSE IF Valid(a, key, signatures, role) THEN "valid" ELSE "invalid"

ValidateSender ==
  LET v == Validation(Sender, call.senderKey, call.signatures, TransactionRole)
      askPayer == v = "valid" /\ call.delegated
      done(w) == [call EXCEPT !.phase = "validated", !.verdict = w]
  IN /\ call.phase = "validating" /\ call.payerKey = AccountKeyNil
     /\ Step("validating",
             IF ~askPayer THEN done(v)
             ELSE IF call.payer = Undefined THEN done("thrown")
             ELSE [call EXCEPT !.payerKey = accountKey[call.payer]])
ValidateFeePayer ==
  /\ call.phase = "validating" /\ call.payerKey # AccountKeyNil
  /\ Step("validating",
          [call EXCEPT !.phase = "validated",
                       !.verdict = Validation(call.payer, call.payerKey, call.payerSignatures,
                                              FeePayerRole)])

ContractNext ==
  \/ SetOptions
  \/ \E given \in Options :
       \/ \E type \in {"send", "sign", "signAsFeePayer"} : Execute(type, given)
       \/ ExecuteToken(given)
  \/ Estimated \/ LookedUp \/ CaptureSender \/ CapturePayer \/ SenderSigns
  \/ PayerLookedUp \/ WithoutPayer \/ NoOwnSender \/ PayerSigns
  \/ NodePays \/ NodeSigns \/ Fails \/ NodeDecides
  \/ (\E a \in Payers : SignReturnedAsFeePayer(a)) \/ SignReturned
  \/ Validate \/ ValidateSender \/ ValidateFeePayer
=============================================================================
