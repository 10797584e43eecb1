------------------------- MODULE TransactionValidation -------------------------
(***************************************************************************)
(* validateParams, which both APIs call before they sign: an object passes *)
(* or not by the names of the fields it has.  P is the set of names; typed *)
(* says whether the type is one of caver.transaction (TxType...) or one of *)
(* caver.klay.accounts (VALUE_TRANSFER...); readable is the value of       *)
(* humanReadable.  Addresses and numbers are well-formed; `to` of a deploy *)
(* transaction is 0x.                                                      *)
(***************************************************************************)
EXTENDS TransactionTypes, FiniteSets

AccountKeyFields ==
  {"key", "legacyKey", "publicKey", "multisig", "failKey",
   "roleTransactionKey", "roleAccountUpdateKey", "roleFeePayerKey"}
RoleKeyFields ==
  {"roleTransactionKey", "roleAccountUpdateKey", "roleFeePayerKey"}
FeeDelegationFields == {"feePayer", "feeRatio", "feePayerSignatures"}
CodeFields == {"codeFormat", "humanReadable"}
DynamicFeeFields == {"maxPriorityFeePerGas", "maxFeePerGas"}

(* Every field that some type has. *)
AllFields ==
  {"nonce", "gasPrice", "gas", "from", "to", "value", "input", "data", "account",
   "accessList", "chainId"}
    \union AccountKeyFields \union FeeDelegationFields \union CodeFields
    \union DynamicFeeFields

Lacks(P, names) == P \intersect names = {}

-----------------------------------------------------------------------------
(* Fee delegation. *)

NonFeeDelegated(P) == Lacks(P, FeeDelegationFields)
FeeDelegatedFields(kind, P) == WithRatio(kind) <=> "feeRatio" \in P

NotAccountTransaction(P) == Lacks(P, AccountKeyFields \union {"account"})

(* What checkXEssential demands of a type and bars from it. *)
NotTyped(P) == Lacks(P, {"accessList"} \union DynamicFeeFields)

(* data and input are two names of one field; anchoredData, the third that *)
(* an anchoring may use for it, is left out.                               *)
OneInput(P) == Cardinality(P \intersect {"data", "input"}) = 1

ValueTransferEssential_anyData(P) ==
  {"to", "value"} \subseteq P /\ Lacks(P, CodeFields) /\ NotTyped(P)
ValueTransferEssential(P) ==
  /\ {"to", "value"} \subseteq P
  /\ Lacks(P, CodeFields \union {"data", "input"}) /\ NotTyped(P)

ValueTransferMemoEssential(P) ==
  /\ {"to", "value"} \subseteq P
  /\ OneInput(P) /\ Lacks(P, CodeFields) /\ NotTyped(P)

UpdateEssential(P) == Lacks(P, {"to", "value"})

(* Exactly one account key: the roles make up one together. *)
OneAccountKey(P) ==
  LET single == P \intersect (AccountKeyFields \ RoleKeyFields)
  IN IF Lacks(P, RoleKeyFields) THEN Cardinality(single) = 1 ELSE single = {}

AccountTransaction(typed, P) ==
  /\ Lacks(P, CodeFields \union {"data", "input"}) /\ NotTyped(P)
  /\ IF typed
     THEN "account" \in P /\ Lacks(P, AccountKeyFields)
     ELSE "account" \notin P /\ OneAccountKey(P)

DeployEssential(typed, P, readable) ==
  /\ typed \/ "value" \in P
  /\ OneInput(P) /\ readable # "true" /\ NotTyped(P)

ExecutionEssential(P) ==
  "to" \in P /\ OneInput(P) /\ Lacks(P, CodeFields) /\ NotTyped(P)

CancelEssential(P) ==
  Lacks(P, CodeFields \union {"to", "value", "data", "input"}) /\ NotTyped(P)

ChainDataAnchoringEssential(P) ==
  OneInput(P) /\ Lacks(P, CodeFields \union {"to", "value"}) /\ NotTyped(P)

(* No recipient means a contract creation, which needs its code.  data     *)
(* next to input is refused later, by a constructor or a formatter.        *)
SomeInput(P) ==
  /\ P \intersect {"to", "data", "input"} # {}
  /\ Cardinality(P \intersect {"data", "input"}) <= 1

Legacy(P) == SomeInput(P) /\ Lacks(P, CodeFields) /\ NotTyped(P)
AccessList(P) ==
  SomeInput(P) /\ Lacks(P, CodeFields \union DynamicFeeFields)
DynamicFee(P) ==
  SomeInput(P) /\ Lacks(P, CodeFields \union {"gasPrice"})

-----------------------------------------------------------------------------
AccountUpdates == {"AccountUpdate", "FeeDelegatedAccountUpdate",
                   "FeeDelegatedAccountUpdateWithRatio"}
Deploys == {"SmartContractDeploy", "FeeDelegatedSmartContractDeploy",
            "FeeDelegatedSmartContractDeployWithRatio"}

(* validateTxObjectWithType *)
ValidObject(kind, typed, P, readable) ==
  /\ kind = "LegacyTransaction" => Legacy(P)
  /\ kind \in {"ValueTransfer", "FeeDelegatedValueTransfer",
               "FeeDelegatedValueTransferWithRatio"}
       => ValueTransferEssential(P)
  /\ kind \in {"ValueTransferMemo", "FeeDelegatedValueTransferMemo",
               "FeeDelegatedValueTransferMemoWithRatio"}
       => ValueTransferMemoEssential(P)
  /\ kind \in AccountUpdates
       => UpdateEssential(P) /\ AccountTransaction(typed, P)
  /\ kind \in Deploys => DeployEssential(typed, P, readable)
  /\ kind \in {"SmartContractExecution", "FeeDelegatedSmartContractExecution",
               "FeeDelegatedSmartContractExecutionWithRatio"}
       => ExecutionEssential(P)
  /\ kind \in {"Cancel", "FeeDelegatedCancel", "FeeDelegatedCancelWithRatio"}
       => CancelEssential(P)
  /\ kind \in {"ChainDataAnchoring", "FeeDelegatedChainDataAnchoring",
               "FeeDelegatedChainDataAnchoringWithRatio"}
       => ChainDataAnchoringEssential(P)
  /\ kind = "EthereumAccessList" => AccessList(P)
  /\ kind = "EthereumDynamicFee" => DynamicFee(P)
  /\ kind \notin AccountUpdates => NotAccountTransaction(P)
  /\ IF Delegated(kind) THEN FeeDelegatedFields(kind, P) ELSE NonFeeDelegated(P)

(* validateTxType: the types that have a name in caver.klay.accounts.      *)
LegacyTxTypes ==
  Kinds \ {"FeeDelegatedChainDataAnchoring", "EthereumAccessList",
           "FeeDelegatedChainDataAnchoringWithRatio", "EthereumDynamicFee"}

(* validateParams of an object without senderRawTransaction.  Only types   *)
(* of caver.transaction may do without a sender.                           *)
ValidParams(kind, typed, P, readable) ==
  /\ typed \/ kind \in LegacyTxTypes
  /\ ValidObject(kind, typed, P, readable)
  /\ "from" \in P \/ (typed /\ kind \in EthereumKinds)
  /\ "gas" \in P
  /\ "feePayerSignatures" \in P => "feePayer" \in P

(* Of one with a senderRawTransaction. *)
ValidFeePayerParams(P) == "feePayer" \in P
=============================================================================
