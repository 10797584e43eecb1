----------------------------- MODULE LegacyEncoding -----------------------------
(***************************************************************************)
(* How caver.klay.accounts encodes, hashes and decodes the transactions of *)
(* its nineteen types: a second implementation of what the classes of      *)
(* caver.transaction do, which reads and writes the same strings.  `data`  *)
(* and `accountKey` are called input and account here as well.             *)
(***************************************************************************)
EXTENDS TransactionTypes

(* encoded: the order in which rlpEncodeForX names the fields of an object *)
(* (what is signed is also what is sent); taken and reencoded: the orders  *)
(* in which it takes them from a senderRawTransaction and writes them.     *)
Function(fields) ==
  [encoded |-> fields, taken |-> fields, reencoded |-> fields]

-----------------------------------------------------------------------------
(* transactionType/*.js *)

RlpLegacy == Function(Common \o <<"to", "value", "input">>)

RlpValueTransfer == Function(CommonTo)
RlpValueTransferMemo == Function(CommonTo \o <<"input">>)
RlpFeeDelegatedValueTransfer == Function(CommonTo)
RlpFeeDelegatedValueTransferMemo == Function(CommonTo \o <<"input">>)
RlpFeeDelegatedValueTransferWithRatio == Function(CommonTo \o <<"feeRatio">>)
RlpFeeDelegatedValueTransferMemoWithRatio ==
  Function(CommonTo \o <<"input", "feeRatio">>)

RlpAccountUpdate == Function(Common \o <<"from", "account">>)
RlpFeeDelegatedAccountUpdate == Function(Common \o <<"from", "account">>)
RlpFeeDelegatedAccountUpdateWithRatio ==
  Function(Common \o <<"from", "account", "feeRatio">>)

RlpDeploy == Function(CommonDeploy \o <<"codeFormat">>)
RlpExecution == Function(CommonTo \o <<"input">>)
RlpFeeDelegatedDeploy == Function(CommonDeploy \o <<"codeFormat">>)
RlpFeeDelegatedDeployWithRatio ==
  Function(CommonDeploy \o <<"feeRatio", "codeFormat">>)
RlpFeeDelegatedExecution == Function(CommonTo \o <<"input">>)
RlpFeeDelegatedExecutionWithRatio == Function(CommonTo \o <<"input", "feeRatio">>)

RlpCancel == Function(Common \o <<"from">>)
RlpFeeDelegatedCancel == Function(Common \o <<"from">>)
RlpFeeDelegatedCancelWithRatio == Function(Common \o <<"from", "feeRatio">>)

RlpChainDataAnchoring == Function(Common \o <<"from", "input">>)

(* encodeRLPByTxType *)
Functions ==
  [LegacyTransaction |-> RlpLegacy,
   ValueTransfer |-> RlpValueTransfer,
   FeeDelegatedValueTransfer |-> RlpFeeDelegatedValueTransfer,
   FeeDelegatedValueTransferWithRatio |-> RlpFeeDelegatedValueTransferWithRatio,
   ValueTransferMemo |-> RlpValueTransferMemo,
   FeeDelegatedValueTransferMemo |-> RlpFeeDelegatedValueTransferMemo,
   FeeDelegatedValueTransferMemoWithRatio |->
     RlpFeeDelegatedValueTransferMemoWithRatio,
   AccountUpdate |-> RlpAccountUpdate,
   FeeDelegatedAccountUpdate |-> RlpFeeDelegatedAccountUpdate,
   FeeDelegatedAccountUpdateWithRatio |-> RlpFeeDelegatedAccountUpdateWithRatio,
   SmartContractDeploy |-> RlpDeploy,
   FeeDelegatedSmartContractDeploy |-> RlpFeeDelegatedDeploy,
   FeeDelegatedSmartContractDeployWithRatio |-> RlpFeeDelegatedDeployWithRatio,
   SmartContractExecution |-> RlpExecution,
   FeeDelegatedSmartContractExecution |-> RlpFeeDelegatedExecution,
   FeeDelegatedSmartContractExecutionWithRatio |->
     RlpFeeDelegatedExecutionWithRatio,
   Cancel |-> RlpCancel,
   FeeDelegatedCancel |-> RlpFeeDelegatedCancel,
   FeeDelegatedCancelWithRatio |-> RlpFeeDelegatedCancelWithRatio,
   ChainDataAnchoring |-> RlpChainDataAnchoring]

(* txTypeToString: the type tags that getTxTypeStringFromRawTransaction knows. *)
LegacyKinds == DOMAIN Functions

-----------------------------------------------------------------------------
(* _decodeFromRawTransaction, in the order of its cases. *)

DecodeValueTransfers ==
  [LegacyTransaction |-> Common \o <<"to", "value", "input">>,
   ValueTransfer |-> CommonTo,
   FeeDelegatedValueTransfer |-> CommonTo,
   FeeDelegatedValueTransferWithRatio |-> CommonTo \o <<"feeRatio">>,
   ValueTransferMemo |-> CommonTo \o <<"input">>,
   FeeDelegatedValueTransferMemo |-> CommonTo \o <<"input">>,
   FeeDelegatedValueTransferMemoWithRatio |-> CommonTo \o <<"input", "feeRatio">>]

DecodeAccountUpdates ==
  [AccountUpdate |-> Common \o <<"from", "account">>,
   FeeDelegatedAccountUpdate |-> Common \o <<"from", "account">>,
   FeeDelegatedAccountUpdateWithRatio |->
     Common \o <<"from", "account", "feeRatio">>]

DecodeContracts ==
  [SmartContractDeploy |-> CommonDeploy \o <<"codeFormat">>,
   FeeDelegatedSmartContractDeploy |-> CommonDeploy \o <<"codeFormat">>,
   FeeDelegatedSmartContractDeployWithRatio |->
     CommonDeploy \o <<"feeRatio", "codeFormat">>,
   SmartContractExecution |-> CommonTo \o <<"input">>,
   FeeDelegatedSmartContractExecution |-> CommonTo \o <<"input">>,
   FeeDelegatedSmartContractExecutionWithRatio |->
     CommonTo \o <<"input", "feeRatio">>]

DecodeOthers_mistake ==
  [Cancel |-> Common \o <<"from">>,
   FeeDelegatedCancel |-> Common \o <<"from">>,
   FeeDelegatedCancelWithRatio |-> Common \o <<"from", "feeRatio">>,
   ChainDataAnchoring |-> Common \o <<"input", "from">>]
DecodeOthers ==
  [Cancel |-> Common \o <<"from">>,
   FeeDelegatedCancel |-> Common \o <<"from">>,
   FeeDelegatedCancelWithRatio |-> Common \o <<"from", "feeRatio">>,
   ChainDataAnchoring |-> Common \o <<"from", "input">>]

Decoder(kind) ==
  IF kind \in DOMAIN DecodeValueTransfers THEN DecodeValueTransfers[kind]
  ELSE IF kind \in DOMAIN DecodeAccountUpdates THEN DecodeAccountUpdates[kind]
  ELSE IF kind \in DOMAIN DecodeContracts THEN DecodeContracts[kind]
  ELSE DecodeOthers[kind]

(* The fields of a raw transaction, account keys as they are. *)
LegacyFields(kind, body) == Decode(Decoder(kind), body)

-----------------------------------------------------------------------------
(* Account keys.  parseAccountKey reads a key into an object; from it,      *)
(* resolveRawKeyToAccountKey writes three roles whatever there were.       *)
Rewritten(key) == IF key = "two roles" THEN "two roles and nil" ELSE key

(* What encodeRLPByTxType makes of an object. *)
LegacyBody(kind, fields) ==
  Encode(Functions[kind].encoded,
         [f \in DOMAIN fields |->
            IF f = "account" THEN <<f, Rewritten(fields[f][2])>> ELSE fields[f]])

(* What encodeRLPByTxType makes of a senderRawTransaction, which it reads  *)
(* by itself and whose values it leaves as they are.                       *)
LegacyReencoded(kind, body) ==
  Encode(Functions[kind].reencoded, Decode(Functions[kind].taken, body))

(* The names of the object that is read from a raw transaction.            *)
SingleKeyNames == [legacy |-> "legacyKey", fail |-> "failKey",
                   public |-> "publicKey", multisig |-> "multisig"]
KeyNames(key) ==
  IF key \in DOMAIN SingleKeyNames THEN {SingleKeyNames[key]}
  ELSE {"roleTransactionKey", "roleAccountUpdateKey"}
         \union (IF key = "three roles" THEN {"roleFeePayerKey"} ELSE {})
ObjectNames(kind, fields) ==
  {IF f = "input" THEN "data" ELSE f : f \in DOMAIN fields \ {"account"}}
    \union (IF "account" \in DOMAIN fields
            THEN KeyNames(fields["account"][2]) ELSE {})
    \union (IF Delegated(kind) THEN {"feePayer", "feePayerSignatures"} ELSE {})
=============================================================================
