---------------------------- MODULE TransactionTypes ----------------------------
(***************************************************************************)
(* The transaction types of caver.transaction: which fields an encoded     *)
(* transaction has and in which order the three parts of a class name      *)
(* them - getRLPEncoding, getCommonRLPEncodingForSignature, which yields    *)
(* what is hashed and signed, and _decode.  A value is opaque, but for the *)
(* three fields whose conversion loses something.                          *)
(*                                                                         *)
(* An operator X_mistake is X with a mistake in it that the properties of  *)
(* TransactionExchange catch.                                              *)
(***************************************************************************)
EXTENDS Sequences, SequencesExt

Positions(order, field) == {i \in DOMAIN order : order[i] = field}

(* A list of fields as an RLP list of values, and back. *)
Encode(order, fields) == [i \in DOMAIN order |-> fields[order[i]]]
Decode(order, body) ==
  [f \in ToSet(order) |-> body[CHOOSE i \in Positions(order, f) : TRUE]]

(* A type whose three parts name the fields in the same order. *)
Class(fields, delegated) ==
  [encoded |-> fields, signed |-> fields, decoded |-> fields,
   delegated |-> delegated]
Typed(fields) == Class(fields, FALSE)
FeeDelegated(fields) == Class(fields, TRUE)

Common == <<"nonce", "gasPrice", "gas">>
CommonTo == Common \o <<"to", "value", "from">>
CommonDeploy == CommonTo \o <<"input", "humanReadable">>

-----------------------------------------------------------------------------
(* The classes. *)

LegacyTransaction == Typed(Common \o <<"to", "value", "input">>)

ValueTransfer == Typed(CommonTo)
FeeDelegatedValueTransfer_mistake ==
  [FeeDelegated(CommonTo) EXCEPT
     !.signed = Common \o <<"to", "from", "value">>]
FeeDelegatedValueTransfer == FeeDelegated(CommonTo)
FeeDelegatedValueTransferWithRatio == FeeDelegated(CommonTo \o <<"feeRatio">>)

ValueTransferMemo_mistake ==
  [Typed(CommonTo \o <<"input">>) EXCEPT
     !.decoded = Common \o <<"to", "value", "input", "from">>]
ValueTransferMemo == Typed(CommonTo \o <<"input">>)
FeeDelegatedValueTransferMemo == FeeDelegated(CommonTo \o <<"input">>)
FeeDelegatedValueTransferMemoWithRatio ==
  FeeDelegated(CommonTo \o <<"input", "feeRatio">>)

AccountUpdate == Typed(Common \o <<"from", "account">>)
FeeDelegatedAccountUpdate == FeeDelegated(Common \o <<"from", "account">>)
FeeDelegatedAccountUpdateWithRatio ==
  FeeDelegated(Common \o <<"from", "account", "feeRatio">>)

SmartContractDeploy == Typed(CommonDeploy \o <<"codeFormat">>)
FeeDelegatedSmartContractDeploy == FeeDelegated(CommonDeploy \o <<"codeFormat">>)
FeeDelegatedSmartContractDeployWithRatio ==
  FeeDelegated(CommonDeploy \o <<"feeRatio", "codeFormat">>)

SmartContractExecution == Typed(CommonTo \o <<"input">>)
FeeDelegatedSmartContractExecution == FeeDelegated(CommonTo \o <<"input">>)
FeeDelegatedSmartContractExecutionWithRatio ==
  FeeDelegated(CommonTo \o <<"input", "feeRatio">>)

Cancel == Typed(Common \o <<"from">>)
FeeDelegatedCancel == FeeDelegated(Common \o <<"from">>)
FeeDelegatedCancelWithRatio == FeeDelegated(Common \o <<"from", "feeRatio">>)

ChainDataAnchoring == Typed(Common \o <<"from", "input">>)
FeeDelegatedChainDataAnchoring == FeeDelegated(Common \o <<"from", "input">>)
FeeDelegatedChainDataAnchoringWithRatio ==
  FeeDelegated(Common \o <<"from", "input", "feeRatio">>)

EthereumAccessList ==
  Typed(<<"chainId", "nonce", "gasPrice", "gas", "to", "value", "input",
          "accessList">>)
EthereumDynamicFee ==
  Typed(<<"chainId", "nonce", "maxPriorityFeePerGas", "maxFeePerGas", "gas",
          "to", "value", "input", "accessList">>)

(* The type tag of an encoded transaction and the class that decodes it.   *)
Classes ==
  [LegacyTransaction |-> LegacyTransaction,
   ValueTransfer |-> ValueTransfer,
   FeeDelegatedValueTransfer |-> FeeDelegatedValueTransfer,
   FeeDelegatedValueTransferWithRatio |-> FeeDelegatedValueTransferWithRatio,
   ValueTransferMemo |-> ValueTransferMemo,
   FeeDelegatedValueTransferMemo |-> FeeDelegatedValueTransferMemo,
   FeeDelegatedValueTransferMemoWithRatio |->
     FeeDelegatedValueTransferMemoWithRatio,
   AccountUpdate |-> AccountUpdate,
   FeeDelegatedAccountUpdate |-> FeeDelegatedAccountUpdate,
   FeeDelegatedAccountUpdateWithRatio |-> FeeDelegatedAccountUpdateWithRatio,
   SmartContractDeploy |-> SmartContractDeploy,
   FeeDelegatedSmartContractDeploy |-> FeeDelegatedSmartContractDeploy,
   FeeDelegatedSmartContractDeployWithRatio |->
     FeeDelegatedSmartContractDeployWithRatio,
   SmartContractExecution |-> SmartContractExecution,
   FeeDelegatedSmartContractExecution |-> FeeDelegatedSmartContractExecution,
   FeeDelegatedSmartContractExecutionWithRatio |->
     FeeDelegatedSmartContractExecutionWithRatio,
   Cancel |-> Cancel,
   FeeDelegatedCancel |-> FeeDelegatedCancel,
   FeeDelegatedCancelWithRatio |-> FeeDelegatedCancelWithRatio,
   ChainDataAnchoring |-> ChainDataAnchoring,
   FeeDelegatedChainDataAnchoring |-> FeeDelegatedChainDataAnchoring,
   FeeDelegatedChainDataAnchoringWithRatio |->
     FeeDelegatedChainDataAnchoringWithRatio,
   EthereumAccessList |-> EthereumAccessList,
   EthereumDynamicFee |-> EthereumDynamicFee]

Kinds == DOMAIN Classes

(* isEthereumTxType: these carry one signature and no sender. *)
EthereumKinds == {"LegacyTransaction", "EthereumAccessList", "EthereumDynamicFee"}

Delegated(kind) == Classes[kind].delegated
FieldsOf(kind) == ToSet(Classes[kind].encoded)
WithRatio(kind) == "feeRatio" \in FieldsOf(kind)

-----------------------------------------------------------------------------
(* What a conversion does to a value. *)

(* _decode of the deploy types looks for 0x1 where true is encoded as 0x01. *)
DecodedDeploy(fields) ==
  [f \in DOMAIN fields |->
     IF f = "humanReadable" THEN <<f, "false">> ELSE fields[f]]

(* The constructor of an Ethereum typed transaction that is given a string *)
(* decodes it but for its access list, which decode adds by itself.        *)
ConstructedTyped(fields) ==
  [f \in DOMAIN fields |->
     IF f = "accessList" THEN <<f, "empty">> ELSE fields[f]]

(* decode of a class, and create with an encoded transaction. *)
Decoded(kind, body) == DecodedDeploy(Decode(Classes[kind].decoded, body))
Created(kind, body) == ConstructedTyped(Decoded(kind, body))

(* What is hashed and signed, without the chainId that all share. *)
SigningPayload(kind, fields) ==
  <<kind, Encode(Classes[kind].signed, fields), "sender">>
FeePayerSigningPayload(kind, fields, payer) ==
  <<kind, Encode(Classes[kind].signed, fields), payer>>
=============================================================================
