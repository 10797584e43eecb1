------------------------ MODULE TransactionExchangeProofs ------------------------
(***************************************************************************)
(* Proofs about TransactionExchange, for any number of keys and of         *)
(* encodings in circulation.                                               *)
(***************************************************************************)
EXTENDS TransactionExchange, FiniteSetTheorems, TLAPS

-----------------------------------------------------------------------------
(* Sequences as sets. *)

(* What is added to a list of fields is added to their set.                *)
LEMMA ToSetOneAdded ==
  ASSUME NEW S, NEW s \in Seq(S), NEW a
  PROVE  ToSet(s \o <<a>>) = ToSet(s) \union {a}
<1>1. /\ Len(s) \in Nat /\ DOMAIN s = 1 .. Len(s)
      /\ DOMAIN (s \o <<a>>) = 1 .. Len(s) + 1
      /\ (s \o <<a>>)[Len(s) + 1] = a
      /\ \A i \in DOMAIN s : (s \o <<a>>)[i] = s[i]
  OBVIOUS
<1>2. QED
  BY <1>1 DEF ToSet

(* The same of two. *)
LEMMA ToSetTwoAdded ==
  ASSUME NEW S, NEW s \in Seq(S), NEW a, NEW b
  PROVE  ToSet(s \o <<a, b>>) = ToSet(s) \union {a, b}
<1>1. /\ Len(s) \in Nat /\ DOMAIN s = 1 .. Len(s)
      /\ DOMAIN (s \o <<a, b>>) = 1 .. Len(s) + 2
      /\ (s \o <<a, b>>)[Len(s) + 1] = a /\ (s \o <<a, b>>)[Len(s) + 2] = b
      /\ \A i \in DOMAIN s : (s \o <<a, b>>)[i] = s[i]
  OBVIOUS
<1>2. QED
  BY <1>1 DEF ToSet

(* The same of three. *)
LEMMA ToSetThreeAdded ==
  ASSUME NEW S, NEW s \in Seq(S), NEW a, NEW b, NEW c
  PROVE  ToSet(s \o <<a, b, c>>) = ToSet(s) \union {a, b, c}
<1>1. /\ Len(s) \in Nat /\ DOMAIN s = 1 .. Len(s)
      /\ DOMAIN (s \o <<a, b, c>>) = 1 .. Len(s) + 3
      /\ (s \o <<a, b, c>>)[Len(s) + 1] = a
      /\ (s \o <<a, b, c>>)[Len(s) + 2] = b
      /\ (s \o <<a, b, c>>)[Len(s) + 3] = c
      /\ \A i \in DOMAIN s : (s \o <<a, b, c>>)[i] = s[i]
  OBVIOUS
<1>2. QED
  BY <1>1 DEF ToSet

-----------------------------------------------------------------------------
(* The types, one by one. *)

(* Type k names its fields in one order everywhere, also where             *)
(* caver.klay.accounts has it.                                             *)
Known(k, order, delegated) ==
  /\ Classes[k] = Class(order, delegated)
  /\ k \in LegacyKinds =>
       Functions[k] = Function(order) /\ Decoder(k) = order

(* All twenty-four do. *)
LEMMA AllKnown ==
  /\ Known("LegacyTransaction", Common \o <<"to", "value", "input">>, FALSE)
  /\ Known("ValueTransfer", CommonTo, FALSE)
  /\ Known("FeeDelegatedValueTransfer", CommonTo, TRUE)
  /\ Known("FeeDelegatedValueTransferWithRatio",
           CommonTo \o <<"feeRatio">>, TRUE)
  /\ Known("ValueTransferMemo", CommonTo \o <<"input">>, FALSE)
  /\ Known("FeeDelegatedValueTransferMemo", CommonTo \o <<"input">>, TRUE)
  /\ Known("FeeDelegatedValueTransferMemoWithRatio",
           CommonTo \o <<"input", "feeRatio">>, TRUE)
  /\ Known("AccountUpdate", Common \o <<"from", "account">>, FALSE)
  /\ Known("FeeDelegatedAccountUpdate", Common \o <<"from", "account">>, TRUE)
  /\ Known("FeeDelegatedAccountUpdateWithRatio",
           Common \o <<"from", "account", "feeRatio">>, TRUE)
  /\ Known("SmartContractDeploy", CommonDeploy \o <<"codeFormat">>, FALSE)
  /\ Known("FeeDelegatedSmartContractDeploy",
           CommonDeploy \o <<"codeFormat">>, TRUE)
  /\ Known("FeeDelegatedSmartContractDeployWithRatio",
           CommonDeploy \o <<"feeRatio", "codeFormat">>, TRUE)
  /\ Known("SmartContractExecution", CommonTo \o <<"input">>, FALSE)
  /\ Known("FeeDelegatedSmartContractExecution", CommonTo \o <<"input">>, TRUE)
  /\ Known("FeeDelegatedSmartContractExecutionWithRatio",
           CommonTo \o <<"input", "feeRatio">>, TRUE)
  /\ Known("Cancel", Common \o <<"from">>, FALSE)
  /\ Known("FeeDelegatedCancel", Common \o <<"from">>, TRUE)
  /\ Known("FeeDelegatedCancelWithRatio",
           Common \o <<"from", "feeRatio">>, TRUE)
  /\ Known("ChainDataAnchoring", Common \o <<"from", "input">>, FALSE)
  /\ Known("FeeDelegatedChainDataAnchoring",
           Common \o <<"from", "input">>, TRUE)
  /\ Known("FeeDelegatedChainDataAnchoringWithRatio",
           Common \o <<"from", "input", "feeRatio">>, TRUE)
  /\ Known("EthereumAccessList",
           <<"chainId", "nonce", "gasPrice", "gas", "to", "value", "input",
             "accessList">>, FALSE)
  /\ Known("EthereumDynamicFee",
           <<"chainId", "nonce", "maxPriorityFeePerGas", "maxFeePerGas", "gas",
             "to", "value", "input", "accessList">>, FALSE)
<1>1. Known("LegacyTransaction", Common \o <<"to", "value", "input">>, FALSE)
  BY DEF Known, Classes, LegacyTransaction, Typed, Functions, RlpLegacy,
       Decoder, DecodeValueTransfers
<1>2. Known("ValueTransfer", CommonTo, FALSE)
  BY DEF Known, Classes, ValueTransfer, Typed, Functions, RlpValueTransfer,
       Decoder, DecodeValueTransfers
<1>3. Known("FeeDelegatedValueTransfer", CommonTo, TRUE)
  BY DEF Known, Classes, FeeDelegatedValueTransfer, FeeDelegated, Functions,
       RlpFeeDelegatedValueTransfer, Decoder, DecodeValueTransfers
<1>4. Known("FeeDelegatedValueTransferWithRatio",
            CommonTo \o <<"feeRatio">>, TRUE)
  BY DEF Known, Classes, FeeDelegatedValueTransferWithRatio, FeeDelegated,
       Functions, RlpFeeDelegatedValueTransferWithRatio, Decoder,
       DecodeValueTransfers
<1>5. Known("ValueTransferMemo", CommonTo \o <<"input">>, FALSE)
  BY DEF Known, Classes, ValueTransferMemo, Typed, Functions,
       RlpValueTransferMemo, Decoder, DecodeValueTransfers
<1>6. Known("FeeDelegatedValueTransferMemo", CommonTo \o <<"input">>, TRUE)
  BY DEF Known, Classes, FeeDelegatedValueTransferMemo, FeeDelegated,
       Functions, RlpFeeDelegatedValueTransferMemo, Decoder,
       DecodeValueTransfers
<1>7. Known("FeeDelegatedValueTransferMemoWithRatio",
            CommonTo \o <<"input", "feeRatio">>, TRUE)
  BY DEF Known, Classes, FeeDelegatedValueTransferMemoWithRatio, FeeDelegated,
       Functions, RlpFeeDelegatedValueTransferMemoWithRatio, Decoder,
       DecodeValueTransfers
<1>8. Known("AccountUpdate", Common \o <<"from", "account">>, FALSE)
  BY DEF Known, Classes, AccountUpdate, Typed, Functions, RlpAccountUpdate,
       Decoder, DecodeValueTransfers, DecodeAccountUpdates
<1>9. Known("FeeDelegatedAccountUpdate", Common \o <<"from", "account">>, TRUE)
  BY DEF Known, Classes, FeeDelegatedAccountUpdate, FeeDelegated, Functions,
       RlpFeeDelegatedAccountUpdate, Decoder, DecodeValueTransfers,
       DecodeAccountUpdates
<1>10. Known("FeeDelegatedAccountUpdateWithRatio",
            Common \o <<"from", "account", "feeRatio">>, TRUE)
  BY DEF Known, Classes, FeeDelegatedAccountUpdateWithRatio, FeeDelegated,
       Functions, RlpFeeDelegatedAccountUpdateWithRatio, Decoder,
       DecodeValueTransfers, DecodeAccountUpdates
<1>11. Known("SmartContractDeploy", CommonDeploy \o <<"codeFormat">>, FALSE)
  BY DEF Known, Classes, SmartContractDeploy, Typed, Functions, RlpDeploy,
       Decoder, DecodeValueTransfers, DecodeAccountUpdates, DecodeContracts
<1>12. Known("FeeDelegatedSmartContractDeploy",
            CommonDeploy \o <<"codeFormat">>, TRUE)
  BY DEF Known, Classes, FeeDelegatedSmartContractDeploy, FeeDelegated,
       Functions, RlpFeeDelegatedDeploy, Decoder, DecodeValueTransfers,
       DecodeAccountUpdates, DecodeContracts
<1>13. Known("FeeDelegatedSmartContractDeployWithRatio",
            CommonDeploy \o <<"feeRatio", "codeFormat">>, TRUE)
  BY DEF Known, Classes, FeeDelegatedSmartContractDeployWithRatio,
       FeeDelegated, Functions, RlpFeeDelegatedDeployWithRatio, Decoder,
       DecodeValueTransfers, DecodeAccountUpdates, DecodeContracts
<1>14. Known("SmartContractExecution", CommonTo \o <<"input">>, FALSE)
  BY DEF Known, Classes, SmartContractExecution, Typed, Functions,
       RlpExecution, Decoder, DecodeValueTransfers, DecodeAccountUpdates,
       DecodeContracts
<1>15. Known("FeeDelegatedSmartContractExecution",
            CommonTo \o <<"input">>, TRUE)
  BY DEF Known, Classes, FeeDelegatedSmartContractExecution, FeeDelegated,
       Functions, RlpFeeDelegatedExecution, Decoder, DecodeValueTransfers,
       DecodeAccountUpdates, DecodeContracts
<1>16. Known("FeeDelegatedSmartContractExecutionWithRatio",
            CommonTo \o <<"input", "feeRatio">>, TRUE)
  BY DEF Known, Classes, FeeDelegatedSmartContractExecutionWithRatio,
       FeeDelegated, Functions, RlpFeeDelegatedExecutionWithRatio, Decoder,
       DecodeValueTransfers, DecodeAccountUpdates, DecodeContracts
<1>17. Known("Cancel", Common \o <<"from">>, FALSE)
  BY DEF Known, Classes, Cancel, Typed, Functions, RlpCancel, Decoder,
       DecodeValueTransfers, DecodeAccountUpdates, DecodeContracts,
       DecodeOthers
<1>18. Known("FeeDelegatedCancel", Common \o <<"from">>, TRUE)
  BY DEF Known, Classes, FeeDelegatedCancel, FeeDelegated, Functions,
       RlpFeeDelegatedCancel, Decoder, DecodeValueTransfers,
       DecodeAccountUpdates, DecodeContracts, DecodeOthers
<1>19. Known("FeeDelegatedCancelWithRatio",
            Common \o <<"from", "feeRatio">>, TRUE)
  BY DEF Known, Classes, FeeDelegatedCancelWithRatio, FeeDelegated, Functions,
       RlpFeeDelegatedCancelWithRatio, Decoder, DecodeValueTransfers,
       DecodeAccountUpdates, DecodeContracts, DecodeOthers
<1>20. Known("ChainDataAnchoring", Common \o <<"from", "input">>, FALSE)
  BY DEF Known, Classes, ChainDataAnchoring, Typed, Functions,
       RlpChainDataAnchoring, Decoder, DecodeValueTransfers,
       DecodeAccountUpdates, DecodeContracts, DecodeOthers
<1>21. Known("FeeDelegatedChainDataAnchoring",
            Common \o <<"from", "input">>, TRUE)
  BY DEF Known, Classes, FeeDelegatedChainDataAnchoring, FeeDelegated,
       LegacyKinds, Functions
<1>22. Known("FeeDelegatedChainDataAnchoringWithRatio",
            Common \o <<"from", "input", "feeRatio">>, TRUE)
  BY DEF Known, Classes, FeeDelegatedChainDataAnchoringWithRatio,
       FeeDelegated, LegacyKinds, Functions
<1>23. Known("EthereumAccessList",
           <<"chainId", "nonce", "gasPrice", "gas", "to", "value", "input",
             "accessList">>, FALSE)
  BY DEF Known, Classes, EthereumAccessList, Typed, LegacyKinds, Functions
<1>24. Known("EthereumDynamicFee",
            <<"chainId", "nonce", "maxPriorityFeePerGas", "maxFeePerGas", "gas",
              "to", "value", "input", "accessList">>, FALSE)
  BY DEF Known, Classes, EthereumDynamicFee, Typed, LegacyKinds, Functions
<1>25. QED
  BY <1>1, <1>2, <1>3, <1>4, <1>5, <1>6, <1>7, <1>8, <1>9, <1>10, <1>11,
       <1>12, <1>13, <1>14, <1>15, <1>16, <1>17, <1>18, <1>19, <1>20, <1>21,
       <1>22, <1>23, <1>24

KindsAndRatio ==
  {"FeeDelegatedValueTransferWithRatio", "FeeDelegatedValueTransferMemoWithRatio",
   "FeeDelegatedAccountUpdateWithRatio",
   "FeeDelegatedSmartContractDeployWithRatio",
   "FeeDelegatedSmartContractExecutionWithRatio", "FeeDelegatedCancelWithRatio",
   "FeeDelegatedChainDataAnchoringWithRatio"}
Ratio(k) == IF k \in KindsAndRatio THEN {"feeRatio"} ELSE {}

Transfers == {"ValueTransfer", "FeeDelegatedValueTransfer",
              "FeeDelegatedValueTransferWithRatio"}
Memos == {"ValueTransferMemo", "FeeDelegatedValueTransferMemo",
          "FeeDelegatedValueTransferMemoWithRatio"}
Executions == {"SmartContractExecution", "FeeDelegatedSmartContractExecution",
               "FeeDelegatedSmartContractExecutionWithRatio"}
Cancels == {"Cancel", "FeeDelegatedCancel", "FeeDelegatedCancelWithRatio"}
Anchorings == {"ChainDataAnchoring", "FeeDelegatedChainDataAnchoring",
               "FeeDelegatedChainDataAnchoringWithRatio"}

BasicNames == {"nonce", "gasPrice", "gas"}

(* The lists that the types extend, as sets. *)
LEMMA CommonNames ==
  /\ Common \in Seq(BasicNames) /\ ToSet(Common) = BasicNames
  /\ CommonTo \in Seq(BasicNames \union {"to", "value", "from"})
  /\ ToSet(CommonTo) = BasicNames \union {"to", "value", "from"}
  /\ CommonDeploy \in Seq(BasicNames \union {"to", "value", "from", "input",
                                             "humanReadable"})
  /\ ToSet(CommonDeploy) =
       BasicNames \union {"to", "value", "from", "input", "humanReadable"}
<1>1. Common \in Seq(BasicNames) /\ ToSet(Common) = BasicNames
  BY DEF Common, BasicNames, ToSet
<1>2. /\ CommonTo \in Seq(BasicNames \union {"to", "value", "from"})
      /\ ToSet(CommonTo) = BasicNames \union {"to", "value", "from"}
  <2>1. <<"to", "value", "from">> \in Seq({"to", "value", "from"})
    OBVIOUS
  <2>2. CommonTo \in Seq(BasicNames \union {"to", "value", "from"})
    BY <1>1, <2>1 DEF CommonTo
  <2>3. QED
    BY <1>1, <2>2, ToSetThreeAdded DEF CommonTo
<1>3. /\ CommonDeploy \in Seq(BasicNames \union {"to", "value", "from", "input",
                                                "humanReadable"})
      /\ ToSet(CommonDeploy) =
           BasicNames \union {"to", "value", "from", "input", "humanReadable"}
  <2>1. <<"input", "humanReadable">> \in Seq({"input", "humanReadable"})
    OBVIOUS
  <2>2. CommonDeploy \in Seq(BasicNames \union {"to", "value", "from", "input",
                                                "humanReadable"})
    BY <1>2, <2>1 DEF CommonDeploy
  <2>3. QED
    BY <1>2, <2>2, ToSetTwoAdded DEF CommonDeploy
<1>4. QED
  BY <1>1, <1>2, <1>3

(* The fields of the types. *)
LEMMA KindFields ==
  ASSUME NEW k \in Kinds
  PROVE  /\ k = "LegacyTransaction" =>
              FieldsOf(k) = BasicNames \union {"to", "value", "input"}
         /\ k \in Transfers =>
              FieldsOf(k) = BasicNames \union {"to", "value", "from"} \union Ratio(k)
         /\ k \in Memos \union Executions =>
              FieldsOf(k) = BasicNames \union {"to", "value", "from", "input"}
                              \union Ratio(k)
         /\ k \in AccountUpdates =>
              FieldsOf(k) = BasicNames \union {"from", "account"} \union Ratio(k)
         /\ k \in Deploys =>
              FieldsOf(k) = BasicNames \union
                {"to", "value", "from", "input", "humanReadable", "codeFormat"}
                  \union Ratio(k)
         /\ k \in Cancels =>
              FieldsOf(k) = BasicNames \union {"from"} \union Ratio(k)
         /\ k \in Anchorings =>
              FieldsOf(k) = BasicNames \union {"from", "input"} \union Ratio(k)
         /\ k = "EthereumAccessList" =>
              FieldsOf(k) = BasicNames \union
                {"chainId", "to", "value", "input", "accessList"}
         /\ k = "EthereumDynamicFee" =>
              FieldsOf(k) =
                {"chainId", "nonce", "maxPriorityFeePerGas", "maxFeePerGas",
                 "gas", "to", "value", "input", "accessList"}
<1>1. ASSUME NEW j, NEW o, NEW d, Known(j, o, d)
      PROVE  FieldsOf(j) = ToSet(o)
  BY <1>1 DEF Known, Class, FieldsOf
<1>2. /\ \A a : ToSet(Common \o <<a>>) = BasicNames \union {a}
      /\ \A a : ToSet(CommonTo \o <<a>>) =
                 BasicNames \union {"to", "value", "from"} \union {a}
      /\ \A a : ToSet(CommonDeploy \o <<a>>) =
                 BasicNames \union {"to", "value", "from", "input", "humanReadable"}
                   \union {a}
  BY CommonNames, ToSetOneAdded
<1>3. /\ \A a, b : ToSet(Common \o <<a, b>>) = BasicNames \union {a, b}
      /\ \A a, b : ToSet(CommonTo \o <<a, b>>) =
                    BasicNames \union {"to", "value", "from"} \union {a, b}
      /\ \A a, b : ToSet(CommonDeploy \o <<a, b>>) =
                    BasicNames \union {"to", "value", "from", "input",
                                      "humanReadable"} \union {a, b}
  BY CommonNames, ToSetTwoAdded
<1>4. \A a, b, c : ToSet(Common \o <<a, b, c>>) = BasicNames \union {a, b, c}
  BY CommonNames, ToSetThreeAdded
<1>5. k = "LegacyTransaction" =>
        FieldsOf(k) = BasicNames \union {"to", "value", "input"}
  <2>1. FieldsOf("LegacyTransaction") =
          ToSet(Common \o <<"to", "value", "input">>)
    BY <1>1, AllKnown
  <2>2. QED
    BY <2>1, <1>4
<1>6. k \in Transfers =>
        FieldsOf(k) = BasicNames \union {"to", "value", "from"} \union Ratio(k)
  <2>1. /\ FieldsOf("ValueTransfer") = ToSet(CommonTo)
        /\ FieldsOf("FeeDelegatedValueTransfer") = ToSet(CommonTo)
        /\ FieldsOf("FeeDelegatedValueTransferWithRatio") =
             ToSet(CommonTo \o <<"feeRatio">>)
    BY <1>1, AllKnown
  <2>2. QED
    BY <2>1, <1>2, CommonNames DEF Transfers, Ratio, KindsAndRatio
<1>7. k \in Memos \union Executions =>
        FieldsOf(k) = BasicNames \union {"to", "value", "from", "input"}
                        \union Ratio(k)
  <2>1. /\ FieldsOf("ValueTransferMemo") = ToSet(CommonTo \o <<"input">>)
        /\ FieldsOf("FeeDelegatedValueTransferMemo") = ToSet(CommonTo \o <<"input">>)
        /\ FieldsOf("FeeDelegatedValueTransferMemoWithRatio") =
             ToSet(CommonTo \o <<"input", "feeRatio">>)
        /\ FieldsOf("SmartContractExecution") = ToSet(CommonTo \o <<"input">>)
        /\ FieldsOf("FeeDelegatedSmartContractExecution") =
             ToSet(CommonTo \o <<"input">>)
        /\ FieldsOf("FeeDelegatedSmartContractExecutionWithRatio") =
             ToSet(CommonTo \o <<"input", "feeRatio">>)
    BY <1>1, AllKnown
  <2>2. QED
    BY <2>1, <1>2, <1>3 DEF Memos, Executions, Ratio, KindsAndRatio
<1>8. k \in AccountUpdates =>
        FieldsOf(k) = BasicNames \union {"from", "account"} \union Ratio(k)
  <2>1. /\ FieldsOf("AccountUpdate") = ToSet(Common \o <<"from", "account">>)
        /\ FieldsOf("FeeDelegatedAccountUpdate") =
             ToSet(Common \o <<"from", "account">>)
        /\ FieldsOf("FeeDelegatedAccountUpdateWithRatio") =
             ToSet(Common \o <<"from", "account", "feeRatio">>)
    BY <1>1, AllKnown
  <2>2. QED
    BY <2>1, <1>3, <1>4 DEF AccountUpdates, Ratio, KindsAndRatio
<1>9. k \in Deploys =>
        FieldsOf(k) = BasicNames \union
          {"to", "value", "from", "input", "humanReadable", "codeFormat"}
            \union Ratio(k)
  <2>1. /\ FieldsOf("SmartContractDeploy") = ToSet(CommonDeploy \o <<"codeFormat">>)
        /\ FieldsOf("FeeDelegatedSmartContractDeploy") =
             ToSet(CommonDeploy \o <<"codeFormat">>)
        /\ FieldsOf("FeeDelegatedSmartContractDeployWithRatio") =
             ToSet(CommonDeploy \o <<"feeRatio", "codeFormat">>)
    BY <1>1, AllKnown
  <2>2. QED
    BY <2>1, <1>2, <1>3 DEF Deploys, Ratio, KindsAndRatio
<1>10. k \in Cancels => FieldsOf(k) = BasicNames \union {"from"} \union Ratio(k)
  <2>1. /\ FieldsOf("Cancel") = ToSet(Common \o <<"from">>)
        /\ FieldsOf("FeeDelegatedCancel") = ToSet(Common \o <<"from">>)
        /\ FieldsOf("FeeDelegatedCancelWithRatio") =
             ToSet(Common \o <<"from", "feeRatio">>)
    BY <1>1, AllKnown
  <2>2. QED
    BY <2>1, <1>2, <1>3 DEF Cancels, Ratio, KindsAndRatio
<1>11. k \in Anchorings =>
         FieldsOf(k) = BasicNames \union {"from", "input"} \union Ratio(k)
  <2>1. /\ FieldsOf("ChainDataAnchoring") = ToSet(Common \o <<"from", "input">>)
        /\ FieldsOf("FeeDelegatedChainDataAnchoring") =
             ToSet(Common \o <<"from", "input">>)
        /\ FieldsOf("FeeDelegatedChainDataAnchoringWithRatio") =
             ToSet(Common \o <<"from", "input", "feeRatio">>)
    BY <1>1, AllKnown
  <2>2. QED
    BY <2>1, <1>3, <1>4 DEF Anchorings, Ratio, KindsAndRatio
<1>12. k = "EthereumAccessList" =>
         FieldsOf(k) = BasicNames \union
           {"chainId", "to", "value", "input", "accessList"}
  <2>1. FieldsOf("EthereumAccessList") =
          ToSet(<<"chainId", "nonce", "gasPrice", "gas", "to", "value", "input",
                  "accessList">>)
    BY <1>1, AllKnown
  <2>2. QED
    BY <2>1 DEF ToSet, BasicNames
<1>13. k = "EthereumDynamicFee" =>
         FieldsOf(k) =
           {"chainId", "nonce", "maxPriorityFeePerGas", "maxFeePerGas",
            "gas", "to", "value", "input", "accessList"}
  <2>1. FieldsOf("EthereumDynamicFee") =
          ToSet(<<"chainId", "nonce", "maxPriorityFeePerGas", "maxFeePerGas",
                  "gas", "to", "value", "input", "accessList">>)
    BY <1>1, AllKnown
  <2>2. QED
    BY <2>1 DEF ToSet
<1>14. QED
  BY <1>5, <1>6, <1>7, <1>8, <1>9, <1>10, <1>11, <1>12, <1>13

DelegatedKinds ==
  {"FeeDelegatedValueTransfer", "FeeDelegatedValueTransferWithRatio",
   "FeeDelegatedValueTransferMemo", "FeeDelegatedValueTransferMemoWithRatio",
   "FeeDelegatedAccountUpdate", "FeeDelegatedAccountUpdateWithRatio",
   "FeeDelegatedSmartContractDeploy", "FeeDelegatedSmartContractDeployWithRatio",
   "FeeDelegatedSmartContractExecution",
   "FeeDelegatedSmartContractExecutionWithRatio",
   "FeeDelegatedCancel", "FeeDelegatedCancelWithRatio",
   "FeeDelegatedChainDataAnchoring", "FeeDelegatedChainDataAnchoringWithRatio"}

(* The types there are, and those that have a fee payer.                   *)
LEMMA KindNames ==
  /\ Kinds = {"LegacyTransaction", "EthereumAccessList", "EthereumDynamicFee"}
               \union Transfers \union Memos \union Executions
               \union AccountUpdates \union Deploys \union Cancels
               \union Anchorings
  /\ LegacyKinds = Kinds \ {"FeeDelegatedChainDataAnchoring",
                            "FeeDelegatedChainDataAnchoringWithRatio",
                            "EthereumAccessList", "EthereumDynamicFee"}
  /\ LegacyKinds = LegacyTxTypes
  /\ \A k \in Kinds :
       Delegated(k) \in BOOLEAN /\ (Delegated(k) <=> k \in DelegatedKinds)
<1>1. Kinds = {"LegacyTransaction", "EthereumAccessList", "EthereumDynamicFee"}
                \union Transfers \union Memos \union Executions
                \union AccountUpdates \union Deploys \union Cancels
                \union Anchorings
  BY DEF Kinds, Classes, Transfers, Memos, Executions, AccountUpdates, Deploys,
         Cancels, Anchorings
<1>2. LegacyKinds = Kinds \ {"FeeDelegatedChainDataAnchoring",
                             "FeeDelegatedChainDataAnchoringWithRatio",
                             "EthereumAccessList", "EthereumDynamicFee"}
  BY DEF LegacyKinds, Functions, Kinds, Classes
<1>3. LegacyKinds = LegacyTxTypes
  BY <1>2 DEF LegacyTxTypes
<1>4. ASSUME NEW k \in Kinds
      PROVE  Delegated(k) \in BOOLEAN /\ (Delegated(k) <=> k \in DelegatedKinds)
  <2>1. ASSUME NEW j, NEW o, NEW d, Known(j, o, d)
        PROVE  Delegated(j) = d
    BY <2>1 DEF Known, Class, Delegated
  <2>2. CASE k \in DelegatedKinds
    <3>1. Delegated(k) = TRUE
      BY <2>1, <2>2, AllKnown DEF DelegatedKinds
    <3>2. QED
      BY <2>2, <3>1
  <2>3. CASE k \notin DelegatedKinds
    <3>1. k \in {"LegacyTransaction", "ValueTransfer", "ValueTransferMemo",
                 "AccountUpdate", "SmartContractDeploy",
                 "SmartContractExecution", "Cancel", "ChainDataAnchoring",
                 "EthereumAccessList", "EthereumDynamicFee"}
      BY <2>3, <1>1 DEF DelegatedKinds, Transfers, Memos, Executions,
         AccountUpdates, Deploys, Cancels, Anchorings
    <3>2. Delegated(k) = FALSE
      BY <2>1, <3>1, AllKnown
    <3>3. QED
      BY <2>3, <3>2
  <2>4. QED
    BY <2>2, <2>3
<1>5. QED
  BY <1>1, <1>2, <1>3, <1>4

-----------------------------------------------------------------------------
(* Encoding and decoding. *)

(* What is encoded can be decoded, and encodes to the same again.          *)
LEMMA DecodeEncode ==
  ASSUME NEW o, NEW e
  PROVE  /\ Decode(o, Encode(o, e)) = [f \in ToSet(o) |-> e[f]]
         /\ Encode(o, Decode(o, Encode(o, e))) = Encode(o, e)
<1>1. ASSUME NEW f \in ToSet(o)
      PROVE  Encode(o, e)[CHOOSE i \in Positions(o, f) : TRUE] = e[f]
  <2>1. PICK i \in DOMAIN o : o[i] = f
    BY DEF ToSet
  <2>2. (CHOOSE j \in Positions(o, f) : TRUE) \in Positions(o, f)
    BY <2>1 DEF Positions
  <2>3. QED
    BY <2>2 DEF Positions, Encode
<1>2. Decode(o, Encode(o, e)) = [f \in ToSet(o) |-> e[f]]
  BY <1>1 DEF Decode
<1>3. \A i \in DOMAIN o : o[i] \in ToSet(o)
  BY DEF ToSet
<1>4. QED
  BY <1>2, <1>3 DEF Encode

(* The order in which type k names its fields. *)
Order(k) == Classes[k].encoded

(* It is the only one. *)
LEMMA OneOrder ==
  ASSUME NEW k \in Kinds
  PROVE  /\ Classes[k].signed = Order(k) /\ Classes[k].decoded = Order(k)
         /\ FieldsOf(k) = ToSet(Order(k))
         /\ k \in LegacyKinds =>
              /\ Functions[k].encoded = Order(k) /\ Functions[k].taken = Order(k)
              /\ Functions[k].reencoded = Order(k)
              /\ Decoder(k) = Order(k)
<1>1. PICK o, d : Known(k, o, d)
  <2>1. CASE k \in {"LegacyTransaction", "EthereumAccessList", "EthereumDynamicFee"}
    BY <2>1, AllKnown
  <2>2. CASE k \in Transfers \union Memos
    BY <2>2, AllKnown DEF Transfers, Memos
  <2>3. CASE k \in AccountUpdates \union Deploys
    BY <2>3, AllKnown DEF AccountUpdates, Deploys
  <2>4. CASE k \in Executions \union Cancels \union Anchorings
    BY <2>4, AllKnown DEF Executions, Cancels, Anchorings
  <2>5. QED
    BY <2>1, <2>2, <2>3, <2>4, KindNames
<1>2. Order(k) = o /\ Classes[k].signed = o /\ Classes[k].decoded = o
  BY <1>1 DEF Known, Class, Order
<1>3. k \in LegacyKinds =>
        /\ Functions[k].encoded = o /\ Functions[k].taken = o
        /\ Functions[k].reencoded = o /\ Decoder(k) = o
  BY <1>1 DEF Known, Function
<1>4. FieldsOf(k) = ToSet(Order(k))
  BY DEF FieldsOf, Order
<1>5. QED
  BY <1>2, <1>3, <1>4

-----------------------------------------------------------------------------
(* Transactions of a type, and what happens to them. *)

(* e is a transaction of type k: documents are, and what                   *)
(* caver.klay.accounts makes of them.                                      *)
Transaction(k, e) ==
  /\ e = [f \in FieldsOf(k) |-> <<f, e[f][2]>>]
  /\ "humanReadable" \in FieldsOf(k) => e["humanReadable"][2] \in {"true", "false"}
  /\ "account" \in FieldsOf(k) =>
       e["account"][2] \in AccountKeys \union {"two roles and nil"}
  /\ "accessList" \in FieldsOf(k) => e["accessList"][2] \in {"empty", "some"}

Rewrite(fields) ==
  [f \in DOMAIN fields |->
     IF f = "account" THEN <<f, Rewritten(fields[f][2])>> ELSE fields[f]]

(* The documents in circulation are transactions. *)
LEMMA DocumentsAreTransactions ==
  ASSUME NEW k \in Kinds, NEW d \in Documents(k), NEW e \in {d} \union Variants(d)
  PROVE  Transaction(k, e)
<1>1. /\ d = [f \in FieldsOf(k) |-> <<f, d[f][2]>>]
      /\ "humanReadable" \in FieldsOf(k) => d["humanReadable"][2] \in {"true", "false"}
      /\ "account" \in FieldsOf(k) => d["account"][2] \in AccountKeys
      /\ "accessList" \in FieldsOf(k) => d["accessList"][2] \in {"empty", "some"}
  <2>1. PICK a \in AccountKeys, h \in {"true", "false"}, l \in {"empty", "some"} :
          d = Document(k, [account |-> a, humanReadable |-> h, accessList |-> l])
    BY DEF Documents
  <2>2. QED
    BY <2>1 DEF Document
<1>2. CASE e = d
  BY <1>1, <1>2 DEF Transaction
<1>3. CASE e \in Variants(d)
  <2>1. PICK f \in DOMAIN d : \E v \in Values(f) : e = [d EXCEPT ![f] = <<f, v>>]
    BY <1>3 DEF Variants
  <2>2. PICK v \in Values(f) : e = [d EXCEPT ![f] = <<f, v>>]
    BY <2>1
  <2>3. /\ f = "humanReadable" => v \in {"true", "false"}
        /\ f = "account" => v \in AccountKeys
        /\ f = "accessList" => v \in {"empty", "some"}
    BY <2>2 DEF Values
  <2>4. /\ e = [g \in FieldsOf(k) |-> IF g = f THEN <<f, v>> ELSE d[g]]
        /\ e = [g \in FieldsOf(k) |-> <<g, e[g][2]>>]
    BY <1>1, <2>1, <2>2
  <2>5. e[f] = <<f, v>> /\ \A g \in FieldsOf(k) \ {f} : e[g] = d[g]
    BY <1>1, <2>1, <2>4
  <2>6. QED
    BY <1>1, <2>3, <2>4, <2>5 DEF Transaction
<1>4. QED
  BY <1>2, <1>3

(* And so is what caver.klay.accounts makes of one.                        *)
LEMMA RewriteIsTransaction ==
  ASSUME NEW k \in Kinds, NEW e, Transaction(k, e)
  PROVE  /\ Transaction(k, Rewrite(e))
         /\ e["account"][2] # "two roles" \/ "account" \notin FieldsOf(k) =>
              Rewrite(e) = e
<1>1. /\ Rewrite(e) = [f \in FieldsOf(k) |->
           IF f = "account" THEN <<f, Rewritten(e[f][2])>> ELSE e[f]]
      /\ e = [f \in FieldsOf(k) |-> <<f, e[f][2]>>]
  BY DEF Rewrite, Transaction
<1>2. Rewrite(e) = [f \in FieldsOf(k) |-> <<f, Rewrite(e)[f][2]>>]
  BY <1>1
<1>3. "account" \in FieldsOf(k) =>
        Rewrite(e)["account"][2] \in AccountKeys \union {"two roles and nil"}
  <2>1. "account" \in FieldsOf(k) =>
          Rewrite(e)["account"] = <<"account", Rewritten(e["account"][2])>>
    BY <1>1
  <2>2. "account" \in FieldsOf(k) =>
          Rewritten(e["account"][2]) \in AccountKeys \union {"two roles and nil"}
    BY DEF Transaction, Rewritten
  <2>3. "account" \in FieldsOf(k) =>
          Rewrite(e)["account"][2] = Rewritten(e["account"][2])
    BY <2>1
  <2>4. QED
    BY <2>2, <2>3
<1>4. \A f \in FieldsOf(k) \ {"account"} : Rewrite(e)[f] = e[f]
  BY <1>1
<1>5. ASSUME e["account"][2] # "two roles" \/ "account" \notin FieldsOf(k)
      PROVE  Rewrite(e) = e
  <2>1. \A f \in FieldsOf(k) : Rewrite(e)[f] = e[f]
    BY <1>1, <1>4, <1>5 DEF Rewritten
  <2>2. QED
    BY <1>1, <2>1
<1>6. QED
  BY <1>2, <1>3, <1>4, <1>5 DEF Transaction

(* Both APIs read from an encoding the transaction that is encoded, but    *)
(* for the values that their conversions lose.                             *)
LEMMA Reading ==
  ASSUME NEW k \in Kinds, NEW e, Transaction(k, e),
         NEW body, body = Encode(Order(k), e)
  PROVE  /\ Decode(Classes[k].decoded, body) = e
         /\ Decode(Classes[k].encoded, body) = e
         /\ k \in LegacyKinds =>
              /\ LegacyFields(k, body) = e
              /\ LegacyReencoded(k, body) = body
              /\ LegacyBody(k, e) = Encode(Order(k), Rewrite(e))
<1>1. Decode(Order(k), body) = e
  <2>1. Decode(Order(k), body) = [f \in FieldsOf(k) |-> e[f]]
    BY DecodeEncode, OneOrder
  <2>2. QED
    BY <2>1 DEF Transaction
<1>2. Encode(Order(k), Decode(Order(k), body)) = body
  BY DecodeEncode
<1>3. k \in LegacyKinds => LegacyFields(k, body) = e
  BY <1>1, OneOrder DEF LegacyFields
<1>4. k \in LegacyKinds => LegacyReencoded(k, body) = body
  BY <1>2, OneOrder DEF LegacyReencoded
<1>5. k \in LegacyKinds => LegacyBody(k, e) = Encode(Order(k), Rewrite(e))
  BY OneOrder DEF LegacyBody, Rewrite
<1>6. Order(k) = Classes[k].encoded /\ Order(k) = Classes[k].decoded
  BY OneOrder DEF Order
<1>7. QED
  BY <1>1, <1>3, <1>4, <1>5, <1>6

(* The three conversions that lose something leave the rest alone.         *)
LEMMA Losing ==
  ASSUME NEW k \in Kinds, NEW e, Transaction(k, e)
  PROVE  /\ ~(k \in Deploys /\ e["humanReadable"][2] = "true") =>
              DecodedDeploy(e) = e
         /\ "accessList" \notin FieldsOf(k) \/ e["accessList"][2] # "some" =>
              ConstructedTyped(e) = e
<1>1. "humanReadable" \in FieldsOf(k) <=> k \in Deploys
  BY KindFields, KindNames DEF BasicNames, Ratio, Transfers, Memos, Executions,
     AccountUpdates, Deploys, Cancels, Anchorings
<1>2. e = [f \in FieldsOf(k) |-> <<f, e[f][2]>>]
  BY DEF Transaction
<1>3. ASSUME ~(k \in Deploys /\ e["humanReadable"][2] = "true")
      PROVE  DecodedDeploy(e) = e
  <2>1. "humanReadable" \in FieldsOf(k) => e["humanReadable"][2] = "false"
    BY <1>1, <1>3 DEF Transaction
  <2>2. \A f \in FieldsOf(k) :
          (IF f = "humanReadable" THEN <<f, "false">> ELSE e[f]) = e[f]
    BY <1>2, <2>1
  <2>3. QED
    BY <1>2, <2>2 DEF DecodedDeploy
<1>4. ASSUME "accessList" \notin FieldsOf(k) \/ e["accessList"][2] # "some"
      PROVE  ConstructedTyped(e) = e
  <2>1. "accessList" \in FieldsOf(k) => e["accessList"][2] = "empty"
    BY <1>4 DEF Transaction
  <2>2. \A f \in FieldsOf(k) :
          (IF f = "accessList" THEN <<f, "empty">> ELSE e[f]) = e[f]
    BY <1>2, <2>1
  <2>3. QED
    BY <1>2, <2>2 DEF ConstructedTyped
<1>5. QED
  BY <1>3, <1>4

-----------------------------------------------------------------------------
(* The inductive invariant: what goes round is a document, or what         *)
(* caver.klay.accounts made of one, signed as it stands.                   *)

DocumentsOK ==
  /\ kind \in Kinds
  /\ documents \subseteq UNION {{d} \union Variants(d) : d \in Documents(kind)}

Rewritings == {Rewrite(d) : d \in {e \in documents : kind \in LegacyKinds}}
Going == documents \union Rewritings

RawOK(r) ==
  /\ r = Raw(r.body, r.signatures, r.payer, r.payerSignatures)
  /\ \E e \in Going : r.body = Encode(Order(kind), e)
  /\ r.payer \in {NoPayer} \union (IF Delegated(kind) THEN {FeePayer} ELSE {})
  /\ \A s \in r.signatures :
       \E key \in Keys : s = SignatureOver(key, NodePayload(r.body))
  /\ \A s \in r.payerSignatures :
       s = SignatureOver(FeePayer, NodeFeePayerPayload(r.body, FeePayer))
  /\ r.payerSignatures # {} => r.payer = FeePayer

ExchangeInv == DocumentsOK /\ \A r \in raws : RawOK(r)

(* What goes round are transactions, and so is what may go round next.     *)
LEMMA GoingTransactions ==
  ASSUME DocumentsOK
  PROVE  /\ \A e \in Going : Transaction(kind, e)
         /\ kind \in LegacyKinds => \A d \in documents : Rewrite(d) \in Going
<1>1. ASSUME NEW e \in documents
      PROVE  Transaction(kind, e)
  <2>1. PICK d \in Documents(kind) : e \in {d} \union Variants(d)
    BY DEF DocumentsOK
  <2>2. QED
    BY <2>1, DocumentsAreTransactions DEF DocumentsOK
<1>2. \A d \in documents : Transaction(kind, Rewrite(d))
  BY <1>1, RewriteIsTransaction DEF DocumentsOK
<1>3. QED
  BY <1>1, <1>2 DEF Going, Rewritings

(* What an encoding in circulation is the encoding of.                     *)
LEMMA Content ==
  ASSUME DocumentsOK, NEW r, RawOK(r)
  PROVE  \E e \in Going :
           /\ Transaction(kind, e)
           /\ r.body = Encode(Order(kind), e)
           /\ \A f : ValueOf(r.body, f) =
                       IF f \in FieldsOf(kind) THEN e[f][2] ELSE "none"
           /\ Decoded(kind, r.body) = DecodedDeploy(e)
           /\ ~LosesByDecode(r.body) => Decoded(kind, r.body) = e
           /\ ~LosesByDecode(r.body) /\ ~LosesByCreate(r.body) =>
                Created(kind, r.body) = e
           /\ kind \in LegacyKinds =>
                /\ LegacyFields(kind, r.body) = e
                /\ LegacyReencoded(kind, r.body) = r.body
                /\ ~LosesByRewriting(r.body) => LegacyBody(kind, e) = r.body
<1>1. PICK e \in Going : r.body = Encode(Order(kind), e)
  BY DEF RawOK
<1>2. kind \in Kinds /\ Transaction(kind, e)
  BY GoingTransactions DEF DocumentsOK
<1>3. /\ Decode(Classes[kind].decoded, r.body) = e
      /\ Decode(Classes[kind].encoded, r.body) = e
      /\ kind \in LegacyKinds =>
           /\ LegacyFields(kind, r.body) = e
           /\ LegacyReencoded(kind, r.body) = r.body
           /\ LegacyBody(kind, e) = Encode(Order(kind), Rewrite(e))
  BY <1>1, <1>2, Reading
<1>4. \A f : ValueOf(r.body, f) =
               IF f \in FieldsOf(kind) THEN e[f][2] ELSE "none"
  BY <1>3 DEF ValueOf
<1>5. Decoded(kind, r.body) = DecodedDeploy(e)
  BY <1>3 DEF Decoded
<1>6. "humanReadable" \in FieldsOf(kind) <=> kind \in Deploys
  BY <1>2, KindFields, KindNames DEF BasicNames, Ratio, Transfers, Memos,
     Executions, AccountUpdates, Deploys, Cancels, Anchorings
<1>7. ~LosesByDecode(r.body) => Decoded(kind, r.body) = e
  BY <1>2, <1>4, <1>5, <1>6, Losing DEF LosesByDecode
<1>8. ~LosesByCreate(r.body) => ConstructedTyped(e) = e
  BY <1>2, <1>4, Losing DEF LosesByCreate
<1>9. ~LosesByDecode(r.body) /\ ~LosesByCreate(r.body) =>
        Created(kind, r.body) = e
  BY <1>7, <1>8 DEF Created
<1>10. ~LosesByRewriting(r.body) => Rewrite(e) = e
  BY <1>2, <1>4, RewriteIsTransaction DEF LosesByRewriting
<1>11. QED
  BY <1>1, <1>2, <1>3, <1>4, <1>5, <1>7, <1>9, <1>10

(* It is enough that what goes round anew is sound.                        *)
LEMMA StaysOK ==
  ASSUME ExchangeInv, kind' = kind, documents' = documents,
         \A r \in raws' : r \in raws \/ RawOK(r)
  PROVE  ExchangeInv'
<1>1. DocumentsOK'
  BY DEF ExchangeInv, DocumentsOK
<1>2. \A r : RawOK(r) => RawOK(r)'
  BY DEF RawOK, Going, Rewritings, NodePayload, NodeFeePayerPayload
<1>3. QED
  BY <1>1, <1>2 DEF ExchangeInv

(* So it is enough that what a party passes on is.                         *)
LEMMA Published ==
  ASSUME ExchangeInv, NEW r, RawOK(r), Publish(r)
  PROVE  ExchangeInv'
  BY StaysOK DEF Publish

(* What a party has opened encodes to what it was opened from, and so does *)
(* what it signs.                                                          *)
LEMMA OpenedOK ==
  ASSUME DocumentsOK, NEW r, RawOK(r), NEW how \in {"decode", "create"},
         Openable(r, how)
  PROVE  /\ Encode(Classes[kind].encoded, Opened(r, how)) = r.body
         /\ Encode(Classes[kind].signed, Opened(r, how)) = r.body
<1>1. PICK e \in Going : r.body = Encode(Order(kind), e) /\ Opened(r, how) = e
  BY Content DEF Openable, Opened
<1>2. QED
  BY <1>1, OneOrder DEF DocumentsOK, Order

(* A transaction that is encoded anew, signed by some keys.                *)
LEMMA FreshOK ==
  ASSUME DocumentsOK, NEW e \in Going, NEW signatures, NEW payer,
         \A s \in signatures : \E key \in Keys :
           s = SignatureOver(key, NodePayload(Encode(Order(kind), e))),
         payer \in {NoPayer} \union (IF Delegated(kind) THEN {FeePayer} ELSE {})
  PROVE  RawOK(Raw(Encode(Order(kind), e), signatures, payer, {}))
  BY DEF RawOK, Raw

(* caver.transaction: create and encode. *)
LEMMA NewEncodeOK ==
  ASSUME ExchangeInv, NEW d \in documents, NEW payer \in {NoPayer, FeePayer},
         NewEncode(d, payer)
  PROVE  ExchangeInv'
<1>1. RawOK(Raw(Encode(Classes[kind].encoded, d), {}, payer, {}))
  <2>1. d \in Going /\ DocumentsOK
    BY DEF Going, ExchangeInv
  <2>2. payer \in {NoPayer} \union (IF Delegated(kind) THEN {FeePayer} ELSE {})
    BY DEF NewEncode
  <2>3. QED
    BY <2>1, <2>2, FreshOK DEF Order
<1>2. QED
  BY <1>1, Published DEF NewEncode

(* sign on what was decoded or created. *)
LEMMA NewSignOK ==
  ASSUME ExchangeInv, NEW r \in raws, NEW how \in {"decode", "create"},
         NEW key \in Keys, NewSign(r, how, key)
  PROVE  ExchangeInv'
<1> DEFINE q == Signed(r, Opened(r, how), key)
<1>1. DocumentsOK /\ RawOK(r)
  BY DEF ExchangeInv
<1>2. q = Raw(r.body,
              r.signatures \union {SignatureOver(key, NodePayload(r.body))},
              r.payer, r.payerSignatures)
  <2>1. SigningPayload(kind, Opened(r, how)) = NodePayload(r.body)
    BY <1>1, OpenedOK DEF NewSign, SigningPayload, NodePayload
  <2>2. Encode(Classes[kind].encoded, Opened(r, how)) = r.body
    BY <1>1, OpenedOK DEF NewSign
  <2>3. QED
    BY <2>1, <2>2 DEF Signed
<1>3. RawOK(q)
  BY <1>1, <1>2 DEF RawOK, Raw
<1>4. QED
  BY <1>3, Published DEF NewSign

(* sign before encoding, with a human-readable address. *)
LEMMA NewSignReadableOK ==
  ASSUME ExchangeInv, NEW d \in documents, NEW key \in Keys,
         NewSignReadable(d, key)
  PROVE  ExchangeInv'
<1> DEFINE q == Signed(Raw(<<>>, {}, NoPayer, {}), d, key)
<1>1. DocumentsOK /\ d \in Going /\ kind \in Kinds
  BY DEF ExchangeInv, Going, DocumentsOK
<1>2. SigningPayload(kind, d) = NodePayload(Encode(Order(kind), d))
  BY <1>1, OneOrder DEF SigningPayload, NodePayload
<1>3. q = Raw(Encode(Order(kind), d),
              {SignatureOver(key, NodePayload(Encode(Order(kind), d)))},
              NoPayer, {})
  BY <1>2 DEF Signed, Raw, Order
<1>4. RawOK(q)
  BY <1>1, <1>3, FreshOK
<1>5. QED
  BY <1>4, Published DEF NewSignReadable

(* signAsFeePayer on what was decoded or created. *)
LEMMA NewSignAsFeePayerOK ==
  ASSUME ExchangeInv, NEW r \in raws, NEW how \in {"decode", "create"},
         NewSignAsFeePayer(r, how)
  PROVE  ExchangeInv'
<1> DEFINE q == SignedAsFeePayer(r, Opened(r, how))
<1>1. DocumentsOK /\ RawOK(r) /\ Delegated(kind)
  BY DEF ExchangeInv, NewSignAsFeePayer
<1>2. q = Raw(r.body, r.signatures, FeePayer,
              r.payerSignatures \union
                {SignatureOver(FeePayer, NodeFeePayerPayload(r.body, FeePayer))})
  <2>1. FeePayerSigningPayload(kind, Opened(r, how), FeePayer) =
          NodeFeePayerPayload(r.body, FeePayer)
    BY <1>1, OpenedOK
       DEF NewSignAsFeePayer, FeePayerSigningPayload, NodeFeePayerPayload
  <2>2. Encode(Classes[kind].encoded, Opened(r, how)) = r.body
    BY <1>1, OpenedOK DEF NewSignAsFeePayer
  <2>3. QED
    BY <2>1, <2>2 DEF SignedAsFeePayer
<1>3. RawOK(q)
  BY <1>1, <1>2 DEF RawOK, Raw
<1>4. QED
  BY <1>3, Published DEF NewSignAsFeePayer

(* combineSignedRawTransactions: what it combines is the same transaction.  *)
LEMMA NewCombineOK ==
  ASSUME ExchangeInv, NEW x \in raws, NEW r \in raws, NewCombine(x, r)
  PROVE  ExchangeInv'
<1>1. DocumentsOK /\ RawOK(x) /\ RawOK(r)
  BY DEF ExchangeInv
<1>2. x.body = r.body
  <2>1. ~LosesByDecode(x.body) /\ ~LosesByDecode(r.body)
    BY DEF NewCombine, Openable
  <2>2. PICK d \in Going : x.body = Encode(Order(kind), d)
                            /\ Decoded(kind, x.body) = d
    BY <1>1, <2>1, Content
  <2>3. PICK e \in Going : r.body = Encode(Order(kind), e)
                            /\ Decoded(kind, r.body) = e
    BY <1>1, <2>1, Content
  <2>4. QED
    BY <2>2, <2>3 DEF NewCombine, NewCombinable
<1>3. Encode(Classes[kind].encoded, Decoded(kind, x.body)) = x.body
  BY <1>1, OpenedOK DEF NewCombine, Opened
<1>4. NewCombined(x, r) =
        Raw(x.body, x.signatures \union r.signatures,
            IF r.payer = NoPayer THEN x.payer ELSE r.payer,
            x.payerSignatures \union r.payerSignatures)
  BY <1>3 DEF NewCombined
<1>5. RawOK(NewCombined(x, r))
  BY <1>1, <1>2, <1>4, ExchangeAssumption DEF RawOK, Raw
<1>6. QED
  BY <1>5, Published DEF NewCombine

(* caver.klay.accounts: sign an object. *)
LEMMA LegacySignOK ==
  ASSUME ExchangeInv, NEW d \in documents, NEW key \in Keys, LegacySign(d, key)
  PROVE  ExchangeInv'
<1>1. DocumentsOK /\ kind \in LegacyKinds /\ kind \in Kinds
  BY DEF ExchangeInv, LegacySign, LegacyValid, DocumentsOK
<1>2. LegacyBody(kind, d) = Encode(Order(kind), Rewrite(d)) /\ Rewrite(d) \in Going
  BY <1>1, GoingTransactions, OneOrder DEF LegacyBody, Rewrite
<1> DEFINE body == LegacyBody(kind, d)
           q == Raw(body, {LegacySignature(key, body, "sender")}, NoPayer, {})
<1>3. LegacySignature(key, body, "sender") = SignatureOver(key, NodePayload(body))
  BY DEF LegacySignature, NodePayload
<1>4. RawOK(q)
  BY <1>1, <1>2, <1>3, FreshOK
<1>5. Publish(q)
  BY DEF LegacySign
<1>6. QED
  BY <1>4, <1>5, Published

(* Sign an encoded transaction. *)
LEMMA LegacyResignOK ==
  ASSUME ExchangeInv, NEW r \in raws, NEW key \in Keys, LegacyResign(r, key)
  PROVE  ExchangeInv'
<1>1. DocumentsOK /\ RawOK(r) /\ kind \in LegacyKinds
  BY DEF ExchangeInv, LegacyResign, LegacyReadable
<1>2. LegacyBody(kind, LegacyFields(kind, r.body)) = r.body
  BY <1>1, Content DEF LegacyResign
<1>3. LegacySignature(key, r.body, "sender") = SignatureOver(key, NodePayload(r.body))
  BY DEF LegacySignature, NodePayload
<1>4. RawOK(LegacyResigned(r, key, r.body))
  BY <1>1, <1>3 DEF LegacyResigned, RawOK, Raw
<1>5. QED
  BY <1>2, <1>4, Published DEF LegacyResign

(* Sign an encoded transaction as fee payer. *)
LEMMA LegacyFeePayerSignOK ==
  ASSUME ExchangeInv, NEW r \in raws, LegacyFeePayerSign(r)
  PROVE  ExchangeInv'
<1>1. DocumentsOK /\ RawOK(r) /\ kind \in LegacyKinds /\ Delegated(kind)
  BY DEF ExchangeInv, LegacyFeePayerSign
<1>2. LegacyReencoded(kind, r.body) = r.body
  BY <1>1, Content
<1>3. LegacySignature(FeePayer, r.body, FeePayer) =
        SignatureOver(FeePayer, NodeFeePayerPayload(r.body, FeePayer))
  BY DEF LegacySignature, NodeFeePayerPayload
<1>4. RawOK(LegacyFeePayerSigned(r, r.body))
  BY <1>1, <1>3 DEF LegacyFeePayerSigned, RawOK, Raw
<1>5. QED
  BY <1>2, <1>4, Published DEF LegacyFeePayerSign

(* Sign an object as fee payer. *)
LEMMA LegacyFeePayerSignObjectOK ==
  ASSUME ExchangeInv, NEW d \in documents, LegacyFeePayerSignObject(d)
  PROVE  ExchangeInv'
<1>1. DocumentsOK /\ kind \in LegacyKinds /\ kind \in Kinds /\ Delegated(kind)
  BY DEF ExchangeInv, LegacyFeePayerSignObject, LegacyValid, DocumentsOK
<1>2. LegacyBody(kind, d) = Encode(Order(kind), Rewrite(d)) /\ Rewrite(d) \in Going
  BY <1>1, GoingTransactions, OneOrder DEF LegacyBody, Rewrite
<1> DEFINE body == LegacyBody(kind, d)
           q == LegacyFeePayerSigned(Raw(<<>>, {}, NoPayer, {}), body)
<1>3. LegacyReencoded(kind, body) = body
  BY <1>1, <1>2, Reading, GoingTransactions
<1>4. q = Raw(body, {}, FeePayer,
              {SignatureOver(FeePayer, NodeFeePayerPayload(body, FeePayer))})
  BY DEF LegacyFeePayerSigned, Raw, LegacySignature, NodeFeePayerPayload
<1> HIDE DEF body
<1>5. RawOK(Raw(body, {}, FeePayer,
                {SignatureOver(FeePayer, NodeFeePayerPayload(body, FeePayer))}))
  BY <1>1, <1>2 DEF RawOK, Raw, body
<1>6. QED
  BY <1>3, <1>4, <1>5, Published DEF LegacyFeePayerSignObject, body

(* combineSignatures. *)
LEMMA LegacyCombineOK ==
  ASSUME ExchangeInv, NEW x \in raws, NEW r \in raws, LegacyCombine(x, r)
  PROVE  ExchangeInv'
<1>1. DocumentsOK /\ RawOK(x) /\ RawOK(r) /\ kind \in LegacyKinds
  BY DEF ExchangeInv, LegacyCombine, LegacyReadable
<1>2. x.body = r.body
  <2>1. PICK d \in Going : x.body = Encode(Order(kind), d)
                            /\ LegacyFields(kind, x.body) = d
    BY <1>1, Content
  <2>2. PICK e \in Going : r.body = Encode(Order(kind), e)
                            /\ LegacyFields(kind, r.body) = e
    BY <1>1, Content
  <2>3. QED
    BY <2>1, <2>2 DEF LegacyCombine, LegacyCombinable
<1>3. LegacyBody(kind, LegacyFields(kind, x.body)) = x.body
  BY <1>1, Content DEF LegacyCombine
<1>4. LegacyCombined(x, r) =
        Raw(x.body, x.signatures \union r.signatures,
            IF r.payer # NoPayer THEN r.payer ELSE x.payer,
            IF r.payer # NoPayer THEN x.payerSignatures \union r.payerSignatures
            ELSE x.payerSignatures)
  BY <1>3 DEF LegacyCombined
<1>5. RawOK(LegacyCombined(x, r))
  BY <1>1, <1>2, <1>4, ExchangeAssumption DEF RawOK, Raw
<1>6. QED
  BY <1>5, Published DEF LegacyCombine

(* getRawTransactionWithSignatures of an object. *)
LEMMA LegacyAttachOK ==
  ASSUME ExchangeInv, NEW d \in documents, NEW r \in raws, LegacyAttach(d, r)
  PROVE  ExchangeInv'
<1>1. DocumentsOK /\ RawOK(r) /\ r.body = LegacyBody(kind, d)
  BY DEF ExchangeInv, LegacyAttach
<1>2. RawOK(Raw(r.body, r.signatures, NoPayer, {}))
  BY <1>1 DEF RawOK, Raw
<1>3. QED
  BY <1>1, <1>2, Published DEF LegacyAttach

(* getRawTransactionWithSignatures of an encoded transaction.               *)
LEMMA LegacyAttachFeePayerOK ==
  ASSUME ExchangeInv, NEW x \in raws, NEW r \in raws, LegacyAttachFeePayer(x, r)
  PROVE  ExchangeInv'
<1>1. /\ DocumentsOK /\ RawOK(x) /\ RawOK(r) /\ kind \in LegacyKinds
      /\ r.body = x.body /\ Delegated(kind)
  BY DEF ExchangeInv, LegacyAttachFeePayer, LegacyReadable
<1>2. LegacyBody(kind, LegacyFields(kind, x.body)) = x.body
  BY <1>1, Content DEF LegacyAttachFeePayer
<1>3. RawOK(Raw(x.body, x.signatures, FeePayer,
                x.payerSignatures \union r.payerSignatures))
  BY <1>1 DEF RawOK, Raw
<1>4. QED
  BY <1>2, <1>3, Published DEF LegacyAttachFeePayer

(* The invariant holds of every reachable state.                           *)
THEOREM ExchangeInvariant == Spec => []ExchangeInv
<1>1. Init => ExchangeInv
  BY DEF Init, ExchangeInv, DocumentsOK
<1>2. ASSUME ExchangeInv, [Next]_vars
      PROVE  ExchangeInv'
  <2> USE <1>2
  <2>1. CASE UNCHANGED vars
    BY <2>1, StaysOK DEF vars
  <2>2. ASSUME NEW d \in documents, NEW payer \in {NoPayer, FeePayer},
               NewEncode(d, payer)
        PROVE  ExchangeInv'
    BY <2>2, NewEncodeOK
  <2>3. ASSUME NEW d \in documents, NEW key \in Keys,
               NewSignReadable(d, key) \/ LegacySign(d, key)
        PROVE  ExchangeInv'
    BY <2>3, NewSignReadableOK, LegacySignOK
  <2>4. ASSUME NEW d \in documents, LegacyFeePayerSignObject(d)
        PROVE  ExchangeInv'
    BY <2>4, LegacyFeePayerSignObjectOK
  <2>5. ASSUME NEW d \in documents, NEW r \in raws, LegacyAttach(d, r)
        PROVE  ExchangeInv'
    BY <2>5, LegacyAttachOK
  <2>6. ASSUME NEW r \in raws, NEW key \in Keys, NEW how \in {"decode", "create"},
               NewSign(r, how, key)
        PROVE  ExchangeInv'
    BY <2>6, NewSignOK
  <2>7. ASSUME NEW r \in raws, NEW how \in {"decode", "create"},
               NewSignAsFeePayer(r, how)
        PROVE  ExchangeInv'
    BY <2>7, NewSignAsFeePayerOK
  <2>8. ASSUME NEW r \in raws, NEW key \in Keys, LegacyResign(r, key)
        PROVE  ExchangeInv'
    BY <2>8, LegacyResignOK
  <2>9. ASSUME NEW r \in raws, LegacyFeePayerSign(r)
        PROVE  ExchangeInv'
    BY <2>9, LegacyFeePayerSignOK
  <2>10. ASSUME NEW r \in raws, Discard(r)
         PROVE  ExchangeInv'
    BY <2>10, StaysOK DEF Discard
  <2>11. ASSUME NEW r \in raws, NEW x \in raws,
                NewCombine(x, r) \/ LegacyCombine(x, r)
                  \/ LegacyAttachFeePayer(x, r)
         PROVE  ExchangeInv'
    BY <2>11, NewCombineOK, LegacyCombineOK, LegacyAttachFeePayerOK
  <2>12. QED
    BY <1>2, <2>1, <2>2, <2>3, <2>4, <2>5, <2>6, <2>7, <2>8, <2>9, <2>10,
       <2>11 DEF Next
<1>3. QED
  BY <1>1, <1>2, PTL DEF Spec

-----------------------------------------------------------------------------
(* What follows from it. *)

(* Types, and that nobody signs anything but what is going round.          *)
THEOREM TypeCorrect == Spec => []TypeOK
<1>1. ASSUME ExchangeInv
      PROVE  TypeOK
  <2>1. DocumentsOK /\ kind \in Kinds
    BY <1>1 DEF ExchangeInv, DocumentsOK
  <2>2. ASSUME NEW r \in raws, NEW w \in {"sender", FeePayer}
        PROVE  <<kind, r.body, w>> \in Payloads
    <3>1. PICK e \in Going : r.body = Encode(Order(kind), e)
      BY <1>1 DEF ExchangeInv, RawOK
    <3>2. CASE e \in documents
      <4>1. r.body = Encode(Classes[kind].signed, e)
        BY <2>1, <3>1, OneOrder
      <4>2. QED
        BY <2>2, <3>2, <4>1 DEF Payloads
    <3>3. CASE e \in Rewritings
      <4>1. PICK d \in documents : kind \in LegacyKinds /\ e = Rewrite(d)
        BY <3>3 DEF Rewritings
      <4>2. r.body = LegacyBody(kind, d)
        BY <2>1, <3>1, <4>1, OneOrder DEF LegacyBody, Rewrite
      <4>3. d \in {x \in documents : kind \in LegacyKinds}
        BY <4>1
      <4>4. QED
        BY <2>2, <4>2, <4>3 DEF Payloads
    <3>4. QED
      BY <3>1, <3>2, <3>3 DEF Going
  <2>3. ASSUME NEW r \in raws
        PROVE  /\ r.signatures \subseteq Signature
               /\ r.payerSignatures \subseteq Signature
    <3>1. RawOK(r)
      BY <1>1 DEF ExchangeInv
    <3>2. NodePayload(r.body) \in Payloads
      BY <2>2 DEF NodePayload
    <3>3. NodeFeePayerPayload(r.body, FeePayer) \in Payloads
      BY <2>2 DEF NodeFeePayerPayload
    <3>4. \A key \in Keys \union {FeePayer}, p \in Payloads :
            SignatureOver(key, p) \in Signature
      BY DEF SignatureOver, Signature
    <3>5. QED
      BY <3>1, <3>2, <3>3, <3>4 DEF RawOK
  <2>4. ASSUME NEW r \in raws
        PROVE  r.payer \in {NoPayer} \union (IF Delegated(kind) THEN {FeePayer}
                                             ELSE {})
    BY <1>1 DEF ExchangeInv, RawOK
  <2>5. QED
    BY <2>1, <2>3, <2>4 DEF TypeOK, DocumentsOK
<1>2. QED
  BY <1>1, ExchangeInvariant, PTL

(* Through whichever of the two APIs and however often it is decoded and   *)
(* encoded, what goes round is one of the transactions that were made.     *)
THEOREM TransactionStaysUnchanged == Spec => []TransactionUnchanged
<1>1. ASSUME ExchangeInv
      PROVE  TransactionUnchanged
  <2>1. kind \in Kinds
    BY <1>1 DEF ExchangeInv, DocumentsOK
  <2>2. ASSUME NEW r \in raws
        PROVE  \E d \in documents :
                 \/ r.body = Encode(Classes[kind].encoded, d)
                 \/ kind \in LegacyKinds /\ r.body = LegacyBody(kind, d)
    <3>1. PICK e \in Going : r.body = Encode(Order(kind), e)
      BY <1>1 DEF ExchangeInv, RawOK
    <3>2. CASE e \in documents
      BY <3>1, <3>2 DEF Order
    <3>3. CASE e \in Rewritings
      <4>1. PICK d \in documents : kind \in LegacyKinds /\ e = Rewrite(d)
        BY <3>3 DEF Rewritings
      <4>2. r.body = LegacyBody(kind, d)
        BY <2>1, <3>1, <4>1, OneOrder DEF LegacyBody, Rewrite
      <4>3. QED
        BY <4>1, <4>2
    <3>4. QED
      BY <3>1, <3>2, <3>3 DEF Going
  <2>3. QED
    BY <2>2 DEF TransactionUnchanged
<1>2. QED
  BY <1>1, ExchangeInvariant, PTL

(* A node that takes the values as they stand in the encoding finds every  *)
(* signature made for them, whichever API each was made with.              *)
THEOREM SignaturesAlwaysCover == Spec => []SignaturesCoverTransaction
<1>1. ASSUME ExchangeInv
      PROVE  SignaturesCoverTransaction
  <2>1. ASSUME NEW r \in raws
        PROVE  /\ \A s \in r.signatures : s.over = NodePayload(r.body)
               /\ \A s \in r.payerSignatures :
                    s.over = NodeFeePayerPayload(r.body, r.payer)
    BY <1>1 DEF ExchangeInv, RawOK, SignatureOver
  <2>2. QED
    BY <2>1 DEF SignaturesCoverTransaction
<1>2. QED
  BY <1>1, ExchangeInvariant, PTL

(* Two encodings can be combined if and only if they are of the same       *)
(* transaction.                                                            *)
THEOREM CombinedIffSame == Spec => []CombinableIffSame
<1>1. ASSUME ExchangeInv
      PROVE  CombinableIffSame
  <2>1. ASSUME NEW x \in raws, NEW r \in raws,
               ~LosesByDecode(x.body), ~LosesByDecode(r.body), MaySign(x)
        PROVE  NewCombinable(x, r) <=> x.body = r.body
    <3>1. PICK d \in Going : x.body = Encode(Order(kind), d)
                              /\ Decoded(kind, x.body) = d
      BY <1>1, <2>1, Content DEF ExchangeInv
    <3>2. PICK e \in Going : r.body = Encode(Order(kind), e)
                              /\ Decoded(kind, r.body) = e
      BY <1>1, <2>1, Content DEF ExchangeInv
    <3>3. QED
      BY <2>1, <3>1, <3>2 DEF NewCombinable
  <2>2. ASSUME NEW x \in raws, NEW r \in raws, kind \in LegacyKinds
        PROVE  LegacyCombinable(x, r) <=> x.body = r.body
    <3>1. PICK d \in Going : x.body = Encode(Order(kind), d)
                              /\ LegacyFields(kind, x.body) = d
      BY <1>1, <2>2, Content DEF ExchangeInv
    <3>2. PICK e \in Going : r.body = Encode(Order(kind), e)
                              /\ LegacyFields(kind, r.body) = e
      BY <1>1, <2>2, Content DEF ExchangeInv
    <3>3. QED
      BY <2>2, <3>1, <3>2 DEF LegacyCombinable
  <2>3. QED
    BY <2>1, <2>2 DEF CombinableIffSame
<1>2. QED
  BY <1>1, ExchangeInvariant, PTL

(* A combination keeps the signatures of both and names the fee payer they *)
(* name: caver.klay.accounts drops the signatures of a fee payer when the  *)
(* second has none, and then there are none to drop.                       *)
THEOREM NothingIsLost == Spec => []NothingLost
<1>1. ASSUME ExchangeInv
      PROVE  NothingLost
  <2>1. ASSUME NEW x \in raws, NEW r \in raws
        PROVE  Keeps(NewCombined(x, r), x, r)
    BY ExchangeAssumption DEF Keeps, NewCombined, Raw
  <2>2. ASSUME NEW x \in raws, NEW r \in raws, LegacyCombinable(x, r)
        PROVE  Keeps(LegacyCombined(x, r), x, r)
    <3>1. r.payer = NoPayer => r.payerSignatures = {}
      BY <1>1, ExchangeAssumption DEF ExchangeInv, RawOK
    <3>2. QED
      BY <3>1 DEF Keeps, LegacyCombined, Raw
  <2>3. ASSUME NEW r \in raws, NEW key \in Keys
        PROVE  Keeps(LegacyResigned(r, key, r.body), r, r)
    BY DEF Keeps, LegacyResigned, Raw
  <2>4. QED
    BY <2>1, <2>2, <2>3 DEF NothingLost
<1>2. QED
  BY <1>1, ExchangeInvariant, PTL

-----------------------------------------------------------------------------
(* Validation. *)

(* data and input: one of the two, or at most one.                         *)
LEMMA Inputs ==
  ASSUME NEW P
  PROVE  /\ OneInput(P) <=> \/ "data" \in P /\ "input" \notin P
                            \/ "input" \in P /\ "data" \notin P
         /\ Cardinality(P \intersect {"data", "input"}) <= 1
              <=> ~("data" \in P /\ "input" \in P)
<1> DEFINE I == P \intersect {"data", "input"}
<1>1. /\ Cardinality({}) = 0 /\ \A x : Cardinality({x}) = 1
      /\ Cardinality({"data", "input"}) = 2
  <2>1. Cardinality({}) = 0 /\ \A x : Cardinality({x}) = 1
    BY FS_EmptySet, FS_Singleton
  <2>2. PICK S : S = {"data"} /\ IsFiniteSet(S) /\ Cardinality(S) = 1
    BY FS_Singleton, Zenon
  <2>3. "input" \notin S
    BY <2>2
  <2>4. Cardinality(S \union {"input"}) = Cardinality(S) + 1
    BY <2>2, <2>3, FS_AddElement
  <2>5. S \union {"input"} = {"data", "input"}
    BY <2>2
  <2>6. Cardinality(S \union {"input"}) = 2
    BY <2>2, <2>4
  <2>7. Cardinality({"data", "input"}) = 2
    BY <2>5, <2>6, Zenon
  <2>8. QED
    BY <2>1, <2>7, Zenon
<1>2. CASE "data" \in P /\ "input" \in P
  <2>1. I = {"data", "input"}
    BY <1>2
  <2>2. QED
    BY <1>1, <1>2, <2>1 DEF OneInput
<1>3. CASE "data" \in P /\ "input" \notin P
  <2>1. I = {"data"}
    BY <1>3
  <2>2. QED
    BY <1>1, <1>3, <2>1 DEF OneInput
<1>4. CASE "data" \notin P /\ "input" \in P
  <2>1. I = {"input"}
    BY <1>4
  <2>2. QED
    BY <1>1, <1>4, <2>1 DEF OneInput
<1>5. CASE "data" \notin P /\ "input" \notin P
  <2>1. I = {}
    BY <1>5
  <2>2. QED
    BY <1>1, <1>5, <2>1 DEF OneInput
<1>6. QED
  BY <1>2, <1>3, <1>4, <1>5

SingleKeys == AccountKeyFields \ RoleKeyFields

(* One key, or roles. *)
LEMMA AccountKeysOf ==
  ASSUME NEW P
  PROVE  /\ OneAccountKey(P) /\ Lacks(P, RoleKeyFields) =>
              \E n : P \intersect SingleKeys = {n}
         /\ \A n : P \intersect SingleKeys = {n} /\ Lacks(P, RoleKeyFields) =>
              OneAccountKey(P)
         /\ ~Lacks(P, RoleKeyFields) =>
              (OneAccountKey(P) <=> Lacks(P, SingleKeys))
<1>1. IsFiniteSet(P \intersect SingleKeys)
  <2>1. SingleKeys = {"key", "legacyKey", "publicKey", "multisig", "failKey"}
    BY DEF SingleKeys, AccountKeyFields, RoleKeyFields
  <2>2. \A S, x : IsFiniteSet(S) => IsFiniteSet(S \union {x})
    BY FS_AddElement
  <2>3. IsFiniteSet({} \union {"key"} \union {"legacyKey"} \union {"publicKey"}
                      \union {"multisig"} \union {"failKey"})
    BY <2>2, FS_EmptySet, Zenon
  <2>4. SingleKeys = {} \union {"key"} \union {"legacyKey"} \union {"publicKey"}
                       \union {"multisig"} \union {"failKey"}
    BY <2>1
  <2>5. P \intersect SingleKeys \in SUBSET SingleKeys
    OBVIOUS
  <2>6. QED
    BY <2>3, <2>4, <2>5, FS_Subset
<1>2. Cardinality(P \intersect SingleKeys) = 1
        <=> \E n : P \intersect SingleKeys = {n}
  BY <1>1, FS_Singleton
<1>3. QED
  BY <1>2 DEF OneAccountKey, Lacks, SingleKeys

Fee(k, P) ==
  IF Delegated(k) THEN FeeDelegatedFields(k, P) ELSE NonFeeDelegated(P)

(* What validation asks of each type. *)
LEMMA ValidObjectOf ==
  ASSUME NEW k \in Kinds, NEW typed, NEW P, NEW readable
  PROVE  /\ k = "LegacyTransaction" =>
              (ValidObject(k, typed, P, readable)
                 <=> Legacy(P) /\ NotAccountTransaction(P) /\ Fee(k, P))
         /\ k \in Transfers =>
              (ValidObject(k, typed, P, readable)
                 <=> ValueTransferEssential(P) /\ NotAccountTransaction(P)
                       /\ Fee(k, P))
         /\ k \in Memos =>
              (ValidObject(k, typed, P, readable)
                 <=> ValueTransferMemoEssential(P) /\ NotAccountTransaction(P)
                       /\ Fee(k, P))
         /\ k \in AccountUpdates =>
              (ValidObject(k, typed, P, readable)
                 <=> UpdateEssential(P) /\ AccountTransaction(typed, P) /\ Fee(k, P))
         /\ k \in Deploys =>
              (ValidObject(k, typed, P, readable)
                 <=> DeployEssential(typed, P, readable)
                       /\ NotAccountTransaction(P) /\ Fee(k, P))
         /\ k \in Executions =>
              (ValidObject(k, typed, P, readable)
                 <=> ExecutionEssential(P) /\ NotAccountTransaction(P) /\ Fee(k, P))
         /\ k \in Cancels =>
              (ValidObject(k, typed, P, readable)
                 <=> CancelEssential(P) /\ NotAccountTransaction(P) /\ Fee(k, P))
         /\ k \in Anchorings =>
              (ValidObject(k, typed, P, readable)
                 <=> ChainDataAnchoringEssential(P) /\ NotAccountTransaction(P)
                       /\ Fee(k, P))
         /\ k = "EthereumAccessList" =>
              (ValidObject(k, typed, P, readable)
                 <=> AccessList(P) /\ NotAccountTransaction(P) /\ Fee(k, P))
         /\ k = "EthereumDynamicFee" =>
              (ValidObject(k, typed, P, readable)
                 <=> DynamicFee(P) /\ NotAccountTransaction(P) /\ Fee(k, P))
  BY DEF ValidObject, Fee, Transfers, Memos, AccountUpdates, Deploys, Executions,
     Cancels, Anchorings

(* All types have a gas limit, and all but those of Ethereum a sender; the *)
(* fee payer is not a field, and an account has one name.                  *)
LEMMA FieldsAlways ==
  ASSUME NEW k \in Kinds
  PROVE  /\ "gas" \in FieldsOf(k)
         /\ "from" \in FieldsOf(k) <=> k \notin EthereumKinds
         /\ Lacks(FieldsOf(k), {"feePayer", "feePayerSignatures", "data"}
                                   \union AccountKeyFields)
<1>1. \A n \in Ratio(k) : n = "feeRatio"
  BY DEF Ratio
<1>2. CASE k \in EthereumKinds
  BY <1>2, KindFields DEF EthereumKinds, BasicNames, Lacks,
     AccountKeyFields
<1>3. CASE k \in Transfers \union Memos \union Executions
  BY <1>1, <1>3, KindFields DEF EthereumKinds, BasicNames, Lacks,
     AccountKeyFields, Transfers, Memos, Executions
<1>4. CASE k \in AccountUpdates \union Deploys
  BY <1>1, <1>4, KindFields DEF EthereumKinds, BasicNames, Lacks,
     AccountKeyFields, AccountUpdates, Deploys
<1>5. CASE k \in Cancels \union Anchorings
  BY <1>1, <1>5, KindFields DEF EthereumKinds, BasicNames, Lacks,
     AccountKeyFields, Cancels, Anchorings
<1>6. QED
  BY <1>2, <1>3, <1>4, <1>5, KindNames DEF EthereumKinds

(* Names that an object may have beside the fields of a transaction.       *)
PayerFields(k) == IF Delegated(k) THEN {"feePayer", "feePayerSignatures"} ELSE {}

(* The constructor of each type accepts the fields of the type, with those *)
(* of a fee payer if it has one.                                           *)
LEMMA TypedValid ==
  ASSUME NEW k \in Kinds
  PROVE  ValidParams(k, TRUE, FieldsOf(k) \union PayerFields(k), "false")
<1> DEFINE P == FieldsOf(k) \union PayerFields(k)
<1>1. Fee(k, P)
  BY KindFields, KindNames DEF Fee, FeeDelegatedFields, NonFeeDelegated, Lacks,
     FeeDelegationFields, PayerFields, WithRatio, BasicNames, Ratio,
     KindsAndRatio, DelegatedKinds, Transfers, Memos, Executions,
     AccountUpdates, Deploys, Cancels, Anchorings
<1>2. "gas" \in P /\ ("feePayerSignatures" \in P => "feePayer" \in P)
        /\ ("from" \in P \/ k \in EthereumKinds)
  <2>1. "feePayerSignatures" \notin FieldsOf(k)
    BY FieldsAlways DEF Lacks
  <2>2. "feePayerSignatures" \in P => "feePayer" \in P
    BY <2>1 DEF PayerFields
  <2>3. QED
    BY <2>2, FieldsAlways
<1>3. k \in AccountUpdates \/ NotAccountTransaction(P)
  BY KindFields, KindNames DEF NotAccountTransaction, Lacks, AccountKeyFields,
     PayerFields, BasicNames, Ratio
<1>4. ASSUME NEW n \in P
      PROVE  \/ n \in FieldsOf(k) \/ n \in {"feePayer", "feePayerSignatures"}
  BY DEF PayerFields
<1>5. FieldsOf(k) \subseteq P
  OBVIOUS
<1>6. ValidObject(k, TRUE, P, "false")
  <2> HIDE DEF P
  <2>1. CASE k = "LegacyTransaction"
    <3>1. FieldsOf(k) = BasicNames \union {"to", "value", "input"}
      BY <2>1, KindFields
    <3>2. Legacy(P)
      BY <1>4, <1>5, <3>1, Inputs DEF Legacy, SomeInput, NotTyped, Lacks,
         CodeFields, DynamicFeeFields, BasicNames, Ratio
    <3>3. QED
      BY <1>1, <1>3, <2>1, <3>2, ValidObjectOf DEF AccountUpdates
  <2>2. CASE k \in Transfers
    <3>1. FieldsOf(k) = BasicNames \union {"to", "value", "from"}
                        \union Ratio(k)
      BY <2>2, KindFields
    <3>2. ValueTransferEssential(P)
      BY <1>4, <1>5, <3>1 DEF ValueTransferEssential, NotTyped, Lacks,
         CodeFields, DynamicFeeFields, BasicNames, Ratio
    <3>3. QED
      BY <1>1, <1>3, <2>2, <3>2, ValidObjectOf DEF AccountUpdates, Transfers
  <2>3. CASE k \in Memos
    <3>1. FieldsOf(k) = BasicNames \union {"to", "value", "from", "input"}
                        \union Ratio(k)
      BY <2>3, KindFields
    <3>2. ValueTransferMemoEssential(P)
      BY <1>4, <1>5, <3>1, Inputs DEF ValueTransferMemoEssential, NotTyped,
         Lacks, CodeFields, DynamicFeeFields, BasicNames, Ratio
    <3>3. QED
      BY <1>1, <1>3, <2>3, <3>2, ValidObjectOf DEF AccountUpdates, Memos
  <2>4. CASE k \in AccountUpdates
    <3>1. FieldsOf(k) = BasicNames \union {"from", "account"} \union Ratio(k)
      BY <2>4, KindFields
    <3>2. UpdateEssential(P) /\ AccountTransaction(TRUE, P)
      BY <1>4, <1>5, <3>1 DEF UpdateEssential, AccountTransaction,
         AccountKeyFields, NotTyped, Lacks, CodeFields, DynamicFeeFields,
         BasicNames, Ratio
    <3>3. QED
      BY <1>1, <1>3, <2>4, <3>2, ValidObjectOf DEF AccountUpdates
  <2>5. CASE k \in Deploys
    <3>1. FieldsOf(k) = BasicNames \union {"to", "value", "from", "input",
                        "humanReadable", "codeFormat"} \union Ratio(k)
      BY <2>5, KindFields
    <3>2. DeployEssential(TRUE, P, "false")
      BY <1>4, <1>5, <3>1, Inputs DEF DeployEssential, NotTyped, Lacks,
         CodeFields, DynamicFeeFields, BasicNames, Ratio
    <3>3. QED
      BY <1>1, <1>3, <2>5, <3>2, ValidObjectOf DEF AccountUpdates, Deploys
  <2>6. CASE k \in Executions
    <3>1. FieldsOf(k) = BasicNames \union {"to", "value", "from", "input"}
                        \union Ratio(k)
      BY <2>6, KindFields
    <3>2. ExecutionEssential(P)
      BY <1>4, <1>5, <3>1, Inputs DEF ExecutionEssential, NotTyped, Lacks,
         CodeFields, DynamicFeeFields, BasicNames, Ratio
    <3>3. QED
      BY <1>1, <1>3, <2>6, <3>2, ValidObjectOf DEF AccountUpdates, Executions
  <2>7. CASE k \in Cancels
    <3>1. FieldsOf(k) = BasicNames \union {"from"} \union Ratio(k)
      BY <2>7, KindFields
    <3>2. CancelEssential(P)
      BY <1>4, <1>5, <3>1 DEF CancelEssential, NotTyped, Lacks, CodeFields,
         DynamicFeeFields, BasicNames, Ratio
    <3>3. QED
      BY <1>1, <1>3, <2>7, <3>2, ValidObjectOf DEF AccountUpdates, Cancels
  <2>8. CASE k \in Anchorings
    <3>1. FieldsOf(k) = BasicNames \union {"from", "input"} \union Ratio(k)
      BY <2>8, KindFields
    <3>2. ChainDataAnchoringEssential(P)
      BY <1>4, <1>5, <3>1, Inputs DEF ChainDataAnchoringEssential, NotTyped,
         Lacks, CodeFields, DynamicFeeFields, BasicNames, Ratio
    <3>3. QED
      BY <1>1, <1>3, <2>8, <3>2, ValidObjectOf DEF AccountUpdates, Anchorings
  <2>9. CASE k = "EthereumAccessList"
    <3>1. FieldsOf(k) = BasicNames \union {"chainId", "to", "value", "input",
                                          "accessList"}
      BY <2>9, KindFields
    <3>2. AccessList(P)
      BY <1>4, <1>5, <3>1, Inputs DEF AccessList, SomeInput, NotTyped, Lacks,
         CodeFields, DynamicFeeFields, BasicNames, Ratio
    <3>3. QED
      BY <1>1, <1>3, <2>9, <3>2, ValidObjectOf DEF AccountUpdates
  <2>10. CASE k = "EthereumDynamicFee"
    <3>1. FieldsOf(k) = {"chainId", "nonce", "maxPriorityFeePerGas",
                        "maxFeePerGas", "gas", "to", "value", "input", "accessList"}
      BY <2>10, KindFields
    <3>2. DynamicFee(P)
      BY <1>4, <1>5, <3>1, Inputs DEF DynamicFee, SomeInput, NotTyped, Lacks,
         CodeFields, DynamicFeeFields, BasicNames, Ratio
    <3>3. QED
      BY <1>1, <1>3, <2>10, <3>2, ValidObjectOf DEF AccountUpdates
  <2>11. QED
    BY <2>1, <2>2, <2>3, <2>4, <2>5, <2>6, <2>7, <2>8, <2>9, <2>10, KindNames
<1>7. QED
  BY <1>2, <1>6 DEF ValidParams

(* No field is ignored beside them: each that passes has another use.      *)
LEMMA TypedNothingIgnored ==
  ASSUME NEW k \in Kinds, NEW f \in AllFields \ FieldsOf(k),
         ValidParams(k, TRUE, FieldsOf(k) \union {f}, "false")
  PROVE  \/ f = "chainId" \/ (f = "from" /\ k \in EthereumKinds)
         \/ f \in {"feePayer", "feePayerSignatures"} /\ Delegated(k)
<1> DEFINE P == FieldsOf(k) \union {f}
<1>1. ValidObject(k, TRUE, P, "false") /\ f \in P
  BY DEF ValidParams
<1>2. Fee(k, P)
  BY <1>1 DEF ValidObject, Fee
<1>3. f = "feeRatio" => f \in FieldsOf(k)
  BY <1>2 DEF Fee, FeeDelegatedFields, NonFeeDelegated, Lacks, WithRatio,
     FeeDelegationFields
<1>4. f \in {"feePayer", "feePayerSignatures"} => Delegated(k)
  BY <1>2 DEF Fee, NonFeeDelegated, Lacks, FeeDelegationFields
<1>5. k \notin AccountUpdates => f \notin AccountKeyFields \union {"account"}
  BY <1>1 DEF ValidObject, NotAccountTransaction, Lacks
<1>6. FieldsOf(k) \subseteq P
  OBVIOUS
<1>7. ASSUME f \notin {"feePayer", "feePayerSignatures", "feeRatio"}
      PROVE  f = "chainId" \/ (f = "from" /\ k \in EthereumKinds)
  <2> HIDE DEF P
  <2>1. CASE k = "LegacyTransaction"
    <3>1. FieldsOf(k) = BasicNames \union {"to", "value", "input"}
      BY <2>1, KindFields
    <3>2. Legacy(P)
      BY <1>1, <2>1, ValidObjectOf
    <3>3. QED
      BY <1>1, <1>5, <1>7, <1>6, <2>1, <3>1, <3>2, Inputs DEF Legacy,
         SomeInput, NotTyped, Lacks, CodeFields, DynamicFeeFields, BasicNames,
         AllFields, FeeDelegationFields, EthereumKinds, AccountUpdates
  <2>2. CASE k \in Transfers
    <3>1. FieldsOf(k) = BasicNames \union {"to", "value", "from"}
                        \union Ratio(k)
      BY <2>2, KindFields
    <3>2. ValueTransferEssential(P)
      BY <1>1, <2>2, ValidObjectOf DEF Transfers
    <3>3. QED
      BY <1>1, <1>5, <1>7, <1>6, <2>2, <3>1, <3>2 DEF ValueTransferEssential,
         NotTyped, Lacks, CodeFields, DynamicFeeFields, BasicNames, AllFields,
         FeeDelegationFields, AccountUpdates, Transfers
  <2>3. CASE k \in Memos
    <3>1. FieldsOf(k) = BasicNames \union {"to", "value", "from", "input"}
                        \union Ratio(k)
      BY <2>3, KindFields
    <3>2. ValueTransferMemoEssential(P)
      BY <1>1, <2>3, ValidObjectOf DEF Memos
    <3>3. QED
      BY <1>1, <1>5, <1>7, <1>6, <2>3, <3>1, <3>2, Inputs DEF
         ValueTransferMemoEssential, NotTyped, Lacks, CodeFields,
         DynamicFeeFields, BasicNames, AllFields, FeeDelegationFields,
         AccountUpdates, Memos
  <2>4. CASE k \in AccountUpdates
    <3>1. FieldsOf(k) = BasicNames \union {"from", "account"} \union Ratio(k)
      BY <2>4, KindFields
    <3>2. UpdateEssential(P) /\ AccountTransaction(TRUE, P)
      BY <1>1, <2>4, ValidObjectOf
    <3>3. QED
      BY <1>1, <1>5, <1>7, <1>6, <2>4, <3>1, <3>2 DEF UpdateEssential,
         AccountTransaction, AccountKeyFields, NotTyped, Lacks, CodeFields,
         DynamicFeeFields, BasicNames, AllFields, FeeDelegationFields
  <2>5. CASE k \in Deploys
    <3>1. FieldsOf(k) = BasicNames \union {"to", "value", "from", "input",
                        "humanReadable", "codeFormat"} \union Ratio(k)
      BY <2>5, KindFields
    <3>2. DeployEssential(TRUE, P, "false")
      BY <1>1, <2>5, ValidObjectOf DEF Deploys
    <3>3. QED
      BY <1>1, <1>5, <1>7, <1>6, <2>5, <3>1, <3>2, Inputs DEF DeployEssential,
         NotTyped, Lacks, CodeFields, DynamicFeeFields, BasicNames, AllFields,
         FeeDelegationFields, AccountUpdates, Deploys
  <2>6. CASE k \in Executions
    <3>1. FieldsOf(k) = BasicNames \union {"to", "value", "from", "input"}
                        \union Ratio(k)
      BY <2>6, KindFields
    <3>2. ExecutionEssential(P)
      BY <1>1, <2>6, ValidObjectOf DEF Executions
    <3>3. QED
      BY <1>1, <1>5, <1>7, <1>6, <2>6, <3>1, <3>2, Inputs DEF
         ExecutionEssential, NotTyped, Lacks, CodeFields, DynamicFeeFields,
         BasicNames, AllFields, FeeDelegationFields, AccountUpdates,
         Executions
  <2>7. CASE k \in Cancels
    <3>1. FieldsOf(k) = BasicNames \union {"from"} \union Ratio(k)
      BY <2>7, KindFields
    <3>2. CancelEssential(P)
      BY <1>1, <2>7, ValidObjectOf DEF Cancels
    <3>3. QED
      BY <1>1, <1>5, <1>7, <1>6, <2>7, <3>1, <3>2 DEF CancelEssential,
         NotTyped, Lacks, CodeFields, DynamicFeeFields, BasicNames, AllFields,
         FeeDelegationFields, AccountUpdates, Cancels
  <2>8. CASE k \in Anchorings
    <3>1. FieldsOf(k) = BasicNames \union {"from", "input"} \union Ratio(k)
      BY <2>8, KindFields
    <3>2. ChainDataAnchoringEssential(P)
      BY <1>1, <2>8, ValidObjectOf DEF Anchorings
    <3>3. QED
      BY <1>1, <1>5, <1>7, <1>6, <2>8, <3>1, <3>2, Inputs DEF
         ChainDataAnchoringEssential, NotTyped, Lacks, CodeFields,
         DynamicFeeFields, BasicNames, AllFields, FeeDelegationFields,
         AccountUpdates, Anchorings
  <2>9. CASE k = "EthereumAccessList"
    <3>1. FieldsOf(k) = BasicNames \union {"chainId", "to", "value", "input",
                                          "accessList"}
      BY <2>9, KindFields
    <3>2. AccessList(P)
      BY <1>1, <2>9, ValidObjectOf
    <3>3. QED
      BY <1>1, <1>5, <1>7, <1>6, <2>9, <3>1, <3>2, Inputs DEF AccessList,
         SomeInput, NotTyped, Lacks, CodeFields, DynamicFeeFields, BasicNames,
         AllFields, FeeDelegationFields, EthereumKinds, AccountUpdates
  <2>10. CASE k = "EthereumDynamicFee"
    <3>1. FieldsOf(k) = {"chainId", "nonce", "maxPriorityFeePerGas",
                        "maxFeePerGas", "gas", "to", "value", "input", "accessList"}
      BY <2>10, KindFields
    <3>2. DynamicFee(P)
      BY <1>1, <2>10, ValidObjectOf
    <3>3. QED
      BY <1>1, <1>5, <1>7, <1>6, <2>10, <3>1, <3>2, Inputs DEF DynamicFee,
         SomeInput, NotTyped, Lacks, CodeFields, DynamicFeeFields, BasicNames,
         AllFields, FeeDelegationFields, EthereumKinds, AccountUpdates
  <2>11. QED
    BY <2>1, <2>2, <2>3, <2>4, <2>5, <2>6, <2>7, <2>8, <2>9, <2>10, KindNames
<1>8. QED
  BY <1>3, <1>4, <1>7

-----------------------------------------------------------------------------
(* Objects of caver.klay.accounts. *)

(* An account key is one key or roles. *)
LEMMA KeyNamesOf ==
  ASSUME NEW key \in AccountKeys \union {"two roles and nil"}
  PROVE  \/ \E n \in SingleKeys : KeyNames(key) = {n}
         \/ /\ "roleTransactionKey" \in KeyNames(key)
            /\ KeyNames(key) \subseteq RoleKeyFields
<1>1. DOMAIN SingleKeyNames = {"legacy", "fail", "public", "multisig"}
  BY DEF SingleKeyNames
<1>2. ASSUME key \in DOMAIN SingleKeyNames
      PROVE  \E n \in SingleKeys : KeyNames(key) = {n}
  <2>1. /\ SingleKeyNames["legacy"] = "legacyKey"
        /\ SingleKeyNames["fail"] = "failKey"
        /\ SingleKeyNames["public"] = "publicKey"
        /\ SingleKeyNames["multisig"] = "multisig"
    BY DEF SingleKeyNames
  <2>2. SingleKeyNames[key] \in {"legacyKey", "failKey", "publicKey", "multisig"}
    BY <1>1, <1>2, <2>1
  <2>3. SingleKeyNames[key] \in SingleKeys
    BY <2>2 DEF SingleKeys, AccountKeyFields, RoleKeyFields
  <2>4. KeyNames(key) = {SingleKeyNames[key]}
    BY <1>2 DEF KeyNames
  <2>5. QED
    BY <2>3, <2>4
<1>3. ASSUME key \notin DOMAIN SingleKeyNames
      PROVE  /\ "roleTransactionKey" \in KeyNames(key)
             /\ KeyNames(key) \subseteq RoleKeyFields
  BY <1>3 DEF KeyNames, RoleKeyFields
<1>4. QED
  BY <1>2, <1>3

(* The names of the object for a transaction: its fields, but that data    *)
(* is the name of input and the account key has names of its own.          *)
LEMMA ObjectNamesOf ==
  ASSUME NEW k \in Kinds, NEW e, Transaction(k, e)
  PROVE  /\ "data" \in ObjectNames(k, e) <=> "input" \in FieldsOf(k)
         /\ Lacks(ObjectNames(k, e), {"input", "account"})
         /\ \A n \in {"feePayer", "feePayerSignatures"} :
              n \in ObjectNames(k, e) <=> Delegated(k)
         /\ \A n \in AccountKeyFields :
              n \in ObjectNames(k, e) <=>
                "account" \in FieldsOf(k) /\ n \in KeyNames(e["account"][2])
         /\ \A n : n \notin {"data", "input", "account", "feePayer",
                             "feePayerSignatures"} \union AccountKeyFields =>
              (n \in ObjectNames(k, e) <=> n \in FieldsOf(k))
<1>1. DOMAIN e = FieldsOf(k)
  BY DEF Transaction
<1>2. PICK K : K = IF "account" \in FieldsOf(k)
                   THEN KeyNames(e["account"][2]) ELSE {}
  OBVIOUS
<1>3. K \subseteq AccountKeyFields
  <2>1. ASSUME "account" \in FieldsOf(k)
        PROVE  e["account"][2] \in AccountKeys \union {"two roles and nil"}
    BY <2>1 DEF Transaction
  <2>2. QED
    BY <1>2, <2>1, KeyNamesOf DEF SingleKeys, RoleKeyFields, AccountKeyFields
<1>4. \A n : n \in ObjectNames(k, e) <=>
               \/ \E f \in FieldsOf(k) \ {"account"} :
                    n = IF f = "input" THEN "data" ELSE f
               \/ n \in K
               \/ Delegated(k) /\ n \in {"feePayer", "feePayerSignatures"}
  BY <1>1, <1>2 DEF ObjectNames
<1>5. \A n : n \in FieldsOf(k) => n \notin {"feePayer", "feePayerSignatures", "data"}
                                   \union AccountKeyFields
  BY FieldsAlways DEF Lacks
<1>6. {"data", "input", "account", "feePayer", "feePayerSignatures"}
        \intersect AccountKeyFields = {}
  BY DEF AccountKeyFields
<1>7. QED
  BY <1>2, <1>3, <1>4, <1>5, <1>6 DEF Lacks

(* The types with a fee ratio have a fee payer, and accounts are updated   *)
(* by the types that say so.                                               *)
LEMMA RatioDelegated ==
  ASSUME NEW k \in Kinds
  PROVE  "feeRatio" \in FieldsOf(k) => Delegated(k)
<1>1. "feeRatio" \in FieldsOf(k) => k \in KindsAndRatio
  <2>1. "feeRatio" \notin BasicNames
    BY DEF BasicNames
  <2>2. CASE k \in EthereumKinds
    BY <2>1, <2>2, KindFields DEF EthereumKinds
  <2>3. CASE k \notin EthereumKinds
    <3>1. k \notin KindsAndRatio => Ratio(k) = {}
      BY DEF Ratio
    <3>2. QED
      BY <2>1, <2>3, <3>1, KindFields, KindNames DEF EthereumKinds
  <2>4. QED
    BY <2>2, <2>3
<1>2. KindsAndRatio \subseteq DelegatedKinds
  BY DEF KindsAndRatio, DelegatedKinds
<1>3. QED
  BY <1>1, <1>2, KindNames

LEMMA AccountsUpdated ==
  ASSUME NEW k \in Kinds
  PROVE  "account" \in FieldsOf(k) <=> k \in AccountUpdates
<1>1. "account" \notin BasicNames /\ "account" \notin Ratio(k)
  BY DEF BasicNames, Ratio
<1>2. CASE k \in AccountUpdates
  BY <1>2, KindFields
<1>3. CASE k \notin AccountUpdates
  BY <1>1, <1>3, KindFields, KindNames
<1>4. QED
  BY <1>2, <1>3

(* What caver.klay.accounts makes an object of passes its validation: all  *)
(* the types it has, but the one whose encoding has no sender.             *)
LEMMA LegacyValidParams ==
  ASSUME NEW k \in LegacyTxTypes \ {"LegacyTransaction"}, NEW e,
         Transaction(k, e), NEW readable, readable # "true"
  PROVE  ValidParams(k, FALSE, ObjectNames(k, e), readable)
<1> DEFINE P == ObjectNames(k, e)
<1>1. k \in Kinds /\ k \notin EthereumKinds
  BY DEF LegacyTxTypes, EthereumKinds
<1>2. /\ "data" \in P <=> "input" \in FieldsOf(k)
      /\ "input" \notin P /\ "account" \notin P
      /\ \A n \in {"feePayer", "feePayerSignatures"} : n \in P <=> Delegated(k)
  BY <1>1, ObjectNamesOf DEF Lacks
<1>3. \A n \in AccountKeyFields :
        n \in P <=> "account" \in FieldsOf(k) /\ n \in KeyNames(e["account"][2])
  BY <1>1, ObjectNamesOf
<1>4. \A n \in {"to", "value", "from", "gas", "accessList", "feeRatio"}
                \union CodeFields \union DynamicFeeFields :
        n \in P <=> n \in FieldsOf(k)
  BY <1>1, ObjectNamesOf DEF CodeFields, DynamicFeeFields, AccountKeyFields
<1> HIDE DEF P
<1>5. Fee(k, P)
  <2>1. Delegated(k) => FeeDelegatedFields(k, P)
    BY <1>4 DEF FeeDelegatedFields, WithRatio
  <2>2. ~Delegated(k) => "feeRatio" \notin FieldsOf(k)
    BY <1>1, RatioDelegated
  <2>3. ~Delegated(k) => NonFeeDelegated(P)
    BY <1>2, <1>4, <2>2 DEF NonFeeDelegated, Lacks, FeeDelegationFields
  <2>4. QED
    BY <2>1, <2>3 DEF Fee
<1>6. k \in AccountUpdates \/ NotAccountTransaction(P)
  BY <1>1, <1>2, <1>3, AccountsUpdated DEF NotAccountTransaction, Lacks
<1>7. k \in AccountUpdates => OneAccountKey(P)
  <2>1. ASSUME k \in AccountUpdates
        PROVE  OneAccountKey(P)
    <3>1. "account" \in FieldsOf(k)
      BY <1>1, <2>1, AccountsUpdated
    <3>2. e["account"][2] \in AccountKeys \union {"two roles and nil"}
      BY <3>1 DEF Transaction
    <3>3. \A n \in AccountKeyFields : n \in P <=> n \in KeyNames(e["account"][2])
      BY <1>3, <3>1
    <3>4. PICK K : K = KeyNames(e["account"][2])
      OBVIOUS
    <3>5. SingleKeys \subseteq AccountKeyFields /\ RoleKeyFields \subseteq AccountKeyFields
            /\ SingleKeys \intersect RoleKeyFields = {}
            /\ "roleTransactionKey" \in RoleKeyFields
      BY DEF SingleKeys, AccountKeyFields, RoleKeyFields
    <3>6. CASE \E n \in SingleKeys : K = {n}
      <4>1. PICK n \in SingleKeys : K = {n}
        BY <3>6
      <4>2. P \intersect SingleKeys = {n} /\ Lacks(P, RoleKeyFields)
        BY <3>3, <3>4, <3>5, <4>1 DEF Lacks
      <4>3. QED
        BY <4>2, AccountKeysOf
    <3>7. CASE "roleTransactionKey" \in K /\ K \subseteq RoleKeyFields
      <4>1. ~Lacks(P, RoleKeyFields) /\ Lacks(P, SingleKeys)
        BY <3>3, <3>4, <3>5, <3>7 DEF Lacks
      <4>2. QED
        BY <4>1, AccountKeysOf
    <3>8. QED
      BY <3>2, <3>4, <3>6, <3>7, KeyNamesOf
  <2>2. QED
    BY <2>1
<1>8. ValidObject(k, FALSE, P, readable)
  <2>1. CASE k \in Transfers
    <3>1. FieldsOf(k) = BasicNames \union {"to", "value", "from"}
                        \union Ratio(k)
      BY <1>1, <2>1, KindFields
    <3>2. ValueTransferEssential(P)
      BY <1>2, <1>4, <3>1 DEF ValueTransferEssential, NotTyped, Lacks,
         CodeFields, DynamicFeeFields, BasicNames, Ratio
    <3>3. QED
      BY <1>1, <1>5, <1>6, <2>1, <3>2, ValidObjectOf DEF AccountUpdates,
         Transfers
  <2>2. CASE k \in Memos
    <3>1. FieldsOf(k) = BasicNames \union {"to", "value", "from", "input"}
                        \union Ratio(k)
      BY <1>1, <2>2, KindFields
    <3>2. ValueTransferMemoEssential(P)
      BY <1>2, <1>4, <3>1, Inputs DEF ValueTransferMemoEssential, NotTyped,
         Lacks, CodeFields, DynamicFeeFields, BasicNames, Ratio
    <3>3. QED
      BY <1>1, <1>5, <1>6, <2>2, <3>2, ValidObjectOf DEF AccountUpdates, Memos
  <2>3. CASE k \in AccountUpdates
    <3>1. FieldsOf(k) = BasicNames \union {"from", "account"} \union Ratio(k)
      BY <1>1, <2>3, KindFields
    <3>2. UpdateEssential(P) /\ AccountTransaction(FALSE, P)
      BY <1>2, <1>4, <1>7, <2>3, <3>1 DEF UpdateEssential, AccountTransaction,
         NotTyped, Lacks, CodeFields, DynamicFeeFields, BasicNames, Ratio
    <3>3. QED
      BY <1>1, <1>5, <1>6, <2>3, <3>2, ValidObjectOf DEF AccountUpdates
  <2>4. CASE k \in Deploys
    <3>1. FieldsOf(k) = BasicNames \union {"to", "value", "from", "input",
                        "humanReadable", "codeFormat"} \union Ratio(k)
      BY <1>1, <2>4, KindFields
    <3>2. DeployEssential(FALSE, P, readable)
      BY <1>2, <1>4, <3>1, Inputs DEF DeployEssential, NotTyped, Lacks,
         CodeFields, DynamicFeeFields, BasicNames, Ratio
    <3>3. QED
      BY <1>1, <1>5, <1>6, <2>4, <3>2, ValidObjectOf DEF AccountUpdates,
         Deploys
  <2>5. CASE k \in Executions
    <3>1. FieldsOf(k) = BasicNames \union {"to", "value", "from", "input"}
                        \union Ratio(k)
      BY <1>1, <2>5, KindFields
    <3>2. ExecutionEssential(P)
      BY <1>2, <1>4, <3>1, Inputs DEF ExecutionEssential, NotTyped, Lacks,
         CodeFields, DynamicFeeFields, BasicNames, Ratio
    <3>3. QED
      BY <1>1, <1>5, <1>6, <2>5, <3>2, ValidObjectOf DEF AccountUpdates,
         Executions
  <2>6. CASE k \in Cancels
    <3>1. FieldsOf(k) = BasicNames \union {"from"} \union Ratio(k)
      BY <1>1, <2>6, KindFields
    <3>2. CancelEssential(P)
      BY <1>2, <1>4, <3>1 DEF CancelEssential, NotTyped, Lacks, CodeFields,
         DynamicFeeFields, BasicNames, Ratio
    <3>3. QED
      BY <1>1, <1>5, <1>6, <2>6, <3>2, ValidObjectOf DEF AccountUpdates,
         Cancels
  <2>7. CASE k \in Anchorings
    <3>1. FieldsOf(k) = BasicNames \union {"from", "input"} \union Ratio(k)
      BY <1>1, <2>7, KindFields
    <3>2. ChainDataAnchoringEssential(P)
      BY <1>2, <1>4, <3>1, Inputs DEF ChainDataAnchoringEssential, NotTyped,
         Lacks, CodeFields, DynamicFeeFields, BasicNames, Ratio
    <3>3. QED
      BY <1>1, <1>5, <1>6, <2>7, <3>2, ValidObjectOf DEF AccountUpdates,
         Anchorings
  <2>8. QED
    BY <1>1, <2>1, <2>2, <2>3, <2>4, <2>5, <2>6, <2>7, KindNames DEF
       EthereumKinds
<1>9. "from" \in P /\ "gas" \in P
  BY <1>1, <1>4, FieldsAlways
<1>10. QED
  BY <1>2, <1>8, <1>9 DEF ValidParams, P

(* Nor does caver.klay.accounts ignore a field, but further roles of a     *)
(* role-based key, which are no mistake.                                   *)
LEMMA LegacyNothingIgnored ==
  ASSUME NEW k \in LegacyTxTypes, NEW e, Transaction(k, e),
         NEW f \in AllFields \ FieldsOf(k),
         f \notin ObjectNames(k, e) \union {"from"},
         ValidParams(k, FALSE, ObjectNames(k, e) \union {"from"} \union {f}, "false")
  PROVE  \/ f = "chainId"
         \/ /\ f \in RoleKeyFields
            /\ (ObjectNames(k, e) \union {"from"}) \intersect RoleKeyFields # {}
<1> DEFINE N == ObjectNames(k, e)
<1> DEFINE P == N \union {"from"} \union {f}
<1>1. k \in Kinds
  BY DEF LegacyTxTypes
<1>2. /\ "input" \in FieldsOf(k) => "data" \in N
      /\ \A n \in {"feePayer", "feePayerSignatures"} : n \in N <=> Delegated(k)
  BY <1>1, ObjectNamesOf DEF Lacks
<1>3. \A n \in AccountKeyFields :
        n \in N <=> "account" \in FieldsOf(k) /\ n \in KeyNames(e["account"][2])
  BY <1>1, ObjectNamesOf
<1>4. f \in P /\ N \subseteq P /\ f \notin N /\ f # "from"
  OBVIOUS
<1>5. ValidObject(k, FALSE, P, "false")
  BY DEF ValidParams
<1> HIDE DEF N, P
<1>6. f \notin FeeDelegationFields
  <2>1. Fee(k, P)
    BY <1>5 DEF ValidObject, Fee
  <2>2. CASE Delegated(k)
    BY <1>2, <1>4, <2>1, <2>2 DEF Fee, FeeDelegatedFields, WithRatio,
       FeeDelegationFields
  <2>3. CASE ~Delegated(k)
    BY <1>4, <2>1, <2>3 DEF Fee, NonFeeDelegated, Lacks
  <2>4. QED
    BY <2>2, <2>3
<1>7. k \notin AccountUpdates => f \notin AccountKeyFields \union {"account"}
  BY <1>4, <1>5 DEF ValidObject, NotAccountTransaction, Lacks
<1>8. ASSUME k \in AccountUpdates, f \in AccountKeyFields
      PROVE  f \in RoleKeyFields /\ ~Lacks(N, RoleKeyFields)
  <2>1. OneAccountKey(P)
    BY <1>1, <1>5, <1>8, ValidObjectOf DEF AccountTransaction
  <2>2. "account" \in FieldsOf(k)
    BY <1>1, <1>8, AccountsUpdated
  <2>3. e["account"][2] \in AccountKeys \union {"two roles and nil"}
    BY <2>2 DEF Transaction
  <2>4. PICK K : K = KeyNames(e["account"][2])
    OBVIOUS
  <2>5. \A n \in AccountKeyFields : n \in N <=> n \in K
    BY <1>3, <2>2, <2>4
  <2>6. /\ AccountKeyFields = SingleKeys \union RoleKeyFields
        /\ SingleKeys \intersect RoleKeyFields = {}
        /\ "roleTransactionKey" \in RoleKeyFields
    BY DEF SingleKeys, AccountKeyFields, RoleKeyFields
  <2>7. CASE \E n \in SingleKeys : K = {n}
    <3>1. PICK n \in SingleKeys : K = {n}
      BY <2>7
    <3>2. n \in P /\ n # f
      BY <1>4, <2>5, <2>6, <3>1
    <3>3. Lacks(P, RoleKeyFields)
      BY <2>1, <2>6, <3>1, <3>2, AccountKeysOf DEF Lacks
    <3>4. f \in SingleKeys
      BY <1>4, <1>8, <2>6, <3>3 DEF Lacks
    <3>5. PICK m : P \intersect SingleKeys = {m}
      BY <2>1, <3>3, AccountKeysOf
    <3>6. QED
      BY <1>4, <3>1, <3>2, <3>4, <3>5
  <2>8. CASE "roleTransactionKey" \in K /\ K \subseteq RoleKeyFields
    <3>1. ~Lacks(N, RoleKeyFields)
      BY <2>5, <2>6, <2>8 DEF Lacks
    <3>2. ~Lacks(P, RoleKeyFields)
      BY <1>4, <3>1 DEF Lacks
    <3>3. f \notin SingleKeys
      BY <1>4, <2>1, <3>2, AccountKeysOf DEF Lacks
    <3>4. QED
      BY <1>8, <2>6, <3>1, <3>3
  <2>9. QED
    BY <2>3, <2>4, <2>7, <2>8, KeyNamesOf
<1>9. f \notin AccountKeyFields => f = "chainId"
  <2>1. CASE k = "LegacyTransaction"
    <3>1. FieldsOf(k) = BasicNames \union {"to", "value", "input"}
      BY <1>1, <2>1, KindFields
    <3>2. Legacy(P)
      BY <1>1, <1>5, <2>1, ValidObjectOf
    <3>3. QED
      BY <1>2, <1>4, <1>6, <1>7, <2>1, <3>1, <3>2, Inputs DEF Legacy,
         SomeInput, NotTyped, Lacks, CodeFields, DynamicFeeFields, BasicNames,
         AllFields, FeeDelegationFields, AccountUpdates
  <2>2. CASE k \in Transfers
    <3>1. FieldsOf(k) = BasicNames \union {"to", "value", "from"}
                        \union Ratio(k)
      BY <1>1, <2>2, KindFields
    <3>2. ValueTransferEssential(P)
      BY <1>1, <1>5, <2>2, ValidObjectOf DEF Transfers
    <3>3. QED
      BY <1>2, <1>4, <1>6, <1>7, <2>2, <3>1, <3>2 DEF ValueTransferEssential,
         NotTyped, Lacks, CodeFields, DynamicFeeFields, BasicNames, AllFields,
         FeeDelegationFields, AccountUpdates, Transfers
  <2>3. CASE k \in Memos
    <3>1. FieldsOf(k) = BasicNames \union {"to", "value", "from", "input"}
                        \union Ratio(k)
      BY <1>1, <2>3, KindFields
    <3>2. ValueTransferMemoEssential(P)
      BY <1>1, <1>5, <2>3, ValidObjectOf DEF Memos
    <3>3. QED
      BY <1>2, <1>4, <1>6, <1>7, <2>3, <3>1, <3>2, Inputs DEF
         ValueTransferMemoEssential, NotTyped, Lacks, CodeFields,
         DynamicFeeFields, BasicNames, AllFields, FeeDelegationFields,
         AccountUpdates, Memos
  <2>4. CASE k \in AccountUpdates
    <3>1. FieldsOf(k) = BasicNames \union {"from", "account"} \union Ratio(k)
      BY <1>1, <2>4, KindFields
    <3>2. UpdateEssential(P) /\ AccountTransaction(FALSE, P)
      BY <1>1, <1>5, <2>4, ValidObjectOf
    <3>3. QED
      BY <1>2, <1>4, <1>6, <1>7, <2>4, <3>1, <3>2 DEF UpdateEssential,
         AccountTransaction, NotTyped, Lacks, CodeFields, DynamicFeeFields,
         BasicNames, AllFields, FeeDelegationFields
  <2>5. CASE k \in Deploys
    <3>1. FieldsOf(k) = BasicNames \union {"to", "value", "from", "input",
                        "humanReadable", "codeFormat"} \union Ratio(k)
      BY <1>1, <2>5, KindFields
    <3>2. DeployEssential(FALSE, P, "false")
      BY <1>1, <1>5, <2>5, ValidObjectOf DEF Deploys
    <3>3. QED
      BY <1>2, <1>4, <1>6, <1>7, <2>5, <3>1, <3>2, Inputs DEF DeployEssential,
         NotTyped, Lacks, CodeFields, DynamicFeeFields, BasicNames, AllFields,
         FeeDelegationFields, AccountUpdates, Deploys
  <2>6. CASE k \in Executions
    <3>1. FieldsOf(k) = BasicNames \union {"to", "value", "from", "input"}
                        \union Ratio(k)
      BY <1>1, <2>6, KindFields
    <3>2. ExecutionEssential(P)
      BY <1>1, <1>5, <2>6, ValidObjectOf DEF Executions
    <3>3. QED
      BY <1>2, <1>4, <1>6, <1>7, <2>6, <3>1, <3>2, Inputs DEF
         ExecutionEssential, NotTyped, Lacks, CodeFields, DynamicFeeFields,
         BasicNames, AllFields, FeeDelegationFields, AccountUpdates,
         Executions
  <2>7. CASE k \in Cancels
    <3>1. FieldsOf(k) = BasicNames \union {"from"} \union Ratio(k)
      BY <1>1, <2>7, KindFields
    <3>2. CancelEssential(P)
      BY <1>1, <1>5, <2>7, ValidObjectOf DEF Cancels
    <3>3. QED
      BY <1>2, <1>4, <1>6, <1>7, <2>7, <3>1, <3>2 DEF CancelEssential,
         NotTyped, Lacks, CodeFields, DynamicFeeFields, BasicNames, AllFields,
         FeeDelegationFields, AccountUpdates, Cancels
  <2>8. CASE k \in Anchorings
    <3>1. FieldsOf(k) = BasicNames \union {"from", "input"} \union Ratio(k)
      BY <1>1, <2>8, KindFields
    <3>2. ChainDataAnchoringEssential(P)
      BY <1>1, <1>5, <2>8, ValidObjectOf DEF Anchorings
    <3>3. QED
      BY <1>2, <1>4, <1>6, <1>7, <2>8, <3>1, <3>2, Inputs DEF
         ChainDataAnchoringEssential, NotTyped, Lacks, CodeFields,
         DynamicFeeFields, BasicNames, AllFields, FeeDelegationFields,
         AccountUpdates, Anchorings
  <2>9. QED
    BY <1>1, <2>1, <2>2, <2>3, <2>4, <2>5, <2>6, <2>7, <2>8, KindNames DEF
       LegacyTxTypes
<1>10. QED
  BY <1>7, <1>8, <1>9 DEF Lacks, N

(* What one party encodes the next can read, whichever API it uses, and    *)
(* encodes to the same again.                                              *)
THEOREM EncodedIsReadable == Spec => []ReadableAgain
<1>1. ASSUME ExchangeInv
      PROVE  ReadableAgain
  <2>1. DocumentsOK /\ kind \in Kinds
    BY <1>1 DEF ExchangeInv, DocumentsOK
  <2>2. ASSUME NEW r \in raws, ~LosesByDecode(r.body)
        PROVE  /\ Constructible(Decoded(kind, r.body))
               /\ Encode(Classes[kind].encoded, Decoded(kind, r.body)) = r.body
    <3>1. RawOK(r)
      BY <1>1, <2>2 DEF ExchangeInv
    <3>2. PICK e \in Going : /\ Transaction(kind, e)
                             /\ r.body = Encode(Order(kind), e)
                             /\ Decoded(kind, r.body) = e
      BY <2>1, <2>2, <3>1, Content
    <3>3. NamesOf(e) = FieldsOf(kind)
      BY <3>2 DEF NamesOf, Transaction
    <3>4. ValidParams(kind, TRUE, FieldsOf(kind) \union PayerFields(kind), "false")
      BY <2>1, TypedValid
    <3>5. Constructible(e)
      BY <3>3, <3>4 DEF Constructible, PayerNames, PayerFields
    <3>6. QED
      BY <3>2, <3>5 DEF Order
  <2>3. ASSUME NEW r \in raws, kind \in LegacyTxTypes \ {"LegacyTransaction"},
               ~LosesByDecode(r.body), ~LosesByRewriting(r.body)
        PROVE  /\ LegacyReadable(r)
               /\ LegacyBody(kind, LegacyFields(kind, r.body)) = r.body
    <3>1. kind \in LegacyKinds
      BY <2>3, KindNames
    <3>2. RawOK(r)
      BY <1>1, <2>3 DEF ExchangeInv
    <3>3. PICK e \in Going :
            /\ Transaction(kind, e)
            /\ \A f : ValueOf(r.body, f) =
                        IF f \in FieldsOf(kind) THEN e[f][2] ELSE "none"
            /\ LegacyFields(kind, r.body) = e
            /\ LegacyBody(kind, e) = r.body
      BY <2>1, <2>3, <3>1, <3>2, Content
    <3>4. PICK readable : readable = IF kind \in Deploys
                                     THEN e["humanReadable"][2] ELSE "false"
      OBVIOUS
    <3>5. readable # "true"
      <4>1. CASE kind \in Deploys
        <5>1. "humanReadable" \in FieldsOf(kind)
          BY <2>1, <4>1, KindFields
        <5>2. QED
          BY <2>3, <3>3, <3>4, <4>1, <5>1 DEF LosesByDecode
      <4>2. CASE kind \notin Deploys
        BY <3>4, <4>2
      <4>3. QED
        BY <4>1, <4>2
    <3>6. ValidParams(kind, FALSE, ObjectNames(kind, e), readable)
      BY <2>3, <3>3, <3>5, LegacyValidParams
    <3>7. LegacyValid(e, ObjectNames(kind, e))
      BY <3>1, <3>4, <3>6 DEF LegacyValid
    <3>8. QED
      BY <3>1, <3>3, <3>7 DEF LegacyReadable
  <2>4. QED
    BY <2>2, <2>3 DEF ReadableAgain
<1>2. QED
  BY <1>1, ExchangeInvariant, PTL

(* No field of an object is ignored, whichever API it is given to.         *)
THEOREM NoFieldIgnored == Spec => []NothingIgnored
<1>1. ASSUME ExchangeInv
      PROVE  NothingIgnored
  <2>1. DocumentsOK /\ kind \in Kinds
    BY <1>1 DEF ExchangeInv, DocumentsOK
  <2>2. \A d \in documents : Transaction(kind, d)
    BY <2>1, GoingTransactions DEF Going
  <2>3. ASSUME NEW d \in documents, NEW f \in AllFields \ FieldsOf(kind),
               ValidParams(kind, TRUE, DOMAIN d \union {f}, "false")
        PROVE  \/ f = "chainId" \/ (f = "from" /\ kind \in EthereumKinds)
               \/ f \in {"feePayer", "feePayerSignatures"} /\ Delegated(kind)
    <3>1. DOMAIN d = FieldsOf(kind)
      BY <2>2 DEF Transaction
    <3>2. QED
      BY <2>1, <2>3, <3>1, TypedNothingIgnored
  <2>4. ASSUME NEW d \in documents, NEW f \in AllFields \ FieldsOf(kind),
               kind \in LegacyKinds, NEW names,
               names = ObjectNames(kind, d) \union {"from"}, f \notin names,
               ValidParams(kind, FALSE, names \union {f}, "false")
        PROVE  \/ f = "chainId"
               \/ f \in RoleKeyFields /\ names \intersect RoleKeyFields # {}
    <3>1. kind \in LegacyTxTypes
      BY <2>4, KindNames
    <3>2. QED
      BY <2>2, <2>4, <3>1, LegacyNothingIgnored
  <2>5. QED
    BY <2>3, <2>4 DEF NothingIgnored
<1>2. QED
  BY <1>1, ExchangeInvariant, PTL
====
