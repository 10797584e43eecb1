------------------------------ MODULE KeyHolders ------------------------------
(***************************************************************************)
(* The two places where private keys are kept and what is signed with      *)
(* them: caver.wallet, with the account updates and the contract calls     *)
(* that use it, and caver.klay.accounts.wallet, with the contract calls    *)
(* that use that one; and what a Contract object and a token make of a     *)
(* call.  They share no state, so a behaviour exercises one of the four,   *)
(* which its initial state says.                                           *)
(***************************************************************************)
EXTENDS ContractCalls, LegacyWallet, Tokens

VARIABLE part

vars == <<walletVars, contractVars, legacyVars, objectVars, tokenVars, part>>

Init ==
  /\ WalletInit /\ ContractInit /\ LegacyInit /\ ObjectInit /\ TokenInit
  /\ part \in {"caver.wallet", "caver.klay.accounts.wallet", "contract", "token"}

Next ==
  /\ part' = part
  /\ \/ /\ part = "caver.wallet"
        /\ \/ WalletNext /\ UNCHANGED contractVars
           \/ ContractNext /\ UNCHANGED walletVars
        /\ UNCHANGED <<legacyVars, objectVars, tokenVars>>
     \/ /\ part = "caver.klay.accounts.wallet"
        /\ LegacyNext
        /\ UNCHANGED <<walletVars, contractVars, objectVars, tokenVars>>
     \/ /\ part = "contract"
        /\ ObjectNext
        /\ UNCHANGED <<walletVars, contractVars, legacyVars, tokenVars>>
     \/ /\ part = "token"
        /\ TokenNext
        /\ UNCHANGED <<walletVars, contractVars, legacyVars, objectVars>>

Spec == Init /\ [][Next]_vars

-----------------------------------------------------------------------------
(* Properties. *)

(* Types of the two wallets, and of what is under way with them. *)
TypeOK ==
  /\ \A a \in Addresses :
       /\ IsExisted(a) => keyrings[a].kind \in {"single", "multiple", "roleBased"}
       /\ accountKey[a].type \in {"legacy", "public", "multisig", "roleBased"}
       /\ \A r \in RolesOf(accountKey[a]) :
            accountKey[a].keys[r].type \in {"legacy", "public", "multisig"}
  /\ update.phase \in {"none", "signing", "sent"} /\ operations \in 0 .. MaxOperations
  /\ options \in Options /\ settings \in 0 .. MaxSettings
  /\ call.phase \in {"none", "estimating", "made", "looked", "signing", "filling",
                     "payerLooked", "payerSigning", "nodePays", "nodeSigns", "sent",
                     "returned", "validating", "validated", "accepted", "rejected"}
  /\ \A i \in Indexes : wallet.slots[i] \in Accounts \union {Nothing}
  /\ wallet.lastIndex \in Indexes \union {-1}
  /\ \A n \in InUse(wallet) :
       /\ wallet.account[n].index \in Indexes
       /\ wallet.refers[n] \in KeyObjects \union {Nothing}
  /\ request.phase \in {"none", "pricing", "sent"}
  /\ legacyCalls \in 0 .. MaxLegacy
  /\ object.interface \in Interfaces \union {<< >>} /\ object.deployData \in Codes \union {Absent}
  /\ contractCalls \in 0 .. MaxContract

(* What the wallet signs with the keyring from which an account's key was  *)
(* made, the node accepts from that account: a transaction of the sender,  *)
(* the fee payer's part, an account update.  The encoding of the key       *)
(* (toAccount), its options, the fall-back of getKeyByRole and the         *)
(* decryption of key stores have to agree for that, and the keyring that   *)
(* signs is the one looked up, though it is looked up twice and the wallet *)
(* and the account may change in between (caver.wallet.sign,               *)
(* _executeMethod).                                                        *)
SignedIsAccepted ==
  /\ call.phase \in {"sent", "returned"} =>
       /\ call.signer # NoKeyring /\ StandsFor(call.signer, Sender, TransactionRole)
            => SenderAccepted
       /\ call.payerSigner # NoKeyring /\ StandsFor(call.payerSigner, call.payer, FeePayerRole)
            => PayerAccepted
  /\ update.phase = "sent" /\ StandsFor(update.signer, update.address, AccountUpdateRole)
       => UpdateAccepted

(* The Validator decides a signed transaction as the node would that has   *)
(* the account keys the Validator was told.                                *)
ValidatorAgrees ==
  call.phase = "validated" /\ call.verdict # "thrown" =>
    (call.verdict = "valid" <=>
       /\ NodeAccepts(Sender, call.senderKey, Range(call.signatures), TransactionRole)
       /\ call.delegated =>
            NodeAccepts(call.payer, call.payerKey, Range(call.payerSignatures), FeePayerRole))

(* The wallet of caver.klay.accounts counts its accounts and its last      *)
(* index right, and finds every address it was given under its lower case, *)
(* with the key it was given last, until it is removed.  Excepted are      *)
(* addresses that were in the wallet twice, under two spellings, of which  *)
(* only one entry remains, and keys of accounts that shared an AccountKey. *)
LegacyIndexed ==
  /\ wallet.length = Cardinality(Slots(wallet))
  /\ wallet.lastIndex = Max(Slots(wallet) \union {-1})
  /\ \A a \in LegacyAddresses \ twice :
       LET n == wallet.entries[<<a, "lower">>]
       IN /\ n = Nothing <=> given[a] = Nothing
          /\ n # Nothing => /\ wallet.slots[wallet.account[n].index] = n
                            /\ wallet.account[n].address[1] = a
                            /\ KeyOf(wallet, n) # Nothing
                            /\ a \notin shared => KeyOf(wallet, n) = given[a]

(* A contract call that this wallet signs is signed with the key its       *)
(* sender has when it is signed, whatever the price request let happen     *)
(* since the call began, unless its account shares an AccountKey by then.  *)
(* The node is asked only for senders without a key in the wallet, and,    *)
(* unless the wallet was emptied meanwhile, only for LEGACY transactions,  *)
(* the only ones it can sign (buildSendRequestFunc).                       *)
LegacyCallSigned ==
  request.phase = "sent" /\ request.address \notin twice =>
    IF request.by = "wallet"
    THEN request.shared \/ request.key = TransactionKey(request.given)
    ELSE /\ request.given = Nothing
         /\ request.type = "LEGACY" \/ request.emptied

(* The wallet of caver.klay.accounts keeps what it was given, and signs    *)
(* contract calls with it.                                                 *)
LegacyFaithful == LegacyIndexed /\ LegacyCallSigned

(* A Contract object does what it is asked to: calls a method that takes   *)
(* the arguments, deploys the code it is given, and reports the events     *)
(* that were asked for; and so does a token, which also tells what a       *)
(* contract is; but in the cases the parts name (contract methods, events  *)
(* and deploy, caver.kct).                                                 *)
ContractAsAsked ==
  /\ MethodResolved /\ DeployedAsGiven /\ FilteredAsAsked
  /\ TokenCallMade /\ TokenCallPossible /\ DetectedRight
=============================================================================
