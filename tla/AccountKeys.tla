----------------------------- MODULE AccountKeys -----------------------------
(***************************************************************************)
(* Keyrings (the private keys that caver.wallet holds), accounts (the      *)
(* account key that an AccountUpdate transaction carries), the encoding of *)
(* an account key, key stores, and what the Validator says of signatures.  *)
(*                                                                         *)
(* A key stands for a private key, for its public key and for every        *)
(* signature made with it: recovering a signature returns the key.  Roles  *)
(* count from 1, sequences being what they are.                            *)
(***************************************************************************)
EXTENDS Integers, Sequences, FiniteSetsExt, Functions

CONSTANTS Keys,      \* private keys
          DerivedOf  \* the key an address is derived from: [Addresses -> Keys]

TransactionRole == 1
AccountUpdateRole == 2
FeePayerRole == 3
Roles == 1 .. 3

-----------------------------------------------------------------------------
(* Keyrings.  keys is one sequence, of length one for a single keyring, or *)
(* a sequence of keys per role for a role-based one.                       *)

SingleKeyring(k) == [kind |-> "single", keys |-> <<k>>]
MultipleKeyring(ks) == [kind |-> "multiple", keys |-> ks]
(* Arrays shorter than three are filled up with empty roles. *)
RoleBasedKeyring(kss) ==
  [kind |-> "roleBased",
   keys |-> [r \in Roles |-> IF r <= Len(kss) THEN kss[r] ELSE << >>]]

AllKeyrings ==
  [kind : {"single"}, keys : [1 .. 1 -> Keys]]
    \union [kind : {"multiple"}, keys : Seq(Keys)]
    \union [kind : {"roleBased"}, keys : [Roles -> Seq(Keys)]]

IsRoleBased(keyring) == keyring.kind = "roleBased"

(* getKeyByRole: an empty role falls back on the transaction role; an      *)
(* empty transaction role signs nothing in its own name and is an error    *)
(* when it is fallen back on.                                              *)
HasKeyFor(keyring, role) ==
  IsRoleBased(keyring) /\ role # TransactionRole /\ keyring.keys[role] = << >>
    => keyring.keys[TransactionRole] # << >>
KeysByRole_transactionOnly(keyring, role) ==
  IF IsRoleBased(keyring) THEN keyring.keys[TransactionRole] ELSE keyring.keys
KeysByRole(keyring, role) ==
  IF ~IsRoleBased(keyring) THEN keyring.keys
  ELSE keyring.keys[IF keyring.keys[role] # << >> THEN role ELSE TransactionRole]

(* Key stores: an array of encrypted keys, or one per role. *)
Encrypted(keyring) == [roles |-> IsRoleBased(keyring), cipher |-> keyring.keys]
MayDecrypt(store) == store.roles \/ store.cipher # << >>
Decrypted(store) ==
  IF store.roles THEN RoleBasedKeyring(store.cipher)
  ELSE IF Len(store.cipher) = 1 THEN SingleKeyring(store.cipher[1])
  ELSE MultipleKeyring(store.cipher)

-----------------------------------------------------------------------------
(* Account keys. *)

AccountKeyNil == [type |-> "nil"]
AccountKeyLegacy == [type |-> "legacy"]
AccountKeyFail == [type |-> "fail"]
AccountKeyPublic(k) == [type |-> "public", key |-> k]
AccountKeyWeightedMultiSig(threshold, weighted) ==
  [type |-> "multisig", threshold |-> threshold, keys |-> weighted]
AccountKeyRoleBased(accountKeys) == [type |-> "roleBased", keys |-> accountKeys]

(* What is thrown instead of an account key. *)
Refused == [type |-> "refused"]

(* WeightedMultiSigOptions: threshold and weights, both or none. *)
EmptyOptions == [threshold |-> 0, weights |-> << >>]
DefaultOptions(n) == [threshold |-> 1, weights |-> [i \in 1 .. n |-> 1]]
SumOfWeights(weights) == MapThenSumSet(LAMBDA i : weights[i], DOMAIN weights)
ReachesThreshold(options) == options.threshold <= SumOfWeights(options.weights)

OptionsForMultiSig(n, options) ==
  IF options = EmptyOptions THEN DefaultOptions(n) ELSE options

(* One options object per role; a role without one gets the default for    *)
(* several keys and stays empty otherwise.  What stands for a missing one  *)
(* is pushed to the end of the array, so a role between others stays       *)
(* without.                                                                *)
OptionsAt(optionsOf, r) == IF r \in DOMAIN optionsOf THEN optionsOf[r] ELSE EmptyOptions
HasHole(optionsOf) == \E s \in DOMAIN optionsOf : \E r \in Roles \ DOMAIN optionsOf : r < s
OptionsForRole(n, options) ==
  IF options = EmptyOptions /\ n > 1 THEN DefaultOptions(n) ELSE options

MultiSigFromKeys(ks, options) ==
  LET o == OptionsForMultiSig(Len(ks), options)
  IN IF ReachesThreshold(o) /\ Len(o.weights) = Len(ks)
     THEN AccountKeyWeightedMultiSig(
            o.threshold, [i \in DOMAIN ks |-> [weight |-> o.weights[i], key |-> ks[i]]])
     ELSE Refused

RoleKeyFromKeys(ks, options) ==
  CASE ks = << >> -> IF options = EmptyOptions THEN AccountKeyNil ELSE Refused
    [] Len(ks) = 1 /\ options = EmptyOptions -> AccountKeyPublic(ks[1])
    [] OTHER -> MultiSigFromKeys(ks, options)

RoleBasedFromKeys(kss, optionsOf) ==
  LET made == [r \in DOMAIN kss |-> RoleKeyFromKeys(kss[r], optionsOf[r])]
  IN IF Refused \in Range(made) THEN Refused ELSE AccountKeyRoleBased(made)

(* toAccount; the options are one object per role, of which a multiple     *)
(* keyring takes the first, and a single one none.  A role that stays      *)
(* without an options object is an error.                                  *)
ToAccount(keyring, optionsOf) ==
  CASE keyring.kind = "single" -> AccountKeyPublic(keyring.keys[1])
    [] keyring.kind = "multiple" -> MultiSigFromKeys(keyring.keys, OptionsAt(optionsOf, 1))
    [] HasHole(optionsOf) -> Refused
    [] OTHER ->
         RoleBasedFromKeys(
           keyring.keys,
           [r \in Roles |-> OptionsForRole(Len(keyring.keys[r]), OptionsAt(optionsOf, r))])

-----------------------------------------------------------------------------
(* Encoding: a tag, and what is encoded under it. *)

EncodedKey(accountKey) ==
  CASE accountKey.type = "nil" -> [tag |-> "80"]
    [] accountKey.type = "legacy" -> [tag |-> "01c0"]
    [] accountKey.type = "public" -> [tag |-> "02", list |-> accountKey.key]
    [] accountKey.type = "fail" -> [tag |-> "03c0"]
    [] OTHER ->
         [tag |-> "04", threshold |-> accountKey.threshold,
          list |-> [i \in DOMAIN accountKey.keys |->
                      <<accountKey.keys[i].weight, accountKey.keys[i].key>>]]
Encoded(accountKey) ==
  IF accountKey.type = "roleBased"
  THEN [tag |-> "05",
        list |-> [r \in DOMAIN accountKey.keys |-> EncodedKey(accountKey.keys[r])]]
  ELSE EncodedKey(accountKey)

DecodedKey(encoding) ==
  CASE encoding.tag = "01c0" -> AccountKeyLegacy
    [] encoding.tag = "02" -> AccountKeyPublic(encoding.list)
    [] encoding.tag = "03c0" -> AccountKeyFail
    [] encoding.tag = "04" ->
         AccountKeyWeightedMultiSig(
           encoding.threshold,
           [i \in DOMAIN encoding.list |->
              [weight |-> encoding.list[i][1], key |-> encoding.list[i][2]]])
    [] OTHER -> Refused
DecodedRole(encoding) ==
  IF encoding.tag = "80" THEN AccountKeyNil ELSE DecodedKey(encoding)
Decoded(encoding) ==
  IF encoding.tag = "05"
  THEN AccountKeyRoleBased([r \in DOMAIN encoding.list |-> DecodedRole(encoding.list[r])])
  ELSE DecodedKey(encoding)

-----------------------------------------------------------------------------
(* validateWithAccountKeyAndRole: TRUE or FALSE of an account key that is  *)
(* not role-based.  The loop over the recovered keys stops at the first    *)
(* that decides.                                                           *)

WeightOf(k, weighted) ==
  LET hits == {i \in DOMAIN weighted : weighted[i].key = k}
  IN IF hits = {} THEN 0 ELSE weighted[Min(hits)].weight

WeightOfFirst(n, recovered, weighted) ==
  SumOfWeights([i \in 1 .. n |-> WeightOf(recovered[i], weighted)])

ValidForKey(address, accountKey, recovered) ==
  \/ accountKey.type = "legacy" /\ DerivedOf[address] \in Range(recovered)
  \/ accountKey.type = "public" /\ accountKey.key \in Range(recovered)
  \/ /\ accountKey.type = "multisig"
     /\ \E n \in DOMAIN recovered :
          WeightOfFirst(n, recovered, accountKey.keys) >= accountKey.threshold

(* A role-based key answers for the role; one without that role makes the  *)
(* Validator throw.                                                        *)
Validatable(accountKey, role) ==
  accountKey.type = "roleBased" => role \in DOMAIN accountKey.keys
Valid(address, accountKey, recovered, role) ==
  ValidForKey(address,
              IF accountKey.type = "roleBased" THEN accountKey.keys[role] ELSE accountKey,
              recovered)

-----------------------------------------------------------------------------
(* The node, as Klaytn defines it: signers is the set of keys that signed. *)

KeyForRole(accountKey, role) ==
  IF accountKey.type # "roleBased" THEN accountKey
  ELSE accountKey.keys[IF role \in DOMAIN accountKey.keys THEN role ELSE TransactionRole]
Weighing(weighted, signers) ==
  [i \in {j \in DOMAIN weighted : weighted[j].key \in signers} |-> weighted[i].weight]
NodeAccepts(address, accountKey, signers, role) ==
  LET key == KeyForRole(accountKey, role)
  IN \/ key.type = "legacy" /\ DerivedOf[address] \in signers
     \/ key.type = "public" /\ key.key \in signers
     \/ /\ key.type = "multisig" /\ signers # {}
        /\ key.threshold <= SumOfWeights(Weighing(key.keys, signers))

(* An update: a Nil role keeps the key the account has in that role, which *)
(* only a role-based account has; a role-based key has at least one role,  *)
(* and the keys of a multisig must differ.                                 *)
RolesOf(accountKey) ==
  IF accountKey.type = "roleBased" THEN DOMAIN accountKey.keys ELSE {}
Updatable(old, new) ==
  /\ new.type = "roleBased" => new.keys # << >>
  /\ \A r \in RolesOf(new) : new.keys[r] = AccountKeyNil => r \in RolesOf(old)
  /\ \A m \in IF new.type = "roleBased" THEN Range(new.keys) ELSE {new} :
       m.type = "multisig" =>
         \A i, j \in DOMAIN m.keys : m.keys[i].key = m.keys[j].key => i = j
Updated(old, new) ==
  IF new.type = "roleBased"
  THEN AccountKeyRoleBased(
         [r \in RolesOf(old) \union RolesOf(new) |->
            IF r \notin RolesOf(new) \/ new.keys[r] = AccountKeyNil
            THEN old.keys[r] ELSE new.keys[r]])
  ELSE new
=============================================================================
