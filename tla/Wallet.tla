-------------------------------- MODULE Wallet --------------------------------
(***************************************************************************)
(* caver.wallet: keyrings by address, and the application that changes the *)
(* keys of its accounts with them.  An account update is signed by the     *)
(* keyring the wallet holds, decided by the node, and followed, sooner or  *)
(* later or not at all, by updateKeyring; the wallet and the chain agree   *)
(* only as far as the application makes them.                              *)
(***************************************************************************)
EXTENDS AccountKeys

CONSTANTS Addresses,
          NoKeyring,
          Keyrings,      \* keyrings the application makes for an address
          RoleOptions,   \* options it passes to toAccount, by role
          ShortRoles,    \* role keys of accounts made without a keyring
          MaxOperations  \* bound: calls of the wallet and account updates

(* The options of a keyring's roles are WeightedMultiSigOptions with the   *)
(* thresholds and weights that an account key can have: naturals (that the *)
(* application gives such numbers is assumed, setters ask only for         *)
(* numbers).                                                               *)
ASSUME WalletAssumption ==
  /\ DerivedOf \in [Addresses -> Keys]
  /\ \A a \in Addresses : Keyrings[a] \subseteq AllKeyrings
  /\ \A optionsOf \in RoleOptions :
       /\ DOMAIN optionsOf \subseteq Roles
       /\ optionsOf \in [DOMAIN optionsOf -> [threshold : Nat, weights : Seq(Nat)]]
  /\ ShortRoles \subseteq Seq(Seq(Keys))
  /\ MaxOperations \in Nat

VARIABLES
  keyrings,     \* the wallet: [Addresses -> keyring or NoKeyring]
  accountKey,   \* the chain: the account key of each address
  basis,        \* keyring each account key was made from, or NoKeyring
  update,       \* the account update under way
  operations    \* how many calls and updates there were

walletVars == <<keyrings, accountKey, basis, update, operations>>

NoUpdate == [phase |-> "none"]

WalletInit ==
  /\ keyrings = [a \in Addresses |-> NoKeyring]
  /\ accountKey = [a \in Addresses |-> AccountKeyLegacy]
  /\ basis = [a \in Addresses |-> SingleKeyring(DerivedOf[a])]
  /\ update = NoUpdate
  /\ operations = 0

IsExisted(a) == keyrings[a] # NoKeyring

-----------------------------------------------------------------------------
(* The container.  A keyring is copied when it is added; its keys are not  *)
(* changed afterwards, so a copy is the same value.                        *)

Counted ==
  /\ operations < MaxOperations
  /\ operations' = operations + 1
Put(a, keyring) ==
  /\ Counted
  /\ keyrings' = [keyrings EXCEPT ![a] = keyring]
  /\ UNCHANGED <<accountKey, basis, update>>

Add(a, keyring) == ~IsExisted(a) /\ Put(a, keyring)

(* Removing takes the keyring out of the map.  It leaves the keys where    *)
(* they are, in the keyring that a signing call may hold.                  *)
Remove(a) == IsExisted(a) /\ Put(a, NoKeyring)

(* Remove, then add, which copies the keyring: of something that is none,  *)
(* there is no copy, and the old keyring is gone.                          *)
UpdateKeyring(a, keyring) == IsExisted(a) /\ Put(a, keyring)
UpdateKeyringFails(a) == IsExisted(a) /\ Put(a, NoKeyring)

(* The application restores a keyring from the key store it made of it. *)
Restore(a) ==
  /\ IsExisted(a) /\ MayDecrypt(Encrypted(keyrings[a]))
  /\ UpdateKeyring(a, Decrypted(Encrypted(keyrings[a])))

-----------------------------------------------------------------------------
(* An account update. *)

(* wallet.sign looks the keyring up before it waits for the node to fill   *)
(* the transaction.                                                        *)
SignUpdate(a, key, from) ==
  /\ update.phase = "none" /\ Counted
  /\ IsExisted(a)
  /\ key # Refused
  /\ update' = [phase |-> "signing", address |-> a, signer |-> keyrings[a],
                key |-> Encoded(key), from |-> from]
  /\ UNCHANGED <<keyrings, accountKey, basis>>

StartUpdate(a, keyring, options) ==
  SignUpdate(a, ToAccount(keyring, options), keyring)
StartShortUpdate(a, kss) ==
  SignUpdate(a, RoleBasedFromKeys(kss, [r \in DOMAIN kss |-> EmptyOptions]), NoKeyring)

UpdateSigned ==
  /\ update.phase = "signing"
  /\ HasKeyFor(update.signer, AccountUpdateRole)
  /\ update' = [update EXCEPT !.phase = "sent"]
  /\ UNCHANGED <<keyrings, accountKey, basis, operations>>

(* The node fails to fill the transaction, or the keyring has no key. *)
UpdateFails ==
  /\ update.phase = "signing"
  /\ update' = NoUpdate
  /\ UNCHANGED <<keyrings, accountKey, basis, operations>>

UpdateAccepted ==
  NodeAccepts(update.address, accountKey[update.address],
              Range(KeysByRole(update.signer, AccountUpdateRole)), AccountUpdateRole)

UpdateDecided ==
  LET a == update.address
      new == Decoded(update.key)
  IN /\ update.phase = "sent"
     /\ update' = NoUpdate
     /\ IF UpdateAccepted /\ Updatable(accountKey[a], new)
        THEN /\ accountKey' = [accountKey EXCEPT ![a] = Updated(accountKey[a], new)]
             /\ basis' = [basis EXCEPT ![a] = update.from]
        ELSE UNCHANGED <<accountKey, basis>>
     /\ UNCHANGED <<keyrings, operations>>

WalletNext ==
  \/ \E a \in Addresses :
       \/ \E keyring \in Keyrings[a] :
            \/ Add(a, keyring)
            \/ UpdateKeyring(a, keyring)
            \/ \E options \in RoleOptions : StartUpdate(a, keyring, options)
       \/ Remove(a)
       \/ UpdateKeyringFails(a)
       \/ Restore(a)
       \/ \E kss \in ShortRoles : StartShortUpdate(a, kss)
  \/ UpdateSigned \/ UpdateFails \/ UpdateDecided

-----------------------------------------------------------------------------
SameKeys(K, L) ==
  /\ IsRoleBased(K) <=> IsRoleBased(L)
  /\ K.keys = L.keys

(* The keyring is the one the account's key was made from, and has keys of *)
(* its own for the role: for an empty role toAccount says Nil, which keeps *)
(* the key the account had, whatever getKeyByRole falls back on.           *)
StandsFor(keyring, a, role) ==
  /\ basis[a] # NoKeyring
  /\ SameKeys(keyring, basis[a])
  /\ IsRoleBased(keyring) => keyring.keys[role] # << >>
=============================================================================
