----------------------------- MODULE LegacyWallet -----------------------------
(***************************************************************************)
(* caver.klay.accounts.wallet: accounts as properties of one object, under *)
(* an index and under several spellings of the address.  An account object *)
(* refers to an account key object, which an update of the same type       *)
(* changes in place; updateAccountKey stores an AccountKey instance of     *)
(* another type as it is, so that two accounts may come to refer to one    *)
(* instance that the application holds.                                    *)
(*                                                                         *)
(* An application spells an address with "0x" in lower case, with its      *)
(* checksum or with "0x" in upper case; what add writes under              *)
(* toUpperCase() begins with "0X" and is a fourth spelling.                *)
(***************************************************************************)
EXTENDS Integers, Sequences, FiniteSetsExt, Functions

CONSTANTS LegacyAddresses,
          LegacyKeys, \* private keys
          Contents,   \* what account key objects are made to hold
          KeyStores,  \* arrays of key stores of different addresses
          Instance,   \* an AccountKey instance the application holds
          InstanceContent, \* what it holds at first
          MaxIndex,   \* bound: accounts in the wallet at a time
          MaxLegacy,  \* bound: calls of the application
          Nothing

VARIABLES
  wallet,     \* the Wallet object and the objects it refers to, see EmptyWallet
  given,      \* history: what an address was last given, or Nothing
  twice,      \* history: addresses in the wallet twice at some time
  shared,     \* history: addresses that were given Instance
  request,    \* a contract call that uses this wallet
  legacyCalls

legacyVars == <<wallet, given, twice, shared, request, legacyCalls>>

Spelled == {"lower", "checksum", "0xUPPER"}
Written == {"lower", "checksum", "0XUPPER"}
Spellings == Spelled \union Written
LegacyRoles == {"transactionKey", "updateKey", "feePayerKey"}
Indexes == 0 .. MaxIndex - 1
Accounts == 1 .. MaxIndex

(* Account key objects: as many as can be referred to at a time, and the   *)
(* one that an update makes.                                               *)
KeyObjects == (1 .. MaxIndex + 1) \union {Instance}

PublicKey(k) == [type |-> "AccountKeyPublic", key |-> k]
RoleBasedKey(f) == [type |-> "AccountKeyRoleBased", key |-> f]

AllContents ==
  [type : {"AccountKeyPublic"}, key : LegacyKeys]
    \union [type : {"AccountKeyRoleBased"}, key : [LegacyRoles -> LegacyKeys \union {Nothing}]]

ASSUME LegacyAssumption ==
  /\ Contents \union {InstanceContent} \subseteq AllContents
  /\ KeyStores \subseteq Seq([address : LegacyAddresses, content : AllContents])
  /\ \A stores \in KeyStores : \A i, j \in DOMAIN stores :
       stores[i].address = stores[j].address => i = j
  /\ MaxIndex \in Nat \ {0} /\ MaxLegacy \in Nat
  /\ Nothing \notin Accounts \union KeyObjects \union AllContents
  /\ Instance \notin 1 .. MaxIndex + 1

EmptyWallet ==
  [slots |-> [i \in Indexes |-> Nothing],     \* index -> account object
   entries |-> [e \in LegacyAddresses \X Spellings |-> Nothing],
   lastIndex |-> -1,
   length |-> 0,
   account |-> [n \in Accounts |-> Nothing],  \* [address, index] of an account object
   refers |-> [n \in Accounts |-> Nothing],   \* its account key object
   content |-> [o \in KeyObjects |-> Nothing]]

NoRequest == [phase |-> "none"]

LegacyInit ==
  /\ wallet = [EmptyWallet EXCEPT !.content[Instance] = InstanceContent]
  /\ given = [a \in LegacyAddresses |-> Nothing]
  /\ twice = {} /\ shared = {}
  /\ request = NoRequest
  /\ legacyCalls = 0

-----------------------------------------------------------------------------
(* Looking up. *)

Slots(w) == {i \in Indexes : w.slots[i] # Nothing}
InUse(w) == {n \in Accounts : \E i \in Indexes : w.slots[i] = n}
                \union {n \in Accounts : \E e \in DOMAIN w.entries : w.entries[e] = n}
FreeAccount(w) == Min(Accounts \ InUse(w))
FreeKey(w) == Min((1 .. MaxIndex + 1) \ {w.refers[n] : n \in InUse(w)})

(* _findSafeIndex and _findSafeLastIndex. *)
FindSafeIndex_neverReuses(w) == w.lastIndex + 1
FindSafeIndex(w) == Min((0 .. w.lastIndex + 1) \ Slots(w))
FindSafeLastIndex(w) == Max(Slots(w) \union {-1})

KeyOf(w, n) == IF w.refers[n] = Nothing THEN Nothing ELSE w.content[w.refers[n]]

-----------------------------------------------------------------------------
(* add writes the account under its index, its address as it is spelled,   *)
(* in lower case, in upper case, and with its checksum; only the address   *)
(* as it is spelled is looked at before.                                   *)

MayAdd(w, a, s) == w.entries[<<a, s>>] = Nothing
Added(w, a, s, c) ==
  LET n == FreeAccount(w)
      i == FindSafeIndex(w)
      o == FreeKey(w)
  IN [w EXCEPT !.slots[i] = n,
               !.entries = [e \in DOMAIN @ |->
                              IF e \in {a} \X (Written \union {s}) THEN n ELSE @[e]],
               !.lastIndex = IF i > @ THEN i ELSE @,
               !.length = @ + 1,
               !.account[n] = [address |-> <<a, s>>, index |-> i],
               !.refers[n] = o,
               !.content[o] = c]

(* The setter of accountKey: o replaces a key object of another type, and  *)
(* is merged into one of its own type.  A role that o lacks stays.         *)
Merged(old, new) ==
  IF new.type = "AccountKeyRoleBased"
  THEN RoleBasedKey([r \in LegacyRoles |->
                       IF new.key[r] = Nothing THEN old.key[r] ELSE new.key[r]])
  ELSE new
SetKey(w, n, o) ==
  IF KeyOf(w, n) = Nothing \/ KeyOf(w, n).type # w.content[o].type
  THEN [w EXCEPT !.refers[n] = o]
  ELSE [w EXCEPT !.content[w.refers[n]] = Merged(@, w.content[o])]

(* The account objects an update writes to, in its order; the first that   *)
(* is missing ends it with a TypeError, which only the last may catch.     *)
Targets(w, n) ==
  LET a == w.account[n].address[1]
  IN <<w.slots[w.account[n].index], w.entries[w.account[n].address],
       w.entries[<<a, "lower">>], w.entries[<<a, "0XUPPER">>], w.entries[<<a, "checksum">>]>>
Found(targets) ==
  LET missing == {i \in DOMAIN targets : targets[i] = Nothing}
  IN IF missing = {} THEN targets ELSE SubSeq(targets, 1, Min(missing) - 1)
KeySet(w, n, o) ==
  LET f[i \in 0 .. 5] ==
        IF i = 0 THEN w
        ELSE IF i > Len(Found(Targets(w, n))) THEN f[i - 1]
        ELSE SetKey(f[i - 1], Targets(w, n)[i], o)
  IN f[5]

(* remove empties the key of every account it finds under the address of   *)
(* the one to remove, and takes the entries away.                          *)
MayRemove(w, n) == w.entries[w.account[n].address] # Nothing
Removed_ownSpellingOnly(w, n) ==
  LET own == w.account[n].address
      under == {own}
      gone == {w.entries[e] : e \in under} \union {w.slots[w.account[n].index]}
      left == [w EXCEPT !.slots[w.account[n].index] = Nothing,
                        !.entries = [e \in DOMAIN @ |-> IF e \in under THEN Nothing ELSE @[e]],
                        !.refers = [m \in Accounts |-> IF m \in gone THEN Nothing ELSE @[m]],
                        !.length = @ - 1]
  IN IF w.account[n].index = w.lastIndex
     THEN [left EXCEPT !.lastIndex = FindSafeLastIndex(left)]
     ELSE left
Removed(w, n) ==
  LET own == w.account[n].address
      under == {own[1]} \X (Written \union {own[2]})
      gone == {w.entries[e] : e \in under} \union {w.slots[w.account[n].index]}
      left == [w EXCEPT !.slots[w.account[n].index] = Nothing,
                        !.entries = [e \in DOMAIN @ |-> IF e \in under THEN Nothing ELSE @[e]],
                        !.refers = [m \in Accounts |-> IF m \in gone THEN Nothing ELSE @[m]],
                        !.length = @ - 1]
  IN IF w.account[n].index = w.lastIndex
     THEN [left EXCEPT !.lastIndex = FindSafeLastIndex(left)]
     ELSE left

(* clear removes one index after the other, and ends at the first TypeError. *)
Cleared(w) ==
  LET f[i \in 0 .. MaxIndex] ==
        IF i = 0 THEN [wallet |-> w, removed |-> {}, thrown |-> FALSE]
        ELSE LET n == w.slots[i - 1]
             IN IF f[i - 1].thrown \/ n = Nothing THEN f[i - 1]
                ELSE IF MayRemove(f[i - 1].wallet, n)
                THEN [f[i - 1] EXCEPT !.wallet = Removed(@, n),
                                      !.removed = @ \union {w.account[n].address[1]}]
                ELSE [f[i - 1] EXCEPT !.thrown = TRUE]
  IN f[MaxIndex]

(* What nothing refers to any more is gone. *)
Collected(w) ==
  LET used == InUse(w)
      referred == {w.refers[n] : n \in used} \union {Instance}
  IN [w EXCEPT !.account = [n \in Accounts |-> IF n \in used THEN @[n] ELSE Nothing],
               !.refers = [n \in Accounts |-> IF n \in used THEN @[n] ELSE Nothing],
               !.content = [o \in KeyObjects |-> IF o \in referred THEN @[o] ELSE Nothing]]

-----------------------------------------------------------------------------
(* Calls of the application. *)

Call(w) ==
  /\ legacyCalls < MaxLegacy
  /\ legacyCalls' = legacyCalls + 1
  /\ wallet' = Collected(w)
  /\ UNCHANGED request

Existing(a) == {i \in Slots(wallet) : wallet.account[wallet.slots[i]].address[1] = a}

AddAccount(a, s, c) ==
  /\ MayAdd(wallet, a, s) /\ Slots(wallet) # Indexes
  /\ InUse(wallet) # Accounts
  /\ Call(Added(wallet, a, s, c))
  /\ given' = [given EXCEPT ![a] = c]
  /\ twice' = IF Existing(a) # {} THEN twice \union {a} ELSE twice
  /\ shared' = shared \ {a}

(* updateAccountKey with keys, of which it makes a key object, and with an *)
(* instance of the application; updatePrivateKey makes one of its own and  *)
(* takes accounts with a public key only.                                  *)
UpdateAccountKey(a, s, c) ==
  LET n == wallet.entries[<<a, s>>]
      made == [wallet EXCEPT !.content[FreeKey(wallet)] = c]
  IN /\ n # Nothing
     /\ Call(KeySet(made, n, FreeKey(wallet)))
     /\ given' = [given EXCEPT ![a] = IF @ # Nothing /\ @.type = c.type THEN Merged(@, c) ELSE c]
     /\ UNCHANGED <<twice, shared>>
UpdateWithInstance(a, s) ==
  LET n == wallet.entries[<<a, s>>]
      c == wallet.content[Instance]
  IN /\ n # Nothing
     /\ Call(KeySet(wallet, n, Instance))
     /\ given' = [given EXCEPT ![a] = IF @ # Nothing /\ @.type = c.type THEN Merged(@, c) ELSE c]
     /\ shared' = shared \union {a}
     /\ UNCHANGED twice
UpdatePrivateKey(a, s, c) ==
  LET n == wallet.entries[<<a, s>>]
  IN /\ n # Nothing /\ c.type = "AccountKeyPublic"
     /\ KeyOf(wallet, n) # Nothing /\ KeyOf(wallet, n).type = "AccountKeyPublic"
     /\ UpdateAccountKey(a, s, c)

(* remove by address or by index. *)
RemoveAccount(n) ==
  LET a == wallet.account[n].address[1]
  IN /\ MayRemove(wallet, n)
     /\ Call(Removed(wallet, n))
     /\ given' = [given EXCEPT ![a] = Nothing]
     /\ UNCHANGED <<twice, shared>>
Clear ==
  /\ Slots(wallet) # {}
  /\ Call(Cleared(wallet).wallet)
  /\ given' = [a \in LegacyAddresses |->
                 IF a \in Cleared(wallet).removed THEN Nothing ELSE given[a]]
  /\ UNCHANGED <<twice, shared>>

(* decrypt adds the accounts of the key stores one by one, unless they     *)
(* exist, and throws at one it cannot decrypt: the first n are decrypted.  *)
Decrypt(stores, n) ==
  LET news == {i \in 1 .. n : MayAdd(wallet, stores[i].address, "lower")}
      f[i \in 0 .. n] ==
        IF i = 0 THEN wallet
        ELSE IF i \notin news THEN f[i - 1]
        ELSE Added(f[i - 1], stores[i].address, "lower", stores[i].content)
  IN /\ news # {}
     /\ Cardinality(Indexes \ Slots(wallet)) >= Cardinality(news)
     /\ Cardinality(Accounts \ InUse(wallet)) >= Cardinality(news)
     /\ Call(f[n])
     /\ given' = [a \in LegacyAddresses |->
                    IF \E i \in news : stores[i].address = a
                    THEN stores[CHOOSE i \in news : stores[i].address = a].content
                    ELSE given[a]]
     /\ twice' = twice \union {stores[i].address : i \in {j \in news : Existing(stores[j].address) # {}}}
     /\ shared' = shared \ {stores[i].address : i \in news}

-----------------------------------------------------------------------------
(* A method of a klay.Contract is sent.  Whether the wallet has a private  *)
(* key decides the type of the transaction; the gas price is asked for,    *)
(* and the account is looked up again.                                     *)

HasPrivateKey(w, a) ==
  LET n == w.entries[<<a, "lower">>]
  IN n # Nothing /\ KeyOf(w, n) # Nothing
TransactionKey(content) ==
  IF content.type = "AccountKeyRoleBased" THEN content.key["transactionKey"] ELSE content.key

SendRequest(a) ==
  /\ request.phase \in {"none", "sent"}
  /\ request' = [phase |-> "pricing", address |-> a,
                 type |-> IF HasPrivateKey(wallet, a)
                          THEN "SMART_CONTRACT_EXECUTION" ELSE "LEGACY"]
  /\ UNCHANGED <<wallet, given, twice, shared, legacyCalls>>

(* The price has come.  With accounts in the wallet the one of the sender  *)
(* signs, and without it only a LEGACY transaction goes to the node; an    *)
(* empty wallet is not looked into.                                        *)
SentBy(who, key) ==
  request' = [phase |-> "sent", by |-> who, address |-> request.address,
              type |-> request.type, key |-> key,
              given |-> given[request.address], shared |-> request.address \in shared,
              emptied |-> wallet.length = 0]
Priced ==
  LET a == request.address
      key == TransactionKey(wallet.content[wallet.refers[wallet.entries[<<a, "lower">>]]])
  IN /\ request.phase = "pricing"
     /\ IF wallet.length = 0 THEN SentBy("node", Nothing)
        ELSE IF HasPrivateKey(wallet, a)
        THEN IF key = Nothing THEN request' = NoRequest ELSE SentBy("wallet", key)
        ELSE IF request.type = "LEGACY" THEN SentBy("node", Nothing)
        ELSE request' = NoRequest
     /\ UNCHANGED <<wallet, given, twice, shared, legacyCalls>>

LegacyNext ==
  \/ \E a \in LegacyAddresses, s \in Spelled :
       \/ \E c \in Contents :
            \/ AddAccount(a, s, c)
            \/ UpdateAccountKey(a, s, c)
            \/ UpdatePrivateKey(a, s, c)
       \/ UpdateWithInstance(a, s)
       \/ SendRequest(a)
  \/ \E n \in InUse(wallet) : RemoveAccount(n)
  \/ \E stores \in KeyStores, n \in 1 .. 2 : n <= Len(stores) /\ Decrypt(stores, n)
  \/ Clear \/ Priced
=============================================================================
