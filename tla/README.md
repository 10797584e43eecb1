# caver-js in TLA+

caver-js is the JavaScript client library of the Klaytn blockchain: it keeps
keys, builds and signs transactions, sends them to a node over JSON-RPC and
tells the application what becomes of them. There is one thread, but nearly
every operation is interrupted: by a socket, a timer, an `await`, a callback of
the application. What can go wrong is the order in which the rest of an
operation, other operations and events come back. That is what the modules
here model, check with TLC and, where it does not need fairness, prove with
TLAPS. Source paths below are relative to `src/packages/`.

## The system

| component | state | operations | made correct by |
|---|---|---|---|
| WebSocket provider (`caver-core-requestmanager/caver-providers-ws`) | socket, two request queues, reconnection flag and count, partial message, timers | send, open, message, close, reconnect, reset, disconnect, message time-out | each callback called once and, unless thrown away, at last; nothing queued without a connection on its way |
| HTTP provider (`caver-providers-http`) | the one field for the time-out of the latest request | send, success, body, failure, abort | each callback called once; each request has its own time-out |
| IPC provider (`caver-providers-ipc`) | response callbacks, partial message, listeners | send, data, end, error, time-out, reset | as the WebSocket provider; no request waits for nothing |
| RequestManager, batch (`caver-core-requestmanager/src`) | provider, subscriptions by id | setProvider, send, sendBatch, add/remove/clear subscriptions | the table, the objects and the node agree on what is subscribed |
| Middleware (`caver-middleware`) | list of functions, position in it | next, bypass | a request is sent once, or on purpose not at all |
| Subscription (`caver-core-subscriptions`) | id, callback, arguments, past logs under way | subscribe, unsubscribe, confirm, notify | no notification after unsubscribe, no subscription nobody can cancel |
| Method (`caver-core-method`) | the mutable confirmation pack of each sending call, its PromiEvent | ask for prices, send, check the receipt, watch, settle, time out | settled once, as the receipt says; what watches is stopped |
| Transactions (`caver-transaction`) | fields and signatures of an instance | create, fill, sign, sign as fee payer, combine, encode, decode | every signature is one of the transaction it is attached to; what is decoded is what was encoded |
| Wallet and keyrings (`caver-wallet`) | keyrings by address | add, update, remove, encrypt, decrypt, sign | what a keyring signs its account accepts |
| Legacy accounts (`caver-klay/caver-klay-accounts`) | accounts by index and by spellings of the address, length, last index | add, update, remove, clear, decrypt; encode, sign, combine transactions | all the names of an account lead to it; index, length and last index agree; as Transactions |
| Account keys (`caver-account`), validator (`caver-validator`) | none | options, encode, decode, validate | thresholds, weights and roles decide as the node does |
| Contract (`caver-contract`) | ABI, methods by name, options, the code of a deployment | deploy, call, send, sign, events | the method that takes the arguments, the right party signs, the events asked for |
| KCT (`caver-kct`) | options of the contract | methods with optional arguments, detectInterface | the arguments and options of the call end up where they belong |
| ABI coder, RPC tables, utilities, formatters, IPFS | none | conversions | conversions |

How they interact: `packageInit` hands the RequestManager of a `Caver` to its
packages (`caver-core/src/index.js:57`), so that klay, rpc, kct and accounts
share one. A Contract makes a manager of its own on the provider before it is
given the shared one (`caver-contract/src/index.js:78`), and two `Caver`s built
on one provider object share that: several managers then listen to one
provider. A `Method` sends its payload through the manager, the manager through the
middleware chain to the provider, and the answer returns as a callback.
Notifications are `data` events of the provider, dispatched by the manager to
the subscription with their id. The confirmation of a transaction is itself a
`Method` that calls others (`getTransactionReceipt`, `getCode`) and subscribes
to new blocks. Signing asks the node for the nonce, the gas price and the
chain id in the middle of `sign`. A Contract makes a transaction of a call and
has it signed by whichever of wallet and node holds the keys; a token chooses
the Contract's method and options. The hard behaviours: old sockets whose
listeners stay attached, callbacks that race time-outs, checks that overlap,
an `await` between looking and using (a field, a keyring, an option), several
parties holding copies of one transaction, two libraries that have to encode
and decode alike, operations that fail half way. `PROJECT.json` lists
them, at the line where each bites.

## The modules

| module | models | checked by | proofs |
|---|---|---|---|
| `RpcChannel` | what a provider promises to its caller (abstract) | as a PROPERTY of the runs of `WsProvider` | |
| `WsProvider` | `caver-providers-ws/src/index.js` | `MCWsProvider` | `WsProviderProofs` |
| `SendTransaction` | `caver-core-method/src/index.js`, `_fireError` of `caver-utils` | `MCSendTransaction` | `SendTransactionProofs` |
| `TransactionSigning` | the abstract transaction classes and `FeeDelegatedValueTransfer` | `MCTransactionSigning` | `TransactionSigningProofs` |
| `JsonRpc` | the numbering of requests | `MCRequestManager` | |
| `Middleware` | `caver-middleware` | `MCRequestManager` | |
| `HttpProvider` | `caver-providers-http` | `MCRequestManager` | |
| `IpcProvider` | `caver-providers-ipc` | `MCRequestManager` | |
| `RequestManager` | `caver-core-requestmanager/src`, `caver-core-subscriptions`; composes the four above | `MCRequestManager` | `RequestManagerProofs`, `WaitingProofs`, `SubscriptionProofs` |
| `TransactionTypes` | the classes of `caver-transaction`: fields, encoding, decoding, create | `MCTransactionExchange` | `TransactionExchangeProofs` |
| `TransactionValidation` | `caver-core-helpers/src/validateFunction.js` | `MCTransactionExchange` | `TransactionExchangeProofs` |
| `LegacyEncoding` | `transactionType/` and `makeRawTransaction.js` of `caver-klay-accounts` | `MCTransactionExchange` | `TransactionExchangeProofs` |
| `TransactionExchange` | signing and combining in both APIs; composes the three above | `MCTransactionExchange` | `TransactionExchangeProofs` |
| `AccountKeys` | `caver-account`, the keyrings of `caver-wallet`, key stores, the decision of the validator | `MCKeyHolders` | `KeyHoldersProofs` |
| `Wallet` | the container of `caver-wallet`, account updates | `MCKeyHolders` | `KeyHoldersProofs` |
| `ContractCalls` | `_executeMethod` of `caver-contract`, `determineSendParams` of `caver-kct`, `caver-validator` | `MCKeyHolders` | `KeyHoldersProofs` |
| `LegacyWallet` | the wallet of `caver-klay-accounts`, `buildSendRequestFunc` | `MCKeyHolders` | `KeyHoldersProofs` |
| `ContractObjects` | interface, overloads, deployment and events of `caver-contract` | `MCKeyHolders` | `KeyHoldersProofs` |
| `Tokens` | KIP7, KIP17, KIP37 and `detectInterface` of `caver-kct` | `MCKeyHolders` | `KeyHoldersProofs` |
| `KeyHolders` | the composition of the six above | `MCKeyHolders` | `KeyHoldersProofs` |

An action is one turn of the event loop: a call of the application, an event,
a timer or the continuation of an `await`, with everything it does until it
returns. In every module an operator `X_mistake` is `X` with a mistake in it,
which `Next` does not use: it shows which property would catch the mistake.

### WsProvider

The variables are the fields of the provider (`requestQueue` and
`responseQueue` as the sets of their keys), the pending timers of `reconnect`
as a number, and the sockets. A provider replaces its socket on every
reconnection and means to remove the old one's listeners, but
`_removeSocketListeners` removes the methods of the prototype while
`_addSocketListeners` added bound copies; so the model keeps all sockets, with
the number of listener sets attached to each, and every handler may run for
any of them. `Send`, `OnConnect`, `OnClose`, `ReconnectTimer`, `ChunkTimeout`,
`Reset`, `Disconnect` are the handlers of the same names. `Reconnect(n)` is
`n` consecutive calls of `reconnect`, which is what `n` listener sets on a
closing socket make of one close. Messages are abstracted to what the
de-chunker makes of them: a whole response, its first or second half, a
notification; `lastChunk` is nothing, the first half of a known response, or
text that no continuation turns into JSON (`Garbage`).

The history variables `issued`, `calls` and `cleared` record what the
application has done and heard. `cleared` are the requests that `reset`
forgets on purpose ("clears all callbacks").

Bounds: `MaxTimers` reconnection timers at a time, `MaxListeners` listener
sets that resets pile up, `AttemptBound` attempts when they are not limited,
two socket slots (a slot is used again once its socket is CLOSED). Two sockets
are enough for a provider to have one it has forgotten and one it uses, which
is what every race here needs; two timers are enough to have one while another
has already connected. A third socket or timer repeats the second.
A batch is a request like any other: its id is the one of its first payload.
Callbacks of the application do not call the provider again before they
return; such a call is modelled as one made in a later turn.

### SendTransaction

One call of a sending method. `phase` is where it is: waiting for prices, for
the hash, for the first receipt, watching. Each member of `Checks` is one
`getTransactionReceipt` under way (`checkConfirmation` starts a new one on
every block or tick, whether or not the last one has been answered), with the
answer the node gave and the callback that has not run yet; a check of a
deployment goes on to wait for `getCode`. `promiseResolved` is the field of
the confirmation pack; `settled`, `listening` and `events` are the promise,
the listeners on the emitter and what they have heard. `_fireError` rejects
and emits in two timers of one millisecond set one after the other; the model
fires them together (`ErrorTimer`), and other events may come before.
Whether the node supports subscriptions, the call is a deployment, the
transaction succeeds and how many prices are missing is chosen in `Init`. A
node may put the transaction into a block at any time or never. Two checks
under way are the bound; three would add no interleaving between two.

`canUnsubscribe` is always true in the code. The error branch of the
subscription callback can run only when the subscription is refused
(`WatchFails`): the RequestManager never passes an error with a notification.

### TransactionSigning

All instances stand for one transaction type, one sender, one chain:
`content` is what else is fixed when an instance is made. A signature is the
key with the hash it signed. `Sign` and `SignAsFeePayer` go up to the `await`
in `fillTransaction` and leave an entry in `calls` with the nonce and the
price read before it; `Finish` is the rest, with the node's answers for what
was missing. `Combine` and `CombineTwo` follow `combineSignedRawTransactions`
field by field, because a refused combination leaves behind what it filled in
before it met the difference. Arrays of two show the partial failure; a longer
one repeats it. An encoding is that of an instance as it is; an older one is
an instance that was decoded from it and left alone.

`SetNonce` is the only setter that the application uses, and only on an
instance without signatures: assigning fields of a signed one is the caller's
decision. `Overlapping` tells whether the application uses an instance that
lacks a field while it is being signed. Signing with several keys of one
keyring at once is a sequence of single signatures.

### RequestManager and what is below it

`RequestManager` composes the manager, its `Subscription` objects, the chain of
middlewares (`Middleware`) and one of two providers (`HttpProvider`,
`IpcProvider`), chosen in `Init`. A request is a number (`JsonRpc`), with what
it is (`request`), how often it was given to the provider (`sent`) and what
its callback was called with (`heard`). A batch is two requests with one
callback of the provider. `Call` and `ExecuteBatch` are the application's;
`Subscribe`, `Unsubscribe`, `AppClears`, `SetProvider` the operations of the
same names, with every request they make; `OtherManagerClears` is
`clearSubscriptions` of another manager that has the same provider object.
`MiddlewareStep` is one call of `next` or `bypass`: a middleware may call
either any number of times, and late.

`HttpProvider` follows one request from `fetch` to the end of its body, with
the single field `timeoutId` that all requests share (`timers` are those that
still run). `IpcProvider` holds `responseCallbacks`, `lastChunk` and the timer
for the rest of a message, the listeners of `data`, and of the world the
messages on the wire, the requests the node was asked, and the subscriptions
that it serves (`live`). Responses and notifications come whole or in two
pieces.

Left out: application callbacks have no effect but that one may throw in HTTP,
where the code calls it again; over IPC a throwing callback, and the late
answer to a batch that has no callback any more, are exceptions in an event
handler. Middlewares are registered before the first request; those for
inbound messages gate nothing. `setProvider` is called with the provider there
is. Answers belong to requests and ids are issued once. `subscribe` needs a
provider with `on`, so HTTP has no subscriptions. The path of a subscription
that has failed and subscribes again is not there: it starts from an error in
the notification callback, and the manager never passes one. A connection that
ends therefore silently ends the subscriptions on it.

The properties name what the code does besides: an HTTP time-out calls the
callback twice, and one that throws is called again (`HeardOnce`); an object
that is called while it waits for an id may lose one (`hasty`); a reset by
anybody leaves every manager without notifications until `setProvider` (`deaf`);
a message that follows a half one that timed out is garbage and swallows those
after it (`lastChunk = "garbage"`); the answer to one HTTP request clears the
timer of another (`Timed`).

### TransactionExchange

`TransactionTypes` has a table of the classes of `caver-transaction`: which
fields an object of the class holds and which of them its encoding contains,
in which order, with what `_decode` and `create` take out of an encoding;
`LegacyEncoding` the same for the encoders, decoders and `splitFeePayer` of
`caver.klay.accounts`, which cut an encoding by position; and
`TransactionValidation` the functions of `validateFunction.js`, which say what
an object must and may contain. `TransactionExchange` chooses a type and one
or two transactions of it (`documents`) that differ in at most one field, and
lets parties of either API encode them, decode each other's encodings
(`raws`), sign, sign as fee payer, attach signatures and combine, in any
order, for as long as they like: two encodings are kept at a time, `Discard`
makes room. A signature is the key with the values that were hashed for it
(`over`), so it can be compared with what a node would hash of the encoding it
is attached to. An encoding has no type tag the model could get wrong: the type
is part of what is hashed.

Named in the properties, because the code loses something there:
`LosesByDecode` (three deploy types compare `humanReadable` with 0x1, and the
encoding holds 0x01; `create` of an Ethereum typed transaction from an
encoding loses the access list), `LosesByRewriting` (a role-based key of fewer than three
roles is filled up with nil by `caver.klay.accounts`), `MaySign` (an Ethereum
typed transaction takes one signature). The encoding of a legacy transaction
lacks its sender. Klaytn encodings lack the chain id, so that signatures made
for two chains combine; the model has one chain. Left out: recovering public keys and
hashes of transactions, the contents of access lists, and `anchoredData`, the third
name of the input of a chain data anchoring, which `validateParams` renames to `data` when
neither `data` nor `input` is there.

### KeyHolders

Four parts that share no state; `part` says which one a behaviour exercises.

*caver.wallet* (`AccountKeys`, `Wallet`, `ContractCalls`). The wallet maps
addresses to keyrings; the chain has an account key for each; both change as
the application adds, removes, updates and restores keyrings (`Add`, `Remove`,
`UpdateKeyring`, `Restore`; an update that fails after the removal leaves the
address without a keyring, `UpdateKeyringFails`) and sends account updates made from them
(`StartUpdate` to `UpdateDecided`). Meanwhile a contract or a token executes a
method (`Execute`, `ExecuteToken`): each `await` of `_executeMethod` is a step
of its own, and the wallet, the chain and the options of the contract may
change between two of them. The node takes the signatures as the account key of that
moment demands; for `sign` and `signAsFeePayer` the Validator decides instead, and
before it does the other party may sign what was returned (`SignReturned`,
`SignReturnedAsFeePayer`), so that it decides fee payers too. The options of
`toAccount` are an array that may be short or have holes: a missing options object is
pushed to its end, and a role-based keyring whose array keeps a hole is refused
(`HasHole`). That the array is filled in place, in the caller's hands, is left out.
`Refined` is `refineSignatures`, which removes a signature that is there already:
a keyring may have one key twice, and the Validator adds weights up signature by
signature.
The account keys on the chain and the decision of the node are external: they
are the Klaytn account key rules as `caver-account` and `caver-validator` use
them. `StandsFor` says when a keyring ought to be accepted: the account's key
was made from it, and it has keys of its own for the role. A role without keys
falls back to the transaction key when it signs, but is encoded as nil, which
leaves on the chain whatever key the role had.

*caver.klay.accounts* (`LegacyWallet`). The wallet is one object whose
properties are indexes and addresses, each as it was spelled, in lower case, in
upper case and with its checksum, that refer to account objects,
which refer to `AccountKey` objects: these are separate, because two accounts
may share one and `updateAccountKey` changes it in place. A contract call looks the account up
to choose the type, waits for the gas price, and looks it up again to sign.
Named in the properties: `twice` (an address added in capitals has two
entries), `shared`, `emptied` (the wallet was emptied while the price was
asked for).

*A contract object* (`ContractObjects`). `SetInterface` follows the setter of
`jsonInterface` through its list, chaining methods of one name; `CallMethod`
resolves overloads by which signature can encode the arguments, as the code
does; `Deploy`, `Clone` and the events (`HearEvent`, `HearAnyEvent`) likewise. An argument is
the set of types it can be encoded as (a hex string may be bytes and a string), so one
argument list may fit several overloads. A filter asks for one value or for any of an
array of values (`Only`, `AnyOf`). Excepted by name: later deployments by one object (the
first one's code is taken for an argument), the constructor of an interface
that was replaced, a filter on zero alone or on an empty array, which lets
every value through, anonymous events.

*A token* (`Tokens`). For each method of the three classes the model has what the
code has: which argument a value that is left out is replaced by, how an
options object is told from an argument, which overload of the contract is
called. `CallToken` makes every combination of offered arguments for every
method, one call per behaviour, and `detectInterface` is asked of contracts
that support all, some or none of the interface ids, while requests may fail. Excepted by name: a token id that is a BigNumber given to
`pause` or `unpause` is taken for options; `data` and `uri` of KIP37 that are
documented as optional are refused when omitted; a failed request.

Left out of these: signing with one chosen key of a keyring, custom hashers,
signMessage, generating keys, the formats of key stores, gas, gas price and fee ratio
as options, ABI encoding of values, results of reads, tokens with an ABI of their
own, and the static wallet and manager of KIP37 and KIP13, which a second
`Caver` replaces.

## The runs

| run | question | result |
|---|---|---|
| `ws_auto_reconnect` | a provider with `auto`, at most two attempts, one socket at a time: is every request answered? | yes: `EveryRequestAnswered`, `ImplementsLiveChannel`; nothing lost or queued in vain; notifications still heard |
| `ws_any_calls` | overlapping sockets, resets, chunks, all calls of the application: what still holds? | `AnsweredAtMostOnce`, `QueuesHoldUnanswered`, `PendingHasCarrier`, `ImplementsChannel` |
| `ws_lost_request` | does `NoRequestLost` survive a reconnection by the application? | no, see below |
| `ws_chunk_timeout` | does the time-out of an incomplete message cancel all requests? | no |
| `send_confirm` | overlapping checks, node errors, half receipts, polling and subscription, plain and deployment | one event, that agrees with the promise; a mined transaction settles the call but in two named situations; watching stops |
| `send_no_timeout` | is the call of a transaction that is never mined settled? | no |
| `sign_and_combine` | several parties, two keys, failing calls, refused combinations: do signatures match? | yes, without overlapping use and with one fee payer |
| `sign_overlapping` | and with overlapping calls on one instance? | no |
| `combine_fee_payers` | and with two fee payers? | no |
| `rpc_and_subscriptions` | calls, batches, subscriptions and resets over HTTP and IPC, with middlewares and a second manager: who hears what? | callbacks once and requests sent once, table, objects and node agree, nothing is forgotten, but in the cases named above |
| `typed_transactions` | encodings of every type going round between the two APIs: does what goes round stay what was signed? | yes, but for the three losses named above |
| `key_holders` | wallets, contracts and tokens: does what they sign pass, and is a call what was asked for? | yes, but in the cases named above |

The five runs that find a violation are findings in `PROJECT.json`, each with
the comment it contradicts:

* `_onConnect` deletes requests that `send` has just queued again (needs a
  `reconnect()` while a socket is connecting);
* the message time-out fails queued requests only, not those sent;
* `countTimeout` receives the error instead of the confirmation pack, so its
  count never reaches the 50 blocks or seconds;
* `fillTransaction` overwrites fields that were defined while it waited;
* `combineSignedRawTransactions` replaces the fee payer of an instance that a
  fee payer has signed, as long as no sender has.

Deadlock is not checked in any run: an application that makes no further call
and a connection that is gone leave nothing to do, and that is no error.

Bounds of the runs: three requests, one of them unserializable, for the
provider that answers all (two to be in both queues at a time, one refused);
two requests where more calls are allowed; two checks; two instances, contents,
nonces, prices and sender keys, so that a mismatch of any field can occur.
Three requests, two of them subscriptions, and two ids over IPC: enough for a
subscription to be cancelled while another is being made, for a batch beside a
call, and for one answer to follow the time-out of another; one message on the
wire at a time (`MaxWire`), since the socket keeps their order; two
middlewares over HTTP and one over IPC. In `typed_transactions` every type and every
kind of account key occurs, and the two transactions may differ in one of nonce,
account key, fee ratio, access list and human-readable address: a plain field, the
one with a structure of its own, and three that only some types have. In `key_holders` the sender has single, multiple and role-based
keyrings that share a key, also one with an empty role, and the fee payer
role-based ones with and without a key for its role, and a multiple one that has one key
twice, so that a signature is there to be removed; options for `toAccount` are none,
one, one per role, and an array with a hole; three calls of the
wallet are enough to put a keyring in, update the account with another, and
replace or remove it while a call is being signed. Four of the legacy wallet: two accounts, an
update and a removal, with at most three accounts in the wallet, so that one
address can be in it under two spellings beside the other. Four of a contract: two interfaces and two deployments,
overloads of one length of which a hex string fits two.
Symmetry is used only in runs without liveness properties, over values that the
modules only compare for equality.

## Fairness

`WsProvider!Fairness`: timers fire, a socket that is connecting or closing
opens or closes, the node answers what it was asked as long as the socket
lives. These are promises of the event loop, of TCP and of a node that works;
nothing is assumed of the application, and the connection may be lost at any
moment. `EveryRequestAnswered` rests on them and on two conditions of its run:
`reconnectOptions.auto` with a bounded number of attempts (without a bound the
provider may retry for ever, and a queued request waits for ever), and no
chunked messages (half a message on a connection that stays open keeps the
requests sent on it waiting, as `ws_chunk_timeout` shows, and garbage left in
`lastChunk` swallows later ones). Without `auto`, a reconnection by the
application that fails leaves `reconnecting` set, and later requests are
queued for ever.

`SendTransaction!Fairness`: prices, the answer to the transaction and
subscription confirmations come; blocks or ticks come, so a free check is
used; a check that was asked is answered; a node that is asked again and
again while the transaction is in a block does not answer with an error each
time (strong fairness of the receipt answer and of `getCode`). That a
transaction is mined is not assumed. `MinedTxSettles` names the two situations
in which the code stops asking: `existing`, a first receipt without
`blockHash`, which every later check uses again, and `CodeUnread`, a
deployment whose `getCode` failed on the receipt of the first check.

## The proofs

For every value of the constants, from the named assumptions of the modules
alone:

* `WsProviderProofs`. `WsTypeCorrect` first. `AnsweredAtMostOnce` is not
  inductive: a callback is called once because a request in a queue is
  unanswered (`QueuesHoldUnanswered`), and that stays so because a request
  is answered only after it was given to `send`, and one that `reset` threw
  away never (`HistoryInv`). `PendingHasCarrier` joins them, since every action that
  closes a socket must also empty `responseQueue`. The invariant `IInv` is
  `TypeOK` with these four; each action is one step of the proof. `WsImplementsChannel` uses it: under the refinement
  mapping `ChannelStatus` every handler is `Issue`, `Answer` or `Drop` of a set
  of requests, or a stutter.
* `WsProviderProofs`, second part. Three more properties, and the refinement of
  the channel that drops nothing, hold if the application only sends and disconnects and
  `AutoReconnect` is not combined with a time-out (`OneSocket`); the run
  `ws_lost_request` breaks `NoRequestLost` without that. `OneSocketInv` adds to `IInv`
  that one socket at most is alive, it is the current one with one set of
  listeners, and a timer runs only without a socket (`Single`); when
  `reconnecting` may be set (`ReconnectingInv`) and when the manager may have stopped
  listening (`ListeningInv`). `WsKeepsRequests` reuses `WsImplementsChannel`: a
  step of the channel after which nothing is dropped is one of `KeepingChannel`.
* `SendTransactionProofs`. `IInv` adds to the types: prices are asked for only
  while pricing (`Pricing`); what has been heard, whether listeners are left
  and how the promise is settled go together (`Heard`); a decided call is not
  watched and a check has an answer only as far as the phase allows
  (`Deciding`); a receipt in a check means a mined transaction (`Truth`).
* `TransactionSigningProofs`. The type of a signature needs that an instance
  a fee payer is signing has a fee payer (`PayerThere`). `SignaturesMatch` needs
  `Reading`: an instance still holds what a waiting call has read of it, and a
  call that found a field missing is the only one on its instance; this is
  where `~Overlapping` is used. The fee payer theorem also needs that there is
  one fee payer. Both conditions are
  necessary: the runs `sign_overlapping` and `combine_fee_payers` break the
  properties without them. `SigningFillKeepsDefined` is the action property.
* `RequestManagerProofs`, `WaitingProofs` and `SubscriptionProofs` prove every
  property of `rpc_and_subscriptions` for any number of requests, objects,
  ids and middlewares. `StepKinds` first sorts the steps of the composition
  into a few kinds: requests are made and handed to a middleware, written or
  failed (`Makes`), a middleware goes on, a request arrives at the provider, an event
  of HTTP, an event of IPC. `SendingInv`: ids above `last` are unused, what
  a middleware has was not sent, the parts of a batch go with it. `HearingInv`:
  a callback waits only if its request was sent and has not been heard of,
  nothing unsent is heard of, one transport is in use. `WaitingInv`, for
  `NoneForgotten`: who waits is known to a provider, whose answer is on its way or
  whose timer runs. `IdsInv` and `AskInv`, for `TableMatchesObjects`: the
  ids on the wire are new and there once, and an object that is not called
  while it waits asks once and has no id until then. `ServedInv`, for
  `ServedMeansHeld`: one answer for one request (`AnsweredOnce`), nobody stops
  waiting for an id without being told (`GivenUp`), and what is served is
  `Held`.

* `TransactionExchangeProofs` proves every property of `typed_transactions`
  for any keys, any fields in which the transactions may differ and any
  number of encodings. `AllKnown` goes through the 24 types once: the four
  lists of fields of a class, and those of its counterparts in
  `caver.klay.accounts`, are one list (`OneOrder`), so decoding undoes
  encoding (`DecodeEncode`). `TransactionUnchanged` says nothing of who signed
  what, and `SignaturesCoverTransaction` nothing of what is signed next; the
  invariant `ExchangeInv` joins them: an encoding in circulation is that of a
  document, or of what `caver.klay.accounts` makes of one (`Rewrite`), its
  signatures are made of it as it stands, and signatures of a fee payer are
  there only with the fee payer, which is why `combineSignatures` loses none
  though it ignores those of an encoding without one. `EncodedIsReadable` and
  `NoFieldIgnored` add what validation makes of the names of the fields, group
  of types by group of types (`KindFields`, `TypedValid`, `LegacyValidParams`).
  `CombinableIffSame` excepts both encodings from the loss in `decode` because
  the proof needed it: an instance of a deployment without a human-readable
  address takes the signatures of one that has it.

* `KeyHoldersProofs` proves every property of `key_holders`, for any addresses,
  keys, keyrings, weights, options, key stores, interfaces, arguments and
  filters. `KeyHoldersInv` has six parts. `WalletInv`: what the chain has for an
  account answers for the keyring it was made of, and so will the update that is
  under way (`ChainAnswers`, `UpdateCarried`); it rests on lemmas about account
  keys: what `toAccount` makes of a keyring is accepted when all its keys sign
  (`AccountMade`), in every role that has keys of its own, and what is encoded
  is decoded again (`KeyDecoded`). `CallInv`: until it is over, a call holds
  signatures of the keyring that was captured or of the node, no others and none twice; the fee
  payer is validated only when the node would accept the sender
  (`ValidatedSoFar`), and a verdict is the node's (`Agreed`).

  `ValidatorAgrees` compares two sums: the Validator adds the weights of the
  signatures up, one after the other, and stops at the threshold; the node adds
  up the weights of the keys that signed. `SumOfWeights` chooses the order in
  which it adds, so the proof first shows that its recursion over subsets has a
  solution (`RecursionSolvable`) and that no order matters (`SumAdds`), by a
  smallest counterexample, since induction theorems cannot be used.
  `SumsOfWeights` then says that the two sums are equal if no signature is there
  twice, which `refineSignatures` sees to (`RefinedIs`), and no key is in an
  account key twice, which the chain sees to.

  `LegacyInv` says of the wallet of `caver.klay.accounts` what `LegacyFaithful`
  cannot carry by itself: an account stands under its index, and entries lead to
  accounts that stand (`Indexing`); key objects are shared only through the
  instance the application holds or by the entries of one address (`Sharing`);
  an address that was never there twice is found under every spelling it has
  (`Once`), with what it was given last (`Keeping`). Every operation is a
  sequence of additions, removals or settings of a key, and one lemma for each
  says that the wallet is a wallet after it (`AddedPreserves`,
  `RemovedPreserves`, `SetKeyPreserves`); `clear` follows by taking the least
  index at which it would fail.

  `ObjectInv` and `TokenInv` are the parts of `ContractAsAsked`, each a fact
  about the last call alone, with the types of the interface. `ResolvedFits`
  shows for any interface that the overload found takes the arguments if one of
  them does; `HeardAsAsked`, for any event, that what gets through a filter is
  the event asked for, with values the filter names. For a token, one lemma per
  class goes through its table (`Kip7Serves`, `Kip17Serves`, `Kip37Serves`):
  some overload takes all the arguments, and one takes all but the last if that
  may be left out; then what is left of the arguments once options are told from
  values (`EncodingIs`) decides which overload is called (`OverloadFits`), for
  the methods that pass arguments on, for `mint` of KIP37 and for `deploy` in
  turn.

  `DetectionInv`: what has been answered is true, and extensions are asked for
  only once the rest is known.

  The proofs corrected the model twice. A node refuses a role-based key without
  roles (`Updatable`), which the type of account keys had let pass. And
  `LegacyCallSigned` had excepted accounts that share an `AccountKey` now, where
  it must except those that shared one when the call was signed
  (`request.shared`); the difference takes more calls than the run makes.

The assumptions of `KeyHolders` are about its constants alone: keyrings,
options and key stores are of the shapes the constructors make, thresholds and
weights are naturals, interfaces are sequences of methods, events and
constructors, the key stores given to one `decrypt` are of different
addresses, and the instance the application holds is not one the wallet makes.

Every invariant and every refinement without fairness that a passing run
checks is stated by one of these theorems. Only model-checked is what rests on
fairness, which is out of the prover's reach: `EveryRequestAnswered`,
`ImplementsLiveChannel`, `MinedTxSettles` and `SettledStopsWatching`.

## Not modelled, and the plan

Formats are abstracted throughout: RLP, ABI, hex, hashes and signatures stand
for the values they encode. Left out for good: the ABI coder, the tables of RPC
methods, formatters and utilities (pure conversions and declarations) and IPFS
(I/O). What the modelled components leave out is said with each module above
and in `PROJECT.json`. `rpc_and_subscriptions` states no liveness: nothing in
HTTP without a time-out or in a middleware obliges a request to end, and where
something does, `NoneForgotten` says that it is there.

Possible next: two sign calls at once on an Ethereum typed transaction, a
provider replaced by another in `setProvider`, and two `Caver`s that share the
statics of KIP37.

To run: `tlc -config WsAutoReconnect.cfg MCWsProvider`, likewise the others;
`tlapm WsProviderProofs.tla`, likewise the others.
