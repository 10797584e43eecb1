--------------------------- MODULE SendTransaction ---------------------------
(***************************************************************************)
(* One call of a `send` method of caver-core-method: gas prices are asked  *)
(* for, the transaction is sent, and the node is asked for its receipt, on *)
(* every new block or every second, until the PromiEvent of the call is    *)
(* settled.  Several such checks can be under way at a time; their answers *)
(* arrive in any order and may be older than what the node knows by then.  *)
(*                                                                         *)
(* An operator X_mistake is X with a mistake in it.  Next does not use it; *)
(* it shows which property would catch the mistake.                        *)
(***************************************************************************)
EXTENDS Naturals

CONSTANTS
  Checks,        \* bound: the receipt checks under way at a time
  NodeErrors,    \* may the node answer a request with an error?
  HalfReceipts   \* may a receipt without blockHash come before the block?

ASSUME SendAssumption ==
  NodeErrors \in BOOLEAN /\ HalfReceipts \in BOOLEAN

VARIABLES
  polling,         \* provider.supportsSubscriptions() is false
  deploy,          \* isContractDeployment
  verdict,         \* what the receipt will say
  prices,          \* the price requests to make before the transaction is sent
  phase,           \* how far the call has got
  mined,           \* is the transaction in a block?
  check,           \* check[c]: what check c is waiting for, or its answer
  existing,        \* startWatching has been given a receipt to use
  watch,           \* what triggers the checks
  promiseResolved, \* mutableConfirmationPack.promiseResolved
  firing,          \* an error is on its way: the 1 ms timers of _fireError
  listening,       \* are the application's listeners on the emitter?
  settled,         \* the promise
  events           \* history: events the application has heard

txVars == <<polling, deploy, verdict>>
vars == <<polling, deploy, verdict, prices, phase, mined, check, existing,
          watch, promiseResolved, firing, listening, settled, events>>

(* "good": the transaction succeeded; "bad": it failed with a txError;     *)
(* "noAddress": a deployment whose receipt has no contractAddress.         *)
Verdicts == {"good", "bad", "noAddress"}
Phases == {"pricing", "sending", "first", "watching", "over"}
Answers == {"null", "half", "receipt", "error"}
CheckStates == {"free", "asked", "code"} \union Answers

TypeOK ==
  /\ polling \in BOOLEAN /\ deploy \in BOOLEAN /\ verdict \in Verdicts
  /\ prices \in 0..2
  /\ phase \in Phases
  /\ mined \in BOOLEAN
  /\ check \in [Checks -> CheckStates]
  /\ existing \in BOOLEAN
  /\ watch \in {"off", "subscribing", "blocks", "interval"}
  /\ promiseResolved \in BOOLEAN /\ firing \in BOOLEAN /\ listening \in BOOLEAN
  /\ settled \in {"pending", "resolved", "rejected"}
  /\ events \in [{"receipt", "error"} -> Nat]

(* The call has been made.  No price is asked for if the transaction has   *)
(* one, one if gasPrice is missing, two for a dynamic fee transaction.     *)
Init ==
  /\ polling \in BOOLEAN /\ deploy \in BOOLEAN
  /\ verdict \in (IF deploy THEN Verdicts ELSE {"good", "bad"})
  /\ prices \in 0..2
  /\ phase = IF prices = 0 THEN "sending" ELSE "pricing"
  /\ mined = FALSE
  /\ check = [c \in Checks |-> "free"]
  /\ existing = FALSE
  /\ watch = "off"
  /\ promiseResolved = FALSE /\ firing = FALSE /\ listening = TRUE
  /\ settled = "pending"
  /\ events = [e \in {"receipt", "error"} |-> 0]

-----------------------------------------------------------------------------
(* The PromiEvent. *)

(* The application hears an event if its listeners are still there. *)
Emit(e) ==
  events' = IF listening THEN [events EXCEPT ![e] = @ + 1] ELSE events

Settle(how) ==
  settled' = IF settled = "pending" THEN how ELSE settled

(* utils._fireError: reject, emit "error" and remove the listeners, 1 ms   *)
(* later.                                                                  *)
FireError == firing' = TRUE

ErrorTimer_keepingListeners ==
  /\ firing
  /\ firing' = FALSE
  /\ Settle("rejected")
  /\ Emit("error")
  /\ UNCHANGED listening
  /\ UNCHANGED <<txVars, prices, phase, mined, check, existing, watch,
                 promiseResolved>>

ErrorTimer ==
  /\ firing
  /\ firing' = FALSE
  /\ Settle("rejected")
  /\ Emit("error")
  /\ listening' = FALSE
  /\ UNCHANGED <<txVars, prices, phase, mined, check, existing, watch,
                 promiseResolved>>

(* Emit "receipt", resolve and remove the listeners, at once. *)
Succeed ==
  /\ Emit("receipt")
  /\ Settle("resolved")
  /\ listening' = FALSE

-----------------------------------------------------------------------------
(* Before the transaction is sent, and the answer to it. *)

PriceArrives_oneTooMany ==
  /\ phase = "pricing"
  /\ prices' = prices - 1
  /\ phase' = IF prices = 0 THEN "sending" ELSE "pricing"
  /\ UNCHANGED <<txVars, mined, check, existing, watch, promiseResolved,
                 firing, listening, settled, events>>

(* The callback of getGasPrice or getMaxPriorityFeePerGas: an error is     *)
(* ignored, and the transaction is sent without the price.                 *)
PriceArrives ==
  /\ phase = "pricing"
  /\ prices' = prices - 1
  /\ phase' = IF prices' = 0 THEN "sending" ELSE "pricing"
  /\ UNCHANGED <<txVars, mined, check, existing, watch, promiseResolved,
                 firing, listening, settled, events>>

(* sendTxCallback with an error: the error is fired and nothing is watched. *)
SendFails ==
  /\ phase = "sending"
  /\ phase' = "over"
  /\ FireError
  /\ UNCHANGED <<txVars, prices, mined, check, existing, watch,
                 promiseResolved, listening, settled, events>>

(* sendTxCallback with a hash: kickoffConfirmation asks for the receipt. *)
SendSucceeds ==
  /\ phase = "sending"
  /\ phase' = "first"
  /\ \E c \in Checks : check' = [check EXCEPT ![c] = "asked"]
  /\ UNCHANGED <<txVars, prices, mined, existing, watch, promiseResolved,
                 firing, listening, settled, events>>

-----------------------------------------------------------------------------
(* The node. *)

Mine ==
  /\ phase \in {"first", "watching"} /\ ~mined
  /\ mined' = TRUE
  /\ UNCHANGED <<txVars, prices, phase, check, existing, watch,
                 promiseResolved, firing, listening, settled, events>>

(* What the node can answer to getTransactionReceipt. *)
NodeAnswers ==
  {IF mined THEN "receipt" ELSE "null"}
    \union (IF NodeErrors THEN {"error"} ELSE {})
    \union (IF HalfReceipts /\ ~mined THEN {"half"} ELSE {})

NodeReads(c, answer) ==
  /\ check[c] = "asked"
  /\ answer \in NodeAnswers
  /\ check' = [check EXCEPT ![c] = answer]
  /\ UNCHANGED <<txVars, prices, phase, mined, existing, watch,
                 promiseResolved, firing, listening, settled, events>>

-----------------------------------------------------------------------------
(* Watching. *)

(* startWatching: subscribe to new blocks, or check every second. *)
StartWatching ==
  /\ phase' = "watching"
  /\ watch' = IF polling THEN "interval" ELSE "subscribing"

Subscribed ==
  /\ watch = "subscribing"
  /\ watch' = "blocks"
  /\ UNCHANGED <<txVars, prices, phase, mined, check, existing,
                 promiseResolved, firing, listening, settled, events>>

(* checkConfirmation called with an error: the node refused to subscribe.  *)
WatchFails ==
  /\ NodeErrors
  /\ watch = "subscribing"
  /\ watch' = "off"
  /\ promiseResolved' = TRUE
  /\ FireError
  /\ UNCHANGED <<txVars, prices, phase, mined, check, existing, listening,
                 settled, events>>

(* checkConfirmation on a new block or a tick of the interval.  A receipt  *)
(* that startWatching was given is used instead of asking the node; it has *)
(* no blockHash, so every such check throws blockHashNull at once and      *)
(* leaves no trace: countTimeout gets the error in place of the pack.      *)
Check(c) ==
  /\ watch \in {"blocks", "interval"}
  /\ ~existing
  /\ check[c] = "free"
  /\ check' = [check EXCEPT ![c] = "asked"]
  /\ UNCHANGED <<txVars, prices, phase, mined, existing, watch,
                 promiseResolved, firing, listening, settled, events>>

(* sub.unsubscribe() and promiseResolved = true. *)
StopWatching_watching == promiseResolved' = TRUE /\ UNCHANGED watch
StopWatching == watch' = "off" /\ promiseResolved' = TRUE

-----------------------------------------------------------------------------
(* Answers. *)

NotYet_unwatched(c) ==
  /\ phase = "first"
  /\ check[c] \in {"null", "half", "error"}
  /\ check' = [check EXCEPT ![c] = "free"]
  /\ existing' = (check[c] = "half")
  /\ phase' = "watching"
  /\ UNCHANGED <<txVars, prices, mined, watch, promiseResolved, firing,
                 listening, settled, events>>

(* The first answer without a receipt in a block: start watching, with the *)
(* receipt if there is one.                                                *)
NotYet(c) ==
  /\ phase = "first"
  /\ check[c] \in {"null", "half", "error"}
  /\ check' = [check EXCEPT ![c] = "free"]
  /\ existing' = (check[c] = "half")
  /\ StartWatching
  /\ UNCHANGED <<txVars, prices, mined, promiseResolved, firing, listening,
                 settled, events>>

(* A later answer of that kind: null is ignored by checkForNormalTx; null  *)
(* for a deployment, a receipt without blockHash and an error end in       *)
(* countTimeout, which counts on the error and never times out.            *)
StillNotYet(c) ==
  /\ phase = "watching"
  /\ check[c] \in {"null", "half", "error"}
  /\ check' = [check EXCEPT ![c] = "free"]
  /\ UNCHANGED <<txVars, prices, phase, mined, existing, watch,
                 promiseResolved, firing, listening, settled, events>>

(* A receipt that comes when a check has already settled the call. *)
TooLate(c) ==
  /\ check[c] = "receipt" /\ promiseResolved
  /\ check' = [check EXCEPT ![c] = "free"]
  /\ UNCHANGED <<txVars, prices, phase, mined, existing, watch,
                 promiseResolved, firing, listening, settled, events>>

CheckNormal_notInBlock(c) ==
  /\ check[c] \in {"receipt", "half"} /\ ~promiseResolved /\ ~deploy
  /\ check' = [check EXCEPT ![c] = "free"]
  /\ \/ /\ verdict = "good"
        /\ Succeed
        /\ UNCHANGED firing
     \/ /\ verdict # "good"
        /\ FireError
        /\ UNCHANGED <<listening, settled, events>>
  /\ StopWatching
  /\ UNCHANGED <<txVars, prices, phase, mined, existing>>

(* checkForNormalTx with a receipt. *)
CheckNormal(c) ==
  /\ check[c] = "receipt" /\ ~promiseResolved /\ ~deploy
  /\ check' = [check EXCEPT ![c] = "free"]
  /\ \/ /\ verdict = "good"
        /\ Succeed
        /\ UNCHANGED firing
     \/ /\ verdict # "good"
        /\ FireError
        /\ UNCHANGED <<listening, settled, events>>
  /\ StopWatching
  /\ UNCHANGED <<txVars, prices, phase, mined, existing>>

(* checkForContractDeployment: without an address the call fails; with a   *)
(* txError the error is fired and the check goes on to getCode.            *)
CheckDeployment(c) ==
  /\ check[c] = "receipt" /\ ~promiseResolved /\ deploy
  /\ \/ /\ verdict = "noAddress"
        /\ FireError
        /\ check' = [check EXCEPT ![c] = "free"]
        /\ StopWatching
     \/ /\ verdict # "noAddress"
        /\ firing' = (firing \/ verdict = "bad")
        /\ check' = [check EXCEPT ![c] = "code"]
        /\ UNCHANGED <<watch, promiseResolved>>
  /\ UNCHANGED <<txVars, prices, phase, mined, existing, listening, settled,
                 events>>

(* The callback of getCode.  It does not look at promiseResolved again:    *)
(* another check may have settled the call in the meantime.                *)
CodeArrives(c) ==
  /\ check[c] = "code"
  /\ check' = [check EXCEPT ![c] = "free"]
  /\ Succeed
  /\ StopWatching
  /\ UNCHANGED <<txVars, prices, phase, mined, existing, firing>>

CodeFails(c) ==
  /\ NodeErrors
  /\ check[c] = "code"
  /\ check' = [check EXCEPT ![c] = "free"]
  /\ UNCHANGED <<txVars, prices, phase, mined, existing, watch,
                 promiseResolved, firing, listening, settled, events>>

-----------------------------------------------------------------------------
Arrives(c) ==
  \/ NotYet(c) \/ StillNotYet(c) \/ TooLate(c)
  \/ CheckNormal(c) \/ CheckDeployment(c)

Next ==
  \/ PriceArrives \/ SendFails \/ SendSucceeds \/ Mine
  \/ Subscribed \/ WatchFails \/ ErrorTimer
  \/ \E c \in Checks : Check(c) \/ Arrives(c) \/ CodeArrives(c) \/ CodeFails(c)
  \/ \E c \in Checks, answer \in Answers : NodeReads(c, answer)

Spec == Init /\ [][Next]_vars

(* The node answers, and not with an error for ever; blocks, ticks and     *)
(* timers come.  That the transaction gets into a block is not assumed.    *)
Fairness ==
  /\ WF_vars(PriceArrives) /\ WF_vars(SendFails \/ SendSucceeds)
  /\ WF_vars(Subscribed) /\ WF_vars(ErrorTimer)
  /\ WF_vars(\E c \in Checks : Check(c))
  /\ \A c \in Checks :
       /\ WF_vars(\E answer \in Answers : NodeReads(c, answer))
       /\ SF_vars(NodeReads(c, "receipt"))
       /\ WF_vars(Arrives(c))
       /\ SF_vars(CodeArrives(c))

LiveSpec == Spec /\ Fairness

-----------------------------------------------------------------------------
(* The application hears of the end of a transaction once: overlapping     *)
(* checks, a late receipt or an error fired on the way add no event.       *)
HeardOnce == events["receipt"] + events["error"] <= 1

(* What it hears agrees with the promise. *)
EventMatchesPromise ==
  /\ events["receipt"] > 0 => settled = "resolved"
  /\ events["error"] > 0 => settled = "rejected"

(* A call that a check has decided is watched no more. *)
DecidedIsNotWatched == promiseResolved => watch = "off"

(* A plain transaction resolves only if it has succeeded in a block. *)
ResolvedMeansSuccess ==
  settled = "resolved" => mined /\ (~deploy => verdict = "good")

(* A deployment whose first receipt was there at once and whose code could *)
(* not be read: nothing is watched, so nothing looks at it again.          *)
CodeUnread ==
  deploy /\ phase = "first" /\ ~firing /\ \A c \in Checks : check[c] = "free"

(* A transaction that gets into a block settles its call, but for the two  *)
(* ways in which the code stops asking: a receipt without blockHash that   *)
(* startWatching keeps using, and a deployment whose code was not read.    *)
MinedTxSettles == mined ~> settled # "pending" \/ existing \/ CodeUnread

(* A settled call does not keep its subscription or interval. *)
SettledStopsWatching == settled # "pending" ~> watch = "off"

(* The call of a transaction that is not mined is settled in the end. *)
TimesOut == <>(mined \/ settled # "pending")
=============================================================================
