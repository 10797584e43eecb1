------------------------ MODULE SendTransactionProofs ------------------------
(***************************************************************************)
(* What holds of SendTransaction for any number of overlapping checks.     *)
(***************************************************************************)
EXTENDS SendTransaction, TLAPS

(* A price that is waited for has been asked for. *)
Pricing == phase = "pricing" => prices > 0

(* The listeners go exactly when the promise is settled, so nothing can be *)
(* heard a second time.                                                    *)
Heard ==
  /\ listening <=> settled = "pending"
  /\ listening => events["receipt"] = 0 /\ events["error"] = 0
  /\ HeardOnce
  /\ EventMatchesPromise

(* Watching starts at the first answer, which finds nothing decided: there *)
(* is one check before that, and deciding uses it up.                      *)
Deciding ==
  /\ DecidedIsNotWatched
  /\ watch # "off" => phase = "watching"
  /\ phase \in {"pricing", "sending"} =>
       ~promiseResolved /\ \A c \in Checks : check[c] = "free"
  /\ phase = "first" =>
       \A c, d \in Checks : check[c] # "free" /\ check[d] # "free" => c = d
  /\ phase = "first" /\ promiseResolved => \A c \in Checks : check[c] = "free"

(* What a check has read stays true: a mined transaction stays mined.      *)
Truth ==
  /\ ResolvedMeansSuccess
  /\ \A c \in Checks : check[c] \in {"receipt", "code"} => mined
  /\ \A c \in Checks : check[c] = "code" => deploy

IInv == TypeOK /\ Pricing /\ Heard /\ Deciding /\ Truth

-----------------------------------------------------------------------------
(* The steps of a call. *)

(* A step is one of the steps that wait for nothing, a step of one check,  *)
(* or none at all.                                                         *)
Silent == PriceArrives \/ SendFails \/ SendSucceeds \/ Mine \/ Subscribed

CheckStep(c) ==
  \/ Check(c) \/ NotYet(c) \/ StillNotYet(c) \/ TooLate(c)
  \/ CheckNormal(c) \/ CheckDeployment(c) \/ CodeArrives(c) \/ CodeFails(c)
  \/ \E answer \in Answers : NodeReads(c, answer)

LEMMA StepCases ==
  ASSUME [Next]_vars
  PROVE  \/ Silent \/ WatchFails \/ ErrorTimer
         \/ \E c \in Checks : CheckStep(c)
         \/ UNCHANGED vars
  BY DEF Next, Arrives, Silent, CheckStep

(* No step changes what the transaction is, and only a step before the     *)
(* transaction is sent changes prices.                                     *)
LEMMA CheckStepFrame ==
  ASSUME NEW c \in Checks, CheckStep(c)
  PROVE  UNCHANGED <<polling, deploy, verdict, prices, mined>>
  BY DEF CheckStep, Check, NotYet, StillNotYet, TooLate, CheckNormal,
         CheckDeployment, CodeArrives, CodeFails, NodeReads, txVars

-----------------------------------------------------------------------------
(* Types. *)

(* Every step of a call keeps every variable in its type. *)
LEMMA TypeStep == TypeOK /\ Pricing /\ [Next]_vars => TypeOK' /\ Pricing'
<1> USE DEF Verdicts, Phases, Answers, CheckStates, txVars, Pricing
<1>1. ASSUME TypeOK, Pricing, Silent PROVE TypeOK' /\ Pricing'
  <2>1. CASE PriceArrives
    <3>1. prices' \in 0..2 /\ (phase' = "pricing" => prices' > 0)
      BY <1>1, <2>1 DEF TypeOK, PriceArrives
    <3>2. QED
      BY <1>1, <2>1, <3>1 DEF TypeOK, PriceArrives
  <2>2. CASE SendFails
    BY <1>1, <2>2 DEF TypeOK, SendFails, FireError
  <2>3. CASE SendSucceeds
    BY <1>1, <2>3 DEF TypeOK, SendSucceeds
  <2>4. CASE Mine
    BY <1>1, <2>4 DEF TypeOK, Mine
  <2>5. CASE Subscribed
    BY <1>1, <2>5 DEF TypeOK, Subscribed
  <2>6. QED
    BY <1>1, <2>1, <2>2, <2>3, <2>4, <2>5 DEF Silent
<1>2. ASSUME TypeOK, Pricing, WatchFails PROVE TypeOK' /\ Pricing'
  BY <1>2 DEF TypeOK, WatchFails, FireError
<1>3. ASSUME TypeOK, Pricing, ErrorTimer PROVE TypeOK' /\ Pricing'
  <2>1. events' \in [{"receipt", "error"} -> Nat]
    BY <1>3 DEF TypeOK, ErrorTimer, Emit
  <2>2. settled' \in {"pending", "resolved", "rejected"}
    BY <1>3 DEF TypeOK, ErrorTimer, Settle
  <2>3. QED
    BY <1>3, <2>1, <2>2 DEF TypeOK, ErrorTimer
<1>4. ASSUME TypeOK, Pricing, NEW c \in Checks, CheckStep(c)
      PROVE  TypeOK' /\ Pricing'
  <2>1. CASE Check(c)
    BY <1>4, <2>1 DEF TypeOK, Check
  <2>2. CASE NotYet(c)
    BY <1>4, <2>2 DEF TypeOK, NotYet, StartWatching
  <2>3. CASE StillNotYet(c) \/ TooLate(c) \/ CodeFails(c)
    BY <1>4, <2>3 DEF TypeOK, StillNotYet, TooLate, CodeFails
  <2>4. CASE CheckNormal(c)
    <3>1. events' \in [{"receipt", "error"} -> Nat]
      BY <1>4, <2>4 DEF TypeOK, CheckNormal, Succeed, Emit
    <3>2. QED
      BY <1>4, <2>4, <3>1
         DEF TypeOK, CheckNormal, Succeed, Settle, FireError, StopWatching
  <2>5. CASE CheckDeployment(c)
    BY <1>4, <2>5 DEF TypeOK, CheckDeployment, FireError, StopWatching
  <2>6. CASE CodeArrives(c)
    <3>1. events' \in [{"receipt", "error"} -> Nat]
      BY <1>4, <2>6 DEF TypeOK, CodeArrives, Succeed, Emit
    <3>2. QED
      BY <1>4, <2>6, <3>1 DEF TypeOK, CodeArrives, Succeed, Settle, StopWatching
  <2>7. CASE \E answer \in Answers : NodeReads(c, answer)
    BY <1>4, <2>7 DEF TypeOK, NodeReads
  <2>8. QED
    BY <1>4, <2>1, <2>2, <2>3, <2>4, <2>5, <2>6, <2>7 DEF CheckStep
<1>5. ASSUME TypeOK, Pricing, UNCHANGED vars PROVE TypeOK' /\ Pricing'
  BY <1>5 DEF TypeOK, vars
<1>6. QED
  BY <1>1, <1>2, <1>3, <1>4, <1>5, StepCases

-----------------------------------------------------------------------------
(* What the application hears. *)

(* The ways in which a step concerns the promise: it settles the promise   *)
(* and is heard if the listeners are there, or it leaves all of it alone.  *)
Ends(event, how) == Emit(event) /\ Settle(how) /\ listening' = FALSE
Mute == UNCHANGED <<listening, settled, events>>

LEMMA StepEnds ==
  ASSUME [Next]_vars
  PROVE  \/ Ends("error", "rejected") /\ ErrorTimer
         \/ Ends("receipt", "resolved") /\ \E c \in Checks : CheckStep(c)
         \/ Mute
<1>1. ASSUME Silent \/ WatchFails \/ UNCHANGED vars PROVE Mute
  BY <1>1 DEF Silent, PriceArrives, SendFails, SendSucceeds, Mine, Subscribed,
              WatchFails, vars, Mute
<1>2. ASSUME ErrorTimer PROVE Ends("error", "rejected")
  BY <1>2 DEF ErrorTimer, Ends
<1>3. ASSUME NEW c \in Checks, CheckStep(c)
      PROVE  Ends("receipt", "resolved") \/ Mute
  BY <1>3 DEF CheckStep, Check, NotYet, StillNotYet, TooLate, CheckNormal,
              CheckDeployment, CodeArrives, CodeFails, NodeReads, Succeed,
              Ends, Mute
<1>4. QED
  BY <1>1, <1>2, <1>3, StepCases

LEMMA HeardStep == TypeOK /\ Heard /\ [Next]_vars => Heard'
<1>1. ASSUME TypeOK, Heard, Mute PROVE Heard'
  BY <1>1 DEF Heard, HeardOnce, EventMatchesPromise, Mute
<1>2. ASSUME TypeOK, Heard, Ends("error", "rejected") PROVE Heard'
  BY <1>2 DEF TypeOK, Heard, HeardOnce, EventMatchesPromise, Ends, Emit, Settle
<1>3. ASSUME TypeOK, Heard, Ends("receipt", "resolved") PROVE Heard'
  BY <1>3 DEF TypeOK, Heard, HeardOnce, EventMatchesPromise, Ends, Emit, Settle
<1>4. QED
  BY <1>1, <1>2, <1>3, StepEnds

-----------------------------------------------------------------------------
(* Watching and deciding. *)

LEMMA DecidingStep == TypeOK /\ Deciding /\ [Next]_vars => Deciding'
<1>1. ASSUME TypeOK, Deciding, Silent PROVE Deciding'
  <2>1. CASE PriceArrives \/ SendFails
    BY <1>1, <2>1 DEF Deciding, DecidedIsNotWatched, PriceArrives, SendFails
  <2>2. CASE SendSucceeds
    BY <1>1, <2>2 DEF TypeOK, Deciding, DecidedIsNotWatched, SendSucceeds
  <2>3. CASE Mine \/ Subscribed
    BY <1>1, <2>3 DEF Deciding, DecidedIsNotWatched, Mine, Subscribed
  <2>4. QED
    BY <1>1, <2>1, <2>2, <2>3 DEF Silent
<1>2. ASSUME TypeOK, Deciding, WatchFails PROVE Deciding'
  BY <1>2 DEF Deciding, DecidedIsNotWatched, WatchFails
<1>3. ASSUME TypeOK, Deciding, ErrorTimer PROVE Deciding'
  BY <1>3 DEF Deciding, DecidedIsNotWatched, ErrorTimer
<1>4. ASSUME TypeOK, Deciding, NEW c \in Checks, CheckStep(c) PROVE Deciding'
  <2>1. CASE Check(c)
    BY <1>4, <2>1 DEF TypeOK, Deciding, DecidedIsNotWatched, Check
  <2>2. CASE NotYet(c)
    BY <1>4, <2>2
       DEF TypeOK, Deciding, DecidedIsNotWatched, NotYet, StartWatching
  <2>3. CASE StillNotYet(c) \/ TooLate(c) \/ CodeFails(c)
    BY <1>4, <2>3
       DEF TypeOK, Deciding, DecidedIsNotWatched, StillNotYet, TooLate, CodeFails
  <2>4. CASE CheckNormal(c)
    BY <1>4, <2>4
       DEF TypeOK, Deciding, DecidedIsNotWatched, CheckNormal, StopWatching
  <2>5. CASE CheckDeployment(c)
    BY <1>4, <2>5
       DEF TypeOK, Deciding, DecidedIsNotWatched, CheckDeployment, StopWatching
  <2>6. CASE CodeArrives(c)
    BY <1>4, <2>6
       DEF TypeOK, Deciding, DecidedIsNotWatched, CodeArrives, StopWatching
  <2>7. CASE \E answer \in Answers : NodeReads(c, answer)
    BY <1>4, <2>7 DEF TypeOK, Deciding, DecidedIsNotWatched, NodeReads
  <2>8. QED
    BY <1>4, <2>1, <2>2, <2>3, <2>4, <2>5, <2>6, <2>7 DEF CheckStep
<1>5. ASSUME Deciding, UNCHANGED vars PROVE Deciding'
  BY <1>5 DEF Deciding, DecidedIsNotWatched, vars
<1>6. QED
  BY <1>1, <1>2, <1>3, <1>4, <1>5, StepCases

-----------------------------------------------------------------------------
(* What is known of the transaction. *)

LEMMA TruthStep == TypeOK /\ Truth /\ [Next]_vars => Truth'
<1>1. ASSUME TypeOK, Truth, Silent PROVE Truth'
  BY <1>1 DEF TypeOK, Truth, ResolvedMeansSuccess, Silent, PriceArrives,
              SendFails, SendSucceeds, Mine, Subscribed, txVars
<1>2. ASSUME TypeOK, Truth, WatchFails \/ UNCHANGED vars PROVE Truth'
  BY <1>2 DEF Truth, ResolvedMeansSuccess, WatchFails, txVars, vars
<1>3. ASSUME TypeOK, Truth, ErrorTimer PROVE Truth'
  BY <1>3 DEF TypeOK, Truth, ResolvedMeansSuccess, ErrorTimer, Settle, txVars
<1>4. ASSUME TypeOK, Truth, NEW c \in Checks, CheckStep(c) PROVE Truth'
  <2>1. UNCHANGED <<deploy, verdict, mined>>
    BY <1>4, CheckStepFrame
  <2>2. ResolvedMeansSuccess'
    <3>1. CASE CheckNormal(c)
      BY <1>4, <2>1, <3>1
         DEF TypeOK, Truth, ResolvedMeansSuccess, CheckNormal, Succeed, Settle
    <3>2. CASE CodeArrives(c)
      BY <1>4, <2>1, <3>2
         DEF TypeOK, Truth, ResolvedMeansSuccess, CodeArrives, Succeed, Settle
    <3>3. CASE ~(CheckNormal(c) \/ CodeArrives(c))
      <4>1. UNCHANGED settled
        BY <1>4, <3>3 DEF CheckStep, Check, NotYet, StillNotYet, TooLate,
                          CheckDeployment, CodeFails, NodeReads
      <4>2. QED
        BY <1>4, <2>1, <4>1 DEF Truth, ResolvedMeansSuccess
    <3>4. QED
      BY <3>1, <3>2, <3>3
  <2>3. \A d \in Checks : d # c => check'[d] = check[d]
    BY <1>4 DEF TypeOK, CheckStep, Check, NotYet, StillNotYet, TooLate,
                CheckNormal, CheckDeployment, CodeArrives, CodeFails, NodeReads
  <2>4. /\ check'[c] \in {"receipt", "code"} => mined
        /\ check'[c] = "code" => deploy
    <3>1. CASE CheckDeployment(c)
      BY <1>4, <3>1 DEF TypeOK, Truth, CheckDeployment
    <3>2. CASE \E answer \in Answers : NodeReads(c, answer)
      BY <1>4, <3>2 DEF TypeOK, Truth, NodeReads, NodeAnswers, Answers
    <3>3. CASE ~CheckDeployment(c)
               /\ ~\E answer \in Answers : NodeReads(c, answer)
      BY <1>4, <3>3 DEF TypeOK, CheckStep, Check, NotYet, StillNotYet, TooLate,
                        CheckNormal, CodeArrives, CodeFails
    <3>4. QED
      BY <3>1, <3>2, <3>3
  <2>5. QED
    BY <1>4, <2>1, <2>2, <2>3, <2>4 DEF Truth
<1>5. QED
  BY <1>1, <1>2, <1>3, <1>4, StepCases

-----------------------------------------------------------------------------
(* The theorems. *)

LEMMA InitInv == Init => IInv
<1> SUFFICES ASSUME Init PROVE IInv
  OBVIOUS
<1>1. TypeOK
  <2>1. phase \in Phases /\ verdict \in Verdicts
    BY DEF Init, Phases, Verdicts
  <2>2. check \in [Checks -> CheckStates]
    BY DEF Init, CheckStates
  <2>3. events \in [{"receipt", "error"} -> Nat]
    BY DEF Init
  <2>4. QED
    BY <2>1, <2>2, <2>3 DEF Init, TypeOK
<1>2. Pricing
  BY DEF Init, Pricing
<1>3. Heard
  BY DEF Init, Heard, HeardOnce, EventMatchesPromise
<1>4. Deciding
  BY DEF Init, Deciding, DecidedIsNotWatched
<1>5. Truth
  BY DEF Init, Truth, ResolvedMeansSuccess
<1>6. QED
  BY <1>1, <1>2, <1>3, <1>4, <1>5 DEF IInv

LEMMA InvStep == IInv /\ [Next]_vars => IInv'
  BY TypeStep, HeardStep, DecidingStep, TruthStep DEF IInv

LEMMA Inductive == Spec => []IInv
  BY InitInv, InvStep, PTL DEF Spec

(* Every variable of a call keeps its type, however the answers of the node *)
(* interleave.                                                             *)
THEOREM SendTypeCorrect == Spec => []TypeOK
<1>1. IInv => TypeOK
  BY DEF IInv
<1>2. QED
  BY <1>1, Inductive, PTL

(* The application hears of the end of a transaction once, with any number *)
(* of overlapping receipt checks.                                          *)
THEOREM SendHeardOnce == Spec => []HeardOnce
<1>1. IInv => HeardOnce
  BY DEF IInv, Heard
<1>2. QED
  BY <1>1, Inductive, PTL

(* The event that the application hears says what the promise says.        *)
THEOREM SendEventMatchesPromise == Spec => []EventMatchesPromise
<1>1. IInv => EventMatchesPromise
  BY DEF IInv, Heard
<1>2. QED
  BY <1>1, Inductive, PTL

(* When a check has decided a call, its subscription or interval is gone   *)
(* and does not come back.                                                 *)
THEOREM SendDecidedIsNotWatched == Spec => []DecidedIsNotWatched
<1>1. IInv => DecidedIsNotWatched
  BY DEF IInv, Deciding
<1>2. QED
  BY <1>1, Inductive, PTL

(* The promise of a plain transaction resolves only if the transaction has *)
(* succeeded in a block, however old the receipt is that decides it.       *)
THEOREM SendResolvedMeansSuccess == Spec => []ResolvedMeansSuccess
<1>1. IInv => ResolvedMeansSuccess
  BY DEF IInv, Truth
<1>2. QED
  BY <1>1, Inductive, PTL
=============================================================================
