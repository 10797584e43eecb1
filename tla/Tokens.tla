-------------------------------- MODULE Tokens --------------------------------
(***************************************************************************)
(* The token classes of caver.kct: KIP7, KIP17 and KIP37 are Contracts of  *)
(* a fixed interface with a JavaScript method for (nearly) every function  *)
(* of it.  A method may be called without its optional arguments, with the *)
(* options of the transaction in their place, and chooses among the        *)
(* overloads of its function by what it was given.  What happens to the    *)
(* call once its options are determined is in ContractCalls.               *)
(***************************************************************************)
EXTENDS ContractObjects

CONSTANT Contracts   \* contracts, as the sets of interface ids they support

VARIABLES
  tokenCall,   \* a call of a method of a token
  detection    \* a call of detectInterface

tokenVars == <<tokenCall, detection>>

Standards == {"KIP7", "KIP17", "KIP37"}

-----------------------------------------------------------------------------
(* The functions of the tokens' interfaces: the inputs of the overloads of *)
(* each, in the order of the interface.  Functions for which a token class *)
(* has no method (roles, ownership) are left out.                          *)

Kip7Inputs(name) ==
  CASE name \in {"decimals", "name", "pause", "paused", "renounceMinter",
                  "renouncePauser", "symbol", "totalSupply", "unpause"} ->
         << << >> >>
    [] name \in {"addMinter", "addPauser", "balanceOf", "isMinter", "isPauser"} ->
         << <<"address">> >>
    [] name = "burn" -> << <<"uint256">> >>
    [] name = "supportsInterface" -> << <<"bytes4">> >>
    [] name = "allowance" -> << <<"address", "address">> >>
    [] name \in {"approve", "burnFrom", "mint", "transfer"} ->
         << <<"address", "uint256">> >>
    [] name = "transferFrom" -> << <<"address", "address", "uint256">> >>
    [] name = "safeTransfer" ->
         << <<"address", "uint256">>, <<"address", "uint256", "bytes">> >>
    [] name = "safeTransferFrom" ->
         << <<"address", "address", "uint256">>, <<"address", "address", "uint256", "bytes">> >>
    [] OTHER -> << >>

Kip17Inputs(name) ==
  CASE name \in {"name", "pause", "paused", "renounceMinter", "renouncePauser",
                  "symbol", "totalSupply", "unpause"} ->
         << << >> >>
    [] name \in {"addMinter", "addPauser", "balanceOf", "isMinter", "isPauser"} ->
         << <<"address">> >>
    [] name \in {"burn", "getApproved", "ownerOf", "tokenByIndex", "tokenURI"} ->
         << <<"uint256">> >>
    [] name = "supportsInterface" -> << <<"bytes4">> >>
    [] name = "isApprovedForAll" -> << <<"address", "address">> >>
    [] name \in {"approve", "mint", "tokenOfOwnerByIndex"} ->
         << <<"address", "uint256">> >>
    [] name = "setApprovalForAll" -> << <<"address", "bool">> >>
    [] name = "mintWithTokenURI" -> << <<"address", "uint256", "string">> >>
    [] name = "transferFrom" -> << <<"address", "address", "uint256">> >>
    [] name = "safeTransferFrom" ->
         << <<"address", "address", "uint256">>, <<"address", "address", "uint256", "bytes">> >>
    [] OTHER -> << >>

Kip37Inputs(name) ==
  CASE name \in {"renounceMinter", "renouncePauser"} -> << << >> >>
    [] name \in {"addMinter", "addPauser", "isMinter", "isPauser"} -> << <<"address">> >>
    [] name \in {"totalSupply", "uri"} -> << <<"uint256">> >>
    [] name = "supportsInterface" -> << <<"bytes4">> >>
    [] name \in {"pause", "paused"} -> << <<"uint256">>, << >> >>
    [] name = "unpause" -> << << >>, <<"uint256">> >>
    [] name = "balanceOf" -> << <<"address", "uint256">> >>
    [] name = "balanceOfBatch" -> << <<"address[]", "uint256[]">> >>
    [] name = "isApprovedForAll" -> << <<"address", "address">> >>
    [] name = "setApprovalForAll" -> << <<"address", "bool">> >>
    [] name = "burn" -> << <<"address", "uint256", "uint256">> >>
    [] name = "create" -> << <<"uint256", "uint256", "string">> >>
    [] name = "mint" ->
         << <<"uint256", "address", "uint256">>, <<"uint256", "address[]", "uint256[]">> >>
    [] name \in {"burnBatch", "mintBatch"} ->
         << <<"address", "uint256[]", "uint256[]">> >>
    [] name = "safeTransferFrom" ->
         << <<"address", "address", "uint256", "uint256", "bytes">> >>
    [] name = "safeBatchTransferFrom" ->
         << <<"address", "address", "uint256[]", "uint256[]", "bytes">> >>
    [] OTHER -> << >>

InputsOf(standard, name) ==
  CASE standard = "KIP7" -> Kip7Inputs(name)
    [] standard = "KIP17" -> Kip17Inputs(name)
    [] OTHER -> Kip37Inputs(name)

-----------------------------------------------------------------------------
(* The methods of the classes: the kinds of their parameters, without the  *)
(* options of the transaction.  Parameters of the kinds "data", "uri",     *)
(* "id" and "pausedId" may be left out.                                   *)

Methods(kind, names, params) == [does |-> kind, names |-> names, params |-> params]
Reads(names, params) == Methods("call", names, params)
Sends(names, params) == Methods("send", names, params)
Deploys(params) == Methods("deploy", {"deploy"}, params)

Kip7Reads == {
  Reads({"name", "symbol", "decimals", "totalSupply", "paused"}, << >>),
  Reads({"balanceOf", "isMinter", "isPauser"}, <<"address">>),
  Reads({"allowance"}, <<"address", "address">>),
  Reads({"supportsInterface"}, <<"bytes4">>)}
Kip7Sends == {
  Sends({"pause", "unpause", "renounceMinter", "renouncePauser"}, << >>),
  Sends({"addMinter", "addPauser"}, <<"address">>),
  Sends({"burn"}, <<"uint256">>),
  Sends({"approve", "transfer", "mint", "burnFrom"}, <<"address", "uint256">>),
  Sends({"transferFrom"}, <<"address", "address", "uint256">>),
  Sends({"safeTransfer"}, <<"address", "uint256", "data">>),
  Sends({"safeTransferFrom"}, <<"address", "address", "uint256", "data">>)}
Kip7Deploys == {Deploys(<<"name", "name", "decimals", "uint256">>)}

Kip17Reads == {
  Reads({"name", "symbol", "totalSupply", "paused"}, << >>),
  Reads({"balanceOf", "isMinter", "isPauser"}, <<"address">>),
  Reads({"tokenURI", "tokenByIndex", "ownerOf", "getApproved"}, <<"uint256">>),
  Reads({"tokenOfOwnerByIndex"}, <<"address", "uint256">>),
  Reads({"isApprovedForAll"}, <<"address", "address">>),
  Reads({"supportsInterface"}, <<"bytes4">>)}
Kip17Sends == {
  Sends({"pause", "unpause", "renounceMinter", "renouncePauser"}, << >>),
  Sends({"addMinter", "addPauser"}, <<"address">>),
  Sends({"burn"}, <<"uint256">>),
  Sends({"approve", "mint"}, <<"address", "uint256">>),
  Sends({"setApprovalForAll"}, <<"address", "flag">>),
  Sends({"mintWithTokenURI"}, <<"address", "uint256", "text">>),
  Sends({"transferFrom"}, <<"address", "address", "uint256">>),
  Sends({"safeTransferFrom"}, <<"address", "address", "uint256", "data">>)}
Kip17Deploys == {Deploys(<<"name", "name">>)}

Kip37Reads == {
  Reads({"isMinter", "isPauser"}, <<"address">>),
  Reads({"uri", "totalSupply"}, <<"uint256">>),
  Reads({"paused"}, <<"pausedId">>),
  Reads({"balanceOf"}, <<"address", "uint256">>),
  Reads({"balanceOfBatch"}, <<"addresses", "uint256s">>),
  Reads({"isApprovedForAll"}, <<"address", "address">>),
  Reads({"supportsInterface"}, <<"bytes4">>)}
Kip37Sends == {
  Sends({"renounceMinter", "renouncePauser"}, << >>),
  Sends({"addMinter", "addPauser"}, <<"address">>),
  Sends({"pause", "unpause"}, <<"id">>),
  Sends({"setApprovalForAll"}, <<"address", "flag">>),
  Sends({"create"}, <<"uint256", "uint256", "uri">>),
  Sends({"burn"}, <<"address", "uint256", "uint256">>),
  Sends({"mint"}, <<"addressOrArray", "uint256", "uint256OrArray">>),
  Sends({"mintBatch", "burnBatch"}, <<"address", "uint256s", "uint256s">>),
  Sends({"safeTransferFrom"}, <<"address", "address", "uint256", "uint256", "data">>),
  Sends({"safeBatchTransferFrom"},
           <<"address", "address", "uint256s", "uint256s", "data">>)}
Kip37Deploys == {Deploys(<<"name">>)}

ClassOf(standard) ==
  CASE standard = "KIP7" -> Kip7Reads \union Kip7Sends \union Kip7Deploys
    [] standard = "KIP17" -> Kip17Reads \union Kip17Sends \union Kip17Deploys
    [] OTHER -> Kip37Reads \union Kip37Sends \union Kip37Deploys

-----------------------------------------------------------------------------
(* Arguments.  Objects are options of a transaction with a sender, or      *)
(* others, which name none.                                                *)

One(t) == [is |-> t, length |-> 0]
Many(t) == {[is |-> t, length |-> n] : n \in 1 .. 2}
Omitted == One("undefined")

Numbers == {One("number"), One("bigNumber")}
OptionObjects == {One("options"), One("object")}
Offered(kind) ==
  CASE kind \in {"uint256", "decimals"} -> Numbers
    [] kind = "name" -> {One("text"), One("empty")}
    [] kind = "data" -> {One("bytes"), One("empty"), Omitted} \union OptionObjects
    [] kind = "uri" -> {One("text"), Omitted} \union OptionObjects
    [] kind = "id" -> Numbers \union {Omitted} \union OptionObjects
    [] kind = "pausedId" -> Numbers \union {Omitted}
    [] kind = "addresses" -> Many("address")
    [] kind = "uint256s" -> Many("number")
    [] kind = "addressOrArray" -> {One("address")} \union Many("address")
    [] kind = "uint256OrArray" -> {One("number")} \union Many("number")
    [] OTHER -> {One(kind)}

(* The type as which an argument is encoded; what has no type here cannot  *)
(* be converted or encoded.                                                *)
EncodedAs(form) ==
  CASE form \in {"number", "bigNumber"} -> "uint256"
    [] form = "text" -> "string"
    [] form = "flag" -> "bool"
    [] form \in {"address", "bytes", "bytes4"} -> form
    [] OTHER -> "none"
TypeOf(kind, a) ==
  CASE kind = "decimals" -> IF a.is = "number" THEN "uint8" ELSE "none"
    [] kind # "decimals" /\ a.length > 0 ->
         IF a.is = "address" THEN "address[]" ELSE "uint256[]"
    [] OTHER -> EncodedAs(a.is)

(* As arguments of the contract's method. *)
OnlyAs(types) == [i \in DOMAIN types |-> {types[i]}]

IsObject(a) == a.is \in {"options", "object", "bigNumber"}

(* An object in the place of the last argument is taken for the options.   *)
TakesAsOptions(kind, a, sendParam) ==
  \/ kind \in {"data", "uri"} /\ a.is = "options" /\ sendParam = "none"
  \/ kind = "id" /\ IsObject(a) /\ sendParam = "none"

(* What stands for the argument then. *)
Default(standard, kind) ==
  CASE kind = "uri" -> One("text")
    [] kind = "data" /\ standard = "KIP37" -> One("bytes")
    [] OTHER -> Omitted

(* Left out of the call, which is then one of a shorter overload. *)
LeftOut(standard, kind, a) ==
  \/ kind \in {"id", "pausedId"} /\ a = Omitted
  \/ kind = "data" /\ standard # "KIP37" /\ a \in {Omitted, One("empty")}

(* mint of KIP37 has the id second, the function has it first. *)
Reordered(standard, name, types) ==
  IF standard = "KIP37" /\ name = "mint" THEN <<types[2], types[1], types[3]>> ELSE types

Overloaded(standard, name) ==
  LET inputs == InputsOf(standard, name)
  IN [i \in DOMAIN inputs |-> Method(name, inputs[i])]
DeployInputs == [KIP7 |-> <<"string", "string", "uint8", "uint256">>,
                 KIP17 |-> <<"string", "string">>, KIP37 |-> <<"string">>]

EqualLengths(args) ==
  Cardinality({args[i].length : i \in DOMAIN args} \ {0}) <= 1

NoTokenCall == [phase |-> "none"]

(* A method is called with arguments, options after them or "none", on a   *)
(* token that has a default sender or not: a call of the contract is made, *)
(* or refused.                                                             *)
CallToken(standard, method, name, args, sendParam, defaultFrom) ==
  LET kinds == method.params
      n == Len(kinds)
      taken == n > 0 /\ TakesAsOptions(kinds[n], args[n], sendParam)
      effective == IF taken THEN [args EXCEPT ![n] = Default(standard, kinds[n])] ELSE args
      options == IF taken THEN args[n].is ELSE sendParam
      kept == IF n > 0 /\ LeftOut(standard, kinds[n], effective[n]) THEN n - 1 ELSE n
      types == Reordered(standard, name, [i \in 1 .. kept |-> TypeOf(kinds[i], effective[i])])
      entry == IF method.does = "deploy" THEN Constructor(DeployInputs[standard])
               ELSE Resolved(Overloaded(standard, name), name, OnlyAs(types))
      fromKnown == \/ method.does = "call" \/ options = "options"
                   \/ method.does = "send" /\ defaultFrom
  IN /\ tokenCall' =
          [phase |-> IF fromKnown /\ EqualLengths(args) /\ Encodable(entry, OnlyAs(types))
                     THEN "made" ELSE "refused",
           standard |-> standard, name |-> name, kinds |-> kinds, args |-> args,
           sendParam |-> sendParam, defaultFrom |-> defaultFrom, entry |-> entry, options |-> options]
     /\ UNCHANGED detection

CallAnyMethod ==
  \E standard \in Standards : \E method \in ClassOf(standard) : \E name \in method.names :
    LET places == DOMAIN method.params
    IN \E args \in [places -> UNION {Offered(method.params[i]) : i \in places}],
          defaultFrom \in BOOLEAN,
          sendParam \in IF method.does = "call" THEN {"none"} ELSE {"none", "options", "object"} :
         /\ \A i \in places : args[i] \in Offered(method.params[i])
         /\ CallToken(standard, method, name, args, sendParam, defaultFrom)

-----------------------------------------------------------------------------
(* detectInterface: first whether the contract supports KIP-13, by one id  *)
(* it must support and one it must not, then whether it is a token of the  *)
(* standard, since others share ids of its extensions, then the extensions.*)

Kip13Ids == [true |-> "0x01ffc9a7", false |-> "0xffffffff"]
InterfaceIds ==
  [KIP7 |-> [IKIP7 |-> "0x65787371", IKIP7Metadata |-> "0xa219a025",
             IKIP7Mintable |-> "0xeab83e20", IKIP7Burnable |-> "0x3b5a0bf8",
             IKIP7Pausable |-> "0x4d5507ff"],
   KIP17 |-> [IKIP17 |-> "0x80ac58cd", IKIP17Metadata |-> "0x5b5e139f",
              IKIP17Enumerable |-> "0x780e9d63", IKIP17Mintable |-> "0xeab83e20",
              IKIP17MetadataMintable |-> "0xfac27f46", IKIP17Burnable |-> "0x42966c68",
              IKIP17Pausable |-> "0x4d5507ff"],
   KIP37 |-> [IKIP37 |-> "0x6433ca1f", IKIP37Metadata |-> "0x0e89341c",
              IKIP37Mintable |-> "0xdfd9d9ec", IKIP37Burnable |-> "0x9e094e9e",
              IKIP37Pausable |-> "0x0e8ffdb7"]]
Basic == [KIP7 |-> "IKIP7", KIP17 |-> "IKIP17", KIP37 |-> "IKIP37"]

NoDetection == [phase |-> "none"]

Detect(standard, contract) ==
  /\ detection = NoDetection
  /\ detection' = [phase |-> "isTrue", standard |-> standard, contract |-> contract,
                   isTrue |-> FALSE, failed |-> FALSE, waiting |-> {},
                   detected |-> [i \in DOMAIN InterfaceIds[standard] |-> FALSE]]
  /\ UNCHANGED tokenCall

Asks(id) == id \in detection.contract

(* isImplementedKIP13Interface. *)
Kip13Answers ==
  /\ detection.phase \in {"isTrue", "isFalse"}
  /\ detection' =
       CASE detection.phase = "isTrue" ->
              [detection EXCEPT !.phase = "isFalse", !.isTrue = Asks(Kip13Ids.true)]
         [] detection.phase = "isFalse" ->
              [detection EXCEPT !.phase = IF detection.isTrue /\ ~Asks(Kip13Ids.false)
                                          THEN "basic" ELSE "notSupported"]
BasicAnswers ==
  LET basic == Basic[detection.standard]
      supported == Asks(InterfaceIds[detection.standard][basic])
  IN /\ detection.phase = "basic"
     /\ detection' =
          [detection EXCEPT
             !.detected[basic] = supported,
             !.phase = IF supported THEN "extensions" ELSE "detected",
             !.waiting = IF supported THEN DOMAIN detection.detected \ {basic} ELSE {}]
ExtensionAnswers(i) ==
  /\ detection.phase = "extensions"
  /\ i \in detection.waiting
  /\ detection' =
       [detection EXCEPT
          !.detected[i] = Asks(InterfaceIds[detection.standard][i]),
          !.waiting = @ \ {i},
          !.phase = IF detection.waiting = {i} THEN "detected" ELSE "extensions"]
(* A request that fails is reported as a contract without KIP-13. *)
QueryFails ==
  /\ detection' = [detection EXCEPT !.phase = "notSupported", !.failed = TRUE]

DetectStep ==
  /\ detection.phase \in {"isTrue", "isFalse", "basic", "extensions"}
  /\ \/ Kip13Answers
     \/ BasicAnswers
     \/ \E i \in DOMAIN detection.detected : ExtensionAnswers(i)
     \/ QueryFails
  /\ UNCHANGED tokenCall

TokenInit == tokenCall = NoTokenCall /\ detection = NoDetection
TokenNext ==
  \/ tokenCall = NoTokenCall /\ detection = NoDetection /\ CallAnyMethod
  \/ tokenCall = NoTokenCall /\ \E s \in Standards, c \in Contracts : Detect(s, c)
  \/ DetectStep

-----------------------------------------------------------------------------
(* Parts of the property ContractAsAsked. *)

Occurrences(t, types) == Cardinality({i \in DOMAIN types : types[i] = t})
GivenTypes(c) ==
  LET given == {i \in DOMAIN c.args : c.args[i].is \notin {"undefined", "empty", "options", "object"}}
  IN [i \in given |-> TypeOf(c.kinds[i], c.args[i])]
OptionsGiven(c) == {c.args[i].is : i \in DOMAIN c.args} \intersect {"options", "object"}

(* A method of a token calls the overload that takes all the arguments it  *)
(* was given, with the options it was given, wherever they stood.          *)
(* Excepted: an id that is an object (a BigNumber) is taken for the        *)
(* options by pause and unpause, which then concern the whole contract.    *)
TokenCallMade ==
  tokenCall.phase = "made" =>
    /\ tokenCall.options \in IF tokenCall.sendParam # "none" THEN {tokenCall.sendParam}
                            ELSE OptionsGiven(tokenCall) \union
                                   (IF OptionsGiven(tokenCall) = {} THEN {"none", "bigNumber"} ELSE {})
    /\ \A t \in Range(GivenTypes(tokenCall)) :
         Occurrences(t, GivenTypes(tokenCall)) = Occurrences(t, tokenCall.entry.inputs)
         \/ tokenCall.options = "bigNumber"

(* And every call whose sender is known, with arguments as documented, is  *)
(* made.  Excepted: data and uri left out of calls of KIP37, though they   *)
(* are said to be optional, unless the options stand in their place.       *)
TokenCallPossible ==
  LET last == tokenCall.args[Len(tokenCall.args)]
  IN tokenCall.phase = "refused" =>
       \/ tokenCall.sendParam # "options" /\ "options" \notin OptionsGiven(tokenCall)
            /\ (tokenCall.defaultFrom => tokenCall.name = "deploy")
       \/ Cardinality(OptionsGiven(tokenCall)) > 0
            /\ (tokenCall.sendParam # "none" \/ last.is = "object")
       \/ ~EqualLengths(tokenCall.args)
       \/ /\ tokenCall.standard = "KIP37" /\ tokenCall.name = "mint"
          /\ (tokenCall.args[1].length = 0) # (tokenCall.args[3].length = 0)
       \/ tokenCall.name = "deploy" /\
            \E i \in DOMAIN tokenCall.kinds : TypeOf(tokenCall.kinds[i], tokenCall.args[i]) = "none"
       \/ tokenCall.standard = "KIP37" /\ last.is \in {"undefined", "empty"}

(* detectInterface tells exactly which interfaces a contract has, none if  *)
(* it is no token of the standard, and refuses only contracts that do not  *)
(* support KIP-13, unless a request failed.                                *)
DetectedRight ==
  LET ids == InterfaceIds[detection.standard]
      kip13 == Kip13Ids.true \in detection.contract /\ Kip13Ids.false \notin detection.contract
  IN /\ detection.phase = "detected" =>
          kip13 /\ \A i \in DOMAIN ids :
            detection.detected[i] <=> {ids[Basic[detection.standard]], ids[i]} \subseteq detection.contract
     /\ detection.phase = "notSupported" /\ ~detection.failed => ~kip13
=============================================================================
