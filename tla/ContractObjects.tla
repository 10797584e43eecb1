---------------------------- MODULE ContractObjects ----------------------------
(***************************************************************************)
(* A Contract object as its interface makes it: which method a call by     *)
(* name means, what a deployment deploys, and which events a filter lets   *)
(* through.                                                                *)
(*                                                                         *)
(* The setter of options.jsonInterface builds the methods anew and looks   *)
(* for the constructor in the interface that was there before.  The object *)
(* to which the constructor is bound keeps the code it was first given.    *)
(***************************************************************************)
EXTENDS Integers, Sequences, FiniteSetsExt, Functions

CONSTANTS Interfaces,   \* sequences of functions, events and constructors
          ArgumentLists,\* what methods are called with (see Encodable)
          Codes,        \* byte codes
          Filters,      \* filters of events: functions from inputs to Only and AnyOf
          MaxContract,  \* bound: calls of the application
          Absent

VARIABLES
  object,        \* the Contract object
  result,        \* what the last call came to
  contractCalls

objectVars == <<object, result, contractCalls>>

(* Entries of an interface; events have named inputs, of which some are    *)
(* indexed.                                                                *)
Method(name, inputs) == [type |-> "function", name |-> name, inputs |-> inputs]
Constructor(inputs) == [type |-> "constructor", name |-> "constructor", inputs |-> inputs]
Event(name, indexed, anonymous) ==
  [type |-> "event", name |-> name, inputs |-> indexed, anonymous |-> anonymous]

(* An interface is a sequence of such entries. *)
Entries ==
  [type : {"function", "constructor"}, name : STRING, inputs : Seq(STRING)]
    \union [type : {"event"}, name : STRING, inputs : Seq(STRING), anonymous : BOOLEAN]
ASSUME ObjectAssumption ==
  /\ Interfaces \subseteq Seq(Entries)
  /\ MaxContract \in Nat

(* Where entries of a type, or of a type and a name, stand. *)
PlacesOf(interface, type) == {i \in DOMAIN interface : interface[i].type = type}
Named(interface, type, name) ==
  {i \in PlacesOf(interface, type) : interface[i].name = name}
EventsIn(interface) == {interface[i] : i \in PlacesOf(interface, "event")}
ConstructorIn(interface) ==
  LET found == PlacesOf(interface, "constructor")
  IN IF found = {} THEN Absent ELSE interface[Min(found)]

(* The setter of jsonInterface. *)
WithInterface(before, interface) ==
  [interface |-> interface, constructor |-> ConstructorIn(before), deployData |-> Absent]
Made(interface) == WithInterface(<< >>, interface)

NoResult == [kind |-> "none"]

ObjectInit ==
  /\ object = Made(<< >>)
  /\ result = NoResult
  /\ contractCalls = 0

Called(o, r) ==
  /\ contractCalls < MaxContract
  /\ contractCalls' = contractCalls + 1
  /\ object' = o
  /\ result' = r

SetInterface(interface) ==
  Called(WithInterface(object.interface, interface), [kind |-> "set"])
Clone == Called(Made(object.interface), [kind |-> "set"])

-----------------------------------------------------------------------------
(* _createTxObject.  Methods of one name are chained from the last in the  *)
(* interface to the first.  One with another number of inputs passes the   *)
(* call on, one whose inputs cannot be encoded too, except the last in the *)
(* chain, whose encoding fails later, and which refuses a wrong number.    *)

(* Of an argument only the set of types as which the coder takes it        *)
(* matters: a hex string may be bytes, a string and an address.            *)
Encodable(entry, arguments) ==
  /\ Len(entry.inputs) = Len(arguments)
  /\ \A i \in DOMAIN arguments : entry.inputs[i] \in arguments[i]
PassesOn_countingOnly(entry, arguments) == Len(entry.inputs) # Len(arguments)
PassesOn(entry, arguments) ==
  Len(entry.inputs) # Len(arguments) \/ ~Encodable(entry, arguments)

Resolved(interface, name, arguments) ==
  LET methods == Named(interface, "function", name)
      taken == {i \in methods : i = Min(methods) \/ ~PassesOn(interface[i], arguments)}
  IN interface[Max(taken)]

CallMethod(name, arguments) ==
  /\ Named(object.interface, "function", name) # {}
  /\ LET entry == Resolved(object.interface, name, arguments)
     IN Called(object, [kind |-> IF Encodable(entry, arguments) THEN "sent" ELSE "refused",
                        name |-> name, arguments |-> arguments, entry |-> entry])

-----------------------------------------------------------------------------
(* A deployment: methods.constructor(code, arguments...).send.  A code     *)
(* that is taken for an argument is a hex string.                          *)

HexCode == {"bytes", "string"}
Deploy(code, arguments) ==
  LET first == object.deployData = Absent
      kept == IF first THEN [object EXCEPT !.deployData = code] ELSE object
      rest == IF first THEN arguments ELSE <<HexCode>> \o arguments
      bound == object.constructor
      declared == ConstructorIn(object.interface)
      refused == \/ bound # Absent /\ Len(bound.inputs) # Len(rest)
                 \/ declared # Absent /\ ~Encodable(declared, rest)
  IN Called(kept, [kind |-> IF refused THEN "notDeployed" ELSE "deployed",
                   code |-> kept.deployData, given |-> code, first |-> first,
                   encoded |-> IF declared = Absent THEN << >> ELSE rest,
                   arguments |-> arguments, declared |-> declared, bound |-> bound])

-----------------------------------------------------------------------------
(* Events.  contract.events.Name is the last event of its name, once,      *)
(* subscribe and getPastEvents find the first.                             *)

(* In a filter, an input may be one value or any of an array of values.    *)
Only(v) == [array |-> FALSE, values |-> {v}]
AnyOf(V) == [array |-> TRUE, values |-> V]

(* A topic that is asked for is the set of those that will do; none stands *)
(* for null, which all will do for, and so they will for an empty array.   *)
Signature(event) == [signature |-> event]
Value(v) == [value |-> v]
AnyTopic == {}

EventFor(interface, name, byProperty) ==
  LET events == Named(interface, "event", name)
  IN interface[IF byProperty THEN Max(events) ELSE Min(events)]

(* _encodeEventABI; a filter on zero, or false, filters nothing. *)
EventTopics(event, filter) ==
  (IF event.anonymous THEN << >> ELSE <<{Signature(event)}>>)
    \o [i \in DOMAIN event.inputs |->
          LET input == event.inputs[i]
          IN IF input \in DOMAIN filter /\ filter[input] # Only(0)
             THEN {Value(v) : v \in filter[input].values} ELSE AnyTopic]

(* The node: the topics of a log, and which logs a filter lets through. *)
LogTopics(event, values) ==
  (IF event.anonymous THEN << >> ELSE <<Signature(event)>>)
    \o [i \in DOMAIN event.inputs |-> Value(values[event.inputs[i]])]
Passes(topics, of) ==
  /\ Len(topics) <= Len(of)
  /\ \A i \in DOMAIN topics : topics[i] = AnyTopic \/ of[i] \in topics[i]

(* The application asks for the events of a name, and hears of one that is *)
(* logged: it is decoded as the event that was asked for.                  *)
HearEvent(name, byProperty, filter, logged, values) ==
  /\ Named(object.interface, "event", name) # {}
  /\ LET event == EventFor(object.interface, name, byProperty)
     IN /\ Passes(EventTopics(event, filter), LogTopics(logged, values))
        /\ Called(object, [kind |-> "event", asked |-> event, filter |-> filter,
                           logged |-> logged, values |-> values])

(* _decodeEventABI of allEvents: by the first topic. *)
HearAnyEvent(logged, values) ==
  LET known == {e \in EventsIn(object.interface) :
                  <<Signature(e)>> = SubSeq(LogTopics(logged, values), 1, 1)}
  IN Called(object, [kind |-> "anyEvent", logged |-> logged,
                     as |-> IF known = {} THEN Absent ELSE CHOOSE e \in known : TRUE])

ObjectNext ==
  \/ \E interface \in Interfaces : SetInterface(interface)
  \/ Clone
  \/ \E e \in Range(object.interface), arguments \in ArgumentLists :
       CallMethod(e.name, arguments)
  \/ \E code \in Codes, arguments \in ArgumentLists : Deploy(code, arguments)
  \/ \E e, logged \in EventsIn(object.interface), filter \in Filters :
       \E values \in [Range(logged.inputs) -> 0 .. 1] :
         \/ \E byProperty \in BOOLEAN : HearEvent(e.name, byProperty, filter, logged, values)
         \/ HearAnyEvent(logged, values)

-----------------------------------------------------------------------------
(* Parts of the property ContractAsAsked. *)

(* A call by name becomes a call of a method that takes the arguments      *)
(* whenever the interface has one, whatever order the overloads come in.   *)
MethodResolved ==
  /\ result.kind = "sent" => Encodable(result.entry, result.arguments)
  /\ result.kind = "refused" =>
       \A i \in Named(object.interface, "function", result.name) :
         ~Encodable(object.interface[i], result.arguments)

(* The first deployment with an object deploys the code and the arguments  *)
(* given, and is refused only if the constructor does not take them.       *)
(* Excepted: later deployments with the same object, which deploy the      *)
(* first code again or are refused; and interfaces set in place of others, *)
(* whose constructor's number of arguments is asked for.                   *)
DeployedAsGiven ==
  /\ result.kind = "deployed" /\ result.first =>
       /\ result.code = result.given
       /\ result.declared # Absent => result.encoded = result.arguments
  /\ result.kind = "notDeployed" /\ result.first
       /\ (result.declared = Absent \/ Encodable(result.declared, result.arguments)) =>
       result.bound # Absent /\ result.bound # result.declared

(* An application hears only of events it asked for: of the event itself   *)
(* and with the values its filter gives.  Excepted: anonymous events, and  *)
(* zero alone, or an empty array, as a value of the filter.                *)
FilteredAsAsked ==
  /\ result.kind = "event" /\ ~result.asked.anonymous =>
       /\ result.logged = result.asked
       /\ \A i \in Range(result.asked.inputs) \intersect DOMAIN result.filter :
            \/ result.filter[i] = Only(0) \/ result.filter[i].values = {}
            \/ result.values[i] \in result.filter[i].values
  /\ result.kind = "anyEvent" /\ ~result.logged.anonymous => result.as = result.logged
=============================================================================
