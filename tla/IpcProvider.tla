------------------------------- MODULE IpcProvider -------------------------------
(***************************************************************************)
(* The IPC provider and the socket to the node behind it.  A message that  *)
(* comes in two pieces is put together from lastChunk; a piece that is     *)
(* left from a connection that ended spoils everything that follows.       *)
(***************************************************************************)
EXTENDS JsonRpc

CONSTANTS
  MaxIds,        \* bound: subscriptions that the node creates
  MaxWire        \* bound: messages on their way from the node

ASSUME WireAssumption == MaxIds \in Nat /\ MaxWire \in Nat \ {0}

VARIABLES
  responseCallbacks,  \* requests whose callback waits for a response
  listeners,          \* notificationCallbacks: how many
  connection,         \* the state of the socket
  lastChunk,          \* "none", "half" a message, or "garbage"
  chunkTimer,         \* lastChunkTimeout is running
  wire,               \* messages from the node
  asked,              \* requests that the node has, or will have
  live,               \* subscriptions that the node serves
  issued              \* the last subscription id it gave out

ipcVars == <<responseCallbacks, listeners, connection, lastChunk, chunkTimer,
             wire, asked, live, issued>>

Ids == 1 .. MaxIds
NoId == 0

(* A response, which may carry the id of a subscription, or a notification. *)
Response(r, ok, id) == [to |-> r, ok |-> ok, id |-> id]
Notification(id) == [to |-> NoId, ok |-> TRUE, id |-> id]
Messages == [to : Requests \union {NoId}, ok : BOOLEAN, id : Ids \union {NoId}]

ChunkTypeOK ==
  /\ lastChunk \in {"none", "half", "garbage"} /\ chunkTimer \in BOOLEAN
  /\ chunkTimer => lastChunk # "none"

IpcTypeOK ==
  /\ ChunkTypeOK
  /\ responseCallbacks \subseteq Requests
  /\ listeners \in Nat
  /\ connection \in {"open", "connecting", "ended"}
  /\ wire \in Seq(Messages) /\ Len(wire) <= MaxWire
  /\ connection # "open" => wire = <<>> /\ live = {}
  /\ asked \subseteq Requests
  /\ live \subseteq 1 .. issued /\ issued \in 0 .. MaxIds

IpcInit ==
  /\ responseCallbacks = {} /\ listeners = 1 /\ connection = "open"
  /\ lastChunk = "none" /\ chunkTimer = FALSE
  /\ wire = <<>> /\ asked = {} /\ live = {} /\ issued = 0

-----------------------------------------------------------------------------
(* send of the requests R, one after the other. *)
Write(R) ==
  /\ asked' = asked \union R
  /\ connection' = IF R # {} /\ connection = "ended" THEN "connecting"
                   ELSE connection

IpcSend(R) ==
  /\ Write(R)
  /\ responseCallbacks' = responseCallbacks \union R
  /\ UNCHANGED <<listeners, lastChunk, chunkTimer, wire, live, issued>>

(* reconnect *)
IpcReconnect ==
  /\ connection = "ended"
  /\ connection' = "connecting"
  /\ UNCHANGED <<responseCallbacks, listeners, lastChunk, chunkTimer, wire,
                 asked, live, issued>>

(* reset, after a send of the requests R; n listens afterwards.  _timeout  *)
(* is called: see Failing.                                                 *)
IpcReset_keepingListeners(R, n) ==
  /\ Write(R)
  /\ responseCallbacks' = {} /\ listeners' = listeners + n
  /\ UNCHANGED <<lastChunk, chunkTimer, wire, live, issued>>
IpcReset(R, n) ==
  /\ Write(R)
  /\ responseCallbacks' = {} /\ listeners' = n
  /\ UNCHANGED <<lastChunk, chunkTimer, wire, live, issued>>

(* _timeout: the requests whose callback is given an error. *)
Failing(R) == responseCallbacks \union R

(* The socket connects, and what was written before is sent. *)
Connects ==
  /\ connection = "connecting"
  /\ connection' = "open"
  /\ UNCHANGED <<responseCallbacks, listeners, lastChunk, chunkTimer, wire,
                 asked, live, issued>>

(* end and error: _timeout is called.  lastChunk stays. *)
Ends_keepingWire ==
  /\ connection # "ended"
  /\ connection' = "ended"
  /\ responseCallbacks' = {} /\ asked' = {} /\ live' = {}
  /\ lastChunk' = IF lastChunk = "none" THEN "none" ELSE "garbage"
  /\ UNCHANGED <<listeners, chunkTimer, wire, issued>>
Ends ==
  /\ connection # "ended"
  /\ connection' = "ended"
  /\ responseCallbacks' = {} /\ asked' = {} /\ live' = {} /\ wire' = <<>>
  /\ lastChunk' = IF lastChunk = "none" THEN "none" ELSE "garbage"
  /\ UNCHANGED <<listeners, chunkTimer, issued>>

-----------------------------------------------------------------------------
(* The node. *)
Room == Len(wire) < MaxWire

Answers(r, message, served) ==
  /\ r \in asked /\ connection = "open" /\ Room
  /\ asked' = asked \ {r} /\ wire' = Append(wire, message) /\ live' = served
  /\ UNCHANGED <<responseCallbacks, listeners, connection, lastChunk, chunkTimer>>

Notifies(id) ==
  /\ id \in live /\ wire = <<>>
  /\ wire' = Append(wire, Notification(id))
  /\ UNCHANGED <<responseCallbacks, listeners, connection, lastChunk, chunkTimer,
                 asked, live, issued>>

(* _parseResponse: the first piece of a message arrives. *)
FirstPiece ==
  /\ wire # <<>> /\ lastChunk = "none"
  /\ lastChunk' = "half" /\ chunkTimer' = TRUE
  /\ UNCHANGED <<responseCallbacks, listeners, connection, wire, asked, live,
                 issued>>

(* A message is complete, whether it came in one piece or not, and its     *)
(* callback is called and removed, if it has one.                          *)
Parsed_keepingCallback ==
  /\ wire # <<>> /\ lastChunk # "garbage"
  /\ lastChunk' = "none" /\ chunkTimer' = FALSE /\ wire' = Tail(wire)
  /\ UNCHANGED <<responseCallbacks, listeners, connection, asked, live, issued>>
Parsed ==
  /\ wire # <<>> /\ lastChunk # "garbage"
  /\ lastChunk' = "none" /\ chunkTimer' = FALSE /\ wire' = Tail(wire)
  /\ responseCallbacks' = responseCallbacks \ {Head(wire).to}
  /\ UNCHANGED <<listeners, connection, asked, live, issued>>

(* A message that is appended to a piece of another one is not parsed, and *)
(* the timer starts again.                                                 *)
NotParsed_untimed ==
  /\ wire # <<>> /\ lastChunk = "garbage"
  /\ wire' = Tail(wire)
  /\ UNCHANGED <<responseCallbacks, listeners, connection, lastChunk, chunkTimer,
                 asked, live, issued>>
NotParsed ==
  /\ wire # <<>> /\ lastChunk = "garbage"
  /\ chunkTimer' = TRUE /\ wire' = Tail(wire)
  /\ UNCHANGED <<responseCallbacks, listeners, connection, lastChunk, asked, live,
                 issued>>

(* The timer: fifteen seconds in which nothing came that restarts it.      *)
(* _timeout is called.                                                     *)
ChunkTimeout ==
  /\ chunkTimer /\ (lastChunk = "half" \/ wire = <<>>)
  /\ chunkTimer' = FALSE /\ responseCallbacks' = {}
  /\ UNCHANGED <<listeners, connection, lastChunk, wire, asked, live, issued>>
=============================================================================
