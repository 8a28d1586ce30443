--------------------------- MODULE WebSocketClient ---------------------------
(***************************************************************************)
(* The WebSocket client (websocket_client.hpp) and the function of the     *)
(* smoke tests that uses it (test_client.cpp): it connects, waits for the  *)
(* channel of a topic, subscribes to it and returns the first message.     *)
(* The handlers of the client run on its own thread and set promises that  *)
(* are local variables of that function.                                   *)
(*                                                                         *)
(* External: the server, which sends its server info and the channels when *)
(* the client connects, all channels again whenever there is a new one,    *)
(* and data once the client has subscribed.  websocketpp ends the process  *)
(* with an exception of a handler; its close() and send() throw for a      *)
(* connection that is not open.                                            *)
(***************************************************************************)
EXTENDS Naturals, Sequences

CONSTANTS
  MaxAdvertised,   \* bound on the advertisements sent to the client
  MaxData          \* bound on the data messages sent to it

ASSUME ClientAssumption == MaxAdvertised \in Nat /\ MaxData \in Nat

VARIABLES
  pc,          \* where connectClientAndReceiveMsg is
  con,         \* the connection in _con, see TypeOK
  run,         \* the thread of the client
  perpetual,   \* it is kept running without a connection
  inbox,       \* messages that have been sent to the client
  handlers,    \* the message handlers that are set
  channel,     \* channelPromise
  message,     \* msgPromise
  subscribed,  \* the server knows the subscription
  ads,         \* advertisements sent so far
  data,        \* data messages sent so far
  troubled     \* the peer closed the connection, or a wait timed out

promises == <<channel, message>>
thread   == <<run, perpetual>>
sent     == <<subscribed, ads, data>>
vars == <<pc, con, thread, inbox, handlers, promises, sent, troubled>>

Promises == {"none", "unset", "set", "destroyed"}

TypeOK ==
  /\ pc \in {"connect", "opening", "channel", "handler", "subscribe", "message",
             "unwind", "destroy", "close", "join", "done"}
  /\ con \in {"none", "connecting", "open", "closing", "closed", "failed"}
  /\ run \in {"running", "ended", "crashed"}
  /\ perpetual \in BOOLEAN
  /\ inbox \in Seq({"info", "advertise", "data"})
  /\ handlers \subseteq {"text", "binary"}
  /\ channel \in Promises /\ message \in Promises
  /\ subscribed \in BOOLEAN
  /\ ads \in 0..MaxAdvertised /\ data \in 0..MaxData
  /\ troubled \in BOOLEAN

\* The client is made and its text handler set.
Init ==
  /\ pc = "connect" /\ con = "none"
  /\ run = "running" /\ perpetual = TRUE
  /\ inbox = <<>> /\ handlers = {"text"}
  /\ channel = "unset" /\ message = "none"
  /\ subscribed = FALSE /\ ads = 0 /\ data = 0
  /\ troubled = FALSE

Running == run = "running"

-----------------------------------------------------------------------------
(* The server and the connection. *)

Opens ==
  /\ Running
  /\ con = "connecting"
  /\ con' = "open"
  /\ inbox' = <<"info">>
  /\ UNCHANGED <<pc, thread, handlers, promises, sent, troubled>>

ServerAdvertises ==
  /\ con = "open"
  /\ ads < MaxAdvertised
  /\ inbox' = Append(inbox, "advertise")
  /\ ads' = ads + 1
  /\ UNCHANGED <<pc, con, thread, handlers, promises, subscribed, data, troubled>>

ServerSendsData ==
  /\ con = "open" /\ subscribed
  /\ data < MaxData
  /\ inbox' = Append(inbox, "data")
  /\ data' = data + 1
  /\ UNCHANGED <<pc, con, thread, handlers, promises, subscribed, ads, troubled>>

\* The connection cannot be made or is lost.  There is no handler for either.
ConnectionLost ==
  /\ Running
  /\ con \in {"connecting", "open"}
  /\ con' = IF con = "open" THEN "closed" ELSE "failed"
  /\ inbox' = <<>>
  /\ troubled' = TRUE
  /\ UNCHANGED <<pc, thread, handlers, promises, sent>>

\* The closing handshake is answered, or times out.
ConnectionClosed ==
  /\ Running
  /\ con = "closing"
  /\ con' = "closed"
  /\ inbox' = <<>>
  /\ UNCHANGED <<pc, thread, handlers, promises, sent, troubled>>

-----------------------------------------------------------------------------
(* The thread of the client. *)

\* Mutant: the text handler does not look at the op of the message.
HandlesAnyText(m) == {m} \subseteq {"info", "advertise"}

\* The text handler looks for the channel in an advertisement.
HandlesText(m) == m = "advertise"

\* set_value() on a promise that has its value, or on one that does not exist
\* any more, ends the process; the second is undefined.
SetValue(promise) ==
  IF promise = "unset" THEN promise' = "set" /\ UNCHANGED run
                       ELSE run' = "crashed" /\ UNCHANGED promise

\* messageHandler() calls the handler for the message, if it is set.  It holds
\* the mutex, and setting a handler waits for it: it is one step.
MessageHandler ==
  /\ Running /\ con = "open"
  /\ inbox # <<>>
  /\ inbox' = Tail(inbox)
  /\ LET m == Head(inbox) IN
     CASE HandlesText(m) -> SetValue(channel) /\ UNCHANGED message
       [] m = "data" /\ "binary" \in handlers -> SetValue(message) /\ UNCHANGED channel
       [] OTHER -> UNCHANGED <<run, promises>>
  /\ UNCHANGED <<pc, con, perpetual, handlers, sent, troubled>>

\* run() returns when nothing is left to do.
RunReturns ==
  /\ Running
  /\ ~perpetual
  /\ con \notin {"connecting", "open", "closing"}
  /\ run' = "ended"
  /\ UNCHANGED <<pc, con, perpetual, inbox, handlers, promises, sent, troubled>>

-----------------------------------------------------------------------------
(* connectClientAndReceiveMsg. *)

\* From one statement to the next; a crash ends this thread too.
At(from, to) == pc = from /\ pc' = to /\ run # "crashed"

\* connect() only starts the connection.
Connect ==
  /\ At("connect", "opening")
  /\ con' = "connecting"
  /\ UNCHANGED <<thread, inbox, handlers, promises, sent, troubled>>

\* The URI is refused.
ConnectThrows ==
  /\ At("connect", "destroy")
  /\ UNCHANGED <<con, thread, inbox, handlers, promises, sent, troubled>>

\* The future of connect() is set by the open handler, which runs before any other.
Connected ==
  /\ At("opening", "channel")
  /\ con \in {"open", "closed"}
  /\ UNCHANGED <<con, thread, inbox, handlers, promises, sent, troubled>>

ChannelReceived ==
  /\ At("channel", "handler")
  /\ channel = "set"
  /\ UNCHANGED <<con, thread, inbox, handlers, promises, sent, troubled>>

\* Mutant: the handler is set when the message is waited for.
BinaryHandlerLate == {}

BinaryHandler == {"binary"}

SetBinaryMessageHandler ==
  /\ At("handler", "subscribe")
  /\ message' = "unset"
  /\ handlers' = handlers \union BinaryHandler
  /\ UNCHANGED <<con, thread, inbox, channel, sent, troubled>>

\* subscribe() throws if the connection is lost.
Subscribe ==
  /\ IF con = "open" THEN At("subscribe", "message") /\ subscribed' = TRUE
                     ELSE At("subscribe", "unwind") /\ UNCHANGED subscribed
  /\ UNCHANGED <<con, thread, inbox, handlers, promises, ads, data, troubled>>

MessageReceived ==
  /\ At("message", "unwind")
  /\ message = "set"
  /\ UNCHANGED <<con, thread, inbox, handlers, promises, sent, troubled>>

\* A wait of five seconds is over: an exception leaves the function.
WaitTimesOut ==
  /\ At("opening", "destroy") \/ At("channel", "destroy") \/ At("message", "unwind")
  /\ troubled' = TRUE
  /\ UNCHANGED <<con, thread, inbox, handlers, promises, sent>>

\* The local variables are destroyed, the last one first ...
DestroyMsgPromise ==
  /\ At("unwind", "destroy")
  /\ message' = "destroyed"
  /\ UNCHANGED <<con, thread, inbox, handlers, channel, sent, troubled>>

DestroyChannelPromise ==
  /\ At("destroy", "close")
  /\ channel' = "destroyed"
  /\ UNCHANGED <<con, thread, inbox, handlers, message, sent, troubled>>

\* Mutant: stop_perpetual() is forgotten.
StaysPerpetual == perpetual

StopPerpetual == FALSE

\* ... and the client last: close() and stop_perpetual().  The exception of a
\* close() that fails cannot leave a destructor.
CloseClient ==
  /\ At("close", "join")
  /\ \/ con = "none" /\ UNCHANGED <<con, run>>
     \/ con = "open" /\ con' = "closing" /\ UNCHANGED run
     \/ con \in {"connecting", "closed", "failed"} /\ run' = "crashed" /\ UNCHANGED con
  /\ perpetual' = StopPerpetual
  /\ UNCHANGED <<inbox, handlers, promises, sent, troubled>>

JoinThread ==
  /\ At("join", "done")
  /\ run = "ended"
  /\ UNCHANGED <<con, thread, inbox, handlers, promises, sent, troubled>>

-----------------------------------------------------------------------------
(* The specification. *)

Server ==
  \/ Opens
  \/ ServerAdvertises
  \/ ServerSendsData
  \/ ConnectionLost

ClientThread == ConnectionClosed \/ MessageHandler \/ RunReturns

Caller ==
  \/ Connect \/ ConnectThrows
  \/ Connected \/ ChannelReceived \/ MessageReceived
  \/ WaitTimesOut
  \/ SetBinaryMessageHandler
  \/ Subscribe
  \/ DestroyMsgPromise \/ DestroyChannelPromise
  \/ CloseClient
  \/ JoinThread

Next == Server \/ ClientThread \/ Caller

\* Both threads run; a wait ends by itself.  Nothing is assumed of the server.
Spec == Init /\ [][Next]_vars /\ WF_vars(ClientThread) /\ WF_vars(Caller)

-----------------------------------------------------------------------------
(* Properties. *)

\* The message of a latched topic comes only once: it never finds the client
\* without a handler for it.
DataFindsHandler ==
  (\E i \in 1..Len(inbox) : inbox[i] = "data") => "binary" \in handlers

\* With one advertisement, one message and a connection that lasts, as in the
\* smoke tests, the promises outlive the handlers that set them and are set only
\* once (a second advertisement would set one again and end the process).
QuietServerIsSafe ==
  ads <= 1 /\ data <= 1 /\ ~troubled => run # "crashed"

\* The function ends, whatever the server does, and the client's thread with it.
CallEnds == <>(run = "crashed" \/ (pc = "done" /\ run = "ended"))
=============================================================================
