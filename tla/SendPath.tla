------------------------------ MODULE SendPath ------------------------------
(***************************************************************************)
(* How data reaches one client (websocket_server.hpp, sendMessage and      *)
(* broadcastTime).  ROS messages arrive on the threads of the executor,    *)
(* several at a time (the subscriptions are in a reentrant callback group) *)
(* and each calls sendMessage, which runs in three separate steps: test    *)
(* the connection's buffer, look up the subscription under                 *)
(* _clientsChannelMutex, send.  Between the steps the client subscribes,   *)
(* unsubscribes and goes away, and other threads send.                     *)
(*                                                                         *)
(* The subscriptions of the client are the map subscriptionsByChannel of   *)
(* module WebSocketServer, seen by one client and changed one entry at a   *)
(* time: the lookup cannot tell a batch from several messages.  The JSON   *)
(* replies of the server, which are small and answer a request of the      *)
(* client or a change of the graph, are not counted.                       *)
(***************************************************************************)
EXTENDS Integers, FiniteSets

CONSTANTS
  Threads,         \* threads of the executor
  ChannelIds,      \* channels the client may subscribe to
  SubIds,          \* subscription ids it may choose
  Limit,           \* _send_buffer_limit_bytes
  MaxSize,         \* bound: bytes of a data message, its header included
  TimeSize,        \* bytes of a time message
  UseSimTime,      \* _useSimTime: the clock is broadcast
  MaxTime,         \* bound: bytes of time messages that pile up
  NoId             \* no channel, no subscription

ASSUME SendAssumption ==
  /\ IsFiniteSet(Threads)
  /\ NoId \notin ChannelIds \union SubIds
  /\ UseSimTime \in BOOLEAN
  /\ Limit \in Nat
  /\ MaxSize \in Nat
  /\ TimeSize \in Nat
  /\ MaxTime \in Nat

VARIABLES
  connected,       \* the client is in _clients and its connection is alive
  subs,            \* subscriptionsByChannel: pairs <<channel id, sub id>>
  buffered,        \* con->get_buffered_amount(), the bytes of data messages
  timeBuffered,    \* and those of time messages
  late,            \* messages sent under such a pair since it was unsubscribed
  tpc,             \* where each thread is in sendMessage
  chan,            \* the channel of the message it sends
  size,            \* its bytes
  subId            \* the local subId

vars == <<connected, subs, buffered, timeBuffered, late, tpc, chan, size, subId>>
clientVars == <<connected, subs>>

Pairs == ChannelIds \X SubIds

TypeOK ==
  /\ connected \in BOOLEAN
  /\ subs \subseteq Pairs
  /\ buffered \in Nat
  /\ timeBuffered \in Nat
  /\ late \in [Pairs -> Nat]
  /\ tpc \in [Threads -> {"idle", "lookup", "send"}]
  /\ chan \in [Threads -> ChannelIds \union {NoId}]
  /\ size \in [Threads -> 0..MaxSize]
  /\ subId \in [Threads -> SubIds \union {NoId}]

Init ==
  /\ connected = TRUE
  /\ subs = {}
  /\ buffered = 0
  /\ timeBuffered = 0
  /\ late = [m \in Pairs |-> 0]
  /\ tpc = [t \in Threads |-> "idle"]
  /\ chan = [t \in Threads |-> NoId]
  /\ size = [t \in Threads |-> 0]
  /\ subId = [t \in Threads |-> NoId]

-----------------------------------------------------------------------------
(* The client. *)

\* An entry of a subscribe message: an id in use is refused, the id of a
\* channel that has one is not replaced.
Subscribe(ch, s) ==
  /\ connected
  /\ \A m \in subs : m[2] # s
  /\ IF \E m \in subs : m[1] = ch
     THEN UNCHANGED <<subs, late>>
     ELSE /\ subs' = subs \union {<<ch, s>>}
          /\ late' = [late EXCEPT ![<<ch, s>>] = 0]
  /\ UNCHANGED <<connected, buffered, timeBuffered, tpc, chan, size, subId>>

Unsubscribe(m) ==
  /\ connected
  /\ m \in subs
  /\ subs' = subs \ {m}
  /\ UNCHANGED <<connected, buffered, timeBuffered, late, tpc, chan, size, subId>>

\* handleConnectionClosed, and websocketpp lets go of the connection.
Disconnect ==
  /\ connected
  /\ connected' = FALSE
  /\ subs' = {}
  /\ buffered' = 0
  /\ timeBuffered' = 0
  /\ UNCHANGED <<late, tpc, chan, size, subId>>

\* The socket takes n bytes of data messages or of time messages (in the order
\* they were sent, which nothing here depends on).
Drain(n) ==
  /\ \/ /\ n <= buffered
        /\ buffered' = buffered - n
        /\ UNCHANGED timeBuffered
     \/ /\ n <= timeBuffered
        /\ timeBuffered' = timeBuffered - n
        /\ UNCHANGED buffered
  /\ UNCHANGED <<clientVars, late, tpc, chan, size, subId>>

-----------------------------------------------------------------------------
(* sendMessage on thread t. *)

Return(t) ==
  /\ tpc' = [tpc EXCEPT ![t] = "idle"]
  /\ chan' = [chan EXCEPT ![t] = NoId]
  /\ size' = [size EXCEPT ![t] = 0]
  /\ subId' = [subId EXCEPT ![t] = NoId]

\* A message of n bytes on channel ch: it is dropped if the connection is gone
\* or its buffer has reached the limit.
TestBuffer(t, ch, n) ==
  /\ tpc[t] = "idle"
  /\ connected
  /\ buffered + timeBuffered < Limit
  /\ tpc' = [tpc EXCEPT ![t] = "lookup"]
  /\ chan' = [chan EXCEPT ![t] = ch]
  /\ size' = [size EXCEPT ![t] = n]
  /\ UNCHANGED <<clientVars, buffered, timeBuffered, late, subId>>

\* Mutant: the id of any subscription is taken.
LookUpAny(t) ==
  /\ tpc[t] = "lookup"
  /\ \E m \in subs : subId' = [subId EXCEPT ![t] = m[2]]
  /\ tpc' = [tpc EXCEPT ![t] = "send"]
  /\ UNCHANGED <<clientVars, buffered, timeBuffered, late, chan, size>>

\* The subscription id is read under the mutex, which is released again, ...
LookUp(t) ==
  /\ tpc[t] = "lookup"
  /\ \E m \in subs :
       /\ m[1] = chan[t]
       /\ subId' = [subId EXCEPT ![t] = m[2]]
  /\ tpc' = [tpc EXCEPT ![t] = "send"]
  /\ UNCHANGED <<clientVars, buffered, timeBuffered, late, chan, size>>

\* ... or the client is not subscribed, or gone.
NotSubscribed(t) ==
  /\ tpc[t] = "lookup"
  /\ \A m \in subs : m[1] # chan[t]
  /\ Return(t)
  /\ UNCHANGED <<clientVars, buffered, timeBuffered, late>>

\* What the connection is handed, counted if it comes after the unsubscribe.
Hand(t) ==
  LET m == <<chan[t], subId[t]>>
  IN /\ buffered' = buffered + size[t]
     /\ late' = IF m \in subs THEN late ELSE [late EXCEPT ![m] = @ + 1]

\* Mutant: a message that fails to be sent is sent again.
SendBinaryAgain(t) ==
  /\ tpc[t] = "send"
  /\ IF connected THEN Hand(t) ELSE UNCHANGED <<buffered, late>>
  /\ Return(t) \/ UNCHANGED <<tpc, chan, size, subId>>
  /\ UNCHANGED <<clientVars, timeBuffered>>

\* sendBinary.  On a dead connection it throws, which is caught.
SendBinary(t) ==
  /\ tpc[t] = "send"
  /\ IF connected THEN Hand(t) ELSE UNCHANGED <<buffered, late>>
  /\ Return(t)
  /\ UNCHANGED <<clientVars, timeBuffered>>

\* broadcastTime, for a message of /clock: it asks no limit.
BroadcastTime ==
  /\ UseSimTime
  /\ connected
  /\ timeBuffered + TimeSize <= MaxTime
  /\ timeBuffered' = timeBuffered + TimeSize
  /\ UNCHANGED <<clientVars, buffered, late, tpc, chan, size, subId>>

-----------------------------------------------------------------------------
Client ==
  \/ \E ch \in ChannelIds, s \in SubIds : Subscribe(ch, s)
  \/ \E m \in subs : Unsubscribe(m)
  \/ Disconnect

Thread(t) ==
  \/ \E ch \in ChannelIds, n \in 0..MaxSize : TestBuffer(t, ch, n)
  \/ LookUp(t)
  \/ NotSubscribed(t)
  \/ SendBinary(t)

Next ==
  \/ Client
  \/ \E n \in 1..(buffered + timeBuffered) : Drain(n)
  \/ \E t \in Threads : Thread(t)
  \/ BroadcastTime

Spec == Init /\ [][Next]_vars

-----------------------------------------------------------------------------
(* Properties. *)

\* Threads whose message has passed the test of the buffer.
InFlight == {t \in Threads : tpc[t] # "idle"}

\* A slow client: the test and the send are not one step, so the data in the
\* buffer can exceed send_buffer_limit, but only by one message per executor
\* thread, whatever the threads do between the test and the send.
OvershootBounded ==
  buffered = 0 \/ buffered < Limit + MaxSize * Cardinality(Threads)

\* The strengthening that is inductive: the threads past the test are the only
\* ones that may still add to the buffer without a test of their own.
OvershootInvariant ==
  /\ InFlight # {} => Limit > 0
  /\ \/ buffered = 0
     \/ buffered < Limit
                     + MaxSize * (Cardinality(Threads) - Cardinality(InFlight))

\* The id is read under the mutex and used after it, so data of a channel may
\* come after its unsubscription, and under an id that the client has given to
\* another channel since: but no more than one message per executor thread.
LateDataBounded == \A m \in Pairs : late[m] <= Cardinality(Threads)

\* Threads about to send under a pair.
Sending(m) == {t \in Threads : tpc[t] = "send" /\ <<chan[t], subId[t]>> = m}

\* The strengthening that is inductive: the threads that had looked the pair up
\* are the only ones that may still send under it.
LateInvariant ==
  /\ \A t \in Threads : tpc[t] = "send" => <<chan[t], subId[t]>> \in Pairs
  /\ \A m \in subs : late[m] = 0
  /\ \A m \in Pairs \ subs :
       late[m] + Cardinality(Sending(m)) <= Cardinality(Threads)
=============================================================================
