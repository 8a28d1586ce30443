--------------------------- MODULE WebSocketServer ---------------------------
(***************************************************************************)
(* foxglove::Server (websocket_server.hpp): the channels the bridge        *)
(* offers, the clients that are connected, what each client subscribed to  *)
(* and what each client publishes.                                         *)
(*                                                                         *)
(* Two kinds of threads run the code.  The run loop of websocketpp (the    *)
(* _serverThread of start()) calls the connection and message handlers,    *)
(* one at a time.  Threads of the embedding program call addChannel,       *)
(* removeChannel and broadcastChannels.  _clientsChannelMutex protects     *)
(* the maps.  A call of the embedding program holds it for one indivisible *)
(* step; a text or binary message holds it from its first entry to its     *)
(* last, ACROSS the callbacks into the embedding program, and those are    *)
(* steps of their own here: what the callback does, and what it waits for, *)
(* is up to the module that extends this one.  The disconnect handler      *)
(* makes its callbacks without the mutex.                                  *)
(*                                                                         *)
(* The callbacks return, or throw where the code catches it.  Replies of   *)
(* sendStatus carry no state and are left out, as is every message whose   *)
(* only effect is one (unparsable JSON, an unknown opcode, binary data for *)
(* a channel that is not advertised).  stop() is not part of this module.  *)
(***************************************************************************)
EXTENDS Naturals

CONSTANTS
  Conns,           \* connections; a ConnHandle is never used twice
  NoConn,          \* no connection
  SubIds,          \* subscription ids, chosen by the clients
  ClientChannels,  \* client channel ids, chosen by the clients
  Ops,             \* the operations the clients ask for in text messages
  MaxChannelId,    \* bound: channel ids that are allocated (uint32_t)
  MaxBatch         \* bound: entries of the array of a text message

AllOps == {"subscribe", "unsubscribe", "advertise", "unadvertise"}

ASSUME ServerAssumption ==
  /\ NoConn \notin Conns
  /\ Ops \subseteq AllOps
  /\ MaxChannelId \in Nat
  /\ MaxBatch \in Nat

ChannelIds == 1..MaxChannelId
NoArg == 0

VARIABLES
  link,            \* websocketpp: "none", "open", "lost" or "closed"
  told,            \* the channels a client knows of once it has read all that
                   \* was sent to it (one connection delivers in order)
  clients,         \* keys of _clients
  subscriptionsByChannel,  \* per client, pairs <<channel id, subscription id>>
  advertisedChannels,      \* per client, ClientInfo::advertisedChannels
  channels,        \* keys of _channels
  nextChannelId,   \* _nextChannelId
  publishing,      \* keys of _clientChannels
  clientChannels,  \* per client, keys of _clientChannels[hdl]
  pc,              \* where the run loop is
  hdl,             \* the connection it serves
  op,              \* the operation of the text message
  left,            \* entries of the message that are left
  first,           \* isFirstPublication
  arg,             \* argument of the callback it is in
  oldSubs,         \* oldSubscriptionsByChannel, the channels still to do
  oldAdvertised    \* oldAdvertisedChannels still to do

netVars  == <<link, told>>
mapVars  == <<clients, subscriptionsByChannel, advertisedChannels, channels,
              nextChannelId, publishing, clientChannels>>
loopVars == <<pc, hdl, op, left, first, arg, oldSubs, oldAdvertised>>
serverVars == <<link, told, clients, subscriptionsByChannel,
                advertisedChannels, channels, nextChannelId, publishing,
                clientChannels, pc, hdl, op, left, first, arg, oldSubs,
                oldAdvertised>>

-----------------------------------------------------------------------------
(* Control points of the run loop. *)

\* Inside a callback that a text message makes.
Callbacks == AllOps
\* Inside handleConnectionClosed, after its critical section.
Closing == {"closeUnadvertise", "closeUnsubscribe"}

\* _clientsChannelMutex is held exclusively across steps.
Locked == pc \in {"entries", "message"} \union Callbacks

\* The run loop is between two events: its frame is empty.
Idle ==
  /\ pc' = "idle"
  /\ hdl' = NoConn
  /\ op' = "none"
  /\ left' = 0
  /\ first' = FALSE
  /\ arg' = NoArg

ServerTypeOK ==
  /\ link \in [Conns -> {"none", "open", "lost", "closed"}]
  /\ told \in [Conns -> SUBSET ChannelIds]
  /\ clients \subseteq Conns
  /\ subscriptionsByChannel \in [Conns -> SUBSET (ChannelIds \X SubIds)]
  /\ advertisedChannels \in [Conns -> SUBSET ClientChannels]
  /\ channels \subseteq ChannelIds
  /\ nextChannelId \in 0..MaxChannelId
  /\ publishing \subseteq Conns
  /\ clientChannels \in [Conns -> SUBSET ClientChannels]
  /\ pc \in {"idle", "entries", "message"} \union Callbacks \union Closing
  /\ hdl \in Conns \union {NoConn}
  /\ op \in Ops \union {"none"}
  /\ left \in 0..MaxBatch
  /\ first \in BOOLEAN
  /\ arg \in ChannelIds \union ClientChannels \union {NoArg}
  /\ oldSubs \subseteq ChannelIds
  /\ oldAdvertised \subseteq ClientChannels

ServerInit ==
  /\ link = [c \in Conns |-> "none"]
  /\ told = [c \in Conns |-> {}]
  /\ clients = {}
  /\ subscriptionsByChannel = [c \in Conns |-> {}]
  /\ advertisedChannels = [c \in Conns |-> {}]
  /\ channels = {}
  /\ nextChannelId = 0
  /\ publishing = {}
  /\ clientChannels = [c \in Conns |-> {}]
  /\ pc = "idle"
  /\ hdl = NoConn
  /\ op = "none"
  /\ left = 0
  /\ first = FALSE
  /\ arg = NoArg
  /\ oldSubs = {}
  /\ oldAdvertised = {}

-----------------------------------------------------------------------------
(* What sendJson and sendJsonRaw reach: a connection that is still open. *)
Reachable == {c \in clients : link[c] = "open"}

-----------------------------------------------------------------------------
(* Connections. *)

\* validateConnection: a client that does not offer the subprotocol is turned
\* away, and neither the open nor the close handler runs for it.
RejectConnection(c) ==
  /\ pc = "idle"
  /\ link[c] = "none"
  /\ link' = [link EXCEPT ![c] = "closed"]
  /\ UNCHANGED <<told, mapVars, loopVars>>

\* The new client is sent all the channels there are.
HandleConnectionOpened(c) ==
  /\ pc = "idle"
  /\ link[c] = "none"
  /\ link' = [link EXCEPT ![c] = "open"]
  /\ clients' = clients \union {c}
  /\ told' = [told EXCEPT ![c] = channels]
  /\ UNCHANGED <<subscriptionsByChannel, advertisedChannels, channels,
                 nextChannelId, publishing, clientChannels, loopVars>>

\* The peer closes or drops the connection; the run loop has yet to notice.
PeerLost(c) ==
  /\ link[c] = "open"
  /\ link' = [link EXCEPT ![c] = "lost"]
  /\ UNCHANGED <<told, mapVars, loopVars>>

\* Mutant: the handler runs on a thread of its own, without the mutex.
HandleConnectionClosedUnlocked(c) ==
  /\ pc \in {"idle", "entries"}
  /\ link[c] = "lost"
  /\ oldSubs' = {s[1] : s \in subscriptionsByChannel[c]}
  /\ oldAdvertised' = advertisedChannels[c]
  /\ clients' = clients \ {c}
  /\ subscriptionsByChannel' = [subscriptionsByChannel EXCEPT ![c] = {}]
  /\ advertisedChannels' = [advertisedChannels EXCEPT ![c] = {}]
  /\ IF pc = "idle" THEN pc' = "closeUnadvertise" /\ hdl' = c
                    ELSE UNCHANGED <<pc, hdl>>
  /\ UNCHANGED <<netVars, channels, nextChannelId, publishing, clientChannels,
                 op, left, first, arg>>

\* handleConnectionClosed, its critical section: the client leaves _clients
\* and takes along what has to be undone.
HandleConnectionClosed(c) ==
  /\ pc = "idle"
  /\ link[c] = "lost"
  /\ oldSubs' = {s[1] : s \in subscriptionsByChannel[c]}
  /\ oldAdvertised' = advertisedChannels[c]
  /\ clients' = clients \ {c}
  /\ subscriptionsByChannel' = [subscriptionsByChannel EXCEPT ![c] = {}]
  /\ advertisedChannels' = [advertisedChannels EXCEPT ![c] = {}]
  /\ pc' = "closeUnadvertise"
  /\ hdl' = c
  /\ UNCHANGED <<netVars, channels, nextChannelId, publishing, clientChannels,
                 op, left, first, arg>>

\* Mutant: the loop over the advertised channels does not advance.
CloseUnadvertiseStays(k) ==
  /\ pc = "closeUnadvertise"
  /\ k \in oldAdvertised
  /\ UNCHANGED serverVars

\* ... the callback _clientUnadvertiseHandler(k, hdl), without the mutex ...
CloseUnadvertise(k) ==
  /\ pc = "closeUnadvertise"
  /\ k \in oldAdvertised
  /\ oldAdvertised' = oldAdvertised \ {k}
  /\ UNCHANGED <<netVars, mapVars, pc, hdl, op, left, first, arg, oldSubs>>

\* Mutant: _clientChannels keeps the client.
EraseClientChannelsForgotten ==
  /\ pc = "closeUnadvertise"
  /\ oldAdvertised = {}
  /\ pc' = "closeUnsubscribe"
  /\ UNCHANGED <<netVars, mapVars, hdl, op, left, first, arg, oldSubs,
                 oldAdvertised>>

\* ... _clientChannels.erase(hdl), without the mutex ...
EraseClientChannels ==
  /\ pc = "closeUnadvertise"
  /\ oldAdvertised = {}
  /\ publishing' = publishing \ {hdl}
  /\ clientChannels' = [clientChannels EXCEPT ![hdl] = {}]
  /\ pc' = "closeUnsubscribe"
  /\ UNCHANGED <<netVars, clients, subscriptionsByChannel, advertisedChannels,
                 channels, nextChannelId, hdl, op, left, first, arg, oldSubs,
                 oldAdvertised>>

\* ... the callback _unsubscribeHandler(ch, hdl), without the mutex ...
CloseUnsubscribe(ch) ==
  /\ pc = "closeUnsubscribe"
  /\ ch \in oldSubs
  /\ oldSubs' = oldSubs \ {ch}
  /\ UNCHANGED <<netVars, mapVars, pc, hdl, op, left, first, arg,
                 oldAdvertised>>

\* ... and the handler returns.
CloseReturns ==
  /\ pc = "closeUnsubscribe"
  /\ oldSubs = {}
  /\ link' = [link EXCEPT ![hdl] = "closed"]
  /\ Idle
  /\ UNCHANGED <<told, mapVars, oldSubs, oldAdvertised>>

-----------------------------------------------------------------------------
(* Text messages.  The entries of the array are chosen as they are read:   *)
(* a message of n entries is any n of them.                                *)

\* The mutex is taken.  An advertise message inserts an empty map for the
\* client if it has none; an unadvertise message of a client without one
\* is answered with an error and is over.
HandleTextMessage(c, o, n) ==
  /\ pc = "idle"
  /\ c \in clients
  /\ o = "unadvertise" => c \in publishing
  /\ pc' = "entries"
  /\ hdl' = c
  /\ op' = o
  /\ left' = n
  /\ first' = (o = "advertise" /\ c \notin publishing)
  /\ publishing' = IF o = "advertise" THEN publishing \union {c}
                                      ELSE publishing
  /\ UNCHANGED <<netVars, clients, subscriptionsByChannel, advertisedChannels,
                 channels, nextChannelId, clientChannels, arg, oldSubs,
                 oldAdvertised>>

\* The next entry of a message o is read.
NextEntry(o) ==
  /\ pc = "entries"
  /\ op = o
  /\ left > 0
  /\ left' = left - 1

\* The entry calls back with argument a.
CallBack(a) ==
  /\ pc' = op
  /\ arg' = a

\* The entry is answered with a status, or ignored.
SkipEntry == UNCHANGED <<pc, arg, subscriptionsByChannel, advertisedChannels,
                         clientChannels>>

\* Mutant: an id that is in use is not refused.
SubscribeEntryAnyId(s, ch) ==
  LET mine == subscriptionsByChannel[hdl]
  IN /\ NextEntry("subscribe")
     /\ \/ ch \notin channels /\ SkipEntry
        \/ /\ ch \in channels
           /\ subscriptionsByChannel' =
                IF \E m \in mine : m[1] = ch
                THEN subscriptionsByChannel
                ELSE [subscriptionsByChannel EXCEPT
                        ![hdl] = mine \union {<<ch, s>>}]
           /\ CallBack(ch)
           /\ UNCHANGED <<advertisedChannels, clientChannels>>
     /\ UNCHANGED <<netVars, clients, channels, nextChannelId, publishing,
                    hdl, op, first, oldSubs, oldAdvertised>>

\* An entry {id: s, channelId: ch} of a subscribe message.  emplace does not
\* replace the subscription id of a channel that has one already, and the
\* callback is made all the same.
SubscribeEntry(s, ch) ==
  LET mine == subscriptionsByChannel[hdl]
  IN /\ NextEntry("subscribe")
     /\ \/ /\ \/ \E m \in mine : m[2] = s
              \/ ch \notin channels
           /\ SkipEntry
        \/ /\ \A m \in mine : m[2] # s
           /\ ch \in channels
           /\ subscriptionsByChannel' =
                IF \E m \in mine : m[1] = ch
                THEN subscriptionsByChannel
                ELSE [subscriptionsByChannel EXCEPT
                        ![hdl] = mine \union {<<ch, s>>}]
           /\ CallBack(ch)
           /\ UNCHANGED <<advertisedChannels, clientChannels>>
     /\ UNCHANGED <<netVars, clients, channels, nextChannelId, publishing,
                    hdl, op, first, oldSubs, oldAdvertised>>

\* An entry of an unsubscribe message: the first subscription with that id
\* is erased.
UnsubscribeEntry(s) ==
  LET mine == subscriptionsByChannel[hdl]
  IN /\ NextEntry("unsubscribe")
     /\ \/ /\ \A m \in mine : m[2] # s
           /\ SkipEntry
        \/ \E m \in mine :
             /\ m[2] = s
             /\ subscriptionsByChannel' =
                  [subscriptionsByChannel EXCEPT ![hdl] = mine \ {m}]
             /\ CallBack(m[1])
             /\ UNCHANGED <<advertisedChannels, clientChannels>>
     /\ UNCHANGED <<netVars, clients, channels, nextChannelId, publishing,
                    hdl, op, first, oldSubs, oldAdvertised>>

\* Mutant: the list for the disconnect handler is not kept.
AdvertiseEntryUnlisted(k) ==
  /\ NextEntry("advertise")
  /\ \/ /\ ~first /\ k \in clientChannels[hdl]
        /\ SkipEntry
     \/ /\ first \/ k \notin clientChannels[hdl]
        /\ clientChannels' = [clientChannels EXCEPT ![hdl] = @ \union {k}]
        /\ CallBack(k)
        /\ UNCHANGED <<advertisedChannels, subscriptionsByChannel>>
  /\ UNCHANGED <<netVars, clients, channels, nextChannelId, publishing, hdl,
                 op, first, oldSubs, oldAdvertised>>

\* An entry of an advertise message.  A channel id that is already advertised
\* is refused, except in the message that made the client's first map.
AdvertiseEntry(k) ==
  /\ NextEntry("advertise")
  /\ \/ /\ ~first /\ k \in clientChannels[hdl]
        /\ SkipEntry
     \/ /\ first \/ k \notin clientChannels[hdl]
        /\ clientChannels' = [clientChannels EXCEPT ![hdl] = @ \union {k}]
        /\ advertisedChannels' =
             [advertisedChannels EXCEPT ![hdl] = @ \union {k}]
        /\ CallBack(k)
        /\ UNCHANGED subscriptionsByChannel
  /\ UNCHANGED <<netVars, clients, channels, nextChannelId, publishing, hdl,
                 op, first, oldSubs, oldAdvertised>>

\* An entry of an unadvertise message.  Only _clientChannels forgets the
\* channel: it stays in ClientInfo::advertisedChannels.
UnadvertiseEntry(k) ==
  /\ NextEntry("unadvertise")
  /\ \/ /\ k \notin clientChannels[hdl]
        /\ SkipEntry
     \/ /\ k \in clientChannels[hdl]
        /\ clientChannels' = [clientChannels EXCEPT ![hdl] = @ \ {k}]
        /\ CallBack(k)
        /\ UNCHANGED <<subscriptionsByChannel, advertisedChannels>>
  /\ UNCHANGED <<netVars, clients, channels, nextChannelId, publishing, hdl,
                 op, first, oldSubs, oldAdvertised>>

\* An entry that lacks a field or has one of the wrong type throws: the
\* entries before it stay applied, those after it are not read, and the lock
\* is released on the way to the catch clause of handleMessage.
MalformedEntry ==
  /\ pc = "entries"
  /\ left > 0
  /\ Idle
  /\ UNCHANGED <<netVars, mapVars, oldSubs, oldAdvertised>>

\* The array is done and the lock is released.
TextMessageDone ==
  /\ pc = "entries"
  /\ left = 0
  /\ Idle
  /\ UNCHANGED <<netVars, mapVars, oldSubs, oldAdvertised>>

\* A callback of a text message returns to the loop over the entries.
CallbackReturns ==
  /\ pc \in Callbacks
  /\ pc' = "entries"
  /\ arg' = NoArg
  /\ UNCHANGED <<netVars, mapVars, hdl, op, left, first, oldSubs,
                 oldAdvertised>>

\* A callback throws: handleMessage catches it, as for a malformed entry.
CallbackThrows ==
  /\ pc \in Callbacks
  /\ Idle
  /\ UNCHANGED <<netVars, mapVars, oldSubs, oldAdvertised>>

-----------------------------------------------------------------------------
(* Binary messages: data for a channel the client advertises. *)

HandleBinaryMessage(c, k) ==
  /\ pc = "idle"
  /\ c \in publishing
  /\ k \in clientChannels[c]
  /\ pc' = "message"
  /\ hdl' = c
  /\ arg' = k
  /\ UNCHANGED <<netVars, mapVars, op, left, first, oldSubs, oldAdvertised>>

\* _clientMessageHandler returns or throws.
MessageCallbackReturns ==
  /\ pc = "message"
  /\ Idle
  /\ UNCHANGED <<netVars, mapVars, oldSubs, oldAdvertised>>

-----------------------------------------------------------------------------
(* Calls of the embedding program.  Each holds the mutex for its step. *)

AddChannel ==
  /\ ~Locked
  /\ nextChannelId < MaxChannelId
  /\ nextChannelId' = nextChannelId + 1
  /\ channels' = channels \union {nextChannelId + 1}
  /\ UNCHANGED <<netVars, clients, subscriptionsByChannel, advertisedChannels,
                 publishing, clientChannels, loopVars>>

\* Mutant: the clients stay subscribed.
RemoveChannelKeepsSubscriptions(ch) ==
  /\ ~Locked
  /\ channels' = channels \ {ch}
  /\ told' = [c \in Conns |-> IF c \in Reachable THEN told[c] \ {ch}
                                                 ELSE told[c]]
  /\ UNCHANGED <<link, clients, subscriptionsByChannel, advertisedChannels,
                 nextChannelId, publishing, clientChannels, loopVars>>

\* Mutant: only the subscribers are told.
RemoveChannelTellsSubscribers(ch) ==
  /\ ~Locked
  /\ channels' = channels \ {ch}
  /\ subscriptionsByChannel' =
       [c \in Conns |-> {m \in subscriptionsByChannel[c] : m[1] # ch}]
  /\ told' = [c \in Conns |->
                IF /\ c \in Reachable
                   /\ \E m \in subscriptionsByChannel[c] : m[1] = ch
                THEN told[c] \ {ch} ELSE told[c]]
  /\ UNCHANGED <<link, clients, advertisedChannels, nextChannelId, publishing,
                 clientChannels, loopVars>>

\* Every client loses its subscription to the channel and is sent an
\* unadvertise message.  No callback is made.
RemoveChannel(ch) ==
  /\ ~Locked
  /\ channels' = channels \ {ch}
  /\ subscriptionsByChannel' =
       [c \in Conns |-> {m \in subscriptionsByChannel[c] : m[1] # ch}]
  /\ told' = [c \in Conns |-> IF c \in Reachable THEN told[c] \ {ch}
                                                 ELSE told[c]]
  /\ UNCHANGED <<link, clients, advertisedChannels, nextChannelId, publishing,
                 clientChannels, loopVars>>

BroadcastChannels ==
  /\ ~Locked
  /\ told' = [c \in Conns |-> IF c \in Reachable THEN told[c] \union channels
                                                 ELSE told[c]]
  /\ UNCHANGED <<link, mapVars, loopVars>>

-----------------------------------------------------------------------------
(* The specification.  On its own, the server is embedded in a program that *)
(* may call it at any time and whose callbacks do nothing to it.            *)

\* The embedding program, on threads of its own.
EmbedderCalls ==
  \/ AddChannel
  \/ \E ch \in ChannelIds : RemoveChannel(ch)
  \/ BroadcastChannels

\* What starts an event of the run loop.
RunLoopBegins ==
  \/ \E c \in Conns : \/ RejectConnection(c)
                      \/ HandleConnectionOpened(c)
                      \/ HandleConnectionClosed(c)
  \/ \E c \in Conns, o \in Ops, n \in 0..MaxBatch : HandleTextMessage(c, o, n)
  \/ \E c \in Conns, k \in ClientChannels : HandleBinaryMessage(c, k)

\* The steps of an event that has started, the callbacks aside.
RunLoopContinues ==
  \/ \E s \in SubIds, ch \in ChannelIds : SubscribeEntry(s, ch)
  \/ \E s \in SubIds : UnsubscribeEntry(s)
  \/ \E k \in ClientChannels : AdvertiseEntry(k) \/ UnadvertiseEntry(k)
  \/ MalformedEntry
  \/ TextMessageDone
  \/ EraseClientChannels
  \/ CloseReturns

RunLoopCallbacks ==
  \/ CallbackReturns
  \/ CallbackThrows
  \/ MessageCallbackReturns
  \/ \E k \in ClientChannels : CloseUnadvertise(k)
  \/ \E ch \in ChannelIds : CloseUnsubscribe(ch)

ServerNext ==
  \/ \E c \in Conns : PeerLost(c)
  \/ EmbedderCalls
  \/ RunLoopBegins
  \/ RunLoopContinues
  \/ RunLoopCallbacks

ServerSpec == ServerInit /\ [][ServerNext]_serverVars

-----------------------------------------------------------------------------
(* Properties. *)

\* Between them the tests on the subscription id and the no-replace emplace of
\* the subscribe branch keep the map one-to-one: a client has at most one
\* subscription id per channel and one channel per subscription id, so an
\* unsubscribe ends exactly one stream and data carries exactly one id.
SubscriptionsOneToOne ==
  \A c \in Conns : \A m, n \in subscriptionsByChannel[c] :
    (m[1] = n[1] \/ m[2] = n[2]) => m = n

\* removeChannel leaves no subscription to a channel that is gone, and while
\* the embedding program is in the subscribe callback the channel is still
\* there and the client subscribed to it, whatever other threads call.
SubscriptionsHaveChannels ==
  /\ \A c \in Conns : \A m \in subscriptionsByChannel[c] : m[1] \in channels
  /\ pc = "subscribe" =>
       /\ arg \in channels
       /\ \E m \in subscriptionsByChannel[hdl] : m[1] = arg

\* The advertise message of a new connection, the broadcasts and the
\* unadvertise messages are sent in the order of the changes they report: no
\* connected client is left believing in a channel that was removed.
ToldChannelsExist == \A c \in Reachable : told[c] \subseteq channels

\* handleConnectionClosed undoes all of a client: what the client publishes is
\* always covered by the list the handler works off (the unadvertise branch
\* never shrinks that list), nobody but a client or the connection being closed
\* has an entry in _clientChannels, and a closed connection owns nothing.
ClosedConnectionsOwnNothing ==
  /\ \A c \in clients : clientChannels[c] \subseteq advertisedChannels[c]
  /\ \A c \in Conns \ clients :
       subscriptionsByChannel[c] = {} /\ advertisedChannels[c] = {}
  /\ \A c \in Conns : clientChannels[c] # {} => c \in publishing
  /\ \A c \in publishing \ clients : pc = "closeUnadvertise" /\ hdl = c
  /\ \A c \in Conns : link[c] \in {"none", "closed"} => c \notin clients

\* What a handler relies on across its callbacks, however the other threads
\* interleave: handleTextMessage keeps references into _clients and
\* _clientChannels (clientInfo, clientPublications) while it holds the mutex,
\* and handleConnectionClosed works on a client that nobody else can reach.
HandlerReferencesValid ==
  /\ pc # "idle" => hdl \in Conns
  /\ pc \in {"entries"} \union Callbacks => hdl \in clients
  /\ pc \in Callbacks => op = pc
  /\ pc \in {"entries"} \union Callbacks /\ op \in {"advertise", "unadvertise"}
       => hdl \in publishing
  /\ pc \in {"subscribe", "unsubscribe"} => arg \in ChannelIds
  /\ pc \in {"advertise", "unadvertise", "message"} => arg \in ClientChannels
  /\ pc \in Closing => hdl \notin clients /\ link[hdl] = "lost"
  /\ pc \notin Closing => oldSubs = {} /\ oldAdvertised = {}
  /\ pc = "closeUnsubscribe" => oldAdvertised = {} /\ hdl \notin publishing

\* The conjunction, which is inductive.
ServerInvariant ==
  /\ ServerTypeOK
  /\ HandlerReferencesValid
  /\ SubscriptionsOneToOne
  /\ SubscriptionsHaveChannels
  /\ ToldChannelsExist
  /\ ClosedConnectionsOwnNothing
=============================================================================
