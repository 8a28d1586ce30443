--------------------------- MODULE ServerShutdown ---------------------------
(***************************************************************************)
(* Server::stop() (websocket_server.hpp) against the run loop and the      *)
(* clients.  stop() runs on a thread of the embedding program.  It stops   *)
(* listening, takes a list of the clients, starts the closing handshake    *)
(* with each and, while it waits, runs handlers itself with poll_one: for  *)
(* that time two threads run handlers, those of one connection one after   *)
(* the other (the strands of websocketpp).  If the time is up it stops the *)
(* event loop by force.  In the end it joins the thread of the run loop.   *)
(*                                                                         *)
(* Of the handlers only their use of _clientsChannelMutex, _clients and    *)
(* _clientChannels is kept; the rest is in WebSocketServer.  External:     *)
(* the event loop of asio, which is over when it is stopped or when        *)
(* nothing is listening, connected or running any more.                    *)
(***************************************************************************)
EXTENDS Naturals

CONSTANTS
  Conns,       \* connections; each is made once
  NoConn,      \* no connection
  MaxPolls     \* MAX_SHUTDOWN_MS / SLEEP_MS

ASSUME ShutdownAssumption ==
  /\ NoConn \notin Conns
  /\ MaxPolls \in Nat

Threads == {"loop", "stopper"}

VARIABLES
  conn,        \* state of a connection, see TypeOK
  listening,   \* the acceptor is open
  clients,     \* keys of _clients
  at,          \* what a thread is doing: see TypeOK
  on,          \* the connection it does it for
  stopped,     \* _server.stopped()
  forced,      \* stop() had to stop the event loop by force
  loopDone,    \* the thread of the run loop has ended
  spc,         \* where stop() is
  list,        \* its local connections
  polls        \* durationMs / SLEEP_MS

threadVars == <<at, on>>
loopVars   == <<listening, stopped, forced, loopDone>>
stopVars   == <<spc, list, polls>>
vars == <<conn, clients, threadVars, loopVars, stopVars>>

TypeOK ==
  /\ conn \in [Conns -> {"none", "handshake", "refused",  \* not opened
                         "open", "closing",               \* a client
                         "lost", "gone"}]                 \* to be closed, closed
  /\ listening \in BOOLEAN
  /\ clients \subseteq Conns
  /\ at \in [Threads -> {"idle", "message", "erase"}]
  /\ on \in [Threads -> Conns \union {NoConn}]
  /\ stopped \in BOOLEAN
  /\ forced \in BOOLEAN
  /\ loopDone \in BOOLEAN
  /\ spc \in {"none", "list", "close", "poll", "pollone", "join", "clear",
              "returned"}
  /\ list \subseteq Conns
  /\ polls \in 0..MaxPolls

\* start() has returned.
Init ==
  /\ conn = [c \in Conns |-> "none"]
  /\ listening = TRUE
  /\ clients = {}
  /\ at = [t \in Threads |-> "idle"]
  /\ on = [t \in Threads |-> NoConn]
  /\ stopped = FALSE
  /\ forced = FALSE
  /\ loopDone = FALSE
  /\ spc = "none"
  /\ list = {}
  /\ polls = 0

\* _clientsChannelMutex is free.
Unlocked == \A t \in Threads : at[t] # "message"

\* Nothing keeps the event loop running.
OutOfWork ==
  /\ ~listening
  /\ \A c \in Conns : conn[c] \in {"none", "refused", "gone"}
  /\ \A t \in Threads : at[t] = "idle"

-----------------------------------------------------------------------------
(* The peers. *)

\* Connection c goes from one state to another.
Moves(c, from, to) ==
  /\ conn[c] \in from
  /\ conn' = [conn EXCEPT ![c] = to]

Accept(c) ==
  /\ listening /\ ~stopped
  /\ Moves(c, {"none"}, "handshake")
  /\ UNCHANGED <<clients, threadVars, loopVars, stopVars>>

\* The subprotocol is missing, the peer is gone, or the handshake timed out.
HandshakeFails(c) ==
  /\ ~stopped
  /\ Moves(c, {"handshake"}, "refused")
  /\ UNCHANGED <<clients, threadVars, loopVars, stopVars>>

\* The peer drops the connection or answers the closing handshake.
PeerCloses(c) ==
  /\ Moves(c, {"open", "closing"}, "lost")
  /\ UNCHANGED <<clients, threadVars, loopVars, stopVars>>

-----------------------------------------------------------------------------
(* The handlers. *)

\* Mutant: the event loop is run by the thread that started the server, too.
MayRunAlways(t) == at[t] = "idle" /\ ~stopped

\* Thread t runs a handler: the run loop at any time, stop() in poll_one.
MayRun(t) ==
  /\ at[t] = "idle"
  /\ ~stopped
  /\ t = "stopper" => spc = "pollone"

\* Thread t begins a handler of connection c that goes on ...
Begin(t, c, what) ==
  /\ MayRun(t)
  /\ \A u \in Threads : on[u] # c
  /\ Unlocked
  /\ at' = [at EXCEPT ![t] = what]
  /\ on' = [on EXCEPT ![t] = c]
  /\ UNCHANGED <<loopVars, stopVars>>

\* ... until its end, with which poll_one returns.
End(t, what) ==
  /\ at[t] = what
  /\ at' = [at EXCEPT ![t] = "idle"]
  /\ on' = [on EXCEPT ![t] = NoConn]
  /\ spc' = IF t = "stopper" THEN "poll" ELSE spc
  /\ UNCHANGED <<loopVars, list, polls>>

HandleConnectionOpened(t, c) ==
  /\ MayRun(t)
  /\ Unlocked
  /\ Moves(c, {"handshake"}, "open")
  /\ clients' = clients \union {c}
  /\ spc' = IF t = "stopper" THEN "poll" ELSE spc
  /\ UNCHANGED <<threadVars, loopVars, list, polls>>

\* A text or binary message uses _clientChannels, with the mutex all the time.
HandleMessage(t, c) ==
  /\ conn[c] = "open"
  /\ Begin(t, c, "message")
  /\ UNCHANGED <<conn, clients>>

MessageDone(t) ==
  /\ End(t, "message")
  /\ UNCHANGED <<conn, clients>>

\* The client leaves _clients with the mutex, then _clientChannels without it,
\* between the callbacks that undo what it did.
HandleConnectionClosed(t, c) ==
  /\ conn[c] = "lost"
  /\ Begin(t, c, "erase")
  /\ clients' = clients \ {c}
  /\ UNCHANGED conn

ConnectionClosed(t) ==
  /\ End(t, "erase")
  /\ conn' = [conn EXCEPT ![on[t]] = "gone"]
  /\ UNCHANGED clients

\* run() returns and the thread of the run loop ends.
RunReturns ==
  /\ ~loopDone
  /\ at["loop"] = "idle"
  /\ stopped \/ OutOfWork
  /\ loopDone' = TRUE
  /\ stopped' = TRUE
  /\ UNCHANGED <<conn, clients, threadVars, listening, forced, stopVars>>

-----------------------------------------------------------------------------
(* stop(). *)

\* Mutant: stop() stops the event loop together with the acceptor.
StopsAtOnce == stopped' = TRUE

\* stop_perpetual and stop_listening leave the event loop running.
KeepsRunning == UNCHANGED stopped

StopListening ==
  /\ spc = "none"
  /\ ~stopped
  /\ listening' = FALSE
  /\ spc' = "list"
  /\ KeepsRunning
  /\ UNCHANGED <<conn, clients, threadVars, forced, loopDone, list, polls>>

\* The list is taken under the mutex.  Without clients there is nothing to
\* wait for but the run loop.
ListConnections ==
  /\ spc = "list"
  /\ Unlocked
  /\ list' = clients
  /\ spc' = IF clients = {} THEN "join" ELSE "close"
  /\ UNCHANGED <<conn, clients, threadVars, loopVars, polls>>

\* close() for each; for a connection that is not open any more it only fails.
CloseConnections ==
  /\ spc = "close"
  /\ conn' = [c \in Conns |-> IF c \in list /\ conn[c] = "open"
                              THEN "closing" ELSE conn[c]]
  /\ spc' = "poll"
  /\ UNCHANGED <<clients, threadVars, loopVars, list, polls>>

\* durationMs < MAX_SHUTDOWN_MS
TimeLeft == polls < MaxPolls

\* The loop: sleep, then poll_one, which runs a handler that is ready ...
PollOne ==
  /\ spc = "poll"
  /\ ~stopped /\ TimeLeft
  /\ polls' = polls + 1
  /\ spc' = "pollone"
  /\ UNCHANGED <<conn, clients, threadVars, loopVars, list>>

\* ... or finds none.
PollNothing ==
  /\ spc = "pollone"
  /\ at["stopper"] = "idle"
  /\ stopped' = (stopped \/ OutOfWork)
  /\ spc' = "poll"
  /\ UNCHANGED <<conn, clients, threadVars, listening, forced, loopDone, list,
                 polls>>

\* Mutant: the loop waits for the connections only.
WaitOverStopped == stopped

WaitOver == stopped \/ ~TimeLeft

\* All connections are closed, or else the time is up: terminate() for each on
\* the list, then _server.stop().  What they have posted is not run any more.
WaitEnds ==
  /\ spc = "poll"
  /\ WaitOver
  /\ stopped' = TRUE
  /\ forced' = ~stopped
  /\ spc' = "join"
  /\ UNCHANGED <<conn, clients, threadVars, listening, loopDone, list, polls>>

\* Mutant: the thread of the run loop is detached.
Detached == TRUE

\* join() returns.
Joined == loopDone

Join ==
  /\ spc = "join"
  /\ Joined
  /\ spc' = "clear"
  /\ UNCHANGED <<conn, clients, threadVars, loopVars, list, polls>>

ClearClients ==
  /\ spc = "clear"
  /\ Unlocked
  /\ clients' = {}
  /\ spc' = "returned"
  /\ UNCHANGED <<conn, threadVars, loopVars, list, polls>>

-----------------------------------------------------------------------------
(* The specification. *)

Peers == \E c \in Conns : Accept(c) \/ HandshakeFails(c) \/ PeerCloses(c)

Begins(t) ==
  \E c \in Conns : \/ HandleConnectionOpened(t, c)
                   \/ HandleMessage(t, c)
                   \/ HandleConnectionClosed(t, c)

Ends(t) == MessageDone(t) \/ ConnectionClosed(t)

Stop ==
  \/ StopListening
  \/ ListConnections
  \/ CloseConnections
  \/ PollOne
  \/ PollNothing
  \/ WaitEnds
  \/ Join
  \/ ClearClients

Next ==
  \/ Peers
  \/ \E t \in Threads : Begins(t) \/ Ends(t)
  \/ RunReturns
  \/ Stop

Spec == Init /\ [][Next]_vars

\* The two threads run, a mutex that is free again and again is obtained, a
\* handshake ends (websocketpp gives up after a time) and the event of a lost
\* connection is handled.  Peers may stay connected and talk for ever.
Fairness ==
  /\ \A t \in Threads : WF_vars(Ends(t))
  /\ WF_vars(RunReturns)
  /\ \A c \in Conns :
       /\ WF_vars(HandshakeFails(c) \/ HandleConnectionOpened("loop", c))
       /\ SF_vars(HandleConnectionClosed("loop", c))
  /\ SF_vars(Stop /\ spc # "none")

FairSpec == Spec /\ Fairness

-----------------------------------------------------------------------------
(* Properties. *)

\* Two threads use _clientChannels at once, one of them without the mutex.
Race ==
  \E t, u \in Threads : t # u /\ at[t] = "erase" /\ at[u] \in {"erase", "message"}

\* The erase without the mutex in handleConnectionClosed is safe as long as the
\* server serves: it races only with a handler of another connection that stop()
\* runs itself, so never before stop() and never with a single client.
RaceOnlyInStop ==
  Race => /\ spc = "pollone" /\ at["stopper"] # "idle"
          /\ on["loop"] # on["stopper"]

\* When stop() returns nothing runs any more, and nothing will: the handlers of
\* the bridge, which its destructor is about to destroy, are not called again,
\* and no client is left.
StopIsFinal ==
  spc = "returned" =>
    /\ loopDone /\ stopped
    /\ \A t \in Threads : at[t] = "idle"
    /\ clients = {}

\* A stop() that was not forced has let the close handler run for every client,
\* also those that were not on its list: their subscriptions and publications
\* are undone before the bridge goes away.
GracefulStopClosesAll ==
  spc = "returned" /\ ~forced =>
    \A c \in Conns : conn[c] \in {"none", "refused", "gone"}

\* A client that came after stop() had found no client to wait for.
LateClient == list = {} /\ \E c \in Conns : conn[c] \in {"open", "lost"}

\* stop() returns, unless such a client stays connected.  The callbacks that the
\* handlers make are taken to return, as they do where the destructor of the
\* ROS 2 node has joined its polling thread; one in a cycle of Ros1Bridge does
\* not, and nor then does stop().
StopReturnsUnlessLate == spc # "none" ~> (spc = "returned" \/ LateClient)
=============================================================================
