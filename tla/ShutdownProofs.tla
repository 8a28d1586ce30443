--------------------------- MODULE ShutdownProofs ---------------------------
(***************************************************************************)
(* Theorems about ServerShutdown, for any number of connections and any    *)
(* limit of the wait, and about BridgeLifecycle, the node that calls it.   *)
(***************************************************************************)
EXTENDS ServerShutdown, BridgeLifecycle, TLAPS

\* Where the two threads are: a thread has a connection while it is in a
\* handler, no connection is with both, stop() runs handlers in poll_one only,
\* and the run loop is over after it returned.
ThreadsPlaced ==
  /\ \A t \in Threads : at[t] = "idle" <=> on[t] = NoConn
  /\ on["loop"] = on["stopper"] => on["loop"] = NoConn
  /\ at["stopper"] # "idle" => spc = "pollone"
  /\ loopDone => stopped /\ at["loop"] = "idle"

\* What stop() has achieved when it is past its steps.
StopPlaced ==
  /\ forced => spc \in {"join", "clear", "returned"}
  /\ spc \in {"clear", "returned"} => loopDone
  /\ spc = "returned" => clients = {}

\* The event loop stops by itself only when there is nothing left.
StoppedIsEmpty ==
  stopped /\ ~forced =>
    /\ ~listening
    /\ \A c \in Conns : conn[c] \in {"none", "refused", "gone"}
    /\ \A t \in Threads : at[t] = "idle"

ShutdownInvariant == TypeOK /\ ThreadsPlaced /\ StopPlaced /\ StoppedIsEmpty

\* The Boolean variables stay Boolean: each step gives them a truth value.
LEMMA BooleansStep ==
  ASSUME TypeOK, [Next]_vars
  PROVE  /\ listening' \in BOOLEAN /\ stopped' \in BOOLEAN
         /\ forced' \in BOOLEAN /\ loopDone' \in BOOLEAN
<1> USE DEF TypeOK, loopVars
<1>1. CASE UNCHANGED vars BY <1>1, Zenon DEF vars
<1>2. CASE Peers BY <1>2, Zenon DEF Peers, Accept, HandshakeFails, PeerCloses
<1>3. ASSUME NEW t \in Threads, Begins(t) \/ Ends(t)
      PROVE  UNCHANGED loopVars
  BY <1>3, Zenon DEF Begins, Ends, HandleConnectionOpened, HandleMessage,
     HandleConnectionClosed, Begin, MessageDone, ConnectionClosed, End
<1>4. CASE RunReturns BY <1>4, Zenon DEF RunReturns
<1>5. CASE Stop
  BY <1>5, Zenon DEF Stop, StopListening, KeepsRunning, ListConnections,
     CloseConnections, PollOne, PollNothing, WaitEnds, Join, ClearClients
<1> QED BY <1>1, <1>2, <1>3, <1>4, <1>5, Zenon DEF Next

\* A step is one of the actions.
LEMMA NextCases ==
  ASSUME Next
  PROVE  \/ \E c \in Conns : Accept(c) \/ HandshakeFails(c) \/ PeerCloses(c)
         \/ \E t \in Threads, c \in Conns :
              \/ HandleConnectionOpened(t, c)
              \/ HandleMessage(t, c)
              \/ HandleConnectionClosed(t, c)
         \/ \E t \in Threads : MessageDone(t) \/ ConnectionClosed(t)
         \/ RunReturns
         \/ StopListening \/ ListConnections \/ CloseConnections \/ PollOne
         \/ PollNothing \/ WaitEnds \/ Join \/ ClearClients
BY Zenon DEF Next, Peers, Begins, Ends, Stop

\* The types of the other variables.
DataTypeOK ==
  /\ conn \in [Conns -> {"none", "handshake", "refused", "open", "closing",
                         "lost", "gone"}]
  /\ clients \subseteq Conns
  /\ at \in [Threads -> {"idle", "message", "erase"}]
  /\ on \in [Threads -> Conns \union {NoConn}]
  /\ spc \in {"none", "list", "close", "poll", "pollone", "join", "clear",
              "returned"}
  /\ list \subseteq Conns
  /\ polls \in 0..MaxPolls

\* A step keeps the types of the other variables.
LEMMA DataTypeStep ==
  ASSUME DataTypeOK, [Next]_vars
  PROVE  DataTypeOK'
<1> USE DEF vars, threadVars, loopVars, stopVars, Threads, DataTypeOK
<1>1. CASE UNCHANGED vars BY <1>1, ShutdownAssumption
<1>2. ASSUME NEW c \in Conns, Accept(c) PROVE DataTypeOK'
  BY <1>2, ShutdownAssumption DEF Accept, Moves
<1>3. ASSUME NEW c \in Conns, HandshakeFails(c) PROVE DataTypeOK'
  BY <1>3, ShutdownAssumption DEF HandshakeFails, Moves
<1>4. ASSUME NEW c \in Conns, PeerCloses(c) PROVE DataTypeOK'
  BY <1>4, ShutdownAssumption DEF PeerCloses, Moves
<1>5. ASSUME NEW t \in Threads, NEW c \in Conns, HandleConnectionOpened(t, c)
      PROVE DataTypeOK'
  BY <1>5, ShutdownAssumption DEF HandleConnectionOpened, MayRun, Unlocked,
     Moves
<1>6. ASSUME NEW t \in Threads, NEW c \in Conns, HandleMessage(t, c) PROVE DataTypeOK'
  BY <1>6, ShutdownAssumption DEF HandleMessage, Begin, MayRun, Unlocked
<1>7. ASSUME NEW t \in Threads, NEW c \in Conns, HandleConnectionClosed(t, c)
      PROVE DataTypeOK'
  BY <1>7, ShutdownAssumption DEF HandleConnectionClosed, Begin, MayRun,
     Unlocked
<1>8. ASSUME NEW t \in Threads, MessageDone(t) PROVE DataTypeOK'
  BY <1>8, ShutdownAssumption DEF MessageDone, End
<1>9. ASSUME NEW t \in Threads, ConnectionClosed(t) PROVE DataTypeOK'
  BY <1>9, ShutdownAssumption DEF ConnectionClosed, End
<1>10. CASE RunReturns BY <1>10, ShutdownAssumption DEF RunReturns, OutOfWork
<1>11. CASE StopListening BY <1>11, ShutdownAssumption DEF StopListening,
     KeepsRunning
<1>12. CASE ListConnections BY <1>12, ShutdownAssumption DEF ListConnections
<1>13. CASE CloseConnections BY <1>13, ShutdownAssumption DEF CloseConnections
<1>14. CASE PollOne BY <1>14, ShutdownAssumption DEF PollOne, TimeLeft
<1>15. CASE PollNothing BY <1>15, ShutdownAssumption DEF PollNothing,
     OutOfWork
<1>16. CASE WaitEnds BY <1>16, ShutdownAssumption DEF WaitEnds, WaitOver
<1>17. CASE Join BY <1>17, ShutdownAssumption DEF Join, Joined
<1>18. CASE ClearClients BY <1>18, ShutdownAssumption DEF ClearClients
<1> QED BY <1>1, <1>2, <1>3, <1>4, <1>5, <1>6, <1>7, <1>8, <1>9, <1>10, <1>11,
     <1>12, <1>13, <1>14, <1>15, <1>16, <1>17, <1>18, NextCases, Zenon

\* Type correctness of a step.
LEMMA TypeStep ==
  ASSUME TypeOK, [Next]_vars
  PROVE  TypeOK'
<1>1. DataTypeOK BY DEF TypeOK, DataTypeOK
<1>2. DataTypeOK' BY <1>1, DataTypeStep
<1> QED BY <1>2, BooleansStep, Zenon DEF TypeOK, DataTypeOK

\* A step keeps the threads in their places.
LEMMA ThreadsStep ==
  ASSUME TypeOK, ThreadsPlaced, [Next]_vars
  PROVE  ThreadsPlaced'
<1> USE DEF vars, threadVars, loopVars, stopVars, Threads, TypeOK, ThreadsPlaced
<1>1. CASE UNCHANGED vars BY <1>1, ShutdownAssumption
<1>2. ASSUME NEW c \in Conns, Accept(c) PROVE ThreadsPlaced'
  BY <1>2, ShutdownAssumption DEF Accept, Moves
<1>3. ASSUME NEW c \in Conns, HandshakeFails(c) PROVE ThreadsPlaced'
  BY <1>3, ShutdownAssumption DEF HandshakeFails, Moves
<1>4. ASSUME NEW c \in Conns, PeerCloses(c) PROVE ThreadsPlaced'
  BY <1>4, ShutdownAssumption DEF PeerCloses, Moves
<1>5. ASSUME NEW t \in Threads, NEW c \in Conns, HandleConnectionOpened(t, c)
      PROVE ThreadsPlaced'
  BY <1>5, ShutdownAssumption DEF HandleConnectionOpened, MayRun, Unlocked,
     Moves
<1>6. ASSUME NEW t \in Threads, NEW c \in Conns, HandleMessage(t, c) PROVE ThreadsPlaced'
  BY <1>6, ShutdownAssumption DEF HandleMessage, Begin, MayRun, Unlocked
<1>7. ASSUME NEW t \in Threads, NEW c \in Conns, HandleConnectionClosed(t, c)
      PROVE ThreadsPlaced'
  BY <1>7, ShutdownAssumption DEF HandleConnectionClosed, Begin, MayRun,
     Unlocked
<1>8. ASSUME NEW t \in Threads, MessageDone(t) PROVE ThreadsPlaced'
  BY <1>8, ShutdownAssumption DEF MessageDone, End
<1>9. ASSUME NEW t \in Threads, ConnectionClosed(t) PROVE ThreadsPlaced'
  BY <1>9, ShutdownAssumption DEF ConnectionClosed, End
<1>10. CASE RunReturns BY <1>10, ShutdownAssumption DEF RunReturns, OutOfWork
<1>11. CASE StopListening BY <1>11, ShutdownAssumption DEF StopListening,
     KeepsRunning
<1>12. CASE ListConnections BY <1>12, ShutdownAssumption DEF ListConnections
<1>13. CASE CloseConnections BY <1>13, ShutdownAssumption DEF CloseConnections
<1>14. CASE PollOne BY <1>14, ShutdownAssumption DEF PollOne, TimeLeft
<1>15. CASE PollNothing BY <1>15, ShutdownAssumption DEF PollNothing,
     OutOfWork
<1>16. CASE WaitEnds BY <1>16, ShutdownAssumption DEF WaitEnds, WaitOver
<1>17. CASE Join BY <1>17, ShutdownAssumption DEF Join, Joined
<1>18. CASE ClearClients BY <1>18, ShutdownAssumption DEF ClearClients
<1> QED BY <1>1, <1>2, <1>3, <1>4, <1>5, <1>6, <1>7, <1>8, <1>9, <1>10, <1>11,
     <1>12, <1>13, <1>14, <1>15, <1>16, <1>17, <1>18, NextCases, Zenon

\* A step keeps what stop() has achieved.
LEMMA StopStep ==
  ASSUME TypeOK, ThreadsPlaced, StopPlaced, [Next]_vars
  PROVE  StopPlaced'
<1> USE DEF vars, threadVars, loopVars, stopVars, Threads, TypeOK, ThreadsPlaced,
          StopPlaced
<1>1. CASE UNCHANGED vars BY <1>1
<1>2. ASSUME NEW c \in Conns, Accept(c) PROVE StopPlaced'
  BY <1>2 DEF Accept, Moves
<1>3. ASSUME NEW c \in Conns, HandshakeFails(c) PROVE StopPlaced'
  BY <1>3 DEF HandshakeFails, Moves
<1>4. ASSUME NEW c \in Conns, PeerCloses(c) PROVE StopPlaced'
  BY <1>4 DEF PeerCloses, Moves
<1>5. ASSUME NEW t \in Threads, NEW c \in Conns, HandleConnectionOpened(t, c)
      PROVE StopPlaced'
  BY <1>5 DEF HandleConnectionOpened, MayRun, Unlocked, Moves
<1>6. ASSUME NEW t \in Threads, NEW c \in Conns, HandleMessage(t, c) PROVE StopPlaced'
  BY <1>6 DEF HandleMessage, Begin, MayRun, Unlocked
<1>7. ASSUME NEW t \in Threads, NEW c \in Conns, HandleConnectionClosed(t, c)
      PROVE StopPlaced'
  BY <1>7 DEF HandleConnectionClosed, Begin, MayRun, Unlocked
<1>8. ASSUME NEW t \in Threads, MessageDone(t) PROVE StopPlaced'
  BY <1>8 DEF MessageDone, End
<1>9. ASSUME NEW t \in Threads, ConnectionClosed(t) PROVE StopPlaced'
  BY <1>9 DEF ConnectionClosed, End
<1>10. CASE RunReturns BY <1>10 DEF RunReturns, OutOfWork
<1>11. CASE StopListening BY <1>11 DEF StopListening, KeepsRunning
<1>12. CASE ListConnections BY <1>12 DEF ListConnections
<1>13. CASE CloseConnections BY <1>13 DEF CloseConnections
<1>14. CASE PollOne BY <1>14 DEF PollOne, TimeLeft
<1>15. CASE PollNothing BY <1>15 DEF PollNothing, OutOfWork
<1>16. CASE WaitEnds BY <1>16 DEF WaitEnds, WaitOver
<1>17. CASE Join BY <1>17 DEF Join, Joined
<1>18. CASE ClearClients BY <1>18 DEF ClearClients
<1> QED BY <1>1, <1>2, <1>3, <1>4, <1>5, <1>6, <1>7, <1>8, <1>9, <1>10, <1>11,
     <1>12, <1>13, <1>14, <1>15, <1>16, <1>17, <1>18, NextCases, Zenon

\* An event loop that stopped by itself stays empty.
LEMMA StoppedStep ==
  ASSUME TypeOK, ThreadsPlaced, StopPlaced, StoppedIsEmpty, [Next]_vars
  PROVE  StoppedIsEmpty'
<1> USE DEF vars, threadVars, loopVars, stopVars, Threads, TypeOK, ThreadsPlaced,
        StopPlaced, StoppedIsEmpty
<1>1. CASE UNCHANGED vars BY <1>1
<1>2. ASSUME NEW c \in Conns, Accept(c) PROVE StoppedIsEmpty'
  BY <1>2 DEF Accept, Moves
<1>3. ASSUME NEW c \in Conns, HandshakeFails(c) PROVE StoppedIsEmpty'
  BY <1>3 DEF HandshakeFails, Moves
<1>4. ASSUME NEW c \in Conns, PeerCloses(c) PROVE StoppedIsEmpty'
  BY <1>4 DEF PeerCloses, Moves
<1>5. ASSUME NEW t \in Threads, NEW c \in Conns, HandleConnectionOpened(t, c)
      PROVE StoppedIsEmpty'
  BY <1>5 DEF HandleConnectionOpened, MayRun, Unlocked, Moves
<1>6. ASSUME NEW t \in Threads, NEW c \in Conns, HandleMessage(t, c) PROVE StoppedIsEmpty'
  BY <1>6 DEF HandleMessage, Begin, MayRun, Unlocked
<1>7. ASSUME NEW t \in Threads, NEW c \in Conns, HandleConnectionClosed(t, c)
      PROVE StoppedIsEmpty'
  BY <1>7 DEF HandleConnectionClosed, Begin, MayRun, Unlocked
<1>8. ASSUME NEW t \in Threads, MessageDone(t) PROVE StoppedIsEmpty'
  BY <1>8 DEF MessageDone, End
<1>9. ASSUME NEW t \in Threads, ConnectionClosed(t) PROVE StoppedIsEmpty'
  BY <1>9 DEF ConnectionClosed, End
<1>10. CASE RunReturns BY <1>10 DEF RunReturns, OutOfWork
<1>11. CASE StopListening BY <1>11 DEF StopListening, KeepsRunning
<1>12. CASE ListConnections BY <1>12 DEF ListConnections
<1>13. CASE CloseConnections BY <1>13 DEF CloseConnections
<1>14. CASE PollOne BY <1>14 DEF PollOne, TimeLeft
<1>15. CASE PollNothing BY <1>15 DEF PollNothing, OutOfWork
<1>16. CASE WaitEnds BY <1>16 DEF WaitEnds, WaitOver
<1>17. CASE Join BY <1>17 DEF Join, Joined
<1>18. CASE ClearClients BY <1>18 DEF ClearClients
<1> QED BY <1>1, <1>2, <1>3, <1>4, <1>5, <1>6, <1>7, <1>8, <1>9, <1>10, <1>11,
     <1>12, <1>13, <1>14, <1>15, <1>16, <1>17, <1>18, NextCases, Zenon

\* Initially every thread is in its place.
LEMMA ShutdownInit == Init => ShutdownInvariant
<1> SUFFICES ASSUME Init PROVE ShutdownInvariant OBVIOUS
<1>1. /\ listening \in BOOLEAN /\ stopped \in BOOLEAN
      /\ forced \in BOOLEAN /\ loopDone \in BOOLEAN
  BY Zenon DEF Init
<1>2. DataTypeOK BY ShutdownAssumption DEF Init, DataTypeOK
<1>3. TypeOK BY <1>1, <1>2, Zenon DEF TypeOK, DataTypeOK
<1>4. ThreadsPlaced /\ StopPlaced /\ StoppedIsEmpty
  BY DEF Init, ThreadsPlaced, StopPlaced, StoppedIsEmpty, Threads
<1> QED BY <1>3, <1>4, Zenon DEF ShutdownInvariant

\* The invariant holds in every state of stop() and the run loop.
THEOREM ShutdownInvariance == Spec => []ShutdownInvariant
<1>1. ShutdownInvariant /\ [Next]_vars => ShutdownInvariant'
  BY TypeStep, ThreadsStep, StopStep, StoppedStep, Zenon DEF ShutdownInvariant
<1> QED BY <1>1, ShutdownInit, PTL DEF Spec

\* Every variable keeps its type.
THEOREM ShutdownTypeCorrect == Spec => []TypeOK
<1>1. ShutdownInvariant => TypeOK BY Zenon DEF ShutdownInvariant
<1> QED BY <1>1, ShutdownInvariance, PTL

\* handleConnectionClosed's erase without the mutex races only with a handler
\* that stop() runs in poll_one, and of another connection.
THEOREM ShutdownRaces == Spec => []RaceOnlyInStop
<1>1. ShutdownInvariant => RaceOnlyInStop
  BY DEF ShutdownInvariant, ThreadsPlaced, RaceOnlyInStop, Race, Threads
<1> QED BY <1>1, ShutdownInvariance, PTL

\* After stop() no handler of the bridge runs any more, or ever will.
THEOREM ShutdownFinal == Spec => []StopIsFinal
<1>1. ShutdownInvariant => StopIsFinal
  BY DEF ShutdownInvariant, ThreadsPlaced, StopPlaced, StopIsFinal, Threads
<1> QED BY <1>1, ShutdownInvariance, PTL

\* A stop() that was not forced has closed every connection.
THEOREM ShutdownClosesAll == Spec => []GracefulStopClosesAll
<1>1. ShutdownInvariant => GracefulStopClosesAll
  BY DEF ShutdownInvariant, ThreadsPlaced, StopPlaced, StoppedIsEmpty,
     GracefulStopClosesAll
<1> QED BY <1>1, ShutdownInvariance, PTL

-----------------------------------------------------------------------------
(* The node around the server: BridgeLifecycle, whose destructor calls     *)
(* stop(), for any number of requests.                                     *)

\* Why no handler reads _maxQosDepth too early: the polling thread is started
\* after it is set, and offers the topics.
DepthBeforeTopics ==
  /\ pc = "thread" => depth = "parameter"
  /\ poll # "none" => depth = "parameter"
  /\ offered => poll # "none"
  /\ handler = "subscribe" => offered
  /\ DepthIsConfigured

\* Where the polling thread is not there yet, what the destructor has waited for,
\* and main() before it.
DestructorPlaced ==
  /\ pc \in {"start", "depth", "thread"} => poll = "none"
  /\ pc \in {"stop", "gone"} => poll = "exited"
  /\ pc = "gone" => ~serving /\ handler = "none"

ExecutorDone == pc \in {"join", "stop", "gone"} => busy = "no"

\* A step keeps the order of the depth and the topics.
LEMMA DepthStep ==
  ASSUME DepthBeforeTopics, [NodeNext]_nodeVars
  PROVE  DepthBeforeTopics'
<1> USE DEF nodeVars, members, requests, DepthBeforeTopics, DepthIsConfigured
<1>1. CASE UNCHANGED nodeVars BY <1>1
<1>2. CASE StartServer BY <1>2 DEF StartServer, Construct, After
<1>3. CASE SetMaxQosDepth BY <1>3 DEF SetMaxQosDepth, Construct, After
<1>4. CASE StartPollThread BY <1>4 DEF StartPollThread, Construct, After
<1>5. ASSUME NEW g \in {"subscription", "publish"}, CreateCallbackGroup(g)
      PROVE DepthBeforeTopics'
  BY <1>5 DEF CreateCallbackGroup, Construct, After
<1>6. CASE SubscribeClock BY <1>6 DEF SubscribeClock, Construct, After
<1>7. ASSUME NEW r \in Requests, SubscribeHandler(r) PROVE DepthBeforeTopics'
  BY <1>7 DEF SubscribeHandler, Group
<1>8. ASSUME NEW r \in Requests, ClientAdvertiseHandler(r) PROVE DepthBeforeTopics'
  BY <1>8 DEF ClientAdvertiseHandler, Group
<1>9. CASE HandlerReturns \/ \E kind \in HandlerKinds : HandlerBegins(kind)
  BY <1>9 DEF HandlerReturns, HandlerBegins
<1>10. CASE RosMessageHandler BY <1>10 DEF RosMessageHandler
<1>11. CASE RosMessageHandled BY <1>11 DEF RosMessageHandled
<1>12. CASE UpdateTopics BY <1>12 DEF UpdateTopics
<1>13. CASE QueryGraph \/ ChangeChannel \/ BroadcastTopics
  BY <1>13 DEF QueryGraph, ChangeChannel, BroadcastTopics
<1>14. CASE PollThreadExits BY <1>14 DEF PollThreadExits, LoopEnds
<1>15. CASE GraphChanged BY <1>15 DEF GraphChanged, LoopEnds
<1>16. CASE Interrupt BY <1>16 DEF Interrupt
<1>17. CASE DestroyNode BY <1>17 DEF DestroyNode
<1>18. CASE JoinPollThread BY <1>18 DEF JoinPollThread, PollThreadJoined
<1>19. CASE StopServer BY <1>19 DEF StopServer
<1> QED BY <1>1, <1>2, <1>3, <1>4, <1>5, <1>6, <1>7, <1>8, <1>9, <1>10, <1>11,
     <1>12, <1>13, <1>14, <1>15, <1>16, <1>17, <1>18, <1>19, Zenon DEF NodeNext,
     Constructor, HandlerEnds, PollThread, Destructor

\* A step keeps what the destructor has waited for and, if it is main() that
\* destroys the node, that the executor is done.
LEMMA DestructorStep ==
  ASSUME DestructorPlaced, [NodeNext]_nodeVars
  PROVE  DestructorPlaced' /\ (~Unloadable /\ ExecutorDone => ExecutorDone')
<1> DEFINE Goal == DestructorPlaced' /\ (~Unloadable /\ ExecutorDone => ExecutorDone')
<1> USE DEF nodeVars, members, requests, DestructorPlaced, ExecutorDone, Alive
<1>1. CASE UNCHANGED nodeVars BY <1>1
<1>2. CASE StartServer BY <1>2 DEF StartServer, Construct, After
<1>3. CASE SetMaxQosDepth BY <1>3 DEF SetMaxQosDepth, Construct, After
<1>4. CASE StartPollThread BY <1>4 DEF StartPollThread, Construct, After
<1>5. ASSUME NEW g \in {"subscription", "publish"}, CreateCallbackGroup(g)
      PROVE Goal
  BY <1>5 DEF CreateCallbackGroup, Construct, After
<1>6. CASE SubscribeClock BY <1>6 DEF SubscribeClock, Construct, After
<1>7. ASSUME NEW r \in Requests, SubscribeHandler(r) PROVE Goal
  BY <1>7 DEF SubscribeHandler, Group
<1>8. ASSUME NEW r \in Requests, ClientAdvertiseHandler(r) PROVE Goal
  BY <1>8 DEF ClientAdvertiseHandler, Group
<1>9. CASE HandlerReturns \/ \E kind \in HandlerKinds : HandlerBegins(kind)
  BY <1>9 DEF HandlerReturns, HandlerBegins
<1>10. CASE RosMessageHandler BY <1>10 DEF RosMessageHandler
<1>11. CASE RosMessageHandled BY <1>11 DEF RosMessageHandled
<1>12. CASE UpdateTopics BY <1>12 DEF UpdateTopics
<1>13. CASE QueryGraph \/ ChangeChannel \/ BroadcastTopics
  BY <1>13 DEF QueryGraph, ChangeChannel, BroadcastTopics
<1>14. CASE PollThreadExits BY <1>14 DEF PollThreadExits, LoopEnds
<1>15. CASE GraphChanged BY <1>15 DEF GraphChanged, LoopEnds
<1>16. CASE Interrupt BY <1>16 DEF Interrupt
<1>17. CASE DestroyNode BY <1>17 DEF DestroyNode
<1>18. CASE JoinPollThread BY <1>18 DEF JoinPollThread, PollThreadJoined
<1>19. CASE StopServer BY <1>19 DEF StopServer
<1> QED BY <1>1, <1>2, <1>3, <1>4, <1>5, <1>6, <1>7, <1>8, <1>9, <1>10, <1>11,
     <1>12, <1>13, <1>14, <1>15, <1>16, <1>17, <1>18, <1>19, Zenon DEF NodeNext,
     Constructor, HandlerEnds, PollThread, Destructor

\* No subscription is made before _maxQosDepth has its configured value.
THEOREM LifecycleDepth == NodeSpec => []DepthIsConfigured
<1>1. NodeInit => DepthBeforeTopics BY DEF NodeInit, DepthBeforeTopics, DepthIsConfigured
<1>2. DepthBeforeTopics => DepthIsConfigured BY DEF DepthBeforeTopics
<1> QED BY <1>1, <1>2, DepthStep, PTL DEF NodeSpec

\* When main() has destroyed the node no thread is in one of its functions.
THEOREM LifecycleDestruction ==
  ASSUME ~Unloadable
  PROVE  NodeSpec => []NothingRunsInDestroyedNode
<1>1. NodeInit => DestructorPlaced /\ ExecutorDone
  BY Zenon DEF NodeInit, DestructorPlaced, ExecutorDone
<1>2. DestructorPlaced /\ ExecutorDone => NothingRunsInDestroyedNode
  BY DEF DestructorPlaced, ExecutorDone, NothingRunsInDestroyedNode
<1>3. DestructorPlaced /\ ExecutorDone /\ [NodeNext]_nodeVars
        => DestructorPlaced' /\ ExecutorDone'
  BY DestructorStep
<1> QED BY <1>1, <1>2, <1>3, PTL DEF NodeSpec

\* What holds from the moment on at which the two threads wait for each other.
JoinBlocked ==
  MutualWait /\ pc \notin {"start", "depth", "thread", "stop", "gone"}

\* No step ends it: the handler wants the mutex of the polling thread, that one
\* the mutex of the run loop, and join() waits for the polling thread.
LEMMA JoinBlockedStep ==
  ASSUME JoinBlocked, [NodeNext]_nodeVars
  PROVE  JoinBlocked'
<1> USE DEF JoinBlocked, MutualWait, nodeVars
<1>1. CASE UNCHANGED nodeVars BY <1>1
<1>2. CASE Constructor
  BY <1>2 DEF Constructor, StartServer, SetMaxQosDepth, StartPollThread,
     CreateCallbackGroup, SubscribeClock, Construct, After
<1>3. CASE HandlerEnds \/ \E kind \in HandlerKinds : HandlerBegins(kind)
  BY <1>3 DEF HandlerEnds, HandlerBegins, SubscribeHandler,
     ClientAdvertiseHandler, HandlerReturns, HandlerFree
<1>4. CASE RosMessageHandler \/ RosMessageHandled \/ Interrupt \/ DestroyNode
  BY <1>4 DEF RosMessageHandler, RosMessageHandled, Interrupt, DestroyNode
<1>5. CASE PollThread \/ GraphChanged
  BY <1>5 DEF PollThread, UpdateTopics, QueryGraph, ChangeChannel,
     BroadcastTopics, PollThreadExits, GraphChanged, ServerFree
<1>6. CASE Destructor
  BY <1>6 DEF Destructor, JoinPollThread, PollThreadJoined, StopServer
<1> QED BY <1>1, <1>2, <1>3, <1>4, <1>5, <1>6 DEF NodeNext

\* Once the run loop and the polling thread wait for each other the destructor
\* never gets to stop(): what DestructorReachesStop excepts is no delay.
THEOREM LifecycleJoinBlocked ==
  NodeSpec => [](MutualWait => [](pc \notin {"stop", "gone"}))
<1>1. NodeInit => DestructorPlaced
  BY Zenon DEF NodeInit, DestructorPlaced
<1>2. DestructorPlaced /\ [NodeNext]_nodeVars => DestructorPlaced'
  BY DestructorStep
<1>3. DestructorPlaced /\ MutualWait => JoinBlocked
  BY DEF DestructorPlaced, MutualWait, JoinBlocked
<1>4. JoinBlocked /\ [NodeNext]_nodeVars => JoinBlocked'
  BY JoinBlockedStep
<1>5. JoinBlocked => pc \notin {"stop", "gone"}
  BY DEF JoinBlocked
<1> QED BY <1>1, <1>2, <1>3, <1>4, <1>5, PTL DEF NodeSpec
=============================================================================
