---------------------------- MODULE ClientProofs ----------------------------
(***************************************************************************)
(* Theorems about WebSocketClient, for any number of advertisements and    *)
(* data messages.                                                          *)
(***************************************************************************)
EXTENDS WebSocketClient, TLAPS

Messages == {"info", "advertise", "data"}

\* No message of a kind, and at most one, in a sequence of messages.
None(s, m) == \A i \in 1..Len(s) : s[i] # m

Once(s, m) == \A i, j \in 1..Len(s) : s[i] = m /\ s[j] = m => i = j

\* Why data finds a handler: the caller sets it before it subscribes, and the
\* server sends nothing before that.
HandlerSet ==
  /\ pc \in {"subscribe", "message"} => "binary" \in handlers
  /\ subscribed => "binary" \in handlers
  /\ DataFindsHandler

\* What the smoke tests rely on.
Quiet == ads <= 1 /\ data <= 1 /\ ~troubled

\* Where the caller and the connection are while the peer stays.
CallPlaced ==
  /\ pc = "connect" => con = "none"
  /\ pc = "opening" => con \in {"connecting", "open"}
  /\ pc \in {"channel", "handler", "subscribe", "message", "unwind"} => con = "open"
  /\ pc \in {"destroy", "close"} => con \in {"none", "open"}
  /\ con = "none" => inbox = <<>>

\* An advertisement that is under way is the only one, and finds channelPromise
\* without a value; with a value, or destroyed, no other can come.
ChannelOnce ==
  /\ Once(inbox, "advertise")
  /\ ads = 0 => None(inbox, "advertise")
  /\ channel # "unset" => None(inbox, "advertise") /\ (ads # 0 \/ con = "none")
  /\ channel = "unset" => pc \in {"connect", "opening", "channel", "destroy"}
  /\ pc = "connect" => channel = "unset"
  /\ pc = "destroy" /\ channel = "unset" => con = "none"

\* The same of a message and msgPromise, which is made before the client
\* subscribes.
MessageOnce ==
  /\ Once(inbox, "data")
  /\ data = 0 => None(inbox, "data")
  /\ message # "unset" => None(inbox, "data")
  /\ message \in {"set", "destroyed"} => data # 0
  /\ message = "none" => ~subscribed
  /\ message = "unset" => pc \in {"subscribe", "message"}
  /\ pc \in {"connect", "opening", "channel", "handler"} => message = "none"
  /\ pc \in {"subscribe", "message"} => message # "none"
  /\ pc = "unwind" => message = "set"

QuietCall == Quiet => CallPlaced /\ ChannelOnce /\ MessageOnce /\ run # "crashed"

ClientInvariant == TypeOK /\ HandlerSet /\ QuietCall

-----------------------------------------------------------------------------
(* Messages. *)

\* A message that is added is the last one.
LEMMA Appended ==
  ASSUME NEW s \in Seq(Messages), NEW m \in Messages
  PROVE  /\ Append(s, m) \in Seq(Messages)
         /\ None(s, m) => Once(Append(s, m), m)
         /\ \A k \in Messages \ {m} :
              /\ None(s, k) => None(Append(s, m), k)
              /\ Once(s, k) => Once(Append(s, m), k)
<1> DEFINE t == Append(s, m)
<1>1. t \in Seq(Messages) /\ Len(t) = Len(s) + 1 /\ Len(s) \in Nat OBVIOUS
<1>2. \A i \in 1..Len(t) : t[i] = IF i = Len(s) + 1 THEN m ELSE s[i] OBVIOUS
<1>3. \A i \in 1..Len(t) : i = Len(s) + 1 \/ i \in 1..Len(s) BY <1>1
<1> HIDE DEF t
<1> QED BY <1>1, <1>2, <1>3 DEF None, Once, t

\* The first message is taken, and the others stay.
LEMMA Taken ==
  ASSUME NEW s \in Seq(Messages), s # <<>>
  PROVE  /\ Tail(s) \in Seq(Messages) /\ Head(s) \in Messages
         /\ Once(s, Head(s)) => None(Tail(s), Head(s))
         /\ \A k \in Messages :
              /\ None(s, k) => Head(s) # k /\ None(Tail(s), k)
              /\ Once(s, k) => Once(Tail(s), k)
<1> DEFINE t == Tail(s)
<1>1. t \in Seq(Messages) /\ Len(t) = Len(s) - 1 /\ Len(s) \in Nat \ {0} OBVIOUS
<1>2. \A i \in 1..Len(t) : t[i] = s[i + 1] OBVIOUS
<1>3. \A i \in 1..Len(t) : i + 1 \in 2..Len(s) BY <1>1
<1>4. Head(s) = s[1] /\ 1 \in 1..Len(s) /\ Head(s) \in Messages BY <1>1
<1> HIDE DEF t
<1> QED BY <1>1, <1>2, <1>3, <1>4 DEF None, Once, t

\* The inboxes of a connection that opens or is over.
LEMMA FewMessages ==
  /\ <<>> \in Seq(Messages) /\ <<"info">> \in Seq(Messages)
  /\ \A k \in {"advertise", "data"} :
       /\ None(<<>>, k) /\ Once(<<>>, k)
       /\ None(<<"info">>, k) /\ Once(<<"info">>, k)
BY DEF Messages, None, Once

-----------------------------------------------------------------------------
(* Types and handlers. *)

\* The Boolean variables stay Boolean.
LEMMA BooleansStep ==
  ASSUME TypeOK, [Next]_vars
  PROVE  perpetual' \in BOOLEAN /\ subscribed' \in BOOLEAN /\ troubled' \in BOOLEAN
<1> USE Zenon DEF TypeOK, thread, sent
<1>1. CASE UNCHANGED vars BY <1>1 DEF vars
<1>2. CASE Opens BY <1>2 DEF Opens
<1>3. CASE ServerAdvertises BY <1>3 DEF ServerAdvertises
<1>4. CASE ServerSendsData BY <1>4 DEF ServerSendsData
<1>5. CASE ConnectionLost BY <1>5 DEF ConnectionLost
<1>6. CASE ConnectionClosed BY <1>6 DEF ConnectionClosed
<1>7. CASE MessageHandler BY <1>7 DEF MessageHandler, SetValue, HandlesText
<1>8. CASE RunReturns BY <1>8 DEF RunReturns
<1>9. CASE Connect BY <1>9 DEF Connect, At
<1>10. CASE ConnectThrows BY <1>10 DEF ConnectThrows, At
<1>11. CASE Connected BY <1>11 DEF Connected, At
<1>12. CASE ChannelReceived BY <1>12 DEF ChannelReceived, At
<1>13. CASE SetBinaryMessageHandler BY <1>13 DEF SetBinaryMessageHandler, BinaryHandler, At
<1>14. CASE Subscribe BY <1>14 DEF Subscribe, At
<1>15. CASE MessageReceived BY <1>15 DEF MessageReceived, At
<1>16. CASE WaitTimesOut BY <1>16 DEF WaitTimesOut, At
<1>17. CASE DestroyMsgPromise BY <1>17 DEF DestroyMsgPromise, At
<1>18. CASE DestroyChannelPromise BY <1>18 DEF DestroyChannelPromise, At
<1>19. CASE CloseClient BY <1>19 DEF CloseClient, StopPerpetual, At
<1>20. CASE JoinThread BY <1>20 DEF JoinThread, At
<1> QED BY <1>1, <1>2, <1>3, <1>4, <1>5, <1>6, <1>7, <1>8, <1>9, <1>10, <1>11, <1>12,
     <1>13, <1>14, <1>15, <1>16, <1>17, <1>18, <1>19, <1>20, Zenon
     DEF Next, Server, ClientThread, Caller

\* The other variables keep their types.
LEMMA DataTypesStep ==
  ASSUME TypeOK, [Next]_vars
  PROVE  /\ pc' \in {"connect", "opening", "channel", "handler", "subscribe", "message",
                     "unwind", "destroy", "close", "join", "done"}
         /\ con' \in {"none", "connecting", "open", "closing", "closed", "failed"}
         /\ run' \in {"running", "ended", "crashed"}
         /\ inbox' \in Seq(Messages)
         /\ handlers' \subseteq {"text", "binary"}
         /\ channel' \in Promises /\ message' \in Promises
         /\ ads' \in 0..MaxAdvertised /\ data' \in 0..MaxData
<1> USE ClientAssumption, FewMessages DEF TypeOK, Messages, Promises, thread, promises, sent
<1>1. CASE UNCHANGED vars BY <1>1 DEF vars
<1>2. CASE Opens BY <1>2 DEF Opens
<1>3. CASE ServerAdvertises BY <1>3, Appended DEF ServerAdvertises
<1>4. CASE ServerSendsData BY <1>4, Appended DEF ServerSendsData
<1>5. CASE ConnectionLost BY <1>5 DEF ConnectionLost
<1>6. CASE ConnectionClosed BY <1>6 DEF ConnectionClosed
<1>7. CASE MessageHandler BY <1>7, Taken DEF MessageHandler, SetValue, HandlesText
<1>8. CASE RunReturns BY <1>8 DEF RunReturns
<1>9. CASE Connect BY <1>9 DEF Connect, At
<1>10. CASE ConnectThrows BY <1>10 DEF ConnectThrows, At
<1>11. CASE Connected BY <1>11 DEF Connected, At
<1>12. CASE ChannelReceived BY <1>12 DEF ChannelReceived, At
<1>13. CASE SetBinaryMessageHandler BY <1>13 DEF SetBinaryMessageHandler, BinaryHandler, At
<1>14. CASE Subscribe BY <1>14 DEF Subscribe, At
<1>15. CASE MessageReceived BY <1>15 DEF MessageReceived, At
<1>16. CASE WaitTimesOut BY <1>16 DEF WaitTimesOut, At
<1>17. CASE DestroyMsgPromise BY <1>17 DEF DestroyMsgPromise, At
<1>18. CASE DestroyChannelPromise BY <1>18 DEF DestroyChannelPromise, At
<1>19. CASE CloseClient BY <1>19 DEF CloseClient, StopPerpetual, At
<1>20. CASE JoinThread BY <1>20 DEF JoinThread, At
<1> QED BY <1>1, <1>2, <1>3, <1>4, <1>5, <1>6, <1>7, <1>8, <1>9, <1>10, <1>11, <1>12,
     <1>13, <1>14, <1>15, <1>16, <1>17, <1>18, <1>19, <1>20, Zenon
     DEF Next, Server, ClientThread, Caller

\* A step keeps every type.
LEMMA TypeStep ==
  ASSUME TypeOK, [Next]_vars
  PROVE  TypeOK'
BY BooleansStep, DataTypesStep, Zenon DEF TypeOK, Messages

\* A step keeps the handler set for a subscription and its data.
LEMMA HandlerStep ==
  ASSUME TypeOK, HandlerSet, [Next]_vars
  PROVE  HandlerSet'
<1> DEFINE H == /\ pc \in {"subscribe", "message"} => "binary" \in handlers
                /\ subscribed => "binary" \in handlers
                /\ "binary" \in handlers \/ None(inbox, "data")
<1>a. H BY DEF HandlerSet, DataFindsHandler, None
<1>b. inbox \in Seq(Messages) /\ {"info", "advertise", "data"} = Messages BY DEF TypeOK, Messages
<1>c. H'
  <2> USE <1>a, FewMessages DEF thread, promises, sent
  <2>1. CASE UNCHANGED vars BY <2>1 DEF vars
  <2>2. CASE Opens BY <2>2 DEF Opens
  <2>3. CASE ServerAdvertises BY <2>3, <1>b, Appended DEF ServerAdvertises
  <2>4. CASE ServerSendsData BY <2>4, <1>b, Appended DEF ServerSendsData
  <2>5. CASE ConnectionLost BY <2>5 DEF ConnectionLost
  <2>6. CASE ConnectionClosed BY <2>6 DEF ConnectionClosed
  <2>7. CASE MessageHandler BY <2>7, <1>b, Taken DEF MessageHandler, SetValue, HandlesText
  <2>8. CASE RunReturns BY <2>8 DEF RunReturns
  <2>9. CASE Connect BY <2>9 DEF Connect, At
  <2>10. CASE ConnectThrows BY <2>10 DEF ConnectThrows, At
  <2>11. CASE Connected BY <2>11 DEF Connected, At
  <2>12. CASE ChannelReceived BY <2>12 DEF ChannelReceived, At
  <2>13. CASE SetBinaryMessageHandler BY <2>13 DEF SetBinaryMessageHandler, BinaryHandler, At
  <2>14. CASE Subscribe BY <2>14 DEF Subscribe, At
  <2>15. CASE MessageReceived BY <2>15 DEF MessageReceived, At
  <2>16. CASE WaitTimesOut BY <2>16 DEF WaitTimesOut, At
  <2>17. CASE DestroyMsgPromise BY <2>17 DEF DestroyMsgPromise, At
  <2>18. CASE DestroyChannelPromise BY <2>18 DEF DestroyChannelPromise, At
  <2>19. CASE CloseClient BY <2>19 DEF CloseClient, StopPerpetual, At
  <2>20. CASE JoinThread BY <2>20 DEF JoinThread, At
  <2> QED BY <2>1, <2>2, <2>3, <2>4, <2>5, <2>6, <2>7, <2>8, <2>9, <2>10, <2>11, <2>12,
       <2>13, <2>14, <2>15, <2>16, <2>17, <2>18, <2>19, <2>20, Zenon
       DEF Next, Server, ClientThread, Caller
<1>d. DataFindsHandler' BY <1>c DEF DataFindsHandler, None
<1> QED BY <1>c, <1>d, Zenon DEF HandlerSet

-----------------------------------------------------------------------------
(* A quiet server. *)

\* A step to a state with a quiet server is a step from one.
LEMMA QuietBefore ==
  ASSUME TypeOK, [Next]_vars, Quiet'
  PROVE  Quiet
<1> USE ClientAssumption DEF TypeOK, Quiet, thread, promises, sent
<1>1. CASE UNCHANGED vars BY <1>1 DEF vars
<1>2. CASE Opens BY <1>2 DEF Opens
<1>3. CASE ServerAdvertises BY <1>3 DEF ServerAdvertises
<1>4. CASE ServerSendsData BY <1>4 DEF ServerSendsData
<1>5. CASE ConnectionLost BY <1>5 DEF ConnectionLost
<1>6. CASE ConnectionClosed BY <1>6 DEF ConnectionClosed
<1>7. CASE MessageHandler BY <1>7 DEF MessageHandler, SetValue, HandlesText
<1>8. CASE RunReturns BY <1>8 DEF RunReturns
<1>9. CASE Connect BY <1>9 DEF Connect, At
<1>10. CASE ConnectThrows BY <1>10 DEF ConnectThrows, At
<1>11. CASE Connected BY <1>11 DEF Connected, At
<1>12. CASE ChannelReceived BY <1>12 DEF ChannelReceived, At
<1>13. CASE SetBinaryMessageHandler BY <1>13 DEF SetBinaryMessageHandler, BinaryHandler, At
<1>14. CASE Subscribe BY <1>14 DEF Subscribe, At
<1>15. CASE MessageReceived BY <1>15 DEF MessageReceived, At
<1>16. CASE WaitTimesOut BY <1>16 DEF WaitTimesOut, At
<1>17. CASE DestroyMsgPromise BY <1>17 DEF DestroyMsgPromise, At
<1>18. CASE DestroyChannelPromise BY <1>18 DEF DestroyChannelPromise, At
<1>19. CASE CloseClient BY <1>19 DEF CloseClient, At
<1>20. CASE JoinThread BY <1>20 DEF JoinThread, At
<1> QED BY <1>1, <1>2, <1>3, <1>4, <1>5, <1>6, <1>7, <1>8, <1>9, <1>10, <1>11, <1>12,
     <1>13, <1>14, <1>15, <1>16, <1>17, <1>18, <1>19, <1>20, Zenon
     DEF Next, Server, ClientThread, Caller

\* The caller and the connection stay together while the peer stays.
LEMMA CallStep ==
  ASSUME TypeOK, [Next]_vars, Quiet', CallPlaced
  PROVE  CallPlaced'
<1> USE DEF TypeOK, Quiet, CallPlaced, thread, promises, sent
<1>1. CASE UNCHANGED vars BY <1>1 DEF vars
<1>2. CASE Opens BY <1>2 DEF Opens
<1>3. CASE ServerAdvertises BY <1>3 DEF ServerAdvertises
<1>4. CASE ServerSendsData BY <1>4 DEF ServerSendsData
<1>5. CASE ConnectionLost BY <1>5 DEF ConnectionLost
<1>6. CASE ConnectionClosed BY <1>6 DEF ConnectionClosed
<1>7. CASE MessageHandler BY <1>7 DEF MessageHandler, SetValue, HandlesText
<1>8. CASE RunReturns BY <1>8 DEF RunReturns
<1>9. CASE Connect BY <1>9 DEF Connect, At
<1>10. CASE ConnectThrows BY <1>10 DEF ConnectThrows, At
<1>11. CASE Connected BY <1>11 DEF Connected, At
<1>12. CASE ChannelReceived BY <1>12 DEF ChannelReceived, At
<1>13. CASE SetBinaryMessageHandler BY <1>13 DEF SetBinaryMessageHandler, BinaryHandler, At
<1>14. CASE Subscribe BY <1>14 DEF Subscribe, At
<1>15. CASE MessageReceived BY <1>15 DEF MessageReceived, At
<1>16. CASE WaitTimesOut BY <1>16 DEF WaitTimesOut, At
<1>17. CASE DestroyMsgPromise BY <1>17 DEF DestroyMsgPromise, At
<1>18. CASE DestroyChannelPromise BY <1>18 DEF DestroyChannelPromise, At
<1>19. CASE CloseClient BY <1>19 DEF CloseClient, At
<1>20. CASE JoinThread BY <1>20 DEF JoinThread, At
<1> QED BY <1>1, <1>2, <1>3, <1>4, <1>5, <1>6, <1>7, <1>8, <1>9, <1>10, <1>11, <1>12,
     <1>13, <1>14, <1>15, <1>16, <1>17, <1>18, <1>19, <1>20, Zenon
     DEF Next, Server, ClientThread, Caller

\* channelPromise gets one value.
LEMMA ChannelStep ==
  ASSUME TypeOK, [Next]_vars, Quiet', CallPlaced, ChannelOnce
  PROVE  ChannelOnce'
<1> USE ClientAssumption, FewMessages
    DEF TypeOK, Messages, Promises, Quiet, CallPlaced, ChannelOnce, thread, promises, sent
<1>1. CASE UNCHANGED vars BY <1>1 DEF vars
<1>2. CASE Opens BY <1>2 DEF Opens
<1>3. CASE ServerAdvertises BY <1>3, Appended DEF ServerAdvertises
<1>4. CASE ServerSendsData BY <1>4, Appended DEF ServerSendsData
<1>5. CASE ConnectionLost BY <1>5 DEF ConnectionLost
<1>6. CASE ConnectionClosed BY <1>6 DEF ConnectionClosed
<1>7. CASE MessageHandler BY <1>7, Taken DEF MessageHandler, SetValue, HandlesText
<1>8. CASE RunReturns BY <1>8 DEF RunReturns
<1>9. CASE Connect BY <1>9 DEF Connect, At
<1>10. CASE ConnectThrows BY <1>10 DEF ConnectThrows, At
<1>11. CASE Connected BY <1>11 DEF Connected, At
<1>12. CASE ChannelReceived BY <1>12 DEF ChannelReceived, At
<1>13. CASE SetBinaryMessageHandler BY <1>13 DEF SetBinaryMessageHandler, BinaryHandler, At
<1>14. CASE Subscribe BY <1>14 DEF Subscribe, At
<1>15. CASE MessageReceived BY <1>15 DEF MessageReceived, At
<1>16. CASE WaitTimesOut BY <1>16 DEF WaitTimesOut, At
<1>17. CASE DestroyMsgPromise BY <1>17 DEF DestroyMsgPromise, At
<1>18. CASE DestroyChannelPromise BY <1>18 DEF DestroyChannelPromise, At
<1>19. CASE CloseClient BY <1>19 DEF CloseClient, At
<1>20. CASE JoinThread BY <1>20 DEF JoinThread, At
<1> QED BY <1>1, <1>2, <1>3, <1>4, <1>5, <1>6, <1>7, <1>8, <1>9, <1>10, <1>11, <1>12,
     <1>13, <1>14, <1>15, <1>16, <1>17, <1>18, <1>19, <1>20, Zenon
     DEF Next, Server, ClientThread, Caller

\* msgPromise gets one value.
LEMMA MessageStep ==
  ASSUME TypeOK, [Next]_vars, Quiet', CallPlaced, MessageOnce
  PROVE  MessageOnce'
<1> USE ClientAssumption, FewMessages
    DEF TypeOK, Messages, Promises, Quiet, CallPlaced, MessageOnce, thread, promises, sent
<1>1. CASE UNCHANGED vars BY <1>1 DEF vars
<1>2. CASE Opens BY <1>2 DEF Opens
<1>3. CASE ServerAdvertises BY <1>3, Appended DEF ServerAdvertises
<1>4. CASE ServerSendsData BY <1>4, Appended DEF ServerSendsData
<1>5. CASE ConnectionLost BY <1>5 DEF ConnectionLost
<1>6. CASE ConnectionClosed BY <1>6 DEF ConnectionClosed
<1>7. CASE MessageHandler BY <1>7, Taken DEF MessageHandler, SetValue, HandlesText
<1>8. CASE RunReturns BY <1>8 DEF RunReturns
<1>9. CASE Connect BY <1>9 DEF Connect, At
<1>10. CASE ConnectThrows BY <1>10 DEF ConnectThrows, At
<1>11. CASE Connected BY <1>11 DEF Connected, At
<1>12. CASE ChannelReceived BY <1>12 DEF ChannelReceived, At
<1>13. CASE SetBinaryMessageHandler BY <1>13 DEF SetBinaryMessageHandler, BinaryHandler, At
<1>14. CASE Subscribe BY <1>14 DEF Subscribe, At
<1>15. CASE MessageReceived BY <1>15 DEF MessageReceived, At
<1>16. CASE WaitTimesOut BY <1>16 DEF WaitTimesOut, At
<1>17. CASE DestroyMsgPromise BY <1>17 DEF DestroyMsgPromise, At
<1>18. CASE DestroyChannelPromise BY <1>18 DEF DestroyChannelPromise, At
<1>19. CASE CloseClient BY <1>19 DEF CloseClient, At
<1>20. CASE JoinThread BY <1>20 DEF JoinThread, At
<1> QED BY <1>1, <1>2, <1>3, <1>4, <1>5, <1>6, <1>7, <1>8, <1>9, <1>10, <1>11, <1>12,
     <1>13, <1>14, <1>15, <1>16, <1>17, <1>18, <1>19, <1>20, Zenon
     DEF Next, Server, ClientThread, Caller

\* No handler sets a promise twice or one that is gone, and close() finds the
\* connection open or never made.
LEMMA CrashStep ==
  ASSUME TypeOK, [Next]_vars, Quiet', CallPlaced, ChannelOnce, MessageOnce,
         run # "crashed"
  PROVE  run' # "crashed"
<1> USE DEF TypeOK, Messages, CallPlaced, ChannelOnce, MessageOnce, thread
<1>1. CASE UNCHANGED vars BY <1>1 DEF vars
<1>2. CASE Opens BY <1>2 DEF Opens
<1>3. CASE ServerAdvertises BY <1>3 DEF ServerAdvertises
<1>4. CASE ServerSendsData BY <1>4 DEF ServerSendsData
<1>5. CASE ConnectionLost BY <1>5 DEF ConnectionLost
<1>6. CASE ConnectionClosed BY <1>6 DEF ConnectionClosed
<1>7. CASE MessageHandler BY <1>7, Taken DEF MessageHandler, SetValue, HandlesText
<1>8. CASE RunReturns BY <1>8 DEF RunReturns
<1>9. CASE Connect BY <1>9 DEF Connect, At
<1>10. CASE ConnectThrows BY <1>10 DEF ConnectThrows, At
<1>11. CASE Connected BY <1>11 DEF Connected, At
<1>12. CASE ChannelReceived BY <1>12 DEF ChannelReceived, At
<1>13. CASE SetBinaryMessageHandler BY <1>13 DEF SetBinaryMessageHandler, BinaryHandler, At
<1>14. CASE Subscribe BY <1>14 DEF Subscribe, At
<1>15. CASE MessageReceived BY <1>15 DEF MessageReceived, At
<1>16. CASE WaitTimesOut BY <1>16 DEF WaitTimesOut, At
<1>17. CASE DestroyMsgPromise BY <1>17 DEF DestroyMsgPromise, At
<1>18. CASE DestroyChannelPromise BY <1>18 DEF DestroyChannelPromise, At
<1>19. CASE CloseClient BY <1>19 DEF CloseClient, At
<1>20. CASE JoinThread BY <1>20 DEF JoinThread, At
<1> QED BY <1>1, <1>2, <1>3, <1>4, <1>5, <1>6, <1>7, <1>8, <1>9, <1>10, <1>11, <1>12,
     <1>13, <1>14, <1>15, <1>16, <1>17, <1>18, <1>19, <1>20, Zenon
     DEF Next, Server, ClientThread, Caller

-----------------------------------------------------------------------------
(* The theorems. *)

\* The invariant holds when the client has been made.
LEMMA ClientInit == Init => ClientInvariant
<1> SUFFICES ASSUME Init PROVE ClientInvariant OBVIOUS
<1>1. perpetual \in BOOLEAN /\ subscribed \in BOOLEAN /\ troubled \in BOOLEAN BY Zenon DEF Init
<1>2. TypeOK BY <1>1, ClientAssumption DEF Init, TypeOK, Promises
<1>3. HandlerSet BY DEF Init, HandlerSet, DataFindsHandler
<1>4. QuietCall BY FewMessages DEF Init, QuietCall, CallPlaced, ChannelOnce, MessageOnce
<1> QED BY <1>2, <1>3, <1>4 DEF ClientInvariant

\* The invariant holds in every state of the client.
THEOREM ClientInvariance == Spec => []ClientInvariant
<1>1. ASSUME ClientInvariant, [Next]_vars PROVE ClientInvariant'
  <2>1. TypeOK' BY <1>1, TypeStep, Zenon DEF ClientInvariant
  <2>2. HandlerSet' BY <1>1, HandlerStep, Zenon DEF ClientInvariant
  <2>3. QuietCall'
    <3> SUFFICES ASSUME Quiet'
                 PROVE  (CallPlaced /\ ChannelOnce /\ MessageOnce /\ run # "crashed")'
      BY Zenon DEF QuietCall
    <3>1. TypeOK /\ HandlerSet /\ QuietCall BY <1>1, Zenon DEF ClientInvariant
    <3>2. CallPlaced /\ ChannelOnce /\ MessageOnce /\ run # "crashed"
      BY <1>1, <3>1, QuietBefore, Zenon DEF QuietCall
    <3> QED BY <1>1, <3>1, <3>2, CallStep, ChannelStep, MessageStep, CrashStep, Zenon
  <2> QED BY <2>1, <2>2, <2>3, Zenon DEF ClientInvariant
<1> QED BY <1>1, ClientInit, PTL DEF Spec

\* Every variable keeps its type.
THEOREM ClientTypeCorrect == Spec => []TypeOK
<1>1. ClientInvariant => TypeOK BY Zenon DEF ClientInvariant
<1> QED BY <1>1, ClientInvariance, PTL

\* A data message never comes to a client that has no handler for it.
THEOREM ClientDataHandled == Spec => []DataFindsHandler
<1>1. ClientInvariant => DataFindsHandler BY Zenon DEF ClientInvariant, HandlerSet
<1> QED BY <1>1, ClientInvariance, PTL

\* With one advertisement, one message and a connection that lasts, the process
\* does not end with an exception of the client.
THEOREM ClientQuietIsSafe == Spec => []QuietServerIsSafe
<1>1. ClientInvariant => QuietServerIsSafe
  BY Zenon DEF ClientInvariant, QuietCall, Quiet, QuietServerIsSafe
<1> QED BY <1>1, ClientInvariance, PTL
=============================================================================
