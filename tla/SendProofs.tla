----------------------------- MODULE SendProofs -----------------------------
(***************************************************************************)
(* What the steps of sendMessage, which are not one, can cost: the data    *)
(* buffered for a slow client stays within send_buffer_limit plus one      *)
(* message per thread of the executor, and so many messages at most come   *)
(* after an unsubscribe, for any limit, any number of threads and any size *)
(* of messages.                                                            *)
(***************************************************************************)
EXTENDS SendPath, FiniteSetTheorems, TLAPS

\* One more message fits into one more thread's share.
LEMMA OneMoreShare ==
  ASSUME NEW m \in Nat, NEW a \in Int
  PROVE  m * (a + 1) = m * a + m
  OBVIOUS

\* A share is not negative.
LEMMA SharesNonNegative ==
  ASSUME NEW m \in Nat, NEW a \in Nat
  PROVE  m * a \in Nat
  OBVIOUS

\* The threads in sendMessage are some of the threads.
LEMMA InFlightFinite ==
  /\ IsFiniteSet(InFlight)
  /\ Cardinality(Threads) \in Nat
  /\ Cardinality(InFlight) \in Nat
  /\ Cardinality(InFlight) <= Cardinality(Threads)
<1>1. InFlight \subseteq Threads /\ IsFiniteSet(Threads)
  BY SendAssumption DEF InFlight
<1> QED
  BY <1>1, FS_Subset, FS_CardinalityType

\* Type correctness; what is sent has an id and a channel because it was
\* looked up.
LEMMA SendTypeStep ==
  ASSUME TypeOK, LateInvariant, [Next]_vars
  PROVE  TypeOK'
<1> USE SendAssumption DEF TypeOK, clientVars, Pairs
<1>1. ASSUME NEW ch \in ChannelIds, NEW s \in SubIds, Subscribe(ch, s)
      PROVE  TypeOK'
  BY <1>1 DEF Subscribe
<1>2. ASSUME NEW m \in subs, Unsubscribe(m) PROVE TypeOK'
  BY <1>2 DEF Unsubscribe
<1>3. CASE Disconnect
  <2>1. connected' \in BOOLEAN
    BY <1>3, Zenon DEF Disconnect
  <2> QED
    BY <1>3, <2>1 DEF Disconnect
<1>4. ASSUME NEW n \in 1..(buffered + timeBuffered), Drain(n) PROVE TypeOK'
  BY <1>4 DEF Drain
<1>5. ASSUME NEW t \in Threads, NEW ch \in ChannelIds, NEW n \in 0..MaxSize,
             TestBuffer(t, ch, n)
      PROVE  TypeOK'
  BY <1>5 DEF TestBuffer
<1>6. ASSUME NEW t \in Threads, LookUp(t) PROVE TypeOK'
  BY <1>6 DEF LookUp
<1>7. ASSUME NEW t \in Threads, NotSubscribed(t) PROVE TypeOK'
  BY <1>7 DEF NotSubscribed, Return
<1>8. ASSUME NEW t \in Threads, SendBinary(t) PROVE TypeOK'
  <2>1. <<chan[t], subId[t]>> \in Pairs
    BY <1>8 DEF SendBinary, LateInvariant
  <2> QED
    BY <1>8, <2>1 DEF SendBinary, Hand, Return
<1>9. CASE BroadcastTime
  BY <1>9 DEF BroadcastTime
<1>10. CASE UNCHANGED vars
  BY <1>10 DEF vars
<1> QED
  BY <1>1, <1>2, <1>3, <1>4, <1>5, <1>6, <1>7, <1>8, <1>9, <1>10
     DEF Next, Client, Thread

\* The threads about to send under a pair are some of the threads.
LEMMA SendingFinite ==
  ASSUME NEW m
  PROVE  /\ IsFiniteSet(Sending(m))
         /\ Cardinality(Sending(m)) \in Nat
         /\ Cardinality(Sending(m)) <= Cardinality(Threads)
<1>1. Sending(m) \subseteq Threads /\ IsFiniteSet(Threads)
  BY SendAssumption DEF Sending
<1> QED
  BY <1>1, FS_Subset, FS_CardinalityType

\* A step that lets nobody look up or send keeps the count: what is subscribed
\* starts at 0, and what is unsubscribed has all threads to go.
LEMMA LateKept ==
  ASSUME TypeOK, LateInvariant, UNCHANGED <<tpc, chan, subId>>,
         subs' \subseteq Pairs, late' \in [Pairs -> Nat],
         \A m \in subs' : late'[m] = 0,
         \A m \in Pairs \ subs' : late'[m] = late[m]
  PROVE  LateInvariant'
<1>1. \A m : Sending(m)' = Sending(m)
  BY DEF Sending
<1>2. ASSUME NEW m \in Pairs \ subs'
      PROVE  late'[m] + Cardinality(Sending(m)') <= Cardinality(Threads)
  <2>1. CASE m \in subs
    <3>1. late'[m] = 0
      BY <1>2, <2>1 DEF LateInvariant
    <3> QED
      BY <1>1, <3>1, SendingFinite
  <2>2. CASE m \notin subs
    BY <1>1, <1>2, <2>2 DEF LateInvariant
  <2> QED
    BY <2>1, <2>2
<1>3. \A t \in Threads : tpc'[t] = "send" => <<chan'[t], subId'[t]>> \in Pairs
  BY DEF LateInvariant
<1> QED
  BY <1>2, <1>3 DEF LateInvariant, Sending, Pairs

\* Messages after an unsubscribe are counted against the threads that had looked
\* the pair up before.
LEMMA LateStep ==
  ASSUME TypeOK, TypeOK', LateInvariant, [Next]_vars
  PROVE  LateInvariant'
<1>0. /\ subs \subseteq Pairs /\ subs' \subseteq Pairs
      /\ late \in [Pairs -> Nat] /\ late' \in [Pairs -> Nat]
      /\ tpc \in [Threads -> {"idle", "lookup", "send"}]
      /\ chan \in [Threads -> ChannelIds \union {NoId}]
      /\ subId \in [Threads -> SubIds \union {NoId}]
  BY DEF TypeOK
<1>1. ASSUME NEW ch \in ChannelIds, NEW s \in SubIds, Subscribe(ch, s)
      PROVE  LateInvariant'
  <2>1. <<ch, s>> \in Pairs
    BY DEF Pairs
  <2>2. /\ \A m \in subs' : late'[m] = 0
        /\ \A m \in Pairs \ subs' : late'[m] = late[m]
        /\ UNCHANGED <<tpc, chan, subId>>
    BY <1>0, <1>1, <2>1 DEF Subscribe, LateInvariant
  <2> QED
    BY <1>0, <2>2, LateKept
<1>2. CASE \/ \E m \in subs : Unsubscribe(m)
           \/ Disconnect
           \/ \E n \in 1..(buffered + timeBuffered) : Drain(n)
           \/ BroadcastTime
           \/ UNCHANGED vars
  <2>1. subs' \subseteq subs /\ late' = late /\ UNCHANGED <<tpc, chan, subId>>
    BY <1>2 DEF Unsubscribe, Disconnect, Drain, BroadcastTime, clientVars, vars
  <2>2. /\ \A m \in subs' : late'[m] = 0
        /\ \A m \in Pairs \ subs' : late'[m] = late[m]
    BY <2>1 DEF LateInvariant
  <2> QED
    BY <1>0, <2>1, <2>2, LateKept
<1>3. ASSUME NEW t \in Threads,
             \/ NotSubscribed(t)
             \/ \E ch \in ChannelIds, n \in 0..MaxSize : TestBuffer(t, ch, n)
      PROVE  LateInvariant'
  <2>1. UNCHANGED <<subs, late>>
    BY <1>3 DEF NotSubscribed, TestBuffer, clientVars
  <2>2. /\ tpc[t] # "send" /\ tpc'[t] # "send"
        /\ \A u \in Threads \ {t} : /\ tpc'[u] = tpc[u] /\ chan'[u] = chan[u]
                                    /\ subId'[u] = subId[u]
    BY <1>0, <1>3 DEF NotSubscribed, TestBuffer, Return
  <2>3. \A m \in Pairs : Sending(m)' = Sending(m)
    BY <2>2 DEF Sending
  <2>4. \A u \in Threads : tpc'[u] = "send" => <<chan'[u], subId'[u]>> \in Pairs
    BY <2>2 DEF LateInvariant
  <2> QED
    BY <2>1, <2>3, <2>4 DEF LateInvariant, Pairs
<1>4. ASSUME NEW t \in Threads, LookUp(t) PROVE LateInvariant'
  <2>1. PICK m \in subs : m[1] = chan[t] /\ subId' = [subId EXCEPT ![t] = m[2]]
    BY <1>4 DEF LookUp
  <2>2. m \in Pairs /\ m = <<m[1], m[2]>>
    BY <1>0 DEF Pairs
  <2>3. /\ tpc[t] # "send" /\ UNCHANGED <<subs, late, chan>>
        /\ \A u \in Threads \ {t} : tpc'[u] = tpc[u] /\ subId'[u] = subId[u]
        /\ <<chan'[t], subId'[t]>> = m
    BY <1>0, <1>4, <2>1, <2>2 DEF LookUp, clientVars
  <2>4. \A k \in Pairs \ subs : Sending(k)' = Sending(k)
    BY <2>3 DEF Sending
  <2>5. \A u \in Threads : tpc'[u] = "send" => <<chan'[u], subId'[u]>> \in Pairs
    BY <2>2, <2>3 DEF LateInvariant
  <2> QED
    BY <2>3, <2>4, <2>5 DEF LateInvariant, Pairs
<1>5. ASSUME NEW t \in Threads, SendBinary(t) PROVE LateInvariant'
  <2>1. /\ tpc[t] = "send" /\ tpc'[t] # "send" /\ subs' = subs
        /\ \A u \in Threads \ {t} : /\ tpc'[u] = tpc[u] /\ chan'[u] = chan[u]
                                    /\ subId'[u] = subId[u]
    BY <1>0, <1>5 DEF SendBinary, Return, clientVars
  <2>2. PICK m \in Pairs : m = <<chan[t], subId[t]>>
    BY <2>1 DEF LateInvariant
  <2>3. /\ \A k \in Pairs : k # m => Sending(k)' = Sending(k)
        /\ Sending(m)' = Sending(m) \ {t}
        /\ t \in Sending(m)
    BY <2>1, <2>2 DEF Sending
  <2>4. Cardinality(Sending(m)') = Cardinality(Sending(m)) - 1
    BY <2>3, SendingFinite, FS_RemoveElement
  <2>5. \/ late' = late
        \/ m \notin subs /\ late' = [late EXCEPT ![m] = @ + 1]
    BY <1>5, <2>2 DEF SendBinary, Hand
  <2>6. \A k \in subs' : late'[k] = 0
    BY <1>0, <2>1, <2>5 DEF LateInvariant
  <2>7. ASSUME NEW k \in Pairs \ subs'
        PROVE  late'[k] + Cardinality(Sending(k)') <= Cardinality(Threads)
    <3>1. /\ late[k] + Cardinality(Sending(k)) <= Cardinality(Threads)
          /\ Cardinality(Sending(k)) \in Nat /\ late[k] \in Nat
          /\ Cardinality(Threads) \in Nat
      BY <1>0, <2>1, SendingFinite, InFlightFinite DEF LateInvariant
    <3>2. CASE k = m
      <4>1. late'[k] = late[k] \/ late'[k] = late[k] + 1
        BY <1>0, <2>5
      <4>2. Cardinality(Sending(k)') = Cardinality(Sending(k)) - 1
        BY <2>4, <3>2
      <4> QED
        BY <3>1, <4>1, <4>2
    <3>3. CASE k # m
      BY <1>0, <2>3, <2>5, <3>1, <3>3
    <3> QED
      BY <3>2, <3>3
  <2>8. \A u \in Threads : tpc'[u] = "send" => <<chan'[u], subId'[u]>> \in Pairs
    BY <2>1 DEF LateInvariant
  <2> QED
    BY <2>6, <2>7, <2>8 DEF LateInvariant, Pairs
<1> QED
  BY <1>1, <1>2, <1>3, <1>4, <1>5 DEF Next, Client, Thread

\* A thread that leaves sendMessage gives its share of the bound back, and it
\* has added at most one message.
LEMMA ShareReturned ==
  ASSUME TypeOK, OvershootInvariant, NEW t \in Threads, tpc[t] # "idle",
         Return(t), buffered' \in Nat, buffered' <= buffered + MaxSize
  PROVE  OvershootInvariant'
<1> DEFINE k == Cardinality(InFlight)
           N == Cardinality(Threads)
<1>1. t \in InFlight /\ InFlight' = InFlight \ {t}
  BY DEF InFlight, Return, TypeOK
<1>2. k \in Nat /\ N \in Nat /\ k <= N /\ IsFiniteSet(InFlight)
  BY InFlightFinite
<1>3. Cardinality(InFlight') = k - 1 /\ k - 1 \in Nat
  <2>1. Cardinality(InFlight \ {t}) = k - 1
    BY <1>1, <1>2, FS_RemoveElement
  <2>2. Cardinality(InFlight \ {t}) \in Nat
    BY <1>2, FS_RemoveElement, FS_CardinalityType
  <2> QED
    BY <1>1, <2>1, <2>2
<1>4. Limit \in Nat /\ Limit > 0 /\ MaxSize \in Nat /\ buffered \in Nat
  BY <1>1, SendAssumption DEF OvershootInvariant, TypeOK
<1>5. N - k \in Nat /\ N - (k - 1) = (N - k) + 1
  BY <1>2
<1>6. MaxSize * (N - (k - 1)) = MaxSize * (N - k) + MaxSize
  BY <1>4, <1>5, OneMoreShare
<1>7. MaxSize * (N - k) \in Nat
  BY <1>4, <1>5, SharesNonNegative
<1>8. buffered' < Limit + MaxSize * (N - (k - 1))
  <2>1. buffered = 0 \/ buffered < Limit + MaxSize * (N - k)
    BY DEF OvershootInvariant
  <2> HIDE DEF k, N
  <2> QED
    BY <2>1, <1>4, <1>6, <1>7
<1> QED
  BY <1>3, <1>4, <1>8 DEF OvershootInvariant

\* A thread that passes the test takes a share: there is one left for it.
LEMMA ShareTaken ==
  ASSUME TypeOK, OvershootInvariant, NEW t \in Threads, NEW ch \in ChannelIds,
         NEW n \in 0..MaxSize, TestBuffer(t, ch, n)
  PROVE  OvershootInvariant'
<1> DEFINE k == Cardinality(InFlight)
           N == Cardinality(Threads)
<1>1. t \notin InFlight /\ InFlight' = InFlight \union {t}
  BY DEF InFlight, TestBuffer, TypeOK
<1>2. k \in Nat /\ N \in Nat /\ IsFiniteSet(InFlight) /\ IsFiniteSet(Threads)
  BY InFlightFinite, SendAssumption
<1>3. Cardinality(InFlight \union {t}) = k + 1
  BY <1>1, <1>2, FS_AddElement
<1>4. k + 1 <= N
  <2>1. InFlight \union {t} \in SUBSET Threads
    BY DEF InFlight
  <2> QED
    BY <1>2, <1>3, <2>1, FS_Subset
<1>5. MaxSize * (N - (k + 1)) \in Nat
  <2>1. N - (k + 1) \in Nat
    BY <1>2, <1>4
  <2> QED
    BY <2>1, SharesNonNegative, SendAssumption
<1>6. /\ buffered' = buffered /\ buffered \in Nat /\ timeBuffered \in Nat
      /\ buffered + timeBuffered < Limit /\ Limit \in Nat
  BY SendAssumption DEF TestBuffer, TypeOK
<1>7. Limit > 0 /\ buffered' < Limit + MaxSize * (N - (k + 1))
  <2> HIDE DEF k, N
  <2> QED
    BY <1>5, <1>6
<1> QED
  BY <1>1, <1>3, <1>7 DEF OvershootInvariant

\* The other steps take nothing from the bound.
LEMMA ShareKept ==
  ASSUME TypeOK, OvershootInvariant, InFlight' = InFlight,
         buffered' \in Nat, buffered' <= buffered
  PROVE  OvershootInvariant'
<1> DEFINE share == MaxSize * (Cardinality(Threads) - Cardinality(InFlight))
<1>1. share \in Nat
  <2>1. Cardinality(Threads) - Cardinality(InFlight) \in Nat
    BY InFlightFinite
  <2> QED
    BY <2>1, SharesNonNegative, SendAssumption
<1>2. buffered \in Nat /\ Limit \in Nat /\ (buffered = 0 \/ buffered < Limit + share)
  BY SendAssumption DEF TypeOK, OvershootInvariant
<1>3. buffered' = 0 \/ buffered' < Limit + share
  <2> HIDE DEF share
  <2> QED
    BY <1>1, <1>2
<1> QED
  BY <1>3 DEF OvershootInvariant

\* The bound with the shares of the threads in flight is inductive.
LEMMA OvershootStep ==
  ASSUME TypeOK, OvershootInvariant, [Next]_vars
  PROVE  OvershootInvariant'
<1> USE DEF clientVars
<1>1. CASE Client
  <2>1. InFlight' = InFlight /\ (buffered' = buffered \/ buffered' = 0)
    BY <1>1 DEF Client, Subscribe, Unsubscribe, Disconnect, InFlight
  <2> QED
    BY <2>1, ShareKept DEF TypeOK
<1>2. ASSUME NEW n \in 1..(buffered + timeBuffered), Drain(n)
      PROVE  OvershootInvariant'
  <2>1. InFlight' = InFlight
    BY <1>2 DEF Drain, InFlight
  <2>2. buffered' \in Nat /\ buffered' <= buffered
    BY <1>2 DEF Drain, TypeOK
  <2> QED
    BY <2>1, <2>2, ShareKept
<1>3. ASSUME NEW t \in Threads, NEW ch \in ChannelIds, NEW n \in 0..MaxSize,
             TestBuffer(t, ch, n)
      PROVE  OvershootInvariant'
  BY <1>3, ShareTaken
<1>4. ASSUME NEW t \in Threads, LookUp(t) PROVE OvershootInvariant'
  <2>1. InFlight' = InFlight /\ buffered' = buffered
    BY <1>4 DEF LookUp, InFlight, TypeOK
  <2> QED
    BY <2>1, ShareKept DEF TypeOK
<1>5. ASSUME NEW t \in Threads, NotSubscribed(t) PROVE OvershootInvariant'
  <2>1. tpc[t] # "idle" /\ Return(t) /\ buffered' = buffered
    BY <1>5 DEF NotSubscribed
  <2> QED
    BY <2>1, ShareReturned, SendAssumption DEF TypeOK
<1>6. ASSUME NEW t \in Threads, SendBinary(t) PROVE OvershootInvariant'
  <2>1. tpc[t] # "idle" /\ Return(t)
    BY <1>6 DEF SendBinary
  <2>2. buffered' \in Nat /\ buffered' <= buffered + MaxSize
    BY <1>6, SendAssumption DEF SendBinary, Hand, TypeOK
  <2> QED
    BY <2>1, <2>2, ShareReturned
<1>7. CASE BroadcastTime \/ UNCHANGED vars
  <2>1. InFlight' = InFlight /\ buffered' = buffered
    BY <1>7 DEF BroadcastTime, vars, InFlight
  <2> QED
    BY <2>1, ShareKept DEF TypeOK
<1> QED
  BY <1>1, <1>2, <1>3, <1>4, <1>5, <1>6, <1>7 DEF Next, Thread

\* Initially nobody sends and nothing was sent.
LEMMA SendInit == Init => TypeOK /\ LateInvariant /\ OvershootInvariant
<1> SUFFICES ASSUME Init PROVE TypeOK /\ LateInvariant /\ OvershootInvariant
  OBVIOUS
<1>1. connected \in BOOLEAN
  BY Zenon DEF Init
<1>2. TypeOK
  BY <1>1, SendAssumption DEF Init, TypeOK
<1>3. LateInvariant
  <2>1. \A m \in Pairs : Sending(m) = {}
    BY DEF Init, Sending
  <2>2. \A m \in Pairs : late[m] + Cardinality(Sending(m)) <= Cardinality(Threads)
    BY <2>1, FS_EmptySet, InFlightFinite DEF Init
  <2> QED
    BY <2>2 DEF Init, LateInvariant
<1>4. InFlight = {} /\ buffered = 0
  BY DEF Init, InFlight
<1> QED
  BY <1>2, <1>3, <1>4 DEF OvershootInvariant

\* The three parts hold together in every reachable state.
LEMMA SendInvariance == Spec => [](TypeOK /\ LateInvariant /\ OvershootInvariant)
<1>1. TypeOK /\ LateInvariant /\ OvershootInvariant /\ [Next]_vars
        => (TypeOK /\ LateInvariant /\ OvershootInvariant)'
  BY SendTypeStep, LateStep, OvershootStep
<1> QED
  BY <1>1, SendInit, PTL DEF Spec

\* Each variable of the send path keeps its type.
THEOREM SendTypeCorrect == Spec => []TypeOK
  BY SendInvariance, PTL

\* For any limit, any number of executor threads and any size of messages, the
\* data buffered for a client exceeds send_buffer_limit by less than one message
\* per thread, though sendMessage tests the buffer long before it sends.
THEOREM SendOvershootBounded == Spec => []OvershootBounded
<1>1. TypeOK /\ OvershootInvariant => OvershootBounded
  <2> SUFFICES ASSUME TypeOK, OvershootInvariant PROVE OvershootBounded
    OBVIOUS
  <2> DEFINE k == Cardinality(InFlight)
             N == Cardinality(Threads)
  <2>1. k \in Nat /\ N \in Nat /\ N - k \in Nat
    BY InFlightFinite
  <2>2. MaxSize * N = MaxSize * (N - k) + MaxSize * k
    <3> HIDE DEF k, N
    <3>1. MaxSize \in Nat
      BY SendAssumption
    <3> QED
      BY <2>1, <3>1
  <2>3. MaxSize * k \in Nat /\ MaxSize * (N - k) \in Nat
    BY <2>1, SharesNonNegative, SendAssumption
  <2>4. buffered = 0 \/ buffered < Limit + MaxSize * (N - k)
    BY DEF OvershootInvariant
  <2>5. buffered = 0 \/ buffered < Limit + MaxSize * N
    <3> HIDE DEF k, N
    <3>1. buffered \in Nat /\ Limit \in Nat
      BY SendAssumption DEF TypeOK
    <3> QED
      BY <2>2, <2>3, <2>4, <3>1
  <2> QED
    BY <2>5 DEF OvershootBounded
<1> QED
  BY <1>1, SendInvariance, PTL

\* For any number of executor threads, channels and ids: after an unsubscribe no
\* more than one message per thread is still sent under the old id, whatever
\* the client does with the id in the meantime.
THEOREM SendLateDataBounded == Spec => []LateDataBounded
<1>1. TypeOK /\ LateInvariant => LateDataBounded
  <2> SUFFICES ASSUME TypeOK, LateInvariant, NEW m \in Pairs
               PROVE  late[m] <= Cardinality(Threads)
    BY DEF LateDataBounded
  <2>1. /\ late[m] \in Nat /\ Cardinality(Threads) \in Nat
        /\ Cardinality(Sending(m)) \in Nat
    BY SendingFinite, InFlightFinite DEF TypeOK
  <2> QED
    BY <2>1 DEF LateInvariant
<1> QED
  BY <1>1, SendInvariance, PTL
=============================================================================
