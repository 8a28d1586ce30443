--------------------------- MODULE SubscriptionQos ---------------------------
(***************************************************************************)
(* The quality of service subscribeHandler() of the ROS 2 bridge asks for  *)
(* (ros2_foxglove_bridge.cpp): it looks at the publishers of the topic,    *)
(* which come and go while it counts, and makes a subscription that stays  *)
(* as it is.  External: ROS matches a subscription with the publishers     *)
(* that offer at least what it asks for.                                   *)
(***************************************************************************)
EXTENDS Naturals, FiniteSets, FiniteSetsExt

CONSTANTS
  Publishers,    \* publishers of the topic; each comes once
  Depths,        \* depths of their queues; 0 if it is not known
  MaxQosDepth,   \* _maxQosDepth
  MaxSubs        \* bound on the number of subscriptions

ASSUME QosAssumption ==
  /\ IsFiniteSet(Publishers)
  /\ Depths \subseteq Nat
  /\ MaxQosDepth \in Nat
  /\ MaxSubs \in Nat

Profiles == [reliable : BOOLEAN, transientLocal : BOOLEAN, depth : Nat]

VARIABLES
  offer,      \* profiles of the publishers there have been
  here,       \* the publishers there are
  counting,   \* subscribeHandler is between its query and the subscription
  info,       \* publisherInfo
  left,       \* the part of it the loop has not come to
  reliable,   \* reliabilityReliableEndpointsCount
  transient,  \* durabilityTransientLocalEndpointsCount
  depth,      \* its local depth
  subs        \* subscriptions: publisherInfo and the profile asked for

graph  == <<offer, here>>
locals == <<counting, info, left, reliable, transient, depth>>
vars == <<graph, locals, subs>>

TypeOK ==
  /\ here \subseteq DOMAIN offer
  /\ DOMAIN offer \subseteq Publishers
  /\ \A p \in DOMAIN offer : offer[p] \in Profiles
  /\ counting \in BOOLEAN
  /\ left \subseteq info /\ info \subseteq DOMAIN offer
  /\ {reliable, transient} \subseteq 0..Cardinality(info)
  /\ depth \in 0..MaxQosDepth
  /\ \A s \in subs : s.info \subseteq DOMAIN offer /\ s.qos \in Profiles

Init ==
  /\ offer = <<>> /\ here = {}
  /\ counting = FALSE /\ info = {} /\ left = {}
  /\ reliable = 0 /\ transient = 0 /\ depth = 0
  /\ subs = {}

\* A publisher comes, with any profile, or goes.
PublisherComes(p, r, t, d) ==
  /\ p \notin DOMAIN offer
  /\ offer' = [q \in DOMAIN offer \union {p} |->
                 IF q = p THEN [reliable |-> r, transientLocal |-> t, depth |-> d]
                          ELSE offer[q]]
  /\ here' = here \union {p}
  /\ UNCHANGED <<locals, subs>>

PublisherGoes(p) ==
  /\ p \in here
  /\ here' = here \ {p}
  /\ UNCHANGED <<offer, locals, subs>>

\* get_publishers_info_by_topic
QueryPublishers ==
  /\ ~counting
  /\ Cardinality(subs) < MaxSubs
  /\ counting' = TRUE
  /\ info' = here /\ left' = here
  /\ reliable' = 0 /\ transient' = 0 /\ depth' = 0
  /\ UNCHANGED <<graph, subs>>

\* Mutant: the largest depth instead of the sum.
AddDepthMax(d) == Min({MaxQosDepth, Max({depth, d})})

AddDepth(d) == Min({MaxQosDepth, depth + d})

\* One iteration of the loop.
CountPublisher(p) ==
  /\ counting /\ p \in left
  /\ left' = left \ {p}
  /\ reliable' = reliable + (IF offer[p].reliable THEN 1 ELSE 0)
  /\ transient' = transient + (IF offer[p].transientLocal THEN 1 ELSE 0)
  /\ depth' = AddDepth(offer[p].depth)
  /\ UNCHANGED <<graph, counting, info, subs>>

\* Mutant: one publisher may differ.
AllButOne(count) == count + 1 >= Cardinality(info)

\* Mutant: the fallback also without publishers.
AllSome(count) == count = Cardinality(info) /\ count > 0

\* A count says that all publishers offer the policy.
All(count) == count = Cardinality(info)

CreateSubscription ==
  /\ counting /\ left = {}
  /\ subs' = subs \union
       {[info |-> info,
         qos |-> [reliable |-> All(reliable), transientLocal |-> All(transient),
                  depth |-> Max({depth, 1})]]}
  /\ counting' = FALSE
  /\ info' = {} /\ reliable' = 0 /\ transient' = 0 /\ depth' = 0
  /\ UNCHANGED <<graph, left>>

Next ==
  \/ \E p \in Publishers, r, t \in BOOLEAN, d \in Depths : PublisherComes(p, r, t, d)
  \/ \E p \in Publishers : PublisherGoes(p) \/ CountPublisher(p)
  \/ QueryPublishers
  \/ CreateSubscription

Spec == Init /\ [][Next]_vars

-----------------------------------------------------------------------------
(* Properties. *)

\* A publisher that offers o matches a subscription that asks for q.
Matches(o, q) ==
  /\ q.reliable => o.reliable
  /\ q.transientLocal => o.transientLocal

\* A subscription misses the messages of a publisher only if that publisher
\* came after the query: it matches all it was made for, "as it will connect to
\* all publishers".
MissesOnlyLatePublishers ==
  \A s \in subs, p \in here : Matches(offer[p], s.qos) \/ p \notin s.info

\* It does not ask for less than it could: if every publisher it was made for
\* keeps its last messages (or is reliable), the client gets them.
StrongestProfile ==
  \A s \in subs :
    /\ (\A p \in s.info : offer[p].reliable) => s.qos.reliable
    /\ (\A p \in s.info : offer[p].transientLocal) => s.qos.transientLocal

\* The places in the queues of publishers P.
Places(P) == UNION {{p} \X (1..offer[p].depth) : p \in P}

\* Reference: the queue holds what all publishers may have in theirs, within
\* the limit, and at least one message even if the limit or all depths are 0.
DepthOfAll ==
  \A s \in subs :
    s.qos.depth = Max({1, Min({MaxQosDepth, Cardinality(Places(s.info))})})
=============================================================================
