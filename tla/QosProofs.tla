----------------------------- MODULE QosProofs -----------------------------
(***************************************************************************)
(* The quality of service subscribeHandler() asks for is the strongest one *)
(* that all publishers it looked at offer, and its queue is as long as     *)
(* theirs together, for any number of publishers and whatever they do      *)
(* while it counts.                                                        *)
(***************************************************************************)
EXTENDS SubscriptionQos, FiniteSetTheorems, TLAPS

\* The publishers the loop has come to that offer a policy.
Reliable  == {p \in info \ left : offer[p].reliable}
Transient == {p \in info \ left : offer[p].transientLocal}

\* The counters of the loop.
CountsMatch ==
  /\ reliable = Cardinality(Reliable)
  /\ transient = Cardinality(Transient)

\* Its sum, which is cut off at the limit in every iteration.
DepthMatches ==
  /\ IsFiniteSet(Places(info \ left))
  /\ depth = Min({MaxQosDepth, Cardinality(Places(info \ left))})

\* A subscription matches all publishers it was made for, those that have gone
\* included.
MatchesItsPublishers ==
  \A s \in subs : \A p \in s.info : Matches(offer[p], s.qos)

QosInvariant ==
  /\ TypeOK
  /\ CountsMatch
  /\ DepthMatches
  /\ MatchesItsPublishers
  /\ StrongestProfile
  /\ DepthOfAll

-----------------------------------------------------------------------------
(* Lemmas about the operators. *)

LEMMA MinOfTwo ==
  ASSUME NEW a \in Nat, NEW b \in Nat
  PROVE  Min({a, b}) \in {a, b} /\ Min({a, b}) <= a /\ Min({a, b}) <= b
<1>1. \E x \in {a, b} : \A y \in {a, b} : x <= y
  OBVIOUS
<1> QED
  BY <1>1 DEF Min

LEMMA MaxOfTwo ==
  ASSUME NEW a \in Nat, NEW b \in Nat
  PROVE  Max({a, b}) \in {a, b} /\ Max({a, b}) >= a /\ Max({a, b}) >= b
<1>1. \E x \in {a, b} : \A y \in {a, b} : x >= y
  OBVIOUS
<1> QED
  BY <1>1 DEF Max

\* Counting the members of a set as the loop comes to them.
LEMMA CountOneMore ==
  ASSUME NEW S, IsFiniteSet(S), NEW x, x \notin S, NEW T,
         NEW holds \in BOOLEAN, T = IF holds THEN S \union {x} ELSE S
  PROVE  /\ Cardinality(S) \in Nat
         /\ Cardinality(T) = Cardinality(S) + (IF holds THEN 1 ELSE 0)
<1>1. Cardinality(S) \in Nat
  BY FS_CardinalityType
<1>2. Cardinality(S \union {x}) = Cardinality(S) + 1
  BY FS_AddElement
<1> QED
  BY <1>1, <1>2

\* A count is complete exactly if all publishers offer the policy.
LEMMA CompleteCount ==
  ASSUME NEW S, IsFiniteSet(S), NEW T \in SUBSET S
  PROVE  /\ Cardinality(T) \in 0..Cardinality(S)
         /\ Cardinality(T) = Cardinality(S) <=> T = S
<1>1. IsFiniteSet(T) /\ Cardinality(T) <= Cardinality(S)
  BY FS_Subset
<1>2. Cardinality(T) \in Nat /\ Cardinality(S) \in Nat
  BY <1>1, FS_CardinalityType
<1>3. Cardinality(S) = Cardinality(T) => S = T
  BY FS_Subset
<1> QED
  BY <1>1, <1>2, <1>3

\* Nothing has no places.
LEMMA NoPlaces ==
  /\ Places({}) = {} /\ IsFiniteSet(Places({}))
  /\ 0 = Min({MaxQosDepth, Cardinality(Places({}))})
<1>1. Places({}) = {}
  BY DEF Places
<1>2. MaxQosDepth \in Nat
  BY QosAssumption
<1>3. Min({MaxQosDepth, 0}) = 0
  BY <1>2, MinOfTwo
<1> QED
  BY <1>1, <1>3, FS_EmptySet

\* One publisher more.
LEMMA PlacesOfOneMore ==
  ASSUME NEW P, NEW p, p \notin P, IsFiniteSet(Places(P)), offer[p].depth \in Nat
  PROVE  /\ IsFiniteSet(Places(P \union {p}))
         /\ Cardinality(Places(P)) \in Nat
         /\ Cardinality(Places(P \union {p})) = Cardinality(Places(P)) + offer[p].depth
<1> DEFINE d == offer[p].depth
           own == {p} \X (1..d)
           f == [i \in 1..d |-> <<p, i>>]
<1>1. Places(P \union {p}) = Places(P) \union own
  BY DEF Places
<1>2. Places(P) \intersect own = {}
  BY DEF Places
<1>3. IsFiniteSet(own) /\ Cardinality(own) = d
  <2>1. f \in [1..d -> own] /\ DOMAIN f = 1..d
    OBVIOUS
  <2>2. \A i, j \in 1..d : f[i] = f[j] => i = j
    OBVIOUS
  <2>3. \A t \in own : \E i \in 1..d : f[i] = t
    OBVIOUS
  <2>4. f \in Bijection(1..d, own)
    BY <2>1, <2>2, <2>3 DEF Bijection, Injection, Surjection, IsInjective
  <2>5. ExistsBijection(1..d, own) /\ d \in Nat
    BY <2>4, Zenon DEF ExistsBijection
  <2> HIDE DEF own, d
  <2>6. IsFiniteSet(own)
    BY <2>5, FS_NatBijection
  <2> QED
    BY <2>5, <2>6, FS_CountingElements
<1>4. Cardinality(Places(P)) \in Nat
  BY FS_CardinalityType
<1> HIDE DEF own, d
<1>5. /\ IsFiniteSet(Places(P) \union own)
      /\ Cardinality(Places(P) \union own) = Cardinality(Places(P)) + Cardinality(own)
                                              - Cardinality(Places(P) \intersect own)
  BY <1>3, FS_Union
<1>6. Cardinality(Places(P) \intersect own) = 0
  BY <1>2, FS_EmptySet
<1>7. d \in Nat
  BY DEF d
<1>8. Cardinality(Places(P) \union own) = Cardinality(Places(P)) + d
  BY <1>3, <1>4, <1>5, <1>6, <1>7
<1> QED
  BY <1>1, <1>4, <1>5, <1>8 DEF d

\* Cutting off in every iteration is cutting off at the end.
LEMMA CutOff ==
  ASSUME NEW m \in Nat, NEW a \in Nat, NEW d \in Nat
  PROVE  Min({m, Min({m, a}) + d}) = Min({m, a + d})
<1> DEFINE b == Min({m, a})
<1>1. b \in {m, a} /\ b <= m /\ b <= a
  BY MinOfTwo
<1> HIDE DEF b
<1>2. b \in Nat /\ b + d \in Nat /\ a + d \in Nat
  BY <1>1
<1>3. /\ Min({m, b + d}) \in {m, b + d} /\ Min({m, b + d}) <= m
      /\ Min({m, b + d}) <= b + d
  BY <1>2, MinOfTwo
<1>4. /\ Min({m, a + d}) \in {m, a + d} /\ Min({m, a + d}) <= m
      /\ Min({m, a + d}) <= a + d
  BY <1>2, MinOfTwo
<1>5. Min({m, b + d}) = Min({m, a + d})
  BY <1>1, <1>2, <1>3, <1>4
<1> QED
  BY <1>5 DEF b

-----------------------------------------------------------------------------
(* The steps. *)

\* The graph changes: what a publisher offered stays known.
LEMMA GraphStep ==
  ASSUME QosInvariant, UNCHANGED <<locals, subs>>,
         DOMAIN offer \subseteq DOMAIN offer',
         DOMAIN offer' \subseteq Publishers,
         here' \subseteq DOMAIN offer',
         \A p \in DOMAIN offer : offer'[p] = offer[p],
         \A p \in DOMAIN offer' : offer'[p] \in Profiles
  PROVE  QosInvariant'
<1>1. UNCHANGED <<counting, info, left, reliable, transient, depth, subs>>
  BY DEF locals
<1>2. /\ left \subseteq info /\ info \subseteq DOMAIN offer
      /\ \A s \in subs : s.info \subseteq DOMAIN offer
  BY DEF QosInvariant, TypeOK
<1>3. TypeOK'
  <2>1. counting' \in BOOLEAN
    BY <1>1, Zenon DEF QosInvariant, TypeOK
  <2> QED
    BY <1>1, <1>2, <2>1 DEF QosInvariant, TypeOK
<1>4. CountsMatch'
  <2>1. Reliable' = Reliable /\ Transient' = Transient
    BY <1>1, <1>2 DEF Reliable, Transient
  <2> QED
    BY <1>1, <2>1 DEF QosInvariant, CountsMatch
<1>5. \A s \in subs : \A p \in s.info : offer'[p] = offer[p]
  BY <1>2
<1>6. MatchesItsPublishers'
  BY <1>1, <1>5 DEF QosInvariant, MatchesItsPublishers, Matches
<1>7. StrongestProfile'
  BY <1>1, <1>5 DEF QosInvariant, StrongestProfile
<1>8. \A P \in SUBSET DOMAIN offer : Places(P)' = Places(P)
  BY DEF Places
<1>9. DepthMatches'
  <2>1. info \ left \in SUBSET DOMAIN offer
    BY <1>2
  <2>2. Places(info \ left)' = Places(info \ left)
    BY <1>1, <1>8, <2>1
  <2> QED
    BY <1>1, <2>2 DEF QosInvariant, DepthMatches
<1>10. DepthOfAll'
  <2>1. \A s \in subs : Places(s.info)' = Places(s.info)
    BY <1>2, <1>8
  <2> QED
    BY <1>1, <2>1 DEF QosInvariant, DepthOfAll
<1> QED
  BY <1>3, <1>4, <1>6, <1>7, <1>9, <1>10 DEF QosInvariant

LEMMA QueryStep ==
  ASSUME QosInvariant, QueryPublishers
  PROVE  QosInvariant'
<1>1. /\ counting' = TRUE /\ info' = here /\ left' = here
      /\ reliable' = 0 /\ transient' = 0 /\ depth' = 0
      /\ UNCHANGED <<offer, here, subs>>
  BY DEF QueryPublishers, graph
<1>2. Reliable' = {} /\ Transient' = {}
  BY <1>1 DEF Reliable, Transient
<1>3. CountsMatch'
  BY <1>1, <1>2, FS_EmptySet DEF CountsMatch
<1>4. here \subseteq Publishers /\ Cardinality(here) \in Nat
  <2>1. here \subseteq Publishers
    BY DEF QosInvariant, TypeOK
  <2>2. IsFiniteSet(here)
    BY <2>1, QosAssumption, FS_Subset
  <2> QED
    BY <2>1, <2>2, FS_CardinalityType
<1>5. TypeOK'
  BY <1>1, <1>4, QosAssumption DEF QosInvariant, TypeOK
<1>6. MatchesItsPublishers' /\ StrongestProfile' /\ DepthOfAll'
  BY <1>1 DEF QosInvariant, MatchesItsPublishers, StrongestProfile, Matches,
              DepthOfAll, Places
<1>7. DepthMatches'
  <2>1. info' \ left' = {}
    BY <1>1
  <2>2. Places(info \ left)' = Places({})
    BY <1>1, <2>1 DEF Places
  <2> QED
    BY <1>1, <2>2, NoPlaces DEF DepthMatches
<1> QED
  BY <1>3, <1>5, <1>6, <1>7 DEF QosInvariant

LEMMA CountStep ==
  ASSUME QosInvariant, NEW p \in Publishers, CountPublisher(p)
  PROVE  QosInvariant'
<1>1. /\ p \in left /\ left' = left \ {p}
      /\ UNCHANGED <<offer, here, counting, info, subs>>
      /\ depth' = AddDepth(offer[p].depth)
      /\ reliable' = reliable + (IF offer[p].reliable THEN 1 ELSE 0)
      /\ transient' = transient + (IF offer[p].transientLocal THEN 1 ELSE 0)
  BY DEF CountPublisher, graph
<1>2. /\ left \subseteq info /\ info \subseteq DOMAIN offer /\ info \subseteq Publishers
      /\ offer[p] \in Profiles
  BY <1>1 DEF QosInvariant, TypeOK
<1>3. IsFiniteSet(info)
  BY <1>2, QosAssumption, FS_Subset
<1>4. offer[p].reliable \in BOOLEAN /\ offer[p].transientLocal \in BOOLEAN
      /\ offer[p].depth \in Nat
  BY <1>2, Zenon DEF Profiles
<1>5. /\ Reliable' = IF offer[p].reliable THEN Reliable \union {p} ELSE Reliable
      /\ Transient' = IF offer[p].transientLocal THEN Transient \union {p} ELSE Transient
  BY <1>1, <1>2 DEF Reliable, Transient
<1>6. /\ IsFiniteSet(Reliable) /\ p \notin Reliable
      /\ IsFiniteSet(Transient) /\ p \notin Transient
  <2>1. Reliable \subseteq info /\ Transient \subseteq info
    BY DEF Reliable, Transient
  <2>2. p \notin Reliable /\ p \notin Transient
    BY <1>1 DEF Reliable, Transient
  <2> QED
    BY <1>3, <2>1, <2>2, FS_Subset
<1>7. CountsMatch'
  <2>1. Cardinality(Reliable') = Cardinality(Reliable)
                                   + (IF offer[p].reliable THEN 1 ELSE 0)
    BY <1>4, <1>5, <1>6, CountOneMore
  <2>2. Cardinality(Transient') = Cardinality(Transient)
                                    + (IF offer[p].transientLocal THEN 1 ELSE 0)
    BY <1>4, <1>5, <1>6, CountOneMore
  <2> QED
    BY <1>1, <2>1, <2>2 DEF QosInvariant, CountsMatch
<1>8. TypeOK'
  <2>1. Reliable' \subseteq info /\ Transient' \subseteq info
    BY <1>1 DEF Reliable, Transient
  <2>2. {reliable', transient'} \subseteq 0..Cardinality(info)
    BY <1>3, <1>7, <2>1, CompleteCount DEF CountsMatch
  <2>3. depth' \in 0..MaxQosDepth
    <3>1. depth \in Nat /\ MaxQosDepth \in Nat
      BY QosAssumption DEF QosInvariant, TypeOK
    <3>2. depth + offer[p].depth \in Nat
      BY <1>4, <3>1
    <3> QED
      BY <1>1, <3>1, <3>2, MinOfTwo DEF AddDepth
  <2>4. counting' \in BOOLEAN
    BY <1>1, Zenon DEF QosInvariant, TypeOK
  <2> QED
    BY <1>1, <2>2, <2>3, <2>4 DEF QosInvariant, TypeOK
<1>9. MatchesItsPublishers' /\ StrongestProfile' /\ DepthOfAll'
  BY <1>1 DEF QosInvariant, MatchesItsPublishers, StrongestProfile, Matches,
              DepthOfAll, Places
<1>10. DepthMatches'
  <2> DEFINE done == info \ left
  <2>1. p \notin done /\ info' \ left' = done \union {p}
    BY <1>1, <1>2
  <2>2. IsFiniteSet(Places(done)) /\ depth = Min({MaxQosDepth, Cardinality(Places(done))})
    BY DEF QosInvariant, DepthMatches
  <2>3. Places(info \ left)' = Places(done \union {p})
    BY <1>1, <2>1 DEF Places
  <2> HIDE DEF done
  <2>4. /\ IsFiniteSet(Places(done \union {p})) /\ Cardinality(Places(done)) \in Nat
        /\ Cardinality(Places(done \union {p})) = Cardinality(Places(done)) + offer[p].depth
    BY <1>4, <2>1, <2>2, PlacesOfOneMore
  <2>5. MaxQosDepth \in Nat
    BY QosAssumption
  <2>6. depth' = Min({MaxQosDepth, Cardinality(Places(done)) + offer[p].depth})
    BY <1>1, <1>4, <2>2, <2>4, <2>5, CutOff DEF AddDepth
  <2> QED
    BY <2>3, <2>4, <2>6 DEF DepthMatches
<1> QED
  BY <1>7, <1>8, <1>9, <1>10 DEF QosInvariant

LEMMA CreateStep ==
  ASSUME QosInvariant, CreateSubscription
  PROVE  QosInvariant'
<1> DEFINE qos == [reliable |-> All(reliable), transientLocal |-> All(transient),
                   depth |-> Max({depth, 1})]
           sub == [info |-> info, qos |-> qos]
<1>1. /\ left = {} /\ subs' = subs \union {sub}
      /\ counting' = FALSE /\ info' = {}
      /\ reliable' = 0 /\ transient' = 0 /\ depth' = 0
      /\ UNCHANGED <<offer, here, left>>
  BY DEF CreateSubscription, graph
<1>2. info \subseteq DOMAIN offer /\ info \subseteq Publishers
  BY DEF QosInvariant, TypeOK
<1>3. IsFiniteSet(info)
  BY <1>2, QosAssumption, FS_Subset
<1>4. /\ All(reliable) <=> \A p \in info : offer[p].reliable
      /\ All(transient) <=> \A p \in info : offer[p].transientLocal
  <2>1. /\ reliable = Cardinality({p \in info : offer[p].reliable})
        /\ transient = Cardinality({p \in info : offer[p].transientLocal})
    BY <1>1 DEF QosInvariant, CountsMatch, Reliable, Transient
  <2>2. /\ All(reliable) <=> {p \in info : offer[p].reliable} = info
        /\ All(transient) <=> {p \in info : offer[p].transientLocal} = info
    BY <1>3, <2>1, CompleteCount DEF All
  <2> QED
    BY <2>2
<1>5. qos \in Profiles
  <2>1. depth \in Nat /\ 1 \in Nat
    BY QosAssumption DEF QosInvariant, TypeOK
  <2>2. Max({depth, 1}) \in Nat
    BY <2>1, MaxOfTwo
  <2>3. All(reliable) \in BOOLEAN /\ All(transient) \in BOOLEAN
    BY Zenon DEF All
  <2> QED
    BY <2>2, <2>3, Zenon DEF Profiles
<1>6. sub.info = info /\ sub.qos.reliable = All(reliable)
      /\ sub.qos.transientLocal = All(transient)
  OBVIOUS
<1>7. TypeOK'
  <2>1. sub.info \subseteq DOMAIN offer /\ sub.qos \in Profiles
    BY <1>2, <1>5
  <2>2. {reliable', transient'} \subseteq 0..Cardinality(info') /\ depth' \in 0..MaxQosDepth
    <3>1. Cardinality(info') = 0
      BY <1>1, FS_EmptySet
    <3> QED
      BY <1>1, <3>1, QosAssumption
  <2> HIDE DEF sub
  <2>3. \A s \in subs' : s.info \subseteq DOMAIN offer /\ s.qos \in Profiles
    BY <1>1, <2>1 DEF QosInvariant, TypeOK
  <2>4. counting' \in BOOLEAN /\ left' \subseteq info' /\ info' \subseteq DOMAIN offer
    BY <1>1
  <2> QED
    BY <1>1, <2>2, <2>3, <2>4 DEF QosInvariant, TypeOK
<1>8. CountsMatch'
  <2>1. Reliable' = {} /\ Transient' = {}
    BY <1>1 DEF Reliable, Transient
  <2> QED
    BY <1>1, <2>1, FS_EmptySet DEF CountsMatch
<1> HIDE DEF sub
<1>9. MatchesItsPublishers'
  BY <1>1, <1>4, <1>6 DEF QosInvariant, MatchesItsPublishers, Matches
<1>10. StrongestProfile'
  BY <1>1, <1>4, <1>6 DEF QosInvariant, StrongestProfile
<1>11. DepthMatches'
  <2>1. Places(info \ left)' = Places({})
    BY <1>1 DEF Places
  <2> QED
    BY <1>1, <2>1, NoPlaces DEF DepthMatches
<1>12. DepthOfAll'
  <2>1. info \ left = info
    BY <1>1
  <2>2. sub.qos.depth = Max({1, Min({MaxQosDepth, Cardinality(Places(info))})})
    <3>1. depth = Min({MaxQosDepth, Cardinality(Places(info))})
      BY <2>1 DEF QosInvariant, DepthMatches
    <3>2. {depth, 1} = {1, depth}
      OBVIOUS
    <3>3. sub.qos.depth = Max({depth, 1})
      BY DEF sub
    <3> QED
      BY <3>1, <3>2, <3>3
  <2>3. \A P : Places(P)' = Places(P)
    BY <1>1 DEF Places
  <2> QED
    BY <1>1, <1>6, <2>2, <2>3 DEF QosInvariant, DepthOfAll
<1> QED
  BY <1>7, <1>8, <1>9, <1>10, <1>11, <1>12 DEF QosInvariant

-----------------------------------------------------------------------------
(* The theorems. *)

LEMMA QosInit == Init => QosInvariant
<1> SUFFICES ASSUME Init PROVE QosInvariant
  OBVIOUS
<1>1. Reliable = {} /\ Transient = {}
  BY DEF Init, Reliable, Transient
<1>2. CountsMatch
  BY <1>1, FS_EmptySet DEF Init, CountsMatch
<1>3. TypeOK
  <2>1. DOMAIN offer = {}
    BY DEF Init
  <2>2. {reliable, transient} \subseteq 0..Cardinality(info) /\ depth \in 0..MaxQosDepth
    <3>1. Cardinality(info) = 0
      BY FS_EmptySet DEF Init
    <3> QED
      BY <3>1, QosAssumption DEF Init
  <2> QED
    BY <2>1, <2>2 DEF Init, TypeOK
<1>4. DepthMatches
  <2>1. info \ left = {} /\ depth = 0
    BY DEF Init
  <2> QED
    BY <2>1, NoPlaces DEF DepthMatches
<1> QED
  BY <1>2, <1>3, <1>4 DEF Init, QosInvariant, MatchesItsPublishers, StrongestProfile,
                          DepthOfAll

LEMMA QosStep == QosInvariant /\ [Next]_vars => QosInvariant'
<1> SUFFICES ASSUME QosInvariant, [Next]_vars PROVE QosInvariant'
  OBVIOUS
<1>1. ASSUME NEW p \in Publishers, NEW r \in BOOLEAN, NEW t \in BOOLEAN,
             NEW d \in Depths, PublisherComes(p, r, t, d)
      PROVE  QosInvariant'
  <2> DEFINE new == [reliable |-> r, transientLocal |-> t, depth |-> d]
  <2>1. new \in Profiles
    BY QosAssumption, Zenon DEF Profiles
  <2> HIDE DEF new
  <2>2. /\ p \notin DOMAIN offer /\ here' = here \union {p}
        /\ offer' = [q \in DOMAIN offer \union {p} |-> IF q = p THEN new ELSE offer[q]]
        /\ UNCHANGED <<locals, subs>>
    BY <1>1 DEF PublisherComes, new
  <2> QED
    BY <2>1, <2>2, GraphStep DEF QosInvariant, TypeOK
<1>2. ASSUME NEW p \in Publishers, PublisherGoes(p) PROVE QosInvariant'
  BY <1>2, GraphStep DEF PublisherGoes, QosInvariant, TypeOK
<1>3. CASE UNCHANGED vars
  BY <1>3, GraphStep DEF vars, graph, QosInvariant, TypeOK
<1> QED
  BY <1>1, <1>2, <1>3, CountStep, QueryStep, CreateStep DEF Next

\* A subscription misses only the publishers that came after the query of
\* subscribeHandler, whatever comes and goes while its loop counts: it matches
\* all it was made for.
THEOREM QosMissesOnlyLatePublishers == Spec => []MissesOnlyLatePublishers
<1>1. QosInvariant => MissesOnlyLatePublishers
  BY DEF QosInvariant, MatchesItsPublishers, MissesOnlyLatePublishers
<1> QED
  BY <1>1, QosInit, QosStep, PTL DEF Spec

\* A subscription asks for a policy that all publishers it was made for offer.
THEOREM QosStrongestProfile == Spec => []StrongestProfile
<1>1. QosInvariant => StrongestProfile
  BY DEF QosInvariant
<1> QED
  BY <1>1, QosInit, QosStep, PTL DEF Spec

\* The depth asked for is the sum of the depths of all publishers it was made for,
\* within the limit and at least 1, though the loop cuts off its sum in every
\* iteration.
THEOREM QosDepthOfAll == Spec => []DepthOfAll
<1>1. QosInvariant => DepthOfAll
  BY DEF QosInvariant
<1> QED
  BY <1>1, QosInit, QosStep, PTL DEF Spec
=============================================================================
