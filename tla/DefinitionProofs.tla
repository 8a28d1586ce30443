-------------------------- MODULE DefinitionProofs --------------------------
(***************************************************************************)
(* The walk of get_full_text returns a self-contained schema, for any      *)
(* number of definitions and any dependencies between them.                *)
(***************************************************************************)
EXTENDS MessageDefinitionCache, FiniteSetTheorems, SequenceTheorems, TLAPS

\* A call is in progress.
Walking == pc \in {"load", "walk"}

\* The dependencies that were come across in the current format.
Asked == {n \in Names : Id(n) \in seen}

\* Between two calls nothing is left of the last one, and what was seen before
\* the walk began again is in the format that is given up.
CallsApart ==
  /\ ~Walking => seen = {} /\ stack = <<>>
  /\ format = "MSG" => \A id \in seen : id.format = "MSG"

\* The result is the definition of the root and, once each, those of the
\* dependencies come across; the last of them may still have to be loaded.
ResultIsAsked ==
  Walking =>
    /\ result = <<>> => pc = "load" /\ target = root /\ stack = <<>> /\ Asked = {}
    /\ result # <<>> =>
         /\ result[1] = root /\ stack # <<>>
         /\ pc = "load" => /\ target \in Asked
                           /\ \A i \in 2..Len(result) : result[i] # target
         /\ \A n \in Asked : \/ pc = "load" /\ n = target
                             \/ \E i \in 2..Len(result) : result[i] = n
         /\ \A i \in 2..Len(result) : result[i] \in Asked
    /\ \A i, j \in 2..Len(result) : result[i] = result[j] => i = j

\* A dependency of a definition in the result has been come across, or a call on
\* the stack will.
NothingForgotten ==
  Walking =>
    \A i \in 1..Len(result) :
      /\ Id(result[i]) \in DOMAIN cache
      /\ \A d \in cache[Id(result[i])] :
           d \in Asked \/ \E k \in 1..Len(stack) : d \in stack[k].left

\* Nothing is come across that the root does not need.
NothingElse ==
  Walking =>
    \A S \in SUBSET Names : IsClosed(S) =>
      /\ Asked \subseteq S
      /\ \A k \in 1..Len(stack) : stack[k].left \subseteq S

\* Their conjunction is inductive.
WalkInvariant ==
  /\ TypeOK
  /\ CallsApart
  /\ ResultIsAsked
  /\ NothingForgotten
  /\ NothingElse
  /\ SelfContained

-----------------------------------------------------------------------------
(* The stack. *)

Frames == [name : Names, left : SUBSET Names]

\* The call on top of the stack, and the stack without it.
LEMMA TopOfStack ==
  ASSUME NEW s \in Seq(Frames), s # <<>>
  PROVE  /\ Len(s) \in Nat \ {0} /\ Last(s) = s[Len(s)] /\ Last(s) \in Frames
         /\ Front(s) \in Seq(Frames) /\ Len(Front(s)) = Len(s) - 1
         /\ \A k \in 1..(Len(s) - 1) : Front(s)[k] = s[k]
<1>1. Len(s) \in Nat \ {0}
  BY EmptySeq
<1>2. \A k \in 1..Len(s) : s[k] \in Frames
  BY ElementOfSeq
<1>3. Last(s) = s[Len(s)] /\ Last(s) \in Frames
  BY <1>1, <1>2 DEF Last
<1>4. /\ SubSeq(s, 1, Len(s) - 1) \in Seq(Frames)
      /\ Len(SubSeq(s, 1, Len(s) - 1)) =
           IF 1 <= Len(s) - 1 THEN (Len(s) - 1) - 1 + 1 ELSE 0
      /\ \A k \in 1..((Len(s) - 1) - 1 + 1) : SubSeq(s, 1, Len(s) - 1)[k] = s[1 + k - 1]
  <2>1. 1 \in Int /\ Len(s) - 1 \in Int /\ \A k \in 1..(Len(s) - 1) : s[k] \in Frames
    BY <1>1, <1>2
  <2> QED
    BY <2>1, SubSeqProperties
<1>5. Front(s) = SubSeq(s, 1, Len(s) - 1)
  BY DEF Front
<1>6. Len(Front(s)) = Len(s) - 1
  <2>1. \A m \in Nat \ {0} : (IF 1 <= m - 1 THEN (m - 1) - 1 + 1 ELSE 0) = m - 1
    OBVIOUS
  <2> QED
    BY <1>1, <1>4, <1>5, <2>1, Zenon
<1>7. ASSUME NEW k \in 1..(Len(s) - 1) PROVE Front(s)[k] = s[k]
  <2>1. k \in 1..((Len(s) - 1) - 1 + 1) /\ 1 + k - 1 = k
    BY <1>1
  <2> QED
    BY <1>4, <1>5, <2>1
<1> QED
  BY <1>1, <1>3, <1>4, <1>5, <1>6, <1>7

\* The stack after the next dependency of the call on top.
LEMMA NextOnTop ==
  ASSUME NEW s \in Seq(Frames), s # <<>>, NEW n
  PROVE  LET t == [s EXCEPT ![Len(s)].left = Left(@, n)]
         IN  /\ t \in Seq(Frames) /\ Len(t) = Len(s)
             /\ \A k \in 1..Len(s) :
                  t[k].left = IF k = Len(s) THEN s[k].left \ {n} ELSE s[k].left
<1> DEFINE e == [s[Len(s)] EXCEPT !.left = Left(@, n)]
           t == [s EXCEPT ![Len(s)].left = Left(@, n)]
<1>1. Len(s) \in 1..Len(s) /\ s[Len(s)] \in Frames
  BY TopOfStack
<1>2. e \in Frames /\ e.left = s[Len(s)].left \ {n}
  BY <1>1 DEF Frames, Left
<1>3. t = [s EXCEPT ![Len(s)] = e]
  OBVIOUS
<1> HIDE DEF e
<1>4. /\ [s EXCEPT ![Len(s)] = e] \in Seq(Frames)
      /\ Len([s EXCEPT ![Len(s)] = e]) = Len(s)
      /\ \A k \in 1..Len(s) :
           [s EXCEPT ![Len(s)] = e][k] = IF k = Len(s) THEN e ELSE s[k]
  BY <1>1, <1>2, ExceptSeq
<1>5. \A k \in 1..Len(s) : t[k] = IF k = Len(s) THEN e ELSE s[k]
  BY <1>3, <1>4, Zenon
<1>6. t \in Seq(Frames) /\ Len(t) = Len(s)
  BY <1>3, <1>4, Zenon
<1> HIDE DEF t
<1>7. \A k \in 1..Len(s) : t[k].left = IF k = Len(s) THEN s[k].left \ {n} ELSE s[k].left
  BY <1>2, <1>5
<1> QED
  BY <1>6, <1>7, Zenon DEF t

-----------------------------------------------------------------------------
(* The steps of the walk. *)

\* Each variable keeps its type.
LEMMA DefinitionTypeStep ==
  ASSUME TypeOK, CallsApart, ResultIsAsked, Next
  PROVE  TypeOK'
<1> USE NamesAssumption DEF TypeOK, Identifiers, Formats, Ends, locals
<1>1. ASSUME NEW deps \in SUBSET Names, Enter(deps)
      PROVE  /\ stack' \in Seq([name : Names, left : SUBSET Names])
             /\ result' \in Seq(Names)
             /\ pc' = "walk" /\ UNCHANGED <<root, format, seen, target>>
  BY <1>1 DEF Enter
<1>2. Id(target) \in Identifiers
  BY DEF Id
<1>3. CASE Found
  BY <1>1, <1>3 DEF Found
<1>4. ASSUME NEW text \in Texts, Read(text) PROVE TypeOK'
  <2>1. Dependencies(text) \in SUBSET Names
    BY DEF Dependencies, Texts
  <2> QED
    BY <1>1, <1>2, <1>4, <2>1 DEF Read
<1>5. CASE NotFound \/ Fails
  <2>1. stack' = <<>> /\ result' = <<>> /\ UNCHANGED <<root, cache>>
    BY <1>5 DEF NotFound, Fails
  <2>2. stack' \in Seq([name : Names, left : SUBSET Names]) /\ result' \in Seq(Names)
    BY <2>1, EmptySeq
  <2>3. /\ pc' \in {"load"} \union Ends /\ format' \in Formats
        /\ target' = root /\ seen' \subseteq Identifiers
    BY <1>5 DEF NotFound, Fails, Leave
  <2> QED
    BY <2>1, <2>2, <2>3
<1>6. ASSUME NEW n \in Names, Dependency(n) PROVE TypeOK'
  <2>1. stack # <<>>
    BY <1>6 DEF Dependency, ResultIsAsked, Walking
  <2>2. stack' \in Seq([name : Names, left : SUBSET Names])
    BY <1>6, <2>1, NextOnTop DEF Dependency, Frames
  <2>3. seen' \subseteq Identifiers
    BY <1>6 DEF Dependency, Seen, Id
  <2> QED
    BY <1>6, <2>2, <2>3 DEF Dependency
<1>7. CASE Return
  <2>1. stack # <<>>
    BY <1>7 DEF Return, ResultIsAsked, Walking
  <2>2. stack' \in Seq([name : Names, left : SUBSET Names])
    BY <1>7, <2>1, TopOfStack DEF Return, Frames
  <2> QED
    BY <1>7, <2>2 DEF Return, Leave
<1>8. ASSUME NEW n \in Names, GetFullText(n) PROVE TypeOK'
  BY <1>8 DEF GetFullText
<1> QED
  BY <1>3, <1>4, <1>5, <1>6, <1>7, <1>8 DEF Next, Steps

\* What is closed under all dependencies is closed under those known before.
LEMMA ClosedBefore ==
  ASSUME TypeOK, UNCHANGED <<root, format>>,
         DOMAIN cache \subseteq DOMAIN cache',
         \A id \in DOMAIN cache : cache'[id] = cache[id],
         NEW S \in SUBSET Names, IsClosed(S)'
  PROVE  IsClosed(S)
<1>1. \A n : Id(n)' = Id(n)
  BY DEF Id
<1>2. \A n : DepsOf(n) \subseteq DepsOf(n)'
  BY <1>1 DEF DepsOf
<1> QED
  BY <1>2 DEF IsClosed

\* A definition is found or read: it is added to the result, and its
\* dependencies are to come.
LEMMA EnterStep ==
  ASSUME WalkInvariant, pc = "load", NEW deps \in SUBSET Names, Enter(deps),
         TypeOK',
         DOMAIN cache \subseteq DOMAIN cache',
         \A id \in DOMAIN cache : cache'[id] = cache[id],
         Id(target) \in DOMAIN cache', cache'[Id(target)] = deps
  PROVE  ResultIsAsked' /\ NothingForgotten' /\ NothingElse'
<1> DEFINE top == [name |-> target, left |-> deps]
<1>1. /\ stack' = Append(stack, top)
      /\ result' = Append(result, target)
      /\ pc' = "walk"
      /\ UNCHANGED <<root, format, seen, target>>
  BY DEF Enter, locals
<1>2. /\ stack \in Seq([name : Names, left : SUBSET Names])
      /\ result \in Seq(Names) /\ target \in Names
      /\ Walking
  BY DEF WalkInvariant, TypeOK, Walking
<1>3. Asked' = Asked /\ \A n : Id(n)' = Id(n)
  BY <1>1 DEF Asked, Id
<1>4. /\ Len(stack') = Len(stack) + 1 /\ Len(stack) \in Nat
      /\ stack'[Len(stack')].left = deps
      /\ \A k \in 1..Len(stack) : stack'[k] = stack[k]
  BY <1>1, <1>2
<1>5. /\ Len(result') = Len(result) + 1 /\ Len(result) \in Nat
      /\ result'[Len(result')] = target
      /\ \A i \in 1..Len(result) : result'[i] = result[i]
  BY <1>1, <1>2
<1> HIDE DEF top
<1>6. ResultIsAsked'
  <2>1. result' # <<>> /\ stack' # <<>> /\ pc' # "load"
    BY <1>1, <1>2
  <2>2. CASE result = <<>>
    <3>1. target = root /\ Asked = {} /\ Len(result) = 0
      BY <1>2, <2>2 DEF WalkInvariant, ResultIsAsked
    <3> QED
      BY <1>1, <1>3, <1>5, <2>1, <3>1 DEF ResultIsAsked
  <2>3. CASE result # <<>>
    <3>1. /\ result[1] = root /\ target \in Asked
          /\ \A i \in 2..Len(result) : result[i] # target /\ result[i] \in Asked
          /\ \A n \in Asked : n = target \/ \E i \in 2..Len(result) : result[i] = n
          /\ \A i, j \in 2..Len(result) : result[i] = result[j] => i = j
      BY <1>2, <2>3 DEF WalkInvariant, ResultIsAsked
    <3>2. Len(result) >= 1
      BY <1>2, <2>3
    <3>3. result'[1] = root'
      BY <1>1, <1>5, <3>1, <3>2
    <3>4. \A i \in 2..Len(result') : result'[i] \in Asked'
      BY <1>3, <1>5, <3>1
    <3>5. ASSUME NEW n \in Asked'
          PROVE  \E i \in 2..Len(result') : result'[i] = n
      <4>1. CASE n = target
        BY <1>5, <3>2, <4>1
      <4>2. ASSUME NEW i \in 2..Len(result), result[i] = n
            PROVE  i \in 2..Len(result') /\ result'[i] = n
        BY <1>5, <4>2
      <4> QED
        BY <1>3, <3>1, <4>1, <4>2
    <3>6. ASSUME NEW i \in 2..Len(result'), NEW j \in 2..Len(result'),
                 result'[i] = result'[j]
          PROVE  i = j
      BY <1>5, <3>1, <3>6
    <3> QED
      BY <2>1, <3>3, <3>4, <3>5, <3>6 DEF ResultIsAsked
  <2> QED
    BY <2>2, <2>3
<1>7. NothingForgotten'
  <2>1. ASSUME NEW i \in 1..Len(result')
        PROVE  /\ Id(result'[i]) \in DOMAIN cache'
               /\ \A d \in cache'[Id(result'[i])] :
                    d \in Asked \/ \E k \in 1..Len(stack') : d \in stack'[k].left
    <3>1. CASE i = Len(result')
      BY <1>4, <1>5, <3>1
    <3>2. CASE i \in 1..Len(result)
      <4>1. /\ Id(result[i]) \in DOMAIN cache
            /\ \A d \in cache[Id(result[i])] :
                 d \in Asked \/ \E k \in 1..Len(stack) : d \in stack[k].left
        BY <1>2, <3>2 DEF WalkInvariant, NothingForgotten
      <4>2. result'[i] = result[i] /\ cache'[Id(result[i])] = cache[Id(result[i])]
        BY <1>5, <3>2, <4>1
      <4>3. \A k \in 1..Len(stack) : k \in 1..Len(stack') /\ stack'[k] = stack[k]
        BY <1>4
      <4> QED
        BY <4>1, <4>2, <4>3
    <3> QED
      BY <1>5, <3>1, <3>2
  <2> QED
    BY <1>3, <2>1 DEF NothingForgotten
<1>8. NothingElse'
  <2>1. ASSUME NEW S \in SUBSET Names, IsClosed(S)'
        PROVE  Asked' \subseteq S /\ \A k \in 1..Len(stack') : stack'[k].left \subseteq S
    <3>1. IsClosed(S)
      BY <1>1, <2>1, ClosedBefore DEF WalkInvariant
    <3>2. Asked \subseteq S /\ \A k \in 1..Len(stack) : stack[k].left \subseteq S
      BY <1>2, <3>1 DEF WalkInvariant, NothingElse
    <3>3. target = root \/ target \in S
      BY <1>2, <3>2 DEF WalkInvariant, ResultIsAsked
    <3>4. DepsOf(target)' = deps
      BY <1>1, <1>3 DEF DepsOf
    <3>5. deps \subseteq S
      <4>1. DepsOf(root)' \subseteq S /\ \A n \in S : DepsOf(n)' \subseteq S
        BY <2>1 DEF IsClosed
      <4>2. root' = root /\ target' = target
        BY <1>1
      <4> QED
        BY <3>3, <3>4, <4>1, <4>2 DEF DepsOf, Id
    <3> QED
      BY <1>3, <1>4, <3>2, <3>5
  <2> QED
    BY <2>1 DEF NothingElse
<1> QED
  BY <1>6, <1>7, <1>8

\* The next dependency of a definition is come across.
LEMMA DependencyStep ==
  ASSUME WalkInvariant, NEW n \in Names, Dependency(n)
  PROVE  CallsApart' /\ ResultIsAsked' /\ NothingForgotten' /\ NothingElse'
<1>1. /\ pc = "walk" /\ Walking /\ pc' \in {"load", "walk"} /\ Walking'
      /\ UNCHANGED <<root, format, result, cache>>
  BY DEF Dependency, Walking
<1>2. /\ stack \in Seq(Frames) /\ result \in Seq(Names) /\ Len(result) \in Nat
      /\ seen \subseteq Identifiers /\ format \in Formats
  BY DEF WalkInvariant, TypeOK, Frames
<1>3. result # <<>> /\ stack # <<>>
  BY <1>1 DEF WalkInvariant, ResultIsAsked
<1>4. /\ Len(stack) \in Nat \ {0} /\ Len(stack') = Len(stack) /\ stack' \in Seq(Frames)
      /\ n \in stack[Len(stack)].left
      /\ \A k \in 1..Len(stack) :
           stack'[k].left = IF k = Len(stack) THEN stack[k].left \ {n} ELSE stack[k].left
  <2>1. stack' = [stack EXCEPT ![Len(stack)].left = Left(@, n)] /\ n \in Last(stack).left
    BY DEF Dependency
  <2>2. Len(stack) \in Nat \ {0} /\ n \in stack[Len(stack)].left
    BY <1>2, <1>3, <2>1, TopOfStack
  <2> QED
    BY <1>2, <1>3, <2>1, <2>2, NextOnTop, Zenon
<1>5. \A m : Id(m)' = Id(m)
  BY <1>1 DEF Id
<1>6. Asked' = Asked \union {n}
  <2>1. seen' = seen \union {Id(n)}
    BY DEF Dependency, Seen
  <2>2. \A m : Id(m) = Id(n) => m = n
    BY DEF Id
  <2> QED
    BY <1>5, <2>1, <2>2 DEF Asked
<1>7. CallsApart'
  <2>1. seen' = seen \union {Id(n)} /\ Id(n).format = format
    BY DEF Dependency, Seen, Id
  <2> QED
    BY <1>1, <2>1 DEF WalkInvariant, CallsApart
<1>8. ResultIsAsked'
  <2>1. /\ result[1] = root
        /\ \A m \in Asked : \E i \in 2..Len(result) : result[i] = m
        /\ \A i \in 2..Len(result) : result[i] \in Asked
        /\ \A i, j \in 2..Len(result) : result[i] = result[j] => i = j
    BY <1>1, <1>3 DEF WalkInvariant, ResultIsAsked
  <2>2. stack' # <<>>
    BY <1>4
  <2>3. CASE IsNew(n)
    <3>1. pc' = "load" /\ target' = n /\ n \notin Asked
      BY <2>3 DEF Dependency, IsNew, Asked
    <3> QED
      BY <1>1, <1>3, <1>6, <2>1, <2>2, <3>1 DEF ResultIsAsked
  <2>4. CASE ~IsNew(n)
    <3>1. pc' = "walk" /\ n \in Asked
      BY <1>1, <2>4 DEF Dependency, IsNew, Asked
    <3> QED
      BY <1>1, <1>3, <1>6, <2>1, <2>2, <3>1 DEF ResultIsAsked
  <2> QED
    BY <2>3, <2>4
<1>9. NothingForgotten'
  <2>1. ASSUME NEW i \in 1..Len(result)
        PROVE  /\ Id(result[i]) \in DOMAIN cache
               /\ \A d \in cache[Id(result[i])] :
                    d \in Asked' \/ \E k \in 1..Len(stack') : d \in stack'[k].left
    <3>1. /\ Id(result[i]) \in DOMAIN cache
          /\ \A d \in cache[Id(result[i])] :
               d \in Asked \/ \E k \in 1..Len(stack) : d \in stack[k].left
      BY <1>1 DEF WalkInvariant, NothingForgotten
    <3>2. ASSUME NEW k \in 1..Len(stack), NEW d \in stack[k].left
          PROVE  d = n \/ (k \in 1..Len(stack') /\ d \in stack'[k].left)
      BY <1>4
    <3> QED
      BY <1>6, <3>1, <3>2
  <2> QED
    BY <1>1, <1>5, <2>1 DEF NothingForgotten
<1>10. NothingElse'
  <2>1. ASSUME NEW S \in SUBSET Names, IsClosed(S)'
        PROVE  Asked' \subseteq S /\ \A k \in 1..Len(stack') : stack'[k].left \subseteq S
    <3>1. IsClosed(S)
      BY <1>1, <2>1, ClosedBefore DEF WalkInvariant
    <3>2. Asked \subseteq S /\ \A k \in 1..Len(stack) : stack[k].left \subseteq S
      BY <1>1, <3>1 DEF WalkInvariant, NothingElse
    <3>3. n \in S
      BY <1>4, <3>2
    <3>4. ASSUME NEW k \in 1..Len(stack') PROVE stack'[k].left \subseteq S
      BY <1>4, <3>2
    <3> QED
      BY <1>6, <3>2, <3>3, <3>4
  <2> QED
    BY <2>1 DEF NothingElse
<1> QED
  BY <1>7, <1>8, <1>9, <1>10

\* A call of append_recursive returns to the one that made it.
LEMMA ReturnStep ==
  ASSUME WalkInvariant, Return, Len(stack) # 1
  PROVE  CallsApart' /\ ResultIsAsked' /\ NothingForgotten' /\ NothingElse'
<1>1. /\ pc = "walk" /\ Walking /\ Walking'
      /\ UNCHANGED <<pc, target, root, format, seen, result, cache>>
  BY DEF Return, Walking
<1>2. stack \in Seq(Frames) /\ result \in Seq(Names)
  BY DEF WalkInvariant, TypeOK, Frames
<1>3. result # <<>> /\ stack # <<>>
  BY <1>1 DEF WalkInvariant, ResultIsAsked
<1>4. /\ Len(stack) \in Nat \ {0} /\ Len(stack') = Len(stack) - 1
      /\ stack' \in Seq(Frames)
      /\ stack[Len(stack)].left = {}
      /\ \A k \in 1..(Len(stack) - 1) : stack'[k] = stack[k]
  BY <1>2, <1>3, TopOfStack DEF Return
<1>5. Asked' = Asked /\ \A m : Id(m)' = Id(m)
  BY <1>1 DEF Asked, Id
<1>6. CallsApart'
  BY <1>1 DEF WalkInvariant, CallsApart
<1>7. ResultIsAsked'
  <2>1. stack' # <<>>
    BY <1>4
  <2> QED
    BY <1>1, <1>3, <1>5, <2>1 DEF WalkInvariant, ResultIsAsked
<1>8. NothingForgotten'
  <2>1. ASSUME NEW k \in 1..Len(stack), NEW d \in stack[k].left
        PROVE  k \in 1..Len(stack') /\ d \in stack'[k].left
    BY <1>4
  <2> QED
    BY <1>1, <1>5, <2>1 DEF WalkInvariant, NothingForgotten
<1>9. NothingElse'
  <2>1. ASSUME NEW S \in SUBSET Names, IsClosed(S)'
        PROVE  Asked' \subseteq S /\ \A k \in 1..Len(stack') : stack'[k].left \subseteq S
    <3>1. IsClosed(S)
      BY <1>1, <2>1, ClosedBefore DEF WalkInvariant
    <3>2. Asked \subseteq S /\ \A k \in 1..Len(stack) : stack[k].left \subseteq S
      BY <1>1, <3>1 DEF WalkInvariant, NothingElse
    <3> QED
      BY <1>4, <1>5, <3>2
  <2> QED
    BY <2>1 DEF NothingElse
<1> QED
  BY <1>6, <1>7, <1>8, <1>9

\* When the first call has come across all its dependencies, what was come
\* across is the closure of the root's dependencies.
LEMMA AskedIsClosure ==
  ASSUME WalkInvariant, pc = "walk", Len(stack) = 1, stack[1].left = {}
  PROVE  /\ result # <<>> /\ result[1] = root
         /\ Closure = {result[i] : i \in 2..Len(result)}
<1>1. Walking /\ result # <<>> /\ result \in Seq(Names) /\ Len(result) \in Nat \ {0}
  <2>1. Walking /\ result # <<>> /\ result \in Seq(Names)
    BY DEF WalkInvariant, Walking, ResultIsAsked, TypeOK
  <2> QED
    BY <2>1, EmptySeq
<1>2. /\ result[1] = root
      /\ \A n \in Asked : \E i \in 2..Len(result) : result[i] = n
      /\ \A i \in 2..Len(result) : result[i] \in Asked
  BY <1>1 DEF WalkInvariant, ResultIsAsked
<1>3. \A i \in 1..Len(result) : DepsOf(result[i]) \subseteq Asked
  <2>1. ASSUME NEW i \in 1..Len(result)
        PROVE  /\ Id(result[i]) \in DOMAIN cache
               /\ \A d \in cache[Id(result[i])] :
                    d \in Asked \/ \E k \in 1..Len(stack) : d \in stack[k].left
    BY <1>1 DEF WalkInvariant, NothingForgotten
  <2>2. \A k \in 1..Len(stack) : stack[k].left = {}
    OBVIOUS
  <2> QED
    BY <2>1, <2>2 DEF DepsOf
<1>4. Asked \in SUBSET Names /\ IsClosed(Asked)
  <2>1. DepsOf(root) \subseteq Asked
    BY <1>1, <1>2, <1>3
  <2>2. ASSUME NEW n \in Asked PROVE DepsOf(n) \subseteq Asked
    <3>1. PICK i \in 2..Len(result) : result[i] = n
      BY <1>2
    <3>2. i \in 1..Len(result)
      BY <1>1
    <3> QED
      BY <1>3, <3>1, <3>2
  <2> QED
    BY <2>1, <2>2 DEF IsClosed, Asked
<1>5. \A S \in SUBSET Names : IsClosed(S) => Asked \subseteq S
  BY <1>1 DEF WalkInvariant, NothingElse
<1>6. Closure = Asked
  BY <1>4, <1>5 DEF Closure
<1> QED
  BY <1>1, <1>2, <1>6

\* The first call returns: the result is the root and then, once each, the
\* types it depends on.
LEMMA LastReturn ==
  ASSUME WalkInvariant, Return, Len(stack) = 1
  PROVE  SelfContained'
<1> DEFINE deps == {result[i] : i \in 2..Len(result)}
           N == Len(result) - 1
           f == [i \in 1..N |-> result[i + 1]]
<1>1. stack[1].left = {} /\ pc = "walk" /\ UNCHANGED <<root, format, result, cache>>
  BY DEF Return, Last
<1>2. result # <<>> /\ result[1] = root /\ Closure = deps
  BY <1>1, AskedIsClosure
<1>3. /\ result \in Seq(Names) /\ Len(result) \in Nat \ {0}
      /\ \A i, j \in 2..Len(result) : result[i] = result[j] => i = j
  <2>1. result \in Seq(Names) /\ Walking
    BY <1>1 DEF WalkInvariant, TypeOK, Walking
  <2> QED
    BY <1>2, <2>1, EmptySeq DEF WalkInvariant, ResultIsAsked
<1>4. Closure' = Closure
  BY <1>1 DEF Closure, IsClosed, DepsOf, Id
<1>5. /\ Tail(result) \in Seq(Names) /\ Len(Tail(result)) = N
      /\ \A i \in 1..N : Tail(result)[i] = result[i + 1]
  BY <1>2, <1>3, HeadTailProperties
<1>6. deps = {result[i + 1] : i \in 1..N}
  <2>1. \A i \in 2..Len(result) : i - 1 \in 1..N /\ (i - 1) + 1 = i
    BY <1>3
  <2>2. \A i \in 1..N : i + 1 \in 2..Len(result)
    BY <1>3
  <2> QED
    BY <2>1, <2>2
<1>7. ToSet(Tail(result)) = deps
  <2>1. DOMAIN Tail(result) = 1..N
    BY <1>5, LenProperties
  <2> QED
    BY <1>5, <1>6, <2>1 DEF ToSet
<1>8. Cardinality(deps) = N
  <2>1. f \in [1..N -> deps] /\ DOMAIN f = 1..N
    BY <1>6
  <2>2. \A t \in deps : \E i \in 1..N : f[i] = t
    BY <1>6
  <2>3. ASSUME NEW i \in 1..N, NEW j \in 1..N, f[i] = f[j] PROVE i = j
    <3>1. i + 1 \in 2..Len(result) /\ j + 1 \in 2..Len(result)
      BY <1>3
    <3>2. i + 1 = j + 1
      BY <1>3, <2>3, <3>1
    <3> QED
      BY <3>2
  <2>4. f \in Bijection(1..N, deps)
    BY <2>1, <2>2, <2>3 DEF Bijection, Injection, Surjection, IsInjective
  <2>5. N \in Nat
    BY <1>3
  <2>6. ExistsBijection(1..N, deps)
    BY <2>4, Zenon DEF ExistsBijection
  <2> HIDE DEF N, deps
  <2> QED
    BY <2>5, <2>6, FS_CountingElements
<1>9. Head(result) = root
  BY <1>2, <1>3
<1> QED
  BY <1>1, <1>2, <1>4, <1>5, <1>7, <1>8, <1>9 DEF SelfContained

-----------------------------------------------------------------------------
(* The theorem. *)

LEMMA WalkInit ==
  Init => WalkInvariant
<1> SUFFICES ASSUME Init PROVE WalkInvariant
  OBVIOUS
<1>1. pc = "idle" /\ ~Walking
  BY DEF Init, Walking
<1>2. TypeOK
  <2>1. <<>> \in Seq(Names) /\ <<>> \in Seq([name : Names, left : SUBSET Names])
    BY EmptySeq
  <2> QED
    BY <2>1 DEF Init, TypeOK, Formats
<1> QED
  BY <1>1, <1>2 DEF WalkInvariant, Init, CallsApart, ResultIsAsked, NothingForgotten,
                    NothingElse, SelfContained

LEMMA WalkStep ==
  WalkInvariant /\ [Next]_vars => WalkInvariant'
<1> SUFFICES ASSUME WalkInvariant, [Next]_vars PROVE WalkInvariant'
  OBVIOUS
<1>1. CASE UNCHANGED vars
  <2>1. UNCHANGED <<pc, root, format, target, stack, seen, result, cache>>
    BY <1>1 DEF vars, locals
  <2>2. /\ Walking' = Walking /\ Asked' = Asked /\ \A n : Id(n)' = Id(n)
        /\ \A S : IsClosed(S)' = IsClosed(S)
    BY <2>1 DEF Walking, Asked, Id, IsClosed, DepsOf
  <2>3. Closure' = Closure
    BY <2>2 DEF Closure
  <2>4. TypeOK' /\ CallsApart'
    BY <2>1, <2>2 DEF WalkInvariant, TypeOK, CallsApart
  <2>5. ResultIsAsked' /\ SelfContained'
    BY <2>1, <2>2, <2>3 DEF WalkInvariant, ResultIsAsked, SelfContained
  <2>6. NothingForgotten' /\ NothingElse'
    BY <2>1, <2>2 DEF WalkInvariant, NothingForgotten, NothingElse
  <2> QED
    BY <2>4, <2>5, <2>6 DEF WalkInvariant
<1>2. ASSUME Next PROVE WalkInvariant'
  <2>1. TypeOK'
    BY <1>2, DefinitionTypeStep DEF WalkInvariant
  \* A definition is found or read.
  <2>2. ASSUME NEW deps \in SUBSET Names, pc = "load", Enter(deps),
               DOMAIN cache \subseteq DOMAIN cache',
               \A id \in DOMAIN cache : cache'[id] = cache[id],
               Id(target) \in DOMAIN cache', cache'[Id(target)] = deps
        PROVE  WalkInvariant'
    <3>1. ResultIsAsked' /\ NothingForgotten' /\ NothingElse'
      BY <2>1, <2>2, EnterStep
    <3>2. pc' = "walk" /\ UNCHANGED <<root, format, seen>>
      BY <2>2 DEF Enter, locals
    <3>3. CallsApart' /\ SelfContained'
      BY <2>2, <3>2 DEF WalkInvariant, CallsApart, Walking, SelfContained
    <3> QED
      BY <2>1, <3>1, <3>3 DEF WalkInvariant
  <2>3. CASE Found
    <3>1. cache[Id(target)] \in SUBSET Names
      BY <2>3 DEF Found, WalkInvariant, TypeOK
    <3> QED
      BY <2>2, <2>3, <3>1 DEF Found
  <2>4. ASSUME NEW text \in Texts, Read(text) PROVE WalkInvariant'
    <3>1. Dependencies(text) \in SUBSET Names
      BY DEF Dependencies, Texts
    <3>2. /\ pc = "load" /\ Enter(Dependencies(text))
          /\ DOMAIN cache' = DOMAIN cache \union {Id(target)}
          /\ \A id \in DOMAIN cache : cache'[id] = cache[id]
          /\ cache'[Id(target)] = Dependencies(text)
      BY <2>4 DEF Read
    <3> QED
      BY <2>2, <3>1, <3>2
  \* One is missing: the walk begins again ...
  <2>5. CASE NotFound /\ format = "MSG"
    <3>1. /\ pc' = "load" /\ Walking' /\ target' = root' /\ format' = "IDL"
          /\ stack' = <<>> /\ result' = <<>> /\ seen' = seen /\ Len(result') = 0
          /\ Len(stack') = 0
      BY <2>5 DEF NotFound, Walking
    <3>2. Asked' = {}
      BY <2>5, <3>1 DEF WalkInvariant, CallsApart, Asked, Id
    <3>3. CallsApart' /\ SelfContained'
      BY <3>1 DEF CallsApart, SelfContained
    <3>4. ResultIsAsked' /\ NothingForgotten' /\ NothingElse'
      BY <3>1, <3>2 DEF ResultIsAsked, NothingForgotten, NothingElse
    <3> QED
      BY <2>1, <3>3, <3>4 DEF WalkInvariant
  \* ... or the call ends without a result.
  <2>6. CASE (NotFound /\ format # "MSG") \/ Fails
    <3>1. /\ pc' \in {"not_found", "failed"} /\ ~Walking'
          /\ seen' = {} /\ stack' = <<>>
      BY <2>6 DEF NotFound, Fails, Leave, Walking
    <3> QED
      BY <2>1, <3>1 DEF WalkInvariant, CallsApart, ResultIsAsked, NothingForgotten,
                        NothingElse, SelfContained
  <2>7. ASSUME NEW n \in Names, Dependency(n) PROVE WalkInvariant'
    <3>1. CallsApart' /\ ResultIsAsked' /\ NothingForgotten' /\ NothingElse'
      BY <2>7, DependencyStep
    <3>2. SelfContained'
      BY <2>7 DEF Dependency, SelfContained
    <3> QED
      BY <2>1, <3>1, <3>2 DEF WalkInvariant
  <2>8. CASE Return /\ Len(stack) # 1
    <3>1. CallsApart' /\ ResultIsAsked' /\ NothingForgotten' /\ NothingElse'
      BY <2>8, ReturnStep
    <3>2. SelfContained'
      BY <2>8 DEF Return, SelfContained
    <3> QED
      BY <2>1, <3>1, <3>2 DEF WalkInvariant
  <2>9. CASE Return /\ Len(stack) = 1
    <3>1. SelfContained'
      BY <2>9, LastReturn
    <3>2. pc' = "returned" /\ ~Walking' /\ seen' = {} /\ format' = format
      BY <2>9 DEF Return, Leave, Walking
    <3>3. stack' = <<>>
      <4>1. stack \in Seq(Frames) /\ stack # <<>>
        BY <2>9 DEF WalkInvariant, TypeOK, Frames, Return, ResultIsAsked, Walking
      <4>2. stack' \in Seq(Frames) /\ Len(stack') = 0
        BY <2>9, <4>1, TopOfStack DEF Return
      <4> QED
        BY <4>2, EmptySeq
    <3> QED
      BY <2>1, <3>1, <3>2, <3>3 DEF WalkInvariant, CallsApart, ResultIsAsked,
                                    NothingForgotten, NothingElse
  \* The next call.
  <2>10. ASSUME NEW n \in Names, GetFullText(n) PROVE WalkInvariant'
    <3>1. /\ pc' = "load" /\ Walking' /\ target' = root' /\ result' = <<>>
          /\ Len(result') = 0 /\ UNCHANGED <<stack, seen>>
      BY <2>10 DEF GetFullText, Walking
    <3>2. seen = {} /\ stack = <<>>
      BY <2>10 DEF GetFullText, Ends, WalkInvariant, CallsApart, Walking
    <3>3. Asked' = {} /\ Len(stack') = 0
      BY <3>1, <3>2 DEF Asked
    <3> QED
      BY <2>1, <3>1, <3>2, <3>3 DEF WalkInvariant, CallsApart, ResultIsAsked,
                                    NothingForgotten, NothingElse, SelfContained
  <2> QED
    BY <1>2, <2>3, <2>4, <2>5, <2>6, <2>7, <2>8, <2>9, <2>10 DEF Next, Steps
<1> QED
  BY <1>1, <1>2

\* What get_full_text returns is the definition of the root and, exactly once
\* each, those of all types it depends on, for any number of types with any,
\* also cyclic, dependencies and whatever reads of the files fail.
THEOREM DefinitionSelfContained ==
  Spec => []SelfContained
<1>1. WalkInvariant => SelfContained
  BY DEF WalkInvariant
<1> QED
  BY <1>1, WalkInit, WalkStep, PTL DEF Spec
=============================================================================
