------------------------- MODULE EventBrokerProofs -------------------------
(***************************************************************************)
(* Proofs about EventBroker, for any number of streams, publishers, events *)
(* and topics and channels of any capacity: no goroutine panics, streams   *)
(* that have ended hold nothing, and events arrive where they belong.      *)
(***************************************************************************)
EXTENDS EventBroker, SequenceTheorems, TLAPS

----------------------------------------------------------------------------
(***************************************************************************)
(* The inductive invariant                                                 *)
(***************************************************************************)
\* A channel is registered, under the topic of its stream and no other, exactly
\* as long as it is open.
Registered ==
    \A s \in Streams :
      /\ \A t \in Topics : s \in subscribers[t] => t = topic[s] /\ chan[s] = "open"
      /\ chan[s] = "open" => s \in subscribers[topic[s]]
      /\ phase[s] = "connect" => chan[s] = "none"
      /\ phase[s] = "ended" => chan[s] # "open"

\* The channels that a publisher has yet to send to are still registered, since
\* it has the read lock.
Collected ==
    \A p \in Publishers : pub[p] = "sending" =>
      /\ event[p] \in Events /\ count[p] \in 1..MaxEvents
      /\ todo[p] \in [1..3 -> SUBSET Streams]
      /\ \A k \in 1..3 : todo[p][k] \subseteq Collect(event[p])[k]

IndInv == TypeOK /\ Registered /\ Collected /\ NeverPanics

\* The facts about the constants that the proofs use.
LEMMA Constants ==
    /\ BufferSize \in Nat /\ MaxEvents \in Nat /\ None \notin Events
    /\ Everything \in Topics /\ None \notin Topics
    /\ \A s \in Streams : Subscriptions[s] \subseteq Topics
    /\ \A e \in Events : /\ Topic(e) \in Topics
                         /\ e.namespace # None => e.namespace \in Topics
  BY BrokerAssumption

\* The groups of channels of an event, and that nothing else is collected.
LEMMA CollectType ==
    ASSUME TypeOK, NEW e \in Events
    PROVE  /\ Collect(e) \in [1..3 -> SUBSET Streams]
           /\ Collect(e) \in Seq(SUBSET Streams)
           /\ \A k \in 1..3 : \A s \in Collect(e)[k] :
                \E t \in Topics : s \in subscribers[t] /\ Matches(t, e)
  <1>1. /\ subscribers[Topic(e)] \subseteq Streams /\ subscribers[Everything] \subseteq Streams
        /\ e.namespace # None => subscribers[e.namespace] \subseteq Streams
    BY Constants DEF TypeOK
  <1> DEFINE second == IF e.namespace # None /\ Topic(e) # e.namespace
                       THEN subscribers[e.namespace] ELSE {}
  <1>2. second \subseteq Streams
    BY <1>1
  <1>3. Collect(e) = <<subscribers[Topic(e)], second, subscribers[Everything]>>
    BY DEF Collect
  <1>4. \A s \in second : e.namespace \in Topics /\ s \in subscribers[e.namespace]
    BY Constants
  <1>5. Matches(Topic(e), e) /\ Matches(Everything, e) /\ Matches(e.namespace, e)
    BY DEF Matches
  <1> HIDE DEF second
  <1>6. /\ Collect(e) \in [1..3 -> SUBSET Streams] /\ Collect(e) \in Seq(SUBSET Streams)
    BY <1>1, <1>2, <1>3
  <1>7. ASSUME NEW k \in 1..3, NEW s \in Collect(e)[k]
        PROVE  \E t \in Topics : s \in subscribers[t] /\ Matches(t, e)
    <2>1. CASE k = 1
      <3>1. s \in subscribers[Topic(e)]
        BY <1>3, <1>7, <2>1
      <3> QED  BY <1>5, <3>1, Constants
    <2>2. CASE k = 2
      <3>1. s \in second
        BY <1>3, <1>7, <2>2
      <3> QED  BY <1>4, <1>5, <3>1
    <2>3. CASE k = 3
      <3>1. s \in subscribers[Everything]
        BY <1>3, <1>7, <2>3
      <3> QED  BY <1>5, <3>1, Constants
    <2> QED  BY <2>1, <2>2, <2>3
  <1> QED  BY <1>6, <1>7

\* A send takes its channel from one of the groups.
LEMMA SentFrom ==
    ASSUME IndInv, NEW p \in Publishers, pub[p] = "sending", NEW s \in NextChannels(p)
    PROVE  \E k \in 1..3 :
             /\ s \in todo[p][k]
             /\ Sent(p, s) = [todo EXCEPT ![p] = [todo[p] EXCEPT ![k] = todo[p][k] \ {s}]]
  <1>1. todo[p] \in [1..3 -> SUBSET Streams] /\ todo \in [Publishers -> Seq(SUBSET Streams)]
    BY DEF IndInv, Collected, TypeOK
  <1> DEFINE From(k) == s \in todo[p][k] /\ \A j \in 1..(k - 1) : todo[p][j] = {}
             j == CHOOSE j \in 1..3 : From(j)
  <1>2. DOMAIN todo[p] = 1..3
    BY <1>1
  <1>3. j \in 1..3 /\ From(j)
    BY <1>2 DEF NextChannels
  <1>4. Sent(p, s) = [todo EXCEPT ![p] = [todo[p] EXCEPT ![j] = todo[p][j] \ {s}]]
    BY <1>1, <1>2 DEF Sent
  <1> QED  BY <1>3, <1>4

\* Nothing is subscribed, collected or sent at first.
LEMMA IndInit == Init => IndInv
  <1> SUFFICES ASSUME Init PROVE IndInv
    OBVIOUS
  <1>1. TypeOK
    <2>1. /\ subscribers \in [Topics -> SUBSET Streams]
          /\ closed \in BOOLEAN /\ panicked \in BOOLEAN
          /\ chan \in [Streams -> {"none", "open", "closed"}]
          /\ phase \in [Streams -> {"connect", "confirm", "stream", "unsubscribe", "ended"}]
          /\ gone \in [Streams -> BOOLEAN] /\ stalled \in [Streams -> BOOLEAN]
          /\ lost \in [Streams -> SUBSET Messages]
          /\ pub \in [Publishers -> {"idle", "sending"}]
          /\ event \in [Publishers -> Events \cup {None}]
      BY DEF Init
    <2>2. topic \in [Streams -> Topics] /\ count \in [Publishers -> 0..MaxEvents]
      BY Constants DEF Init
    <2>3. /\ buffer \in [Streams -> Seq(Messages)] /\ received \in [Streams -> Seq(Messages)]
          /\ todo \in [Publishers -> Seq(SUBSET Streams)]
          /\ \A s \in Streams : Len(buffer[s]) <= BufferSize
      BY Constants DEF Init
    <2> QED  BY <2>1, <2>2, <2>3 DEF TypeOK
  <1>2. Registered /\ Collected /\ NeverPanics
    BY DEF Init, Registered, Collected, NeverPanics
  <1> QED  BY <1>1, <1>2 DEF IndInv

\* What the handler of a stream does outside the broker.
LEMMA HandlerStep ==
    ASSUME IndInv, NEW s \in Streams, Refuse(s) \/ Confirm(s) \/ Disconnect(s) \/ Stall(s) \/ Deliver(s) \/ Stop(s)
    PROVE  IndInv'
  <1> USE DEF IndInv, brokerVars, publisherVars
  <1>1. Registered' /\ Collected' /\ NeverPanics'
    <2>1. /\ UNCHANGED <<subscribers, chan, topic, pub, event, todo, count, panicked>>
          /\ \A r \in Streams : /\ phase'[r] = "connect" => phase[r] = "connect"
                                /\ phase'[r] = "ended" => phase[r] = "ended" \/ chan[r] = "none"
      BY DEF Refuse, Confirm, Disconnect, Stall, Deliver, Stop, TypeOK, Registered
    <2>2. Registered'
      BY <2>1 DEF Registered
    <2>3. Collected'
      BY <2>1 DEF Collected, Collect
    <2>4. NeverPanics'
      BY <2>1, Zenon DEF NeverPanics
    <2> QED  BY <2>2, <2>3, <2>4
  <1>2. CASE Refuse(s) \/ Confirm(s) \/ Disconnect(s) \/ Stall(s) \/ Stop(s)
    <2>1. /\ phase' \in [Streams -> {"connect", "confirm", "stream", "unsubscribe", "ended"}]
          /\ gone' \in [Streams -> BOOLEAN] /\ stalled' \in [Streams -> BOOLEAN]
          /\ UNCHANGED <<subscribers, closed, chan, buffer, topic, received, pub, event, todo,
                         count, lost, panicked>>
      BY <1>2, ZenonT(60) DEF Refuse, Confirm, Disconnect, Stall, Stop, TypeOK
    <2> QED  BY <1>1, <2>1 DEF TypeOK
  <1>3. CASE Deliver(s)
    <2>1. /\ Head(buffer[s]) \in Messages /\ Tail(buffer[s]) \in Seq(Messages)
          /\ Len(Tail(buffer[s])) <= BufferSize
      BY <1>3, HeadTailProperties, LenProperties, Constants DEF Deliver, TypeOK
    <2>2. Append(received[s], Head(buffer[s])) \in Seq(Messages)
      BY <2>1, AppendProperties DEF TypeOK
    <2> QED  BY <1>1, <1>3, <2>1, <2>2, ZenonT(60) DEF Deliver, TypeOK
  <1> QED  BY <1>2, <1>3

\* Subscribe, Unsubscribe and Close have the lock to themselves: no publisher has
\* collected a channel that they register or close.
LEMMA BrokerStep ==
    ASSUME IndInv,
           \/ \E s \in Streams : Unsubscribe(s) \/ \E t \in Subscriptions[s] : Subscribe(s, t)
           \/ Close
    PROVE  IndInv'
  <1> USE DEF IndInv, brokerVars, publisherVars, streamVars
  <1>1. Collected'
    BY DEF Unsubscribe, Subscribe, Close, LockIsFree, Collected
  <1>2. ASSUME NEW s \in Streams, NEW t \in Topics, Subscribe(s, t) PROVE IndInv'
    <2>1. TypeOK'
      <3>1. /\ subscribers' \in [Topics -> SUBSET Streams] /\ topic' \in [Streams -> Topics]
            /\ chan' \in [Streams -> {"none", "open", "closed"}]
            /\ phase' \in [Streams -> {"connect", "confirm", "stream", "unsubscribe", "ended"}]
        <4>1. subscribers' = [subscribers EXCEPT ![t] = @ \cup {s}] \/ subscribers' = subscribers
          BY <1>2 DEF Subscribe
        <4>2. \/ chan' = [chan EXCEPT ![s] = "open"] /\ phase' = [phase EXCEPT ![s] = "confirm"]
              \/ chan' = chan /\ phase' = [phase EXCEPT ![s] = "ended"]
          BY <1>2 DEF Subscribe
        <4>3. topic' = [topic EXCEPT ![s] = t]
          BY <1>2 DEF Subscribe
        <4>4. subscribers' \in [Topics -> SUBSET Streams]
          <5>1. subscribers[t] \cup {s} \in SUBSET Streams
            BY DEF TypeOK
          <5> QED  BY <4>1, <5>1, ZenonT(60) DEF TypeOK
        <4>5. topic' \in [Streams -> Topics]
          BY <4>3 DEF TypeOK
        <4>6. /\ chan' \in [Streams -> {"none", "open", "closed"}]
              /\ phase' \in [Streams -> {"connect", "confirm", "stream", "unsubscribe", "ended"}]
          <5>1. CASE chan' = [chan EXCEPT ![s] = "open"] /\ phase' = [phase EXCEPT ![s] = "confirm"]
            BY <5>1 DEF TypeOK
          <5>2. CASE chan' = chan /\ phase' = [phase EXCEPT ![s] = "ended"]
            BY <5>2 DEF TypeOK
          <5> QED  BY <4>2, <5>1, <5>2
        <4> QED  BY <4>4, <4>5, <4>6
      <3>2. UNCHANGED <<closed, buffer, gone, stalled, received, pub, event, todo, count, lost, panicked>>
        BY <1>2 DEF Subscribe
      <3> QED  BY <3>1, <3>2 DEF TypeOK
    <2>2. Registered'
      BY <1>2 DEF Subscribe, TypeOK, Registered
    <2> QED  BY <1>1, <1>2, <2>1, <2>2 DEF Subscribe, NeverPanics
  <1>3. ASSUME NEW s \in Streams, Unsubscribe(s) PROVE IndInv'
    <2>1. NeverPanics'
      BY <1>3 DEF Unsubscribe, TypeOK, Registered, NeverPanics
    <2>2. TypeOK'
      <3>1. /\ subscribers' \in [Topics -> SUBSET Streams]
            /\ gone' \in [Streams -> BOOLEAN] /\ stalled' \in [Streams -> BOOLEAN]
            /\ chan' \in [Streams -> {"none", "open", "closed"}]
            /\ phase' \in [Streams -> {"connect", "confirm", "stream", "unsubscribe", "ended"}]
        <4>1. \/ subscribers' = [subscribers EXCEPT ![topic[s]] = @ \ {s}]
              \/ subscribers' = subscribers
          BY <1>3 DEF Unsubscribe
        <4>2. /\ chan' = [chan EXCEPT ![s] = "closed"] \/ chan' = chan
              /\ phase' = [phase EXCEPT ![s] = "ended"] /\ gone' = [gone EXCEPT ![s] = TRUE]
              /\ stalled' = [stalled EXCEPT ![s] = FALSE]
          BY <1>3 DEF Unsubscribe
        <4>3. topic[s] \in Topics /\ subscribers[topic[s]] \ {s} \in SUBSET Streams
          BY DEF TypeOK
        <4>4. subscribers' \in [Topics -> SUBSET Streams]
          BY <4>1, <4>3 DEF TypeOK
        <4> QED  BY <4>2, <4>4 DEF TypeOK
      <3>3. UNCHANGED <<closed, buffer, topic, received, pub, event, todo, count, lost>>
        BY <1>3 DEF Unsubscribe
      <3>2. panicked' \in BOOLEAN
        BY <1>3, <2>1 DEF Unsubscribe, TypeOK, NeverPanics
      <3> QED  BY <3>1, <3>2, <3>3 DEF TypeOK
    <2>3. Registered'
      BY <1>3 DEF Unsubscribe, TypeOK, Registered
    <2> QED  BY <1>1, <2>1, <2>2, <2>3
  <1>4. ASSUME Close PROVE IndInv'
    <2>1. TypeOK'
      BY <1>4 DEF Close, TypeOK
    <2>2. Registered'
      BY <1>4 DEF Close, TypeOK, Registered
    <2> QED  BY <1>1, <1>4, <2>1, <2>2 DEF Close, NeverPanics
  <1> QED  BY <1>2, <1>3, <1>4, Constants

\* A publisher sends only to channels that are open.
LEMMA PublisherStep ==
    ASSUME IndInv, NEW p \in Publishers, Publisher(p) \/ \E e \in Events : Publish(p, e)
    PROVE  IndInv'
  <1> USE DEF IndInv, brokerVars, streamVars
  <1>0. UNCHANGED <<subscribers, chan, topic, phase>>
    BY DEF Publisher, Publish, Send, Return
  <1>1. Registered'
    BY <1>0 DEF Registered
  <1>2. ASSUME NEW e \in Events, Publish(p, e) PROVE IndInv'
    <2>1. Collect(e) \in [1..3 -> SUBSET Streams] /\ Collect(e) \in Seq(SUBSET Streams)
      BY CollectType
    <2>2. TypeOK'
      <3>1. /\ pub' \in [Publishers -> {"idle", "sending"}]
            /\ event' \in [Publishers -> Events \cup {None}]
            /\ todo' \in [Publishers -> Seq(SUBSET Streams)]
        <4>1. \/ UNCHANGED <<pub, event, todo>>
              \/ /\ pub' = [pub EXCEPT ![p] = "sending"]
                 /\ event' = [event EXCEPT ![p] = e]
                 /\ todo' = [todo EXCEPT ![p] = Collect(e)]
          BY <1>2 DEF Publish
        <4>2. pub' \in [Publishers -> {"idle", "sending"}]
          BY <4>1 DEF TypeOK
        <4>3. event' \in [Publishers -> Events \cup {None}]
          BY <4>1 DEF TypeOK
        <4>4. todo' \in [Publishers -> Seq(SUBSET Streams)]
          BY <2>1, <4>1 DEF TypeOK
        <4> QED  BY <4>2, <4>3, <4>4
      <3>2. count' \in [Publishers -> 0..MaxEvents]
        BY <1>2, Constants DEF Publish, TypeOK
      <3>3. UNCHANGED <<subscribers, closed, chan, buffer, phase, topic, gone, stalled, received, lost, panicked>>
        BY <1>2 DEF Publish
      <3> QED  BY <3>1, <3>2, <3>3 DEF TypeOK
    <2>3. Collected'
      <3> SUFFICES ASSUME NEW q \in Publishers, pub'[q] = "sending"
                   PROVE  /\ event'[q] \in Events /\ count'[q] \in 1..MaxEvents
                          /\ todo'[q] \in [1..3 -> SUBSET Streams]
                          /\ \A k \in 1..3 : todo'[q][k] \subseteq Collect(event[q])'[k]
        BY DEF Collected
      <3>1. CASE q # p
        <4>1. pub'[q] = pub[q] /\ event'[q] = event[q] /\ count'[q] = count[q] /\ todo'[q] = todo[q]
          BY <1>2, <3>1 DEF Publish, TypeOK
        <4> QED  BY <1>0, <4>1 DEF Collected, Collect
      <3>2. CASE q = p
        <4>1. event'[p] = e /\ todo'[p] = Collect(e)
          BY <1>2, <3>2 DEF Publish, TypeOK
        <4>2. count'[p] \in 1..MaxEvents
          BY <1>2, Constants DEF Publish, TypeOK
        <4>3. Collect(event[p])' = Collect(e)
          BY <1>0, <4>1 DEF Collect
        <4> QED  BY <2>1, <3>2, <4>1, <4>2, <4>3
      <3> QED  BY <3>1, <3>2
    <2> QED  BY <1>1, <1>2, <2>2, <2>3 DEF Publish, NeverPanics
  <1>3. ASSUME Return(p) PROVE IndInv'
    <2>1. TypeOK'
      BY <1>3 DEF Return, TypeOK
    <2>2. Collected'
      BY <1>0, <1>3 DEF Return, TypeOK, Collected, Collect
    <2> QED  BY <1>1, <1>3, <2>1, <2>2 DEF Return, NeverPanics
  <1>4. ASSUME Send(p) PROVE IndInv'
    <2>1. PICK s \in NextChannels(p) :
            /\ todo' = Sent(p, s)
            /\ panicked' = (panicked \/ chan[s] = "closed")
            /\ \/ /\ HasRoom(s)
                  /\ buffer' = [buffer EXCEPT ![s] = Append(@, Message(p))]
                  /\ UNCHANGED lost
               \/ /\ ~HasRoom(s)
                  /\ lost' = [lost EXCEPT ![s] = @ \cup {Message(p)}]
                  /\ UNCHANGED buffer
      BY <1>4 DEF Send
    <2>2. PICK k \in 1..3 :
            /\ s \in todo[p][k]
            /\ todo' = [todo EXCEPT ![p] = [todo[p] EXCEPT ![k] = todo[p][k] \ {s}]]
      BY <1>4, <2>1, SentFrom DEF Send
    <2>3. s \in Streams /\ pub[p] = "sending" /\ event[p] \in Events /\ count[p] \in 1..MaxEvents
          /\ UNCHANGED <<subscribers, closed, chan, phase, topic, gone, stalled, received, pub, event, count>>
      BY <1>4, <2>1 DEF Send, NextChannels, Collected
    <2>4. chan[s] = "open"
      BY <2>2, <2>3, CollectType DEF Registered, Collected
    <2>5. Message(p) \in Messages
      BY <2>3 DEF Message, Messages
    <2>6. /\ [todo[p] EXCEPT ![k] = todo[p][k] \ {s}] \in [1..3 -> SUBSET Streams]
          /\ [todo[p] EXCEPT ![k] = todo[p][k] \ {s}] \in Seq(SUBSET Streams)
      <3>1. todo[p] \in [1..3 -> SUBSET Streams] /\ todo[p] \in Seq(SUBSET Streams)
        BY <2>3 DEF Collected, TypeOK
      <3>2. Len(todo[p]) = 3
        BY <3>1, LenProperties
      <3>3. todo[p][k] \ {s} \in SUBSET Streams
        BY <3>1
      <3>4. [todo[p] EXCEPT ![k] = todo[p][k] \ {s}] \in Seq(SUBSET Streams)
        BY <3>1, <3>2, <3>3, ExceptSeq
      <3> QED  BY <3>1, <3>3, <3>4
    <2>7. buffer' \in [Streams -> Seq(Messages)] /\ \A r \in Streams : Len(buffer'[r]) <= BufferSize
      <3>1. buffer[s] \in Seq(Messages) /\ Len(buffer[s]) \in Nat
        BY <2>3, LenProperties DEF TypeOK
      <3>2. /\ Append(buffer[s], Message(p)) \in Seq(Messages)
            /\ Len(Append(buffer[s], Message(p))) = Len(buffer[s]) + 1
        BY <2>5, <3>1, AppendProperties
      <3>3. CASE buffer' = buffer
        BY <3>3 DEF TypeOK
      <3>4. CASE HasRoom(s) /\ buffer' = [buffer EXCEPT ![s] = Append(buffer[s], Message(p))]
        <4>1. Len(Append(buffer[s], Message(p))) <= BufferSize
          BY <3>1, <3>2, <3>4, Constants DEF HasRoom
        <4> QED  BY <2>3, <3>2, <3>4, <4>1 DEF TypeOK
      <3> QED  BY <2>1, <3>3, <3>4
    <2>8. todo' \in [Publishers -> Seq(SUBSET Streams)]
      BY <2>2, <2>6 DEF TypeOK
    <2>9. lost' \in [Streams -> SUBSET Messages]
      <3>1. lost[s] \cup {Message(p)} \in SUBSET Messages
        BY <2>3, <2>5 DEF TypeOK
      <3> QED  BY <2>1, <2>3, <3>1 DEF TypeOK
    <2>10. NeverPanics' /\ panicked' \in BOOLEAN
      BY <2>1, <2>4 DEF NeverPanics
    <2>11. TypeOK'
      BY <2>3, <2>7, <2>8, <2>9, <2>10 DEF TypeOK
    <2>12. Collected'
      BY <1>0, <2>2, <2>3, <2>6 DEF TypeOK, Collected, Collect
    <2> QED  BY <1>1, <2>10, <2>11, <2>12
  <1> QED  BY <1>2, <1>3, <1>4 DEF Publisher

\* One step of one goroutine.
LEMMA IndStep == IndInv /\ [Next]_vars => IndInv'
  <1> SUFFICES ASSUME IndInv, [Next]_vars PROVE IndInv'
    OBVIOUS
  <1>1. CASE UNCHANGED vars
    BY <1>1 DEF vars, brokerVars, streamVars, publisherVars, IndInv, TypeOK, Registered, Collected,
      Collect, NeverPanics
  <1> QED  BY <1>1, HandlerStep, BrokerStep, PublisherStep DEF Next, Handler

\* The inductive invariant.
THEOREM Invariance == Spec => []IndInv
  BY IndInit, IndStep, PTL DEF Spec

\* Every variable has its type, and no buffer outgrows its channel (broker.go).
THEOREM TypeCorrect == Spec => []TypeOK
  <1>1. IndInv => TypeOK
    BY DEF IndInv
  <1> QED  BY <1>1, Invariance, PTL

\* No goroutine ever sends on a closed channel or closes one twice.
THEOREM NoPanic == Spec => []NeverPanics
  <1>1. IndInv => NeverPanics
    BY DEF IndInv
  <1> QED  BY <1>1, Invariance, PTL

\* Whatever way a stream ends, its channel is closed and no longer registered.
THEOREM EndedStreamsAreReleased == Spec => []EndedStreamsHoldNothing
  <1>1. IndInv => EndedStreamsHoldNothing
    BY DEF IndInv, Registered, EndedStreamsHoldNothing
  <1> QED  BY <1>1, Invariance, PTL

----------------------------------------------------------------------------
(***************************************************************************)
(* Sequences of messages                                                   *)
(***************************************************************************)
Holds(q, m) == \E i \in 1..Len(q) : q[i] = m

\* What a stream of topic t may have been given.
IsFineFor(q, t) ==
    \A i \in 1..Len(q) :
      /\ Matches(t, q[i].event)
      /\ ~SentTwice(q[i].event) => \A j \in 1..Len(q) : q[i] = q[j] => i = j

\* Every message is one that its publisher has begun to publish.
IsNumbered(q, n) == \A i \in 1..Len(q) : q[i].number <= n[q[i].by]

\* A stream takes an event from its channel and writes it: nothing is lost or
\* reordered on the way.
LEMMA MoveHead ==
    ASSUME NEW S, NEW r \in Seq(S), NEW b \in Seq(S), b # <<>>
    PROVE  Append(r, Head(b)) \o Tail(b) = r \o b
  <1>1. Head(b) \in S /\ Tail(b) \in Seq(S) /\ <<Head(b)>> \in Seq(S)
    BY HeadTailProperties
  <1>2. Append(r, Head(b)) = r \o <<Head(b)>>
    BY <1>1, AppendIsConcat
  <1>3. (r \o <<Head(b)>>) \o Tail(b) = r \o (<<Head(b)>> \o Tail(b))
    BY <1>1, ConcatAssociative
  <1>4. <<Head(b)>> \o Tail(b) = b
    <2>1. /\ <<Head(b)>> \o Tail(b) \in Seq(S)
          /\ Len(<<Head(b)>> \o Tail(b)) = 1 + Len(Tail(b))
          /\ \A i \in 1..(1 + Len(Tail(b))) :
               (<<Head(b)>> \o Tail(b))[i] = IF i <= 1 THEN <<Head(b)>>[i] ELSE Tail(b)[i - 1]
      BY <1>1, ConcatProperties
    <2>2. Len(b) \in Nat \ {0} /\ Len(Tail(b)) = Len(b) - 1
      BY HeadTailProperties, EmptySeq
    <2>3. \A i \in 1..Len(Tail(b)) : Tail(b)[i] = b[i + 1]
      BY HeadTailProperties
    <2>4. Head(b) = b[1]
      BY <2>2
    <2>5. \A i \in 1..Len(b) : (<<Head(b)>> \o Tail(b))[i] = b[i]
      BY <2>1, <2>2, <2>3, <2>4
    <2> QED  BY <2>1, <2>2, <2>5, SeqEqual
  <1> QED  BY <1>2, <1>3, <1>4

\* A send puts its message last.
LEMMA AppendLast ==
    ASSUME NEW S, NEW r \in Seq(S), NEW b \in Seq(S), NEW m \in S
    PROVE  r \o Append(b, m) = Append(r \o b, m)
  <1>1. <<m>> \in Seq(S) /\ r \o b \in Seq(S)
    BY ConcatProperties
  <1> QED  BY <1>1, AppendIsConcat, ConcatAssociative

\* An event whose write fails is dropped from the middle.
LEMMA DropHead ==
    ASSUME NEW S, NEW r \in Seq(S), NEW b \in Seq(S), b # <<>>
    PROVE  /\ r \o b \in Seq(S) /\ r \o Tail(b) \in Seq(S)
           /\ Len(r \o Tail(b)) = Len(r \o b) - 1
           /\ \A i \in 1..Len(r \o Tail(b)) :
                (r \o Tail(b))[i] = (r \o b)[IF i <= Len(r) THEN i ELSE i + 1]
  <1>1. /\ Tail(b) \in Seq(S) /\ Len(b) \in Nat \ {0} /\ Len(Tail(b)) = Len(b) - 1
        /\ \A i \in 1..Len(Tail(b)) : Tail(b)[i] = b[i + 1]
    BY HeadTailProperties, EmptySeq
  <1>2. Len(r) \in Nat
    BY LenProperties
  <1>3. /\ r \o b \in Seq(S) /\ Len(r \o b) = Len(r) + Len(b)
        /\ \A i \in 1..(Len(r) + Len(b)) : (r \o b)[i] = IF i <= Len(r) THEN r[i] ELSE b[i - Len(r)]
    BY ConcatProperties
  <1>4. /\ r \o Tail(b) \in Seq(S) /\ Len(r \o Tail(b)) = Len(r) + Len(Tail(b))
        /\ \A i \in 1..(Len(r) + Len(Tail(b))) :
             (r \o Tail(b))[i] = IF i <= Len(r) THEN r[i] ELSE Tail(b)[i - Len(r)]
    BY <1>1, ConcatProperties
  <1>5. ASSUME NEW i \in 1..Len(r \o Tail(b))
        PROVE  (r \o Tail(b))[i] = (r \o b)[IF i <= Len(r) THEN i ELSE i + 1]
    <2>1. CASE i <= Len(r)
      BY <1>1, <1>2, <1>3, <1>4, <2>1
    <2>2. CASE i > Len(r)
      <3>1. i - Len(r) \in 1..Len(Tail(b)) /\ i + 1 \in 1..(Len(r) + Len(b))
        BY <1>1, <1>2, <1>4, <2>2
      <3>2. (r \o Tail(b))[i] = b[i - Len(r) + 1]
        BY <1>1, <1>2, <1>4, <2>2, <3>1
      <3>3. (r \o b)[i + 1] = b[i + 1 - Len(r)]
        BY <1>2, <1>3, <2>2, <3>1
      <3> QED  BY <1>2, <2>2, <3>2, <3>3
    <2> QED  BY <1>2, <2>1, <2>2
  <1> QED  BY <1>1, <1>2, <1>3, <1>4, <1>5

\* What one more message does.
LEMMA OneMore ==
    ASSUME NEW q \in Seq(Messages), NEW m \in Messages, NEW t, NEW n \in [Publishers -> Nat]
    PROVE  /\ \A x : Holds(Append(q, m), x) <=> Holds(q, x) \/ x = m
           /\ /\ IsFineFor(q, t) /\ Matches(t, m.event)
              /\ ~SentTwice(m.event) => ~Holds(q, m)
              => IsFineFor(Append(q, m), t)
           /\ IsNumbered(q, n) /\ m.number <= n[m.by] => IsNumbered(Append(q, m), n)
  <1>1. /\ Len(q) \in Nat /\ Len(Append(q, m)) = Len(q) + 1
        /\ \A i \in 1..Len(q) : Append(q, m)[i] = q[i]
        /\ Append(q, m)[Len(q) + 1] = m
    BY AppendProperties, LenProperties
  <1> DEFINE a == Append(q, m)
  <1>2. \A i \in 1..(Len(q) + 1) : i = Len(q) + 1 \/ i \in 1..Len(q)
    BY <1>1
  <1>3. \A i \in 1..Len(q) : i \in 1..(Len(q) + 1)
    BY <1>1
  <1>4. Len(q) + 1 \in 1..(Len(q) + 1)
    BY <1>1
  <1> HIDE DEF a
  <1>5. /\ Len(a) = Len(q) + 1 /\ a[Len(q) + 1] = m
        /\ \A i \in 1..Len(q) : a[i] = q[i]
    BY <1>1 DEF a
  <1>6. \A x : Holds(a, x) <=> Holds(q, x) \/ x = m
    BY <1>2, <1>3, <1>4, <1>5 DEF Holds
  <1>7. ASSUME IsFineFor(q, t), Matches(t, m.event), ~SentTwice(m.event) => ~Holds(q, m)
        PROVE  IsFineFor(a, t)
    <2> SUFFICES ASSUME NEW i \in 1..(Len(q) + 1)
                 PROVE  /\ Matches(t, a[i].event)
                        /\ ~SentTwice(a[i].event) =>
                             \A j \in 1..(Len(q) + 1) : a[i] = a[j] => i = j
      BY <1>5 DEF IsFineFor
    <2>1. CASE i \in 1..Len(q)
      <3>1. a[i] = q[i] /\ Matches(t, a[i].event)
        BY <1>5, <1>7, <2>1 DEF IsFineFor
      <3>2. ASSUME ~SentTwice(a[i].event), NEW j \in 1..(Len(q) + 1), a[i] = a[j] PROVE i = j
        <4>1. CASE j \in 1..Len(q)
          BY <1>5, <1>7, <2>1, <3>1, <3>2, <4>1 DEF IsFineFor
        <4>2. CASE j = Len(q) + 1
          <5>1. q[i] = m
            BY <1>5, <3>1, <3>2, <4>2
          <5>2. Holds(q, m)
            BY <2>1, <5>1 DEF Holds
          <5> QED  BY <1>7, <3>1, <3>2, <5>1, <5>2
        <4> QED  BY <1>2, <4>1, <4>2
      <3> QED  BY <3>1, <3>2
    <2>2. CASE i = Len(q) + 1
      <3>1. a[i] = m /\ Matches(t, a[i].event)
        BY <1>5, <1>7, <2>2
      <3>2. ASSUME ~SentTwice(a[i].event), NEW j \in 1..Len(q), a[i] = a[j] PROVE FALSE
        <4>1. Holds(q, m)
          BY <1>5, <3>1, <3>2 DEF Holds
        <4> QED  BY <1>7, <3>1, <3>2, <4>1
      <3> QED  BY <1>2, <2>2, <3>1, <3>2
    <2> QED  BY <1>2, <2>1, <2>2
  <1>8. ASSUME IsNumbered(q, n), m.number <= n[m.by] PROVE IsNumbered(a, n)
    BY <1>2, <1>5, <1>8 DEF IsNumbered
  <1> QED  BY <1>6, <1>7, <1>8 DEF a

\* What one message less does.
LEMMA OneLess ==
    ASSUME NEW q, NEW k, Len(q) \in Nat, Len(k) = Len(q) - 1, NEW h \in Nat, NEW t, NEW n,
           \A i \in 1..Len(k) : k[i] = q[IF i <= h THEN i ELSE i + 1]
    PROVE  /\ \A x : Holds(k, x) => Holds(q, x)
           /\ IsFineFor(q, t) => IsFineFor(k, t)
           /\ IsNumbered(q, n) => IsNumbered(k, n)
  <1> DEFINE f(i) == IF i <= h THEN i ELSE i + 1
  <1>1. \A i \in 1..Len(k) : f(i) \in 1..Len(q) /\ k[i] = q[f(i)]
    OBVIOUS
  <1>2. \A i, j \in 1..Len(k) : f(i) = f(j) => i = j
    OBVIOUS
  <1> HIDE DEF f
  <1>3. \A x : Holds(k, x) => Holds(q, x)
    BY <1>1 DEF Holds
  <1>4. IsFineFor(q, t) => IsFineFor(k, t)
    BY <1>1, <1>2, SMTT(30) DEF IsFineFor
  <1>5. IsNumbered(q, n) => IsNumbered(k, n)
    BY <1>1 DEF IsNumbered
  <1> QED  BY <1>3, <1>4, <1>5

----------------------------------------------------------------------------
(***************************************************************************)
(* Events arrive where they belong                                         *)
(***************************************************************************)
\* A stream that has not subscribed has been given nothing; what one has been
\* given is fine for its topic.
Given ==
    \A s \in Streams :
      /\ phase[s] = "connect" => received[s] = <<>> /\ buffer[s] = <<>>
      /\ IsFineFor(Delivered(s), topic[s]) /\ IsNumbered(Delivered(s), count)

\* A channel that is yet to be sent to does not have the message, and is to be
\* sent to once.
Pending ==
    \A p \in Publishers : pub[p] = "sending" /\ ~SentTwice(event[p]) =>
      \A s \in Streams : \A k \in 1..3 : s \in todo[p][k] =>
        /\ ~Holds(Delivered(s), Message(p))
        /\ \A j \in 1..3 : s \in todo[p][j] => j = k

\* A stream that an event is for has it, has lost it, or is yet to be sent to.
Reached ==
    \A p \in Publishers : pub[p] = "sending" =>
      \A s \in Streams :
        chan[s] = "open" /\ phase[s] # "unsubscribe" /\ Matches(topic[s], event[p]) =>
          \/ \E k \in 1..3 : s \in todo[p][k]
          \/ Holds(Delivered(s), Message(p))
          \/ Message(p) \in lost[s]

DeliveryInv == IndInv /\ Given /\ Pending /\ Reached

\* What is delivered are messages.
LEMMA DeliveredType ==
    ASSUME TypeOK, NEW s \in Streams
    PROVE  /\ Delivered(s) \in Seq(Messages) /\ Len(Delivered(s)) \in Nat
           /\ received[s] \in Seq(Messages) /\ buffer[s] \in Seq(Messages)
  <1>1. received[s] \in Seq(Messages) /\ buffer[s] \in Seq(Messages)
    BY DEF TypeOK
  <1>2. Delivered(s) \in Seq(Messages)
    BY <1>1, ConcatProperties DEF Delivered
  <1> QED  BY <1>1, <1>2, LenProperties

\* The groups of an event that is not sent twice have no channel in common,
\* since a channel is registered under one topic.
LEMMA OneGroup ==
    ASSUME IndInv, NEW e \in Events, ~SentTwice(e), NEW s \in Streams,
           NEW j \in 1..3, NEW k \in 1..3, s \in Collect(e)[j], s \in Collect(e)[k]
    PROVE  j = k
  <1>1. \A t, u \in Topics : s \in subscribers[t] /\ s \in subscribers[u] => t = u
    BY DEF IndInv, Registered
  <1>2. Topic(e) \in Topics /\ Everything \in Topics
        /\ (e.namespace # None => e.namespace \in Topics)
    BY Constants
  <1>3. Topic(e) # Everything /\ e.namespace # Everything
    BY DEF SentTwice
  <1>a. s \in Collect(e)[1] <=> s \in subscribers[Topic(e)]
    BY DEF Collect
  <1>b. s \in Collect(e)[2] <=> /\ e.namespace # None /\ Topic(e) # e.namespace
                               /\ s \in subscribers[e.namespace]
    BY DEF Collect
  <1>c. s \in Collect(e)[3] <=> s \in subscribers[Everything]
    BY DEF Collect
  <1>4. ~(s \in Collect(e)[1] /\ s \in Collect(e)[2])
    BY <1>1, <1>2, <1>a, <1>b
  <1>5. ~(s \in Collect(e)[1] /\ s \in Collect(e)[3])
    BY <1>1, <1>2, <1>3, <1>a, <1>c
  <1>6. ~(s \in Collect(e)[2] /\ s \in Collect(e)[3])
    BY <1>1, <1>2, <1>3, <1>b, <1>c
  <1> QED  BY <1>4, <1>5, <1>6

\* No channel that an event is for is left out.
LEMMA NoneLeftOut ==
    ASSUME IndInv, NEW e \in Events, NEW s \in Streams, chan[s] = "open", Matches(topic[s], e)
    PROVE  \E k \in 1..3 : s \in Collect(e)[k]
  <1>1. s \in subscribers[topic[s]] /\ topic[s] \in Topics
    BY DEF IndInv, Registered, TypeOK
  <1>2. CASE topic[s] = Everything
    <2>1. s \in Collect(e)[3]
      BY <1>1, <1>2 DEF Collect
    <2> QED  BY <2>1
  <1>3. CASE topic[s] = e.namespace
    <2>1. e.namespace # None
      BY <1>1, <1>3, Constants
    <2>2. s \in Collect(e)[1] \/ s \in Collect(e)[2]
      BY <1>1, <1>3, <2>1 DEF Collect
    <2> QED  BY <2>2
  <1>4. CASE topic[s] = Topic(e)
    <2>1. s \in Collect(e)[1]
      BY <1>1, <1>4 DEF Collect
    <2> QED  BY <2>1
  <1> QED  BY <1>2, <1>3, <1>4 DEF Matches

\* Steps that deliver nothing and publish nothing.
LEMMA QuietStep ==
    ASSUME DeliveryInv, IndInv',
           UNCHANGED <<buffer, received, topic, pub, event, todo, count, lost>>,
           \A s \in Streams :
             /\ phase'[s] = "connect" => phase[s] = "connect"
             /\ chan'[s] = "open" /\ phase'[s] # "unsubscribe" =>
                  chan[s] = "open" /\ phase[s] # "unsubscribe"
    PROVE  DeliveryInv'
  <1>1. Given'
    BY DEF DeliveryInv, Given, Delivered
  <1>2. Pending'
    BY DEF DeliveryInv, Pending, Delivered, Message
  <1>3. Reached'
    BY DEF DeliveryInv, Reached, Delivered, Message
  <1> QED  BY <1>1, <1>2, <1>3 DEF DeliveryInv

\* A subscription begins with nothing, and while nobody publishes.
LEMMA SubscribeDelivers ==
    ASSUME DeliveryInv, IndInv', NEW s \in Streams, NEW t \in Topics, Subscribe(s, t)
    PROVE  DeliveryInv'
  <1>1. /\ UNCHANGED <<buffer, received, pub, event, todo, count, lost>>
        /\ topic' = [topic EXCEPT ![s] = t] /\ phase[s] = "connect" /\ LockIsFree
        /\ \E next \in {"ended", "confirm"} : phase' = [phase EXCEPT ![s] = next]
    BY DEF Subscribe, publisherVars
  <1>2. Delivered(s) = <<>>
    BY <1>1 DEF DeliveryInv, Given, Delivered
  <1>3. Given'
    <2> SUFFICES ASSUME NEW r \in Streams
                 PROVE  /\ phase'[r] = "connect" => received'[r] = <<>> /\ buffer'[r] = <<>>
                        /\ IsFineFor(Delivered(r)', topic'[r]) /\ IsNumbered(Delivered(r)', count')
      BY DEF Given
    <2>1. Delivered(r)' = Delivered(r)
      BY <1>1 DEF Delivered
    <2>2. CASE r = s
      <3>1. IsFineFor(Delivered(r), topic'[r])
        BY <1>2, <2>2 DEF IsFineFor
      <3> QED  BY <1>1, <2>1, <3>1 DEF DeliveryInv, Given, IndInv, TypeOK
    <2>3. CASE r # s
      BY <1>1, <2>1, <2>3 DEF DeliveryInv, Given, IndInv, TypeOK
    <2> QED  BY <2>2, <2>3
  <1>4. Pending' /\ Reached'
    BY <1>1 DEF LockIsFree, Pending, Reached
  <1> QED  BY <1>3, <1>4 DEF DeliveryInv

\* An event that is written stays delivered; one whose write fails ends the
\* stream, which nobody counts on from then on.
LEMMA DeliverDelivers ==
    ASSUME DeliveryInv, IndInv', NEW s \in Streams, Deliver(s)
    PROVE  DeliveryInv'
  <1>0. IndInv /\ TypeOK /\ Given /\ Pending /\ Reached
    BY DEF DeliveryInv, IndInv
  <1>1. /\ UNCHANGED <<chan, topic, pub, event, todo, count, lost>>
        /\ phase[s] = "stream" /\ buffer[s] # <<>>
        /\ buffer' = [buffer EXCEPT ![s] = Tail(@)]
    BY DEF Deliver, publisherVars
  <1>2. \A r \in Streams : r # s => Delivered(r)' = Delivered(r) /\ phase'[r] = phase[r]
    BY <1>0 DEF Deliver, Delivered, TypeOK
  <1>3. received[s] \in Seq(Messages) /\ buffer[s] \in Seq(Messages)
        /\ Len(Delivered(s)) \in Nat /\ Len(received[s]) \in Nat
    BY <1>0, DeliveredType, LenProperties
  <1>4. /\ IsFineFor(Delivered(s)', topic[s]) /\ IsNumbered(Delivered(s)', count)
        /\ \A x : Holds(Delivered(s)', x) => Holds(Delivered(s), x)
        /\ phase'[s] # "connect"
        /\ phase'[s] # "unsubscribe" => Delivered(s)' = Delivered(s) /\ phase'[s] = phase[s]
    <2>1. CASE received' = [received EXCEPT ![s] = Append(@, Head(buffer[s]))] /\ UNCHANGED phase
      <3>1. Delivered(s)' = Append(received[s], Head(buffer[s])) \o Tail(buffer[s])
        BY <1>0, <1>1, <2>1 DEF Delivered, TypeOK
      <3>2. Delivered(s)' = Delivered(s)
        BY <1>1, <1>3, <3>1, MoveHead DEF Delivered
      <3> QED  BY <1>0, <1>1, <2>1, <3>2 DEF Given
    <2>2. CASE phase' = [phase EXCEPT ![s] = "unsubscribe"] /\ UNCHANGED received
      <3>1. Delivered(s)' = received[s] \o Tail(buffer[s]) /\ Delivered(s) = received[s] \o buffer[s]
        BY <1>0, <1>1, <2>2 DEF Delivered, TypeOK
      <3>2. /\ Len(Delivered(s)') = Len(Delivered(s)) - 1
            /\ \A i \in 1..Len(Delivered(s)') :
                 Delivered(s)'[i] = Delivered(s)[IF i <= Len(received[s]) THEN i ELSE i + 1]
        <4> DEFINE r == received[s]
                   b == buffer[s]
        <4>1. r \in Seq(Messages) /\ b \in Seq(Messages) /\ b # <<>>
          BY <1>1, <1>3
        <4> HIDE DEF r, b
        <4>2. /\ Len(r \o Tail(b)) = Len(r \o b) - 1
              /\ \A i \in 1..Len(r \o Tail(b)) :
                   (r \o Tail(b))[i] = (r \o b)[IF i <= Len(r) THEN i ELSE i + 1]
          BY <4>1, DropHead
        <4>3. Delivered(s)' = r \o Tail(b) /\ Delivered(s) = r \o b
          BY <3>1 DEF r, b
        <4>4. Len(received[s]) = Len(r)
          BY DEF r
        <4> QED  BY <4>2, <4>3, <4>4
      <3>3. IsFineFor(Delivered(s), topic[s]) /\ IsNumbered(Delivered(s), count)
        BY <1>0 DEF Given
      <3>4. /\ \A x : Holds(Delivered(s)', x) => Holds(Delivered(s), x)
            /\ IsFineFor(Delivered(s)', topic[s]) /\ IsNumbered(Delivered(s)', count)
        BY <1>3, <3>2, <3>3, OneLess
      <3> QED  BY <1>0, <2>2, <3>4 DEF TypeOK
    <2> QED  BY <2>1, <2>2 DEF Deliver
  <1>5. Given'
    <2>1. \A r \in Streams : r # s => buffer'[r] = buffer[r] /\ received'[r] = received[r]
      BY <1>0 DEF Deliver, TypeOK
    <2> QED  BY <1>0, <1>1, <1>2, <1>4, <2>1 DEF Given
  <1>6. \A p \in Publishers : Message(p)' = Message(p)
    BY <1>1 DEF Message
  <1>7. Pending'
    BY <1>0, <1>1, <1>2, <1>4, <1>6 DEF Pending
  <1>8. Reached'
    BY <1>0, <1>1, <1>2, <1>4, <1>6 DEF Reached
  <1> QED  BY <1>5, <1>7, <1>8 DEF DeliveryInv

\* A publisher begins: its message is new, and goes to all whom it is for.
LEMMA PublishDelivers ==
    ASSUME DeliveryInv, IndInv', NEW p \in Publishers, NEW e \in Events, Publish(p, e)
    PROVE  DeliveryInv'
  <1>0. IndInv /\ TypeOK /\ Given /\ Pending /\ Reached
    BY DEF DeliveryInv, IndInv
  <1>1. /\ UNCHANGED <<chan, buffer, phase, topic, received, lost>>
        /\ pub[p] = "idle" /\ count' = [count EXCEPT ![p] = @ + 1]
    BY DEF Publish, streamVars
  <1>2. \A s \in Streams : Delivered(s)' = Delivered(s)
    BY <1>1 DEF Delivered
  <1>3. count \in [Publishers -> Nat] /\ count'[p] = count[p] + 1
        /\ \A q \in Publishers : count[q] <= count'[q]
    BY <1>0, <1>1, Constants DEF TypeOK
  <1>4. \A s \in Streams : \A i \in 1..Len(Delivered(s)) :
          /\ Delivered(s)[i].number \in Nat /\ Delivered(s)[i].by \in Publishers
          /\ Delivered(s)[i].number <= count[Delivered(s)[i].by]
    <2>1. \A s \in Streams : \A i \in 1..Len(Delivered(s)) : Delivered(s)[i] \in Messages
      BY <1>0, DeliveredType, ElementOfSeq
    <2> QED  BY <1>0, <2>1, Constants DEF Messages, Given, IsNumbered
  <1>5. Given'
    <2>1. \A s \in Streams : IsNumbered(Delivered(s), count')
      <3> SUFFICES ASSUME NEW s \in Streams, NEW i \in 1..Len(Delivered(s))
                   PROVE  Delivered(s)[i].number <= count'[Delivered(s)[i].by]
        BY DEF IsNumbered
      <3> DEFINE m == Delivered(s)[i]
      <3>1. m.number \in Nat /\ m.by \in Publishers /\ m.number <= count[m.by]
        BY <1>4
      <3>2. count[m.by] \in Nat /\ count'[m.by] \in Nat /\ count[m.by] <= count'[m.by]
        BY <1>1, <1>3, <3>1
      <3> HIDE DEF m
      <3>3. m.number <= count'[m.by]
        BY <3>1, <3>2
      <3> QED  BY <3>3 DEF m
    <2> QED  BY <1>0, <1>1, <1>2, <2>1 DEF Given
  <1>6. CASE UNCHANGED <<pub, event, todo>>
    <2>1. \A q \in Publishers : pub'[q] = "sending" => q # p /\ Message(q)' = Message(q)
      BY <1>0, <1>1, <1>6 DEF Message, TypeOK
    <2>2. Pending'
      BY <1>0, <1>2, <1>6, <2>1 DEF Pending
    <2>3. Reached'
      BY <1>0, <1>1, <1>2, <1>6, <2>1 DEF Reached
    <2> QED  BY <1>5, <2>2, <2>3 DEF DeliveryInv
  <1>7. CASE /\ pub' = [pub EXCEPT ![p] = "sending"]
             /\ event' = [event EXCEPT ![p] = e]
             /\ todo' = [todo EXCEPT ![p] = Collect(e)]
    <2>1. \A q \in Publishers : q # p =>
            /\ pub'[q] = pub[q] /\ event'[q] = event[q] /\ todo'[q] = todo[q]
            /\ Message(q)' = Message(q)
      BY <1>0, <1>1, <1>7 DEF TypeOK, Message
    <2>2. pub'[p] = "sending" /\ event'[p] = e /\ todo'[p] = Collect(e)
      BY <1>0, <1>7 DEF TypeOK
    <2>3. \A s \in Streams : ~Holds(Delivered(s), Message(p)')
      <3>1. Message(p)'.by = p /\ Message(p)'.number = count[p] + 1
        BY <1>3 DEF Message
      <3> SUFFICES ASSUME NEW s \in Streams, NEW i \in 1..Len(Delivered(s)),
                          Delivered(s)[i] = Message(p)'
                   PROVE  FALSE
        BY DEF Holds
      <3>2. count[p] + 1 <= count[p]
        BY <1>4, <3>1
      <3> QED  BY <1>3, <3>2
    <2>4. Pending'
      <3>1. \A s \in Streams : \A j, k \in 1..3 :
              ~SentTwice(e) /\ s \in Collect(e)[k] /\ s \in Collect(e)[j] => j = k
        BY <1>0, OneGroup
      <3>2. ASSUME NEW q \in Publishers, pub'[q] = "sending", ~SentTwice(event'[q]),
                   NEW s \in Streams, NEW k \in 1..3, s \in todo'[q][k]
            PROVE  /\ ~Holds(Delivered(s)', Message(q)')
                   /\ \A j \in 1..3 : s \in todo'[q][j] => j = k
        <4>1. CASE q = p
          BY <1>2, <2>2, <2>3, <3>1, <3>2, <4>1
        <4>2. CASE q # p
          BY <1>0, <1>2, <2>1, <3>2, <4>2 DEF Pending
        <4> QED  BY <4>1, <4>2
      <3> QED  BY <3>2 DEF Pending
    <2>5. Reached'
      <3>1. \A s \in Streams : chan[s] = "open" /\ Matches(topic[s], e) =>
              \E k \in 1..3 : s \in Collect(e)[k]
        BY <1>0, NoneLeftOut
      <3>2. ASSUME NEW q \in Publishers, pub'[q] = "sending", NEW s \in Streams,
                   chan'[s] = "open", phase'[s] # "unsubscribe", Matches(topic'[s], event'[q])
            PROVE  \/ \E k \in 1..3 : s \in todo'[q][k]
                   \/ Holds(Delivered(s)', Message(q)')
                   \/ Message(q)' \in lost'[s]
        <4>1. CASE q = p
          BY <1>1, <2>2, <3>1, <3>2, <4>1
        <4>2. CASE q # p
          BY <1>0, <1>1, <1>2, <2>1, <3>2, <4>2 DEF Reached
        <4> QED  BY <4>1, <4>2
      <3> QED  BY <3>2 DEF Reached
    <2> QED  BY <1>5, <2>4, <2>5 DEF DeliveryInv
  <1> QED  BY <1>6, <1>7 DEF Publish

\* Publish returns.
LEMMA ReturnDelivers ==
    ASSUME DeliveryInv, IndInv', NEW p \in Publishers, Return(p)
    PROVE  DeliveryInv'
  <1>0. TypeOK /\ Given /\ Pending /\ Reached
    BY DEF DeliveryInv, IndInv
  <1>1. /\ UNCHANGED <<chan, buffer, phase, topic, received, count, lost>>
        /\ \A q \in Publishers : pub'[q] = "sending" =>
             pub[q] = "sending" /\ event'[q] = event[q] /\ todo'[q] = todo[q]
    BY <1>0 DEF Return, streamVars, TypeOK
  <1>2. \A s \in Streams : Delivered(s)' = Delivered(s)
    BY <1>1 DEF Delivered
  <1>3. \A q \in Publishers : pub'[q] = "sending" => Message(q)' = Message(q)
    BY <1>1 DEF Message
  <1>4. Given'
    BY <1>0, <1>1, <1>2 DEF Given
  <1>5. Pending'
    BY <1>0, <1>1, <1>2, <1>3 DEF Pending
  <1>6. Reached'
    BY <1>0, <1>1, <1>2, <1>3 DEF Reached
  <1> QED  BY <1>4, <1>5, <1>6 DEF DeliveryInv

\* A publisher sends its message to a channel that does not have it yet, or the
\* channel is full and loses it.
LEMMA SendDelivers ==
    ASSUME DeliveryInv, IndInv', NEW p \in Publishers, Send(p)
    PROVE  DeliveryInv'
  <1>0. IndInv /\ TypeOK /\ Registered /\ Collected /\ Given /\ Pending /\ Reached
    BY DEF DeliveryInv, IndInv
  <1>1. PICK s \in NextChannels(p) :
          /\ todo' = Sent(p, s)
          /\ \/ /\ buffer' = [buffer EXCEPT ![s] = Append(@, Message(p))]
                /\ UNCHANGED lost
             \/ /\ lost' = [lost EXCEPT ![s] = @ \cup {Message(p)}]
                /\ UNCHANGED buffer
    BY DEF Send
  <1>2. /\ s \in Streams /\ pub[p] = "sending" /\ event[p] \in Events
        /\ count[p] \in 1..MaxEvents /\ todo[p] \in [1..3 -> SUBSET Streams]
        /\ UNCHANGED <<chan, phase, topic, received, pub, event, count>>
    BY <1>0, <1>1 DEF Send, streamVars, NextChannels, Collected
  <1>3. PICK k \in 1..3 :
          /\ s \in todo[p][k]
          /\ todo' = [todo EXCEPT ![p] = [todo[p] EXCEPT ![k] = todo[p][k] \ {s}]]
    BY <1>0, <1>1, <1>2, SentFrom
  <1>4. Message(p) \in Messages /\ \A q \in Publishers : Message(q)' = Message(q)
    BY <1>2 DEF Message, Messages
  <1>5. chan[s] = "open" /\ Matches(topic[s], event[p])
    <2>1. s \in Collect(event[p])[k]
      BY <1>0, <1>2, <1>3 DEF Collected
    <2>2. PICK t \in Topics : s \in subscribers[t] /\ Matches(t, event[p])
      BY <1>0, <1>2, <2>1, CollectType
    <2> QED  BY <1>0, <1>2, <2>2 DEF Registered
  <1>6. \A q \in Publishers : q # p => todo'[q] = todo[q]
    BY <1>0, <1>3 DEF TypeOK
  <1>7. /\ \A j \in 1..3 : todo'[p][j] = IF j = k THEN todo[p][j] \ {s} ELSE todo[p][j]
    BY <1>0, <1>2, <1>3 DEF TypeOK
  <1>8. ~SentTwice(event[p]) =>
          /\ ~Holds(Delivered(s), Message(p))
          /\ \A j \in 1..3 : s \notin todo'[p][j]
    BY <1>0, <1>2, <1>3, <1>7 DEF Pending
  <1>9. \A q \in Publishers : Message(q) = Message(p) => q = p
    BY DEF Message
  <1>10. /\ \A r \in Streams : r # s => Delivered(r)' = Delivered(r)
         /\ \A r \in Streams : received'[r] = received[r] /\ (r # s => buffer'[r] = buffer[r])
         /\ \A r \in Streams : \A x : x \in lost[r] => x \in lost'[r]
    BY <1>0, <1>1, <1>2 DEF Delivered, TypeOK
  <1>11. /\ IsFineFor(Delivered(s)', topic[s]) /\ IsNumbered(Delivered(s)', count)
         /\ \A x : Holds(Delivered(s), x) => Holds(Delivered(s)', x)
         /\ \A x : Holds(Delivered(s)', x) => Holds(Delivered(s), x) \/ x = Message(p)
         /\ Holds(Delivered(s)', Message(p)) \/ Message(p) \in lost'[s]
    <2>1. IsFineFor(Delivered(s), topic[s]) /\ IsNumbered(Delivered(s), count)
      BY <1>0, <1>2 DEF Given
    <2>2. CASE buffer' = [buffer EXCEPT ![s] = Append(@, Message(p))] /\ UNCHANGED lost
      <3>1. /\ received[s] \in Seq(Messages) /\ buffer[s] \in Seq(Messages)
            /\ Delivered(s) \in Seq(Messages) /\ count \in [Publishers -> Nat]
        BY <1>0, <1>2, DeliveredType, Constants, SMTT(30) DEF TypeOK
      <3>2. Delivered(s)' = received[s] \o Append(buffer[s], Message(p))
        BY <1>0, <1>2, <2>2 DEF Delivered, TypeOK
      <3>3. Delivered(s)' = Append(Delivered(s), Message(p))
        <4> DEFINE r == received[s]
                   b == buffer[s]
        <4>1. r \in Seq(Messages) /\ b \in Seq(Messages)
          BY <3>1
        <4> HIDE DEF r, b
        <4>2. r \o Append(b, Message(p)) = Append(r \o b, Message(p))
          BY <1>4, <4>1, AppendLast
        <4>3. Delivered(s)' = r \o Append(b, Message(p)) /\ Delivered(s) = r \o b
          BY <3>2 DEF r, b, Delivered
        <4> QED  BY <4>2, <4>3
      <3>4. /\ Message(p).event = event[p]
            /\ Message(p).number <= count[Message(p).by]
        BY <1>2 DEF Message
      <3> DEFINE m == Message(p)
                 q == Delivered(s)
      <3>5. /\ m \in Messages /\ q \in Seq(Messages) /\ Matches(topic[s], m.event)
            /\ ~SentTwice(m.event) => ~Holds(q, m)
            /\ m.number <= count[m.by] /\ IsFineFor(q, topic[s]) /\ IsNumbered(q, count)
        BY <1>4, <1>5, <1>8, <2>1, <3>1, <3>4
      <3> HIDE DEF m, q
      <3>6. /\ \A x : Holds(Append(q, m), x) <=> Holds(q, x) \/ x = m
            /\ IsFineFor(Append(q, m), topic[s]) /\ IsNumbered(Append(q, m), count)
        BY <3>1, <3>5, OneMore
      <3> QED  BY <3>3, <3>6 DEF m, q
    <2>3. CASE lost' = [lost EXCEPT ![s] = @ \cup {Message(p)}] /\ UNCHANGED buffer
      <3>1. Delivered(s)' = Delivered(s) /\ Message(p) \in lost'[s]
        BY <1>0, <1>2, <2>3 DEF Delivered, TypeOK
      <3> QED  BY <2>1, <3>1
    <2> QED  BY <1>1, <2>2, <2>3
  <1>12. Given'
    <2>1. phase[s] # "connect"
      BY <1>0, <1>2, <1>5 DEF Registered
    <2> QED  BY <1>0, <1>2, <1>10, <1>11, <2>1 DEF Given
  <1>13. Pending'
    <2> SUFFICES ASSUME NEW q \in Publishers, pub[q] = "sending", ~SentTwice(event[q]),
                        NEW r \in Streams, NEW i \in 1..3, r \in todo'[q][i]
                 PROVE  /\ ~Holds(Delivered(r)', Message(q))
                        /\ \A j \in 1..3 : r \in todo'[q][j] => j = i
      BY <1>2, <1>4 DEF Pending
    <2>1. r \in todo[q][i] /\ \A j \in 1..3 : r \in todo'[q][j] => r \in todo[q][j]
      BY <1>6, <1>7
    <2>2. /\ ~Holds(Delivered(r), Message(q))
          /\ \A j \in 1..3 : r \in todo[q][j] => j = i
      BY <1>0, <2>1 DEF Pending
    <2>3. r = s => q # p
      BY <1>8
    <2>4. ~Holds(Delivered(r)', Message(q))
      BY <1>9, <1>10, <1>11, <2>2, <2>3
    <2> QED  BY <2>1, <2>2, <2>4
  <1>14. Reached'
    <2> SUFFICES ASSUME NEW q \in Publishers, pub[q] = "sending", NEW r \in Streams,
                        chan[r] = "open", phase[r] # "unsubscribe", Matches(topic[r], event[q])
                 PROVE  \/ \E i \in 1..3 : r \in todo'[q][i]
                        \/ Holds(Delivered(r)', Message(q))
                        \/ Message(q) \in lost'[r]
      BY <1>2, <1>4 DEF Reached
    <2>1. CASE q = p /\ r = s
      BY <1>11, <2>1
    <2>2. CASE q # p \/ r # s
      <3>1. \A i \in 1..3 : r \in todo[q][i] => r \in todo'[q][i]
        BY <1>6, <1>7, <2>2
      <3>2. Holds(Delivered(r), Message(q)) => Holds(Delivered(r)', Message(q))
        BY <1>10, <1>11
      <3> QED  BY <1>0, <1>10, <3>1, <3>2 DEF Reached
    <2> QED  BY <2>1, <2>2
  <1> QED  BY <1>12, <1>13, <1>14 DEF DeliveryInv

\* Nothing is delivered or published at first.
LEMMA DeliveryInit == Init => DeliveryInv
  <1> SUFFICES ASSUME Init PROVE DeliveryInv
    OBVIOUS
  <1>1. \A s \in Streams : Delivered(s) = <<>> /\ received[s] = <<>> /\ buffer[s] = <<>>
    BY DEF Init, Delivered
  <1>2. Given
    BY <1>1 DEF Given, IsFineFor, IsNumbered
  <1>3. Pending /\ Reached
    BY DEF Init, Pending, Reached
  <1> QED  BY <1>2, <1>3, IndInit DEF DeliveryInv

\* One step of one goroutine.
LEMMA DeliveryStep == DeliveryInv /\ [Next]_vars => DeliveryInv'
  <1> SUFFICES ASSUME DeliveryInv, [Next]_vars PROVE DeliveryInv'
    OBVIOUS
  <1>1. IndInv' /\ TypeOK
    BY IndStep DEF DeliveryInv, IndInv
  <1>2. CASE UNCHANGED vars
    BY <1>1, <1>2, QuietStep DEF vars, streamVars, publisherVars
  <1>3. ASSUME NEW s \in Streams, Refuse(s) \/ Confirm(s) \/ Disconnect(s) \/ Stall(s) \/ Stop(s)
        PROVE  DeliveryInv'
    <2>1. UNCHANGED <<buffer, received, topic, pub, event, todo, count, lost, chan>>
      BY <1>3 DEF Refuse, Confirm, Disconnect, Stall, Stop, publisherVars
    <2>2. \A r \in Streams :
            \/ phase'[r] = phase[r]
            \/ phase'[r] = "unsubscribe"
            \/ phase[r] = "connect" /\ phase'[r] = "ended"
            \/ phase[r] = "confirm" /\ phase'[r] = "stream"
      <3>0. phase \in [Streams -> {"connect", "confirm", "stream", "unsubscribe", "ended"}]
        BY <1>1 DEF TypeOK
      <3>1. CASE Refuse(s)
        BY <3>0, <3>1 DEF Refuse
      <3>2. CASE Confirm(s)
        BY <3>0, <3>2 DEF Confirm
      <3>3. CASE Disconnect(s) \/ Stall(s)
        BY <3>3 DEF Disconnect, Stall
      <3>4. CASE Stop(s)
        BY <3>0, <3>4 DEF Stop
      <3> QED  BY <1>3, <3>1, <3>2, <3>3, <3>4
    <2> QED  BY <1>1, <2>1, <2>2, QuietStep
  <1>4. ASSUME NEW s \in Streams, Unsubscribe(s) PROVE DeliveryInv'
    <2>1. UNCHANGED <<buffer, received, topic, pub, event, todo, count, lost>>
      BY <1>4 DEF Unsubscribe, publisherVars
    <2>2. phase[s] = "unsubscribe" /\ phase'[s] = "ended"
          /\ \A r \in Streams : r # s => phase'[r] = phase[r] /\ chan'[r] = chan[r]
      BY <1>1, <1>4 DEF Unsubscribe, TypeOK
    <2>3. chan'[s] # "open"
      BY <1>1, <2>2 DEF IndInv, Registered
    <2> QED  BY <1>1, <2>1, <2>2, <2>3, QuietStep
  <1>5. CASE Close
    <2>1. UNCHANGED <<buffer, received, topic, pub, event, todo, count, lost, phase>>
      BY <1>5 DEF Close, streamVars, publisherVars
    <2>2. \A s \in Streams : chan'[s] = "open" => chan[s] = "open"
      BY <1>5 DEF Close
    <2> QED  BY <1>1, <2>1, <2>2, QuietStep
  <1>6. ASSUME NEW s \in Streams, NEW t \in Subscriptions[s], Subscribe(s, t) PROVE DeliveryInv'
    <2>1. t \in Topics
      BY Constants
    <2> QED  BY <1>1, <1>6, <2>1, SubscribeDelivers
  <1> QED  BY <1>1, <1>2, <1>3, <1>4, <1>5, <1>6, DeliverDelivers, PublishDelivers, SendDelivers,
              ReturnDelivers DEF Next, Handler, Publisher

\* What every stream has been given, and what is still on its way.
THEOREM DeliveryInvariance == Spec => []DeliveryInv
  BY DeliveryInit, DeliveryStep, PTL DEF Spec

\* A client sees only events of the topic it asked for, and each of them once,
\* those apart that Publish sends twice (broker.go, events.go).
THEOREM SeenOnce == Spec => []SeenOnceByTopic
  <1>1. DeliveryInv => SeenOnceByTopic
    BY DEF DeliveryInv, Given, IsFineFor, SeenOnceByTopic
  <1> QED  BY <1>1, DeliveryInvariance, PTL

\* The three groups are empty when there is no next channel.
LEMMA NothingLeft ==
    ASSUME IndInv, NEW p \in Publishers, pub[p] = "sending", NextChannels(p) = {}
    PROVE  \A k \in 1..3 : todo[p][k] = {}
  <1>1. todo[p] \in [1..3 -> SUBSET Streams] /\ DOMAIN todo[p] = 1..3
    BY DEF IndInv, Collected
  <1>2. ASSUME NEW k \in 1..3, \A j \in 1..(k - 1) : todo[p][j] = {} PROVE todo[p][k] = {}
    BY <1>1, <1>2 DEF NextChannels
  <1>3. todo[p][1] = {}
    BY <1>2
  <1>4. todo[p][2] = {}
    BY <1>2, <1>3
  <1>5. todo[p][3] = {}
    BY <1>2, <1>3, <1>4
  <1> QED  BY <1>3, <1>4, <1>5

\* When Publish returns, every stream that is subscribed to the event's topic,
\* to its namespace or to everything has the event, or lost it to a full channel.
THEOREM EveryMatchIsReached == Spec => ReachesEveryMatch
  <1> DEFINE Arrived ==
        \A p \in Publishers : pub[p] = "sending" /\ pub'[p] = "idle" =>
          \A s \in Streams :
            chan[s] = "open" /\ phase[s] # "unsubscribe" /\ Matches(topic[s], event[p]) =>
              \/ \E i \in 1..Len(Delivered(s)) : Delivered(s)[i] = Message(p)
              \/ Message(p) \in lost[s]
  <1>1. DeliveryInv /\ [Next]_vars => [Arrived]_vars
    <2> SUFFICES ASSUME DeliveryInv, [Next]_vars, NEW p \in Publishers,
                        pub[p] = "sending", pub'[p] = "idle", NEW s \in Streams,
                        chan[s] = "open", phase[s] # "unsubscribe", Matches(topic[s], event[p])
                 PROVE  \/ \E i \in 1..Len(Delivered(s)) : Delivered(s)[i] = Message(p)
                        \/ Message(p) \in lost[s]
      OBVIOUS
    <2>1. IndInv /\ TypeOK
      BY DEF DeliveryInv, IndInv
    <2>2. pub' # pub
      OBVIOUS
    <2>3. \E q \in Publishers : Return(q) \/ \E e \in Events : Publish(q, e)
      BY <2>2 DEF Next, Handler, Publisher, Refuse, Confirm, Disconnect, Stall, Deliver, Stop, Unsubscribe,
         Subscribe, Send, Close, publisherVars, vars
    <2>4. Return(p)
      BY <2>1, <2>3 DEF Return, Publish, TypeOK
    <2>5. \A k \in 1..3 : todo[p][k] = {}
      BY <2>1, <2>4, NothingLeft DEF Return
    <2> QED  BY <2>5 DEF DeliveryInv, Reached, Holds
  <1> QED  BY <1>1, DeliveryInvariance, PTL DEF Spec, ReachesEveryMatch

=============================================================================
