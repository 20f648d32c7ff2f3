---------------------------- MODULE EventBroker ----------------------------
(***************************************************************************)
(* The in-memory event broker (broker.go) and the WebSocket handlers that  *)
(* stream from it (events.go, EventStream).  Subscribe, Unsubscribe and    *)
(* Close hold the write lock for a few assignments, and are one step each, *)
(* when no publisher holds the read lock.  Publish holds the read lock     *)
(* from the moment it collects the channels until it has sent to the last  *)
(* one: several publishers send, and the streams receive, concurrently.    *)
(*                                                                         *)
(* Abstractions.  A stream makes one subscription, so the channel has its  *)
(* name.  The table and the view of an event, which Topic treats alike,    *)
(* are its item.  An event counts as one of the channel until it has been  *)
(* written: the handler that is writing it holds it in the code.           *)
(***************************************************************************)
EXTENDS Naturals, Sequences, FiniteSets

CONSTANTS
    Streams,     \* the WebSocket connections
    Publishers,  \* the requests that publish events
    Events,      \* the events they publish
    Topics,      \* the topics of the streams and of the events
    Subscriptions, \* the topics that each stream may ask for
    Join(_, _),  \* namespace + "/" + item, which may be the name of a namespace too
    BufferSize,  \* the capacity of a channel
    MaxEvents,   \* how many events a publisher publishes
    None         \* an absent field

Everything == "*"

\* CatalogEvent.Topic
Topic(e) ==
    IF e.item # None THEN Join(e.namespace, e.item)
    ELSE IF e.namespace # None THEN e.namespace ELSE Everything

ASSUME BrokerAssumption ==
    /\ BufferSize \in Nat /\ MaxEvents \in Nat
    /\ Everything \in Topics /\ Subscriptions \in [Streams -> SUBSET Topics]
    /\ None \notin Events /\ None \notin Topics
    /\ \A e \in Events : Topic(e) \in Topics /\ e.namespace \in Topics \cup {None}

VARIABLES
    subscribers, \* the open channels of each topic
    closed,      \* whether the broker has been closed
    chan,        \* each channel: not made, open or closed
    buffer,      \* what is in it
    phase,       \* where the handler of each stream stands
    topic,       \* the topic it subscribes to
    gone,        \* whether its client has disconnected
    stalled,     \* whether its client is there and does not read: a write to it blocks
    received,    \* the events written to the client
    pub,         \* whether each publisher is in Publish
    event,       \* the event it publishes
    todo,        \* the channels it has collected and not sent to, in its three groups
    count,       \* how many events it has published
    lost,        \* the events dropped at each full channel
    panicked     \* a send on a closed channel, or a second close

brokerVars == <<subscribers, closed>>
streamVars == <<phase, topic, gone, stalled, received>>
publisherVars == <<pub, event, todo, count, lost>>
vars == <<brokerVars, chan, buffer, streamVars, publisherVars, panicked>>

Init ==
    /\ subscribers = [t \in Topics |-> {}]
    /\ closed = FALSE
    /\ chan = [s \in Streams |-> "none"]
    /\ buffer = [s \in Streams |-> <<>>]
    /\ phase = [s \in Streams |-> "connect"]
    /\ topic = [s \in Streams |-> Everything]
    /\ gone = [s \in Streams |-> FALSE]
    /\ stalled = [s \in Streams |-> FALSE]
    /\ received = [s \in Streams |-> <<>>]
    /\ pub = [p \in Publishers |-> "idle"]
    /\ event = [p \in Publishers |-> None]
    /\ todo = [p \in Publishers |-> <<>>]
    /\ count = [p \in Publishers |-> 0]
    /\ lost = [s \in Streams |-> {}]
    /\ panicked = FALSE

\* No publisher holds the read lock.
LockIgnored == TRUE

LockIsFree == \A p \in Publishers : pub[p] = "idle"

----------------------------------------------------------------------------
(***************************************************************************)
(* The streams                                                             *)
(***************************************************************************)
\* EventStream refuses a client that does not authenticate.
Refuse(s) ==
    /\ phase[s] = "connect"
    /\ phase' = [phase EXCEPT ![s] = "ended"]
    /\ UNCHANGED <<brokerVars, chan, buffer, topic, gone, stalled, received, publisherVars, panicked>>

\* Broker.Subscribe; nil of a closed broker ends the handler.
Subscribe(s, t) ==
    /\ phase[s] = "connect" /\ LockIsFree
    /\ topic' = [topic EXCEPT ![s] = t]
    /\ \/ /\ closed
          /\ phase' = [phase EXCEPT ![s] = "ended"]
          /\ UNCHANGED <<subscribers, chan>>
       \/ /\ ~closed
          /\ phase' = [phase EXCEPT ![s] = "confirm"]
          /\ chan' = [chan EXCEPT ![s] = "open"]
          /\ subscribers' = [subscribers EXCEPT ![t] = @ \cup {s}]
    /\ UNCHANGED <<closed, buffer, gone, stalled, received, publisherVars, panicked>>

\* The confirmation is written; if that fails, the deferred Unsubscribe is next.
\* The connection has no write deadline.
ConfirmWithoutDefer(s) ==
    /\ phase[s] = "confirm" /\ ~stalled[s]
    /\ \E next \in {"stream", "ended"} : phase' = [phase EXCEPT ![s] = next]
    /\ UNCHANGED <<brokerVars, chan, buffer, topic, gone, stalled, received, publisherVars, panicked>>

Confirm(s) ==
    /\ phase[s] = "confirm" /\ ~stalled[s]
    /\ \E next \in {"stream", "unsubscribe"} : phase' = [phase EXCEPT ![s] = next]
    /\ UNCHANGED <<brokerVars, chan, buffer, topic, gone, stalled, received, publisherVars, panicked>>

\* The client goes away; the goroutine that reads from it closes done.
Disconnect(s) ==
    /\ phase[s] \in {"confirm", "stream"} /\ ~gone[s]
    /\ gone' = [gone EXCEPT ![s] = TRUE]
    /\ stalled' = [stalled EXCEPT ![s] = FALSE]
    /\ UNCHANGED <<brokerVars, chan, buffer, phase, topic, received, publisherVars, panicked>>

\* The client no longer reads, or reads again.
Stall(s) ==
    /\ phase[s] \in {"confirm", "stream"} /\ ~gone[s]
    /\ stalled' = [stalled EXCEPT ![s] = ~@]
    /\ UNCHANGED <<brokerVars, chan, buffer, phase, topic, gone, received, publisherVars, panicked>>

\* An event is taken from the channel and written, or the write fails.
Deliver(s) ==
    /\ phase[s] = "stream" /\ buffer[s] # <<>> /\ ~stalled[s]
    /\ buffer' = [buffer EXCEPT ![s] = Tail(@)]
    /\ \/ /\ received' = [received EXCEPT ![s] = Append(@, Head(buffer[s]))]
          /\ UNCHANGED phase
       \/ /\ phase' = [phase EXCEPT ![s] = "unsubscribe"]
          /\ UNCHANGED received
    /\ UNCHANGED <<brokerVars, chan, topic, gone, stalled, publisherVars, panicked>>

\* The channel is closed and empty, or the client is gone.
Stop(s) ==
    /\ phase[s] = "stream"
    /\ gone[s] \/ (chan[s] = "closed" /\ buffer[s] = <<>>)
    /\ phase' = [phase EXCEPT ![s] = "unsubscribe"]
    /\ UNCHANGED <<brokerVars, chan, buffer, topic, gone, stalled, received, publisherVars, panicked>>

\* Broker.unsubscribe closes a channel that is still registered; the handler
\* returns, which closes the connection.
Unsubscribe(s) ==
    /\ phase[s] = "unsubscribe" /\ LockIsFree
    /\ phase' = [phase EXCEPT ![s] = "ended"]
    /\ gone' = [gone EXCEPT ![s] = TRUE]
    /\ stalled' = [stalled EXCEPT ![s] = FALSE]
    /\ \/ /\ s \in subscribers[topic[s]]
          /\ subscribers' = [subscribers EXCEPT ![topic[s]] = @ \ {s}]
          /\ chan' = [chan EXCEPT ![s] = "closed"]
          /\ panicked' = (panicked \/ chan[s] = "closed")
       \/ /\ s \notin subscribers[topic[s]]
          /\ UNCHANGED <<subscribers, chan, panicked>>
    /\ UNCHANGED <<closed, buffer, topic, received, publisherVars>>

----------------------------------------------------------------------------
(***************************************************************************)
(* The publishers, and the shutdown of the server                          *)
(***************************************************************************)
\* The channels of an event: those of its topic, of its namespace if that is
\* another topic, and of "*".
CollectNamespaceTwice(e) ==
    << subscribers[Topic(e)],
       IF e.namespace # None THEN subscribers[e.namespace] ELSE {},
       subscribers[Everything] >>

CollectExactOrAll(e) == << subscribers[Topic(e)], {}, subscribers[Everything] >>

Collect(e) ==
    << subscribers[Topic(e)],
       IF e.namespace # None /\ Topic(e) # e.namespace THEN subscribers[e.namespace] ELSE {},
       subscribers[Everything] >>

\* The event that a publisher publishes, told apart from its other ones.
Message(p) == [by |-> p, number |-> count[p], event |-> event[p]]

\* Broker.Publish takes the read lock; a closed broker drops the event.
Publish(p, e) ==
    /\ pub[p] = "idle" /\ count[p] < MaxEvents
    /\ count' = [count EXCEPT ![p] = @ + 1]
    /\ \/ /\ closed
          /\ UNCHANGED <<pub, event, todo>>
       \/ /\ ~closed
          /\ pub' = [pub EXCEPT ![p] = "sending"]
          /\ event' = [event EXCEPT ![p] = e]
          /\ todo' = [todo EXCEPT ![p] = Collect(e)]
    /\ UNCHANGED <<brokerVars, chan, buffer, streamVars, lost, panicked>>

\* The next channel: the groups in order, each in the order of a map's keys.
NextChannels(p) ==
    {s \in Streams : \E k \in DOMAIN todo[p] :
                       s \in todo[p][k] /\ \A j \in 1..(k - 1) : todo[p][j] = {}}

Sent(p, s) ==
    LET k == CHOOSE k \in DOMAIN todo[p] : s \in todo[p][k] /\ \A j \in 1..(k - 1) : todo[p][j] = {}
    IN  [todo EXCEPT ![p][k] = @ \ {s}]

HasRoomForOneMore(s) == Len(buffer[s]) <= BufferSize

HasRoom(s) == Len(buffer[s]) < BufferSize

\* A send that does not block: a full channel loses the event.
SendBlocking(p) ==
    /\ pub[p] = "sending"
    /\ \E s \in NextChannels(p) :
         /\ todo' = Sent(p, s)
         /\ HasRoom(s)
         /\ buffer' = [buffer EXCEPT ![s] = Append(@, Message(p))]
    /\ UNCHANGED <<brokerVars, chan, streamVars, pub, event, count, lost, panicked>>

Send(p) ==
    /\ pub[p] = "sending"
    /\ \E s \in NextChannels(p) :
         /\ todo' = Sent(p, s)
         /\ panicked' = (panicked \/ chan[s] = "closed")
         /\ \/ /\ HasRoom(s)
               /\ buffer' = [buffer EXCEPT ![s] = Append(@, Message(p))]
               /\ UNCHANGED lost
            \/ /\ ~HasRoom(s)
               /\ lost' = [lost EXCEPT ![s] = @ \cup {Message(p)}]
               /\ UNCHANGED buffer
    /\ UNCHANGED <<brokerVars, chan, streamVars, pub, event, count>>

\* Publish returns and releases the read lock.
Return(p) ==
    /\ pub[p] = "sending" /\ NextChannels(p) = {}
    /\ pub' = [pub EXCEPT ![p] = "idle"]
    /\ event' = [event EXCEPT ![p] = None]
    /\ todo' = [todo EXCEPT ![p] = <<>>]
    /\ UNCHANGED <<brokerVars, chan, buffer, streamVars, count, lost, panicked>>

\* Broker.Close, which Server.Shutdown calls first.
CloseForgetsChannels ==
    /\ ~closed /\ LockIsFree
    /\ closed' = TRUE
    /\ subscribers' = [t \in Topics |-> {}]
    /\ UNCHANGED <<chan, buffer, streamVars, publisherVars, panicked>>

Close ==
    /\ ~closed /\ LockIsFree
    /\ closed' = TRUE
    /\ chan' = [s \in Streams |-> IF \E t \in Topics : s \in subscribers[t] THEN "closed" ELSE chan[s]]
    /\ subscribers' = [t \in Topics |-> {}]
    /\ UNCHANGED <<buffer, streamVars, publisherVars, panicked>>

----------------------------------------------------------------------------
Handler(s) == Confirm(s) \/ Deliver(s) \/ Stop(s) \/ Unsubscribe(s)

Publisher(p) == Send(p) \/ Return(p)

Next ==
    \/ \E s \in Streams : Handler(s) \/ Refuse(s) \/ Disconnect(s) \/ Stall(s) \/ \E t \in Subscriptions[s] : Subscribe(s, t)
    \/ \E p \in Publishers : Publisher(p) \/ \E e \in Events : Publish(p, e)
    \/ Close

Spec == Init /\ [][Next]_vars

\* A handler that can go on goes on, and so does a Publish: the goroutines are
\* scheduled, and a write ends if the client reads or is gone.  Unsubscribe waits for a lock that
\* every new publisher may take before it, but a pending writer holds new
\* readers back in Go, so that it is scheduled in the end.
FairSpec ==
    /\ Spec
    /\ \A s \in Streams : WF_vars(Confirm(s) \/ Deliver(s) \/ Stop(s)) /\ SF_vars(Unsubscribe(s))
    /\ \A p \in Publishers : WF_vars(Publisher(p))

----------------------------------------------------------------------------
(***************************************************************************)
(* Properties                                                              *)
(***************************************************************************)
Messages == [by : Publishers, number : 1..MaxEvents, event : Events]

\* Every variable has its type, and a buffer stays within its channel's capacity.
TypeOK ==
    /\ subscribers \in [Topics -> SUBSET Streams]
    /\ closed \in BOOLEAN /\ panicked \in BOOLEAN
    /\ chan \in [Streams -> {"none", "open", "closed"}]
    /\ buffer \in [Streams -> Seq(Messages)]
    /\ \A s \in Streams : Len(buffer[s]) <= BufferSize
    /\ phase \in [Streams -> {"connect", "confirm", "stream", "unsubscribe", "ended"}]
    /\ topic \in [Streams -> Topics]
    /\ gone \in [Streams -> BOOLEAN] /\ stalled \in [Streams -> BOOLEAN]
    /\ received \in [Streams -> Seq(Messages)]
    /\ pub \in [Publishers -> {"idle", "sending"}]
    /\ event \in [Publishers -> Events \cup {None}]
    /\ todo \in [Publishers -> Seq(SUBSET Streams)]
    /\ count \in [Publishers -> 0..MaxEvents]
    /\ lost \in [Streams -> SUBSET Messages]

\* No goroutine sends on a closed channel or closes one twice, however publishers,
\* disconnections and the shutdown of the server interleave: a channel that a
\* publisher has collected cannot be closed under it, and a channel that Close
\* has closed is not closed again by the stream's deferred Unsubscribe.
NeverPanics == ~panicked

\* Whatever way a stream ends, its channel is closed and no longer registered.
EndedStreamsHoldNothing ==
    \A s \in Streams : phase[s] = "ended" =>
      chan[s] # "open" /\ \A t \in Topics : s \notin subscribers[t]

\* What a stream of topic t is meant to see.  Where the topic of a table is the
\* name of another namespace, the stream sees the events of both.
Matches(t, e) == t = Everything \/ t = Topic(e) \/ t = e.namespace

Delivered(s) == received[s] \o buffer[s]

\* Publish sends an event of no namespace, or of a namespace with the name "*",
\* twice to those who see everything.
SentTwice(e) == Topic(e) = Everything \/ e.namespace = Everything

\* A client sees only events of the topic it asked for, and each of them once,
\* those apart that are sent twice.
SeenOnceByTopic ==
    \A s \in Streams : \A i \in 1..Len(Delivered(s)) :
      /\ Matches(topic[s], Delivered(s)[i].event)
      /\ ~SentTwice(Delivered(s)[i].event) =>
           \A j \in 1..Len(Delivered(s)) : Delivered(s)[i] = Delivered(s)[j] => i = j

\* When Publish returns, every stream that is subscribed to the event's topic,
\* to its namespace or to everything has the event, or lost it to a full channel.
ReachesEveryMatch ==
    [][\A p \in Publishers : pub[p] = "sending" /\ pub'[p] = "idle" =>
         \A s \in Streams :
           chan[s] = "open" /\ phase[s] # "unsubscribe" /\ Matches(topic[s], event[p]) =>
             \/ \E i \in 1..Len(Delivered(s)) : Delivered(s)[i] = Message(p)
             \/ Message(p) \in lost[s]]_vars

\* A request is never held up by a slow or vanished client: Publish returns, and
\* with it the read lock that Unsubscribe and Close wait for.
PublishReturns == \A p \in Publishers : pub[p] = "sending" ~> pub[p] = "idle"

\* After the broker has been closed every stream ends, unless its client stops
\* reading again and again, or for good: nothing limits a write to it.
ShutdownEndsStreams ==
    \A s \in Streams : []<>stalled[s] \/ (closed ~> phase[s] \in {"connect", "ended"})
=============================================================================
