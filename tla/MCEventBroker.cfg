\* Two streams, two publishers of an event each, channels of one, fair goroutines.
SPECIFICATION FairSpec
CONSTANTS
    s1 = s1
    s2 = s2
    Streams = {s1, s2}
    Publishers = {p1, p2}
    Events <- AllEvents
    Topics <- AllTopics
    Subscriptions <- MCSubscriptions
    Join <- MCJoin
    BufferSize = 1
    MaxEvents = 1
    None = None
INVARIANTS TypeOK NeverPanics EndedStreamsHoldNothing SeenOnceByTopic
PROPERTIES ReachesEveryMatch PublishReturns ShutdownEndsStreams
CHECK_DEADLOCK FALSE
