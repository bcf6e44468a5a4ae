\* Two calls, every kind of request, two listeners, one connection.
CONSTANTS
    VolumeLoaded = TRUE
    call1 = call1
    call2 = call2
    call3 = call3
    StateData = StateData
    EventData = EventData
    Nil = Nil
    Call = {call1, call2}
    Data = {call1, call2, StateData, EventData, stranger}
    Stranger = {stranger}
    Ref = {r1, r2, r3, r4, r5}
    StateFn = {listen, other}
    Request <- Requests
SPECIFICATION Spec
SYMMETRY Symmetry
INVARIANTS
    TypeOK
    AwaitedDataUsable
    StateDataOutlivesTransport
    SlotsAccounted
    AtMostOnce
    PendingNeedsTransport
    WaitersAreServed
    FaultsHaveCauses
    CommandVerdictHeard
    ListenerInformed
PROPERTIES
    FinalIsFinal
    ToldInOrder
    ImplementsAsyncCalls
    ImplementsAnchors
\* The program may end, and a Context may be collected.
CHECK_DEADLOCK FALSE
