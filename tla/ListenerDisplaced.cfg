\* The smallest instance that shows the disagreement: one call.
CONSTANTS
    VolumeLoaded = TRUE
    call1 = call1
    call2 = call2
    call3 = call3
    StateData = StateData
    EventData = EventData
    Nil = Nil
    Call = {call1}
    Data = {call1, StateData, EventData}
    Stranger = {}
    Ref = {r1, r2, r3}
    StateFn = {listen, other}
    Request <- Answers
SPECIFICATION Spec
INVARIANT DialerListens
CHECK_DEADLOCK FALSE
