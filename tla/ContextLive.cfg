\* Two calls, every kind of answer, without symmetry: liveness.
CONSTANTS
    VolumeLoaded = TRUE
    call1 = call1
    call2 = call2
    call3 = call3
    StateData = StateData
    EventData = EventData
    Nil = Nil
    Call = {call1, call2}
    Data = {call1, call2, StateData, EventData}
    Stranger = {}
    Ref = {r1, r2, r3, r4}
    StateFn = {listen}
    Request <- Answers
SPECIFICATION FairSpec
PROPERTIES
    CallsConclude
    ConnectConcludes
\* The program may end, and a Context may be collected.
CHECK_DEADLOCK FALSE
