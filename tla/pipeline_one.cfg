\* One stream, three imports (a buffer set and its replacement), every failure but
\* that of a consumer with fewer buffers.
CONSTANTS
    Streams = {s1}
    MaxBuffers = 3
    Failures <- AllFailures
    None = None
SPECIFICATION Spec
INVARIANTS TypeOK OneInFlight FrameNotLost
           ImportsTracked NodeMapAccurate AssertionsHold
           MessagesWillBeRead BlockedThreadAsked
PROPERTY CyclesInOrder
\* A panic ends the process.
CHECK_DEADLOCK FALSE
