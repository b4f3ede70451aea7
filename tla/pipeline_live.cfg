\* One stream, failures that end it while picom goes on presenting.
CONSTANTS
    Streams = {s1}
    MaxBuffers = 2
    Failures = {"trigger", "format", "alloc", "fence"}
    None = None
SPECIFICATION FairSpec
INVARIANT ErrorsWillBeSeen
PROPERTIES AddBufferAnswered CloseCompletes ErroredReaped FrameDelivered
CHECK_DEADLOCK FALSE
