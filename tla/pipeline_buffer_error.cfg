\* insert_fence fails in a present that a CloseStreams overtakes.
CONSTANTS
    Streams = {s1}
    MaxBuffers = 2
    Failures = {"fence"}
    None = None
SPECIFICATION Spec
INVARIANT BufferErrorHandled
CHECK_DEADLOCK FALSE
