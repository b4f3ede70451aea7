\* PipeWire fails a stream.
CONSTANTS
    Streams = {s1, s2}
    MaxBuffers = 1
    Failures = {"extern"}
    None = None
SPECIFICATION Spec
INVARIANT ErroredStreamRegistered
CHECK_DEADLOCK FALSE
