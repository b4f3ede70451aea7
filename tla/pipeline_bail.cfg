\* A present fails while the pipewire thread adds a buffer.
CONSTANTS
    Streams = {s1}
    MaxBuffers = 1
    Failures = {"present"}
    None = None
SPECIFICATION FairSpec
PROPERTY AddBufferAnswered
CHECK_DEADLOCK FALSE
