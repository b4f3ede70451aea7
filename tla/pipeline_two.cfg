\* Two streams side by side, one import each, the failures the plugin survives.
CONSTANTS
    Streams = {s1, s2}
    MaxBuffers = 1
    Failures = {"present", "trigger", "format"}
    None = None
SYMMETRY StreamSymmetry
SPECIFICATION Spec
INVARIANT NeverPanics
CHECK_DEADLOCK FALSE
