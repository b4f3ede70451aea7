\* Two connections at once, up to two rectangles each; PipeWire may fail,
\* one stream may break.
CONSTANTS
    Clients = {c1, c2}
    MaxRects = 2
    MaxBroken = 1
    MayFail = TRUE
    None = None
SPECIFICATION FairSpec
INVARIANTS AnswersInOrder NoMessageStranded ReplyAwaited NoOrphans
PROPERTIES StreamsServed ClientAnswered ConnectionEnds CloseTakesEffect
\* When every client has been served nothing happens any more.
CHECK_DEADLOCK FALSE
