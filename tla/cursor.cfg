\* Three cursors, five changes; the thread may fail and the plugin may unload.
CONSTANTS
    Serials = {c1, c2, c3}
    MaxChanges = 5
    MayFail = TRUE
    None = None
SPECIFICATION FairSpec
INVARIANTS CurrentKnown ImagesTrue UpToDate TexturesAlive
PROPERTY CursorFollows
\* Without a plugin or a thread nothing happens.
CHECK_DEADLOCK FALSE
