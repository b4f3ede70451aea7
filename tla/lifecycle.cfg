\* Two picoms on a display, one after the other or at the same time.
CONSTANTS
    Picoms = {p1, p2}
    MayFail = TRUE
    None = None
SYMMETRY PicomSymmetry
SPECIFICATION Spec
INVARIANTS ContextLifetime SocketServed CookieBeforeSocket
\* All picoms are gone.
CHECK_DEADLOCK FALSE
