--------------------------- MODULE StreamService ----------------------------
(***************************************************************************)
(* What the plugin's server promises its clients.  A request for streams   *)
(* is granted with all of them, at once, or not at all, and that only when *)
(* the pipewire thread gives up.  A stream that was granted is there until *)
(* some client names it in a CloseStreams or it breaks.  When that thread  *)
(* has given up no stream is closed any more.                              *)
(***************************************************************************)
EXTENDS Naturals

CONSTANTS Clients, MaxRects, MayFail, None

VARIABLES
    wanted,   \* per client: how many streams it has asked for, with the cookie
    answer,   \* per client: "none" yet, "ids", or "ended" without
    broken,   \* the streams that got into state Error by themselves
    named,    \* the streams that CloseStreams requests have named
    live,     \* the streams of granted requests
    service   \* "up", "failing", "gone"

svars == <<wanted, answer, named, broken, live, service>>

IdsOf(c) == {c} \X (1..wanted[c])
Granted == {c \in Clients : answer[c] = "ids"}

Init ==
    /\ wanted = [c \in Clients |-> None] /\ answer = [c \in Clients |-> "none"]
    /\ named = {} /\ broken = {} /\ live = {} /\ service = "up"

Ask(c, n) ==
    /\ wanted[c] = None /\ answer[c] = "none"
    /\ wanted' = [wanted EXCEPT ![c] = n]
    /\ UNCHANGED <<answer, named, broken, live, service>>

\* A client names streams that clients were told of.
Name(ids) ==
    /\ ids \subseteq UNION {IdsOf(c) : c \in Granted}
    /\ named' = named \cup ids
    /\ UNCHANGED <<wanted, answer, broken, live, service>>

\* An answer may come late: with a stream that was paused, has broken and is gone.
Grant(c) ==
    /\ wanted[c] # None /\ answer[c] = "none"
    /\ answer' = [answer EXCEPT ![c] = "ids"]
    /\ \E lost \in SUBSET (IdsOf(c) \cap broken) :
        live' = live \cup (IdsOf(c) \ lost)
    /\ UNCHANGED <<wanted, named, broken, service>>

End(c) ==
    /\ answer[c] = "none" /\ (wanted[c] = None \/ service # "up")
    /\ answer' = [answer EXCEPT ![c] = "ended"]
    /\ UNCHANGED <<wanted, named, broken, live, service>>

Break(s) ==
    /\ service = "up"
    /\ broken' = broken \cup {s}
    /\ UNCHANGED <<wanted, answer, named, live, service>>

Close(ids) ==
    /\ service = "up" /\ ids \subseteq live \cap (named \cup broken)
    /\ live' = live \ ids
    /\ UNCHANGED <<wanted, answer, named, broken, service>>

Fail ==
    /\ MayFail /\ service = "up"
    /\ service' = "failing"
    /\ UNCHANGED <<wanted, answer, named, broken, live>>

\* The thread ends; its streams stay where they are and nobody serves them.
Stop ==
    /\ service = "failing"
    /\ service' = "gone"
    /\ UNCHANGED <<wanted, answer, named, broken, live>>

Streams == Clients \X (1..MaxRects)

Next ==
    \/ \E c \in Clients : Grant(c) \/ End(c) \/ \E n \in 0..MaxRects : Ask(c, n)
    \/ \E ids \in SUBSET Streams : Name(ids) \/ Close(ids)
    \/ \E s \in Streams : Break(s)
    \/ Fail \/ Stop

Spec == Init /\ [][Next]_svars

\* A stream that was granted stays until somebody names it or it breaks.
NamedOrLive == \A c \in Granted : IdsOf(c) \subseteq live \cup named \cup broken
=============================================================================
