---------------------------- MODULE CaptureCycle ----------------------------
(***************************************************************************)
(* What the capture pipeline promises the consumers of its streams.  Each  *)
(* stream has at most one frame in the making: a buffer is wanted, picom   *)
(* takes it, answers, the fence of the copy is waited for.  Only when that *)
(* is signalled does the consumer get the buffer, unless the stream is     *)
(* paused, when the buffer will be wanted again.  No frame is made in a    *)
(* buffer the consumer has.  Frames may be dropped, and consumers give     *)
(* back or lose buffers as they like.                                      *)
(***************************************************************************)
CONSTANTS Streams, Buffers, None

VARIABLES
    stage,   \* per stream: how far its frame is
    target,  \* per stream: the buffer the frame is made in
    held     \* per stream: the buffers the consumer has

vars == <<stage, target, held>>

Making == {"wanted", "taken", "answered", "fenced"}

Init ==
    /\ stage = [s \in Streams |-> "rest"]
    /\ target = [s \in Streams |-> None]
    /\ held = [s \in Streams |-> {}]

Frame(s, where, b) ==
    stage' = [stage EXCEPT ![s] = where] /\ target' = [target EXCEPT ![s] = b]

\* A frame is wanted: of a stream at rest, or again of one that was paused.
Want(s, b) ==
    /\ stage[s] \in {"rest", "ready"} /\ b \notin held[s]
    /\ Frame(s, "wanted", b) /\ UNCHANGED held

Take(s) == stage[s] = "wanted" /\ Frame(s, "taken", target[s]) /\ UNCHANGED held

Answer(s) == stage[s] = "taken" /\ Frame(s, "answered", target[s]) /\ UNCHANGED held

Wait(s) == stage[s] = "answered" /\ Frame(s, "fenced", target[s]) /\ UNCHANGED held

\* The consumer gets the buffer, if PipeWire still knows it; the next frame is
\* wanted in another, if there is one.
Deliver(s) ==
    /\ stage[s] = "fenced"
    /\ \E h \in {held[s], held[s] \cup {target[s]}} :
        /\ held' = [held EXCEPT ![s] = h]
        /\ \/ Frame(s, "rest", None)
           \/ \E b \in Buffers \ h : Frame(s, "wanted", b)

Pause(s) == stage[s] = "fenced" /\ Frame(s, "ready", None) /\ UNCHANGED held

\* The buffer is removed, the copy fails, or the stream is gone.
Drop(s) ==
    /\ stage[s] \in {"taken", "answered", "fenced", "ready"}
    /\ Frame(s, "rest", None) /\ UNCHANGED held

\* The consumer returns buffers, or they are removed.
Return(s) ==
    /\ \E h \in SUBSET held[s] : held' = [held EXCEPT ![s] = h]
    /\ UNCHANGED <<stage, target>>

\* picom gives up in a present: all it has taken is dropped; or it is unloaded:
\* all that is wanted of it.
Abandon(where) ==
    /\ stage' = [s \in Streams |-> IF stage[s] = where THEN "rest" ELSE stage[s]]
    /\ target' = [s \in Streams |-> IF stage[s] = where THEN None ELSE target[s]]
    /\ UNCHANGED held

Next ==
    \/ \E s \in Streams :
        \/ \E b \in Buffers : Want(s, b)
        \/ Take(s) \/ Answer(s) \/ Wait(s) \/ Deliver(s) \/ Pause(s) \/ Drop(s) \/ Return(s)
    \/ \E where \in {"wanted", "taken"} : Abandon(where)

Spec == Init /\ [][Next]_vars

-----------------------------------------------------------------------------
\* No frame is made in a buffer the consumer has: it never sees a picture that
\* changes under its eyes.
NotOverwritten == \A s \in Streams : stage[s] \in Making => target[s] \notin held[s]
=============================================================================
