------------------------------ MODULE Pipeline ------------------------------
(***************************************************************************)
(* The capture pipeline of the picom plugin: the pipewire thread           *)
(* (plugin/src/pipewire.rs) and the picom thread (copy_back_buffer in      *)
(* plugin/src/lib.rs), the two std::sync::mpsc channels and the waker      *)
(* between them.                                                           *)
(*                                                                         *)
(* A stream owns a few DMA buffers.  One at a time is "outstanding": the   *)
(* pipewire thread activates it, picom blits the next frame into it and    *)
(* sends a fence back, the pipewire thread waits for the fence, hands the  *)
(* buffer to the consumer and takes the next free one.                     *)
(*                                                                         *)
(* PipeWire itself (stream states, adding and removing buffers, returning  *)
(* consumed ones) and the GPU (signalling fences) are the environment: an  *)
(* action of theirs may happen whenever the callback it ends in may run,   *)
(* which is when the pipewire main loop is idle.                           *)
(***************************************************************************)
EXTENDS Naturals, Sequences, FiniteSets

CONSTANTS
    Streams,     \* stream keys; a key of `streams` is never used twice
    MaxBuffers,  \* bound: buffers a stream gets picom to import in its life
    Failures,    \* the kinds of failure that may happen, see FailureKinds
    None         \* the None of Option

FailureKinds ==
    { "present",    \* query_pointer or current_cursor fails in a present
      "import",     \* CaptureReceiver::import fails
      "fence",      \* insert_fence fails
      "alloc",      \* gbm cannot allocate, or no fd for a plane
      "newstream",  \* new_stream fails
      "trigger",    \* trigger_process fails
      "format",     \* the consumer proposes an unusable format
      "noformat",   \* PipeWire adds a buffer before there is a format
      "extern",     \* PipeWire puts a stream in the error state by itself
      "shrink",     \* a new consumer negotiates fewer buffers than the last
      "unload" }    \* picom unloads its backend, and the plugin with it

ASSUME MaxBuffersAssumption == MaxBuffers \in Nat
ASSUME FailuresAssumption == Failures \subseteq FailureKinds

\* A buffer id is a key of picom's slot map, picom hands out each key once:
\* the n-th buffer imported for stream s is <<s, n>>, so that an id determines
\* its CaptureReceiver's stream_id.
BufIds == Streams \X (1..MaxBuffers)
Owner(b) == b[1]

ASSUME NoneAssumption == None \notin Streams /\ None \notin BufIds

ToPipewire ==
    [type : {"CreateStream", "CloseStream"}, stream : Streams]
        \cup [type : {"NewFrame", "BufferError"}, id : BufIds]

FromPipewire ==
    [type : {"AddBuffer"}, stream : Streams]
        \cup [type : {"ActivateBuffer", "RemoveBuffers"}, id : BufIds]
        \cup [type : {"WakeMeUp"}]

CreateStream(s) == [type |-> "CreateStream", stream |-> s]
CloseStream(s) == [type |-> "CloseStream", stream |-> s]
NewFrame(b) == [type |-> "NewFrame", id |-> b]
BufferError(b) == [type |-> "BufferError", id |-> b]
AddBuffer(s) == [type |-> "AddBuffer", stream |-> s]
ActivateBuffer(b) == [type |-> "ActivateBuffer", id |-> b]
RemoveBuffers(b) == [type |-> "RemoveBuffers", id |-> b]
WakeMeUp == [type |-> "WakeMeUp"]

VARIABLES
    \* shared by the threads
    toPw,        \* MessagesToPipewire not yet received
    fromPw,      \* MessagesFromPipewire not yet received
    wake,        \* something is queued on the waker channel
    oneshot,     \* the reply channel of the AddBuffer in flight
    fault,       \* the panic or invalid access that ended the process
    \* the pipewire thread
    pwPc,        \* what it is doing
    cur,         \* the stream a multi-step callback works on
    nodes,       \* keys of node_id_to_stream
    state,       \* per stream: its StreamState, "none" before, "gone" after
    reply,       \* per stream: the reply of its CreateStream
    fmt,         \* per stream: fixated_format is set
    bufs,        \* per stream: its pw_buffers that carry an id
    blank,       \* per stream: it has a pw_buffer whose user_data is not set
    free,        \* per stream: the buffers dequeue_raw_buffer can return
    outstanding, \* per stream: outstanding_buffer
    ready,       \* per stream: outstanding_buffer_ready
    fences,      \* keys of fence_waits
    \* the picom thread
    picomPc,     \* what it is doing
    pwTx,        \* pw_tx is still Some: presents still look at the channel
    buffers,     \* PluginContext::buffers, the imported buffers
    made,        \* per stream: how many buffers were ever imported for it
    active,      \* active_buffers of the present under way
    armed,       \* its PipewireSendGuard will wake the pipewire thread
    \* the portal's side
    closed       \* streams a CloseStreams was sent for

shared == <<toPw, fromPw, wake, oneshot, fault>>
streamVars == <<state, reply, fmt, bufs, blank, free, outstanding, ready>>
pwVars == <<pwPc, cur, nodes, fences, streamVars>>
picomVars == <<picomPc, pwTx, buffers, made, active, armed>>
vars == <<shared, pwVars, picomVars, closed>>

StreamStates ==
    {"none", "connecting", "paused", "streaming", "error", "gone"}
Faults ==
    { "none",
      "double_activate",  \* lib.rs:326, the assertion
      "unknown_buffer",   \* lib.rs:362, index of the slot map
      "pw_gone",          \* lib.rs:392 and 401, unwrap of a failed send
      "no_outstanding",   \* pipewire.rs:563, unwrap
      "user_data",        \* pipewire.rs:587, user_data never set
      "add_failed",       \* pipewire.rs:713, panic
      "fence_twice",      \* pipewire.rs:776, unwrap of the second removal
      "stream_index",     \* pipewire.rs:786 and 795, index of the slot map
      "node_map",         \* pipewire.rs:873, unwrap
      "picom_gone" }      \* pipewire.rs:457, 567, 599, 711 and 750, unwrap of a failed send

Live(s) == state[s] \notin {"none", "gone"}
Errored == {s \in Streams : state[s] = "error"}
\* The consumer has the buffers that are neither free nor outstanding.
Held(s) == bufs[s] \ (free[s] \cup {outstanding[s]})
\* The callback attached to the waker runs, with the waker channel locked.
InWaker == pwPc \in {"drain", "reap", "destroy"}
\* The receiving end of toPw lives as long as the Rc<Pipewire>: stream
\* listeners and fence closures keep it alive after the main loop has quit.
RxClosed == pwPc = "quit" /\ fences = {} /\ \A s \in Streams : ~Live(s)

Init ==
    /\ toPw = <<>> /\ fromPw = <<>> /\ wake = FALSE
    /\ oneshot = "empty" /\ fault = "none"
    /\ pwPc = "idle" /\ cur = None /\ nodes = {} /\ fences = {}
    /\ state = [s \in Streams |-> "none"]
    /\ reply = [s \in Streams |-> "none"]
    /\ fmt = [s \in Streams |-> FALSE]
    /\ bufs = [s \in Streams |-> {}]
    /\ blank = [s \in Streams |-> FALSE]
    /\ free = [s \in Streams |-> {}]
    /\ outstanding = [s \in Streams |-> None]
    /\ ready = [s \in Streams |-> FALSE]
    /\ picomPc = "idle" /\ pwTx = TRUE /\ buffers = {} /\ active = {}
    /\ made = [s \in Streams |-> 0] /\ armed = FALSE
    /\ closed = {}

-----------------------------------------------------------------------------
(* The portal's requests, passed on by the server thread.                  *)

\* The server's guard sends, then wakes when it is dropped.  Nothing can come
\* between that matters: a message drained before its wake only makes the wake
\* a spurious one.
ServerSend(m) == toPw' = Append(toPw, m) /\ wake' = TRUE

RequestStream(s) ==
    /\ reply[s] = "none" /\ ~RxClosed
    /\ ServerSend(CreateStream(s))
    /\ reply' = [reply EXCEPT ![s] = "pending"]
    /\ UNCHANGED <<fromPw, oneshot, fault, pwPc, cur, nodes, fences, state, fmt,
                   bufs, blank, free, outstanding, ready, picomVars, closed>>

\* Mutant of RequestClose: the message is sent around the guard.
RequestCloseUnwoken(s) ==
    /\ reply[s] = "sent" /\ s \notin closed /\ ~RxClosed
    /\ toPw' = Append(toPw, CloseStream(s))
    /\ closed' = closed \cup {s}
    /\ UNCHANGED <<fromPw, wake, oneshot, fault, pwVars, picomVars>>

\* A node id is known once the reply was sent, and may be stale by now.
RequestClose(s) ==
    /\ reply[s] = "sent" /\ s \notin closed /\ ~RxClosed
    /\ ServerSend(CloseStream(s))
    /\ closed' = closed \cup {s}
    /\ UNCHANGED <<fromPw, oneshot, fault, pwVars, picomVars>>

-----------------------------------------------------------------------------
(* The pipewire thread: helpers.                                           *)

\* tx.send(..): it fails once the receiver is gone, see SendFails.
SendToPicom(m) == picomPc # "gone" /\ fromPw' = Append(fromPw, m)

\* stream_set_error: the thread cannot wake itself (it may be inside the waker
\* callback), so it asks picom to.
SetError(s) ==
    /\ state' = [state EXCEPT ![s] = "error"]
    /\ SendToPicom(WakeMeUp)

\* Mutant of SendBuffer: outstanding_buffer is not looked at.
SendBufferUnchecked(s, streaming, out, avail) ==
    \/ /\ streaming
       /\ \E b \in avail :
            /\ outstanding' = [outstanding EXCEPT ![s] = b]
            /\ free' = [free EXCEPT ![s] = avail \ {b}]
            /\ SendToPicom(ActivateBuffer(b))
    \/ /\ ~streaming \/ avail = {}
       /\ outstanding' = [outstanding EXCEPT ![s] = out]
       /\ free' = [free EXCEPT ![s] = avail]
       /\ UNCHANGED fromPw

\* send_buffer, called when outstanding_buffer is `out' and PipeWire can
\* dequeue the buffers `avail'.
SendBuffer(s, streaming, out, avail) ==
    \/ /\ streaming /\ out = None
       /\ \E b \in avail :
            /\ outstanding' = [outstanding EXCEPT ![s] = b]
            /\ free' = [free EXCEPT ![s] = avail \ {b}]
            /\ SendToPicom(ActivateBuffer(b))
    \/ /\ ~streaming \/ out # None \/ avail = {}
       /\ outstanding' = [outstanding EXCEPT ![s] = out]
       /\ free' = [free EXCEPT ![s] = avail]
       /\ UNCHANGED fromPw

\* The id read through outstanding_buffer's user_data.  remove_buffer does not
\* reset outstanding_buffer: after a renegotiation the pointer's slot holds
\* some buffer of the new set or, if that set is smaller, freed memory, which
\* the old id stands for.
Deref(s) ==
    IF outstanding[s] \in bufs[s] THEN {outstanding[s]}
    ELSE bufs[s] \cup (IF "shrink" \in Failures THEN {outstanding[s]} ELSE {})

-----------------------------------------------------------------------------
(* The pipewire thread: the waker callback.                                *)

WakeUp ==
    /\ pwPc = "idle" /\ wake
    /\ wake' = FALSE
    /\ pwPc' = "drain"
    /\ UNCHANGED <<toPw, fromPw, oneshot, fault, cur, nodes, fences, streamVars,
                   picomVars, closed>>

Received(type) ==
    /\ pwPc = "drain" /\ toPw # <<>>
    /\ Head(toPw).type = type
    /\ toPw' = Tail(toPw)

HandleCreateStream ==
    /\ Received("CreateStream")
    /\ state' = [state EXCEPT ![Head(toPw).stream] = "connecting"]
    /\ UNCHANGED <<fromPw, wake, oneshot, fault, pwPc, cur, nodes, fences, reply,
                   fmt, bufs, blank, free, outstanding, ready, picomVars, closed>>

\* new_stream fails: its error ends the main loop.
HandleCreateStreamFails ==
    /\ "newstream" \in Failures
    /\ Received("CreateStream")
    /\ reply' = [reply EXCEPT ![Head(toPw).stream] = "dropped"]
    /\ pwPc' = "quit"
    /\ UNCHANGED <<fromPw, wake, oneshot, fault, cur, nodes, fences, state, fmt,
                   bufs, blank, free, outstanding, ready, picomVars, closed>>

\* The fence of a stream that is gone is dropped.  A second wait for one buffer
\* would take the place of the first in fence_waits.
HandleNewFrame ==
    /\ Received("NewFrame")
    /\ LET b == Head(toPw).id
       IN  IF Live(Owner(b))
           THEN /\ fences' = fences \cup {b}
                /\ fault' = IF b \in fences THEN "fence_twice" ELSE fault
           ELSE UNCHANGED <<fences, fault>>
    /\ UNCHANGED <<fromPw, wake, oneshot, pwPc, cur, nodes, streamVars,
                   picomVars, closed>>

HandleBufferError ==
    /\ Received("BufferError")
    /\ LET s == Owner(Head(toPw).id)
       IN  IF Live(s)
           THEN SetError(s) /\ UNCHANGED fault
           ELSE fault' = "stream_index" /\ UNCHANGED <<state, fromPw>>
    /\ UNCHANGED <<wake, oneshot, pwPc, cur, nodes, fences, reply, fmt, bufs,
                   blank, free, outstanding, ready, picomVars, closed>>

HandleCloseStreams ==
    /\ Received("CloseStream")
    /\ LET s == Head(toPw).stream
       IN  CASE s \in nodes /\ Live(s) -> SetError(s) /\ UNCHANGED fault
             [] s \in nodes /\ ~Live(s) ->
                  fault' = "stream_index" /\ UNCHANGED <<state, fromPw>>
             [] s \notin nodes -> UNCHANGED <<state, fromPw, fault>>
    /\ UNCHANGED <<wake, oneshot, pwPc, cur, nodes, fences, reply, fmt, bufs,
                   blank, free, outstanding, ready, picomVars, closed>>

\* try_recv says Empty: on to the errored streams.
DrainEmpty ==
    /\ pwPc = "drain" /\ toPw = <<>>
    /\ pwPc' = "reap"
    /\ UNCHANGED <<shared, cur, nodes, fences, streamVars, picomVars, closed>>

\* Mutant of ForgetNode: the node id is looked up but not removed.
KeepNode(s) == UNCHANGED nodes

ForgetNode(s) == nodes' = nodes \ {s}

\* retain meets a stream in the error state: its node id is forgotten, then the
\* stream is dropped, which removes its buffers one by one.
ReapStream(s) ==
    /\ pwPc = "reap" /\ s \in Errored
    /\ IF s \in nodes
       THEN /\ ForgetNode(s)
            /\ pwPc' = "destroy" /\ cur' = s
            /\ UNCHANGED fault
       ELSE /\ fault' = "node_map"
            /\ UNCHANGED <<nodes, pwPc, cur>>
    /\ UNCHANGED <<toPw, fromPw, wake, oneshot, fences, streamVars, picomVars,
                   closed>>

\* Mutant of TellRemoved: picom is not told.
TellNothing(b) == UNCHANGED fromPw

TellRemoved(b) == SendToPicom(RemoveBuffers(b))

\* The remove_buffer callback.
RemoveBuffer(b) ==
    /\ pwPc \in {"clear", "destroy"} /\ cur = Owner(b) /\ b \in bufs[cur]
    /\ bufs' = [bufs EXCEPT ![cur] = @ \ {b}]
    /\ free' = [free EXCEPT ![cur] = @ \ {b}]
    /\ TellRemoved(b)
    /\ UNCHANGED <<toPw, wake, oneshot, fault, pwPc, cur, nodes, fences, state,
                   reply, fmt, blank, outstanding, ready, picomVars, closed>>

\* The same callback for a buffer whose add_buffer failed before it stored an
\* id: Box::from_raw of a pointer that was never set.
RemoveBlankBuffer ==
    /\ pwPc \in {"clear", "destroy"} /\ blank[cur]
    /\ fault' = "user_data"
    /\ UNCHANGED <<toPw, fromPw, wake, oneshot, pwVars, picomVars, closed>>

\* The last buffer is removed: the stream leaves the slot map for good.
StreamDropped ==
    /\ pwPc = "destroy" /\ bufs[cur] = {} /\ ~blank[cur]
    /\ state' = [state EXCEPT ![cur] = "gone"]
    /\ fmt' = [fmt EXCEPT ![cur] = FALSE]
    /\ outstanding' = [outstanding EXCEPT ![cur] = None]
    /\ ready' = [ready EXCEPT ![cur] = FALSE]
    /\ pwPc' = "reap" /\ cur' = None
    /\ UNCHANGED <<shared, nodes, fences, reply, bufs, blank, free, picomVars,
                   closed>>

\* Mutant of ReapDone: the waker is reset at the end of the callback.
ReapDoneResets ==
    /\ pwPc = "reap" /\ Errored = {}
    /\ pwPc' = "idle" /\ wake' = FALSE
    /\ UNCHANGED <<toPw, fromPw, oneshot, fault, cur, nodes, fences, streamVars,
                   picomVars, closed>>

ReapDone ==
    /\ pwPc = "reap" /\ Errored = {}
    /\ pwPc' = "idle"
    /\ UNCHANGED <<shared, cur, nodes, fences, streamVars, picomVars, closed>>

-----------------------------------------------------------------------------
(* The pipewire thread: stream callbacks, while the main loop is idle.     *)

\* state_changed to Paused; the first time, the client gets the node id.
StatePaused(s) ==
    /\ pwPc = "idle" /\ state[s] \in {"connecting", "streaming"}
    /\ state' = [state EXCEPT ![s] = "paused"]
    /\ IF reply[s] = "pending"
       THEN /\ nodes' = nodes \cup {s}
            /\ reply' = [reply EXCEPT ![s] = "sent"]
       ELSE UNCHANGED <<nodes, reply>>
    /\ UNCHANGED <<shared, pwPc, cur, fences, fmt, bufs, blank, free,
                   outstanding, ready, picomVars, closed>>

\* Mutant of Resume: the ready buffer is not activated again.
ResumeForgetful(s) ==
    /\ ready' = [ready EXCEPT ![s] = FALSE]
    /\ SendBuffer(s, TRUE, outstanding[s], free[s])
    /\ UNCHANGED fault

\* Mutant of Resume: the outstanding buffer is let go.
ResumeAfresh(s) ==
    /\ ready' = [ready EXCEPT ![s] = FALSE]
    /\ SendBuffer(s, TRUE, None, free[s])
    /\ UNCHANGED fault

\* A buffer whose frame was ready before the pause is filled again: its frame
\* is old.
Resume(s) ==
    \/ /\ ready[s]
       /\ ready' = [ready EXCEPT ![s] = FALSE]
       /\ IF outstanding[s] = None
          THEN fault' = "no_outstanding" /\ UNCHANGED fromPw
          ELSE /\ \E b \in Deref(s) : SendToPicom(ActivateBuffer(b))
               /\ UNCHANGED fault
       /\ UNCHANGED <<outstanding, free>>
    \/ /\ ~ready[s]
       /\ SendBuffer(s, TRUE, outstanding[s], free[s])
       /\ UNCHANGED <<ready, fault>>

\* state_changed to Streaming.
StateStreaming(s) ==
    /\ pwPc = "idle" /\ state[s] = "paused" /\ bufs[s] # {}
    /\ state' = [state EXCEPT ![s] = "streaming"]
    /\ Resume(s)
    /\ UNCHANGED <<toPw, wake, oneshot, pwPc, cur, nodes, fences, reply, fmt,
                   bufs, blank, picomVars, closed>>

\* PipeWire reports an error of its own: nobody is told.
StateError(s) ==
    /\ "extern" \in Failures
    /\ pwPc = "idle" /\ state[s] \in {"connecting", "paused", "streaming"}
    /\ state' = [state EXCEPT ![s] = "error"]
    /\ UNCHANGED <<shared, pwPc, cur, nodes, fences, reply, fmt, bufs, blank,
                   free, outstanding, ready, picomVars, closed>>

\* handle_param_changed with a format: accepted, or the stream fails.
FormatProposed(s) ==
    /\ pwPc = "idle" /\ state[s] = "paused"
    /\ \/ /\ fmt' = [fmt EXCEPT ![s] = TRUE]
          /\ UNCHANGED <<state, fromPw>>
       \/ "format" \in Failures /\ SetError(s) /\ UNCHANGED fmt
    /\ UNCHANGED <<toPw, wake, oneshot, fault, pwPc, cur, nodes, fences, reply,
                   bufs, blank, free, outstanding, ready, picomVars, closed>>

\* handle_param_changed without one: the consumer is gone.
FormatCleared(s) ==
    /\ pwPc = "idle" /\ state[s] = "paused" /\ bufs[s] = {}
    /\ fmt' = [fmt EXCEPT ![s] = FALSE]
    /\ UNCHANGED <<shared, pwPc, cur, nodes, fences, state, reply, bufs, blank,
                   free, outstanding, ready, picomVars, closed>>

\* PipeWire drops the buffers of a paused stream.
ClearBuffers(s) ==
    /\ pwPc = "idle" /\ state[s] = "paused" /\ bufs[s] # {}
    /\ pwPc' = "clear" /\ cur' = s
    /\ UNCHANGED <<shared, nodes, fences, streamVars, picomVars, closed>>

BuffersCleared ==
    /\ pwPc = "clear" /\ bufs[cur] = {} /\ ~blank[cur]
    /\ pwPc' = "idle" /\ cur' = None
    /\ UNCHANGED <<shared, nodes, fences, streamVars, picomVars, closed>>

\* handle_add_buffer up to rx.recv, which blocks.  PipeWire adds buffers to a
\* paused stream, and goes on with its batch when adding one has failed.
HandleAddBuffer(s) ==
    /\ pwPc = "idle" /\ state[s] \in {"paused", "error"}
    /\ fmt[s] /\ made[s] < MaxBuffers
    /\ SendToPicom(AddBuffer(s))
    /\ oneshot' = "empty"
    /\ pwPc' = "add" /\ cur' = s
    /\ UNCHANGED <<toPw, wake, fault, nodes, fences, streamVars, picomVars, closed>>

\* handle_add_buffer fails before it asked picom: no format, no memory.
\* (Bound: one such buffer per stream.)
HandleAddBufferFails(s) ==
    /\ pwPc = "idle" /\ state[s] \in {"paused", "error"} /\ ~blank[s]
    /\ IF fmt[s] THEN "alloc" \in Failures ELSE "noformat" \in Failures
    /\ blank' = [blank EXCEPT ![s] = TRUE]
    /\ SetError(s)
    /\ UNCHANGED <<toPw, wake, oneshot, fault, pwPc, cur, nodes, fences, reply,
                   fmt, bufs, free, outstanding, ready, picomVars, closed>>

\* rx.recv returns the id of the buffer picom imported last for this stream.
\* A plane without an fd is an error, but the buffer stays.
AddBufferReplied ==
    /\ pwPc = "add" /\ oneshot = "sent"
    /\ bufs' = [bufs EXCEPT ![cur] = @ \cup {<<cur, made[cur]>>}]
    /\ free' = [free EXCEPT ![cur] = @ \cup {<<cur, made[cur]>>}]
    /\ \/ UNCHANGED <<state, fromPw>>
       \/ "alloc" \in Failures /\ SetError(cur)
    /\ pwPc' = "idle" /\ cur' = None /\ oneshot' = "empty"
    /\ UNCHANGED <<toPw, wake, fault, nodes, fences, reply, fmt, blank,
                   outstanding, ready, picomVars, closed>>

\* picom dropped the reply channel.
AddBufferRefused ==
    /\ pwPc = "add" /\ oneshot = "dropped"
    /\ fault' = "add_failed"
    /\ UNCHANGED <<toPw, fromPw, wake, oneshot, pwVars, picomVars, closed>>

\* The process callback: the outstanding buffer goes to the consumer (PipeWire
\* refuses one that is stale), the next one is activated.
Process(s) ==
    /\ ready' = [ready EXCEPT ![s] = FALSE]
    /\ SendBuffer(s, TRUE, None, free[s])

\* The io callback of a fence.  trigger_process runs the process callback
\* before it returns.
FenceFired(b) ==
    /\ pwPc = "idle" /\ b \in fences
    /\ fences' = fences \ {b}
    /\ LET s == Owner(b)
       IN  \/ /\ state[s] = "streaming"
              /\ Process(s)
              /\ UNCHANGED state
           \/ /\ state[s] = "streaming" /\ "trigger" \in Failures
              /\ ready' = [ready EXCEPT ![s] = TRUE]
              /\ SetError(s)
              /\ UNCHANGED <<outstanding, free>>
           \/ /\ state[s] # "streaming"
              /\ ready' = [ready EXCEPT ![s] = Live(s)]
              /\ UNCHANGED <<state, fromPw, outstanding, free>>
    /\ UNCHANGED <<toPw, wake, oneshot, fault, pwPc, cur, nodes, reply, fmt,
                   bufs, blank, picomVars, closed>>

\* The consumer returns a buffer.
Recycle(b) ==
    /\ b \in Held(Owner(b))
    /\ free' = [free EXCEPT ![Owner(b)] = @ \cup {b}]
    /\ UNCHANGED <<shared, pwPc, cur, nodes, fences, state, reply, fmt, bufs,
                   blank, outstanding, ready, picomVars, closed>>

-----------------------------------------------------------------------------
(* The picom thread: present.                                              *)

PresentBegin ==
    /\ picomPc = "idle" /\ pwTx
    /\ picomPc' = "drain"
    /\ UNCHANGED <<shared, pwVars, pwTx, buffers, made, active, armed, closed>>

\* An error before the guard exists: bail, and never look at the channel again.
PresentFails ==
    /\ "present" \in Failures
    /\ picomPc = "idle" /\ pwTx
    /\ pwTx' = FALSE
    /\ UNCHANGED <<shared, pwVars, picomPc, buffers, made, active, armed, closed>>

Taken(type) ==
    /\ picomPc = "drain" /\ fromPw # <<>>
    /\ Head(fromPw).type = type
    /\ fromPw' = Tail(fromPw)

\* Mutants of Import: a key is handed out before it exists; the reply is kept.
ImportTooEarly(s) ==
    /\ made' = [made EXCEPT ![s] = @ + 1]
    /\ buffers' = buffers \cup {<<s, made[s]>>}
    /\ oneshot' = "sent"

ImportUnanswered(s) ==
    /\ made' = [made EXCEPT ![s] = @ + 1]
    /\ buffers' = buffers \cup {<<s, made[s] + 1>>}
    /\ UNCHANGED oneshot

Import(s) ==
    /\ made' = [made EXCEPT ![s] = @ + 1]
    /\ buffers' = buffers \cup {<<s, made[s] + 1>>}
    /\ oneshot' = "sent"

ReceiveAddBuffer ==
    /\ Taken("AddBuffer")
    /\ Import(Head(fromPw).stream)
    /\ UNCHANGED <<toPw, wake, fault, pwVars, picomPc, pwTx, active, armed, closed>>

\* The import fails: copy_back_buffer returns, dropping the reply and what it
\* collected so far.
ReceiveAddBufferFails ==
    /\ "import" \in Failures
    /\ Taken("AddBuffer")
    /\ oneshot' = "dropped"
    /\ active' = {}
    /\ picomPc' = "bail"
    /\ UNCHANGED <<toPw, wake, fault, pwVars, pwTx, buffers, made, armed, closed>>

ReceiveActivateBuffer ==
    /\ Taken("ActivateBuffer")
    /\ LET b == Head(fromPw).id
       IN  /\ fault' = IF b \in active THEN "double_activate" ELSE fault
           /\ active' = active \cup {b}
    /\ UNCHANGED <<toPw, wake, oneshot, pwVars, picomPc, pwTx, buffers, made,
                   armed, closed>>

\* Mutant of Discard: the buffer stays active.
DiscardImport(b) == buffers' = buffers \ {b} /\ UNCHANGED active

Discard(b) == buffers' = buffers \ {b} /\ active' = active \ {b}

ReceiveRemoveBuffers ==
    /\ Taken("RemoveBuffers")
    /\ Discard(Head(fromPw).id)
    /\ UNCHANGED <<toPw, wake, oneshot, fault, pwVars, picomPc, pwTx, made,
                   armed, closed>>

\* Mutant of GuardWake: the guard forgets it.
GuardIdle == UNCHANGED armed

\* PipewireSendGuard::wake
GuardWake == armed' = TRUE

ReceiveWakeMeUp ==
    /\ Taken("WakeMeUp")
    /\ GuardWake
    /\ UNCHANGED <<toPw, wake, oneshot, fault, pwVars, picomPc, pwTx, buffers,
                   made, active, closed>>

\* try_recv fails: blit into the buffers that were activated.
ChannelEmpty ==
    /\ picomPc = "drain" /\ fromPw = <<>>
    /\ picomPc' = "blit"
    /\ UNCHANGED <<shared, pwVars, pwTx, buffers, made, active, armed, closed>>

\* Mutant of GuardSend: sending does not arm the guard.
GuardSendOnly(m) == toPw' = Append(toPw, m) /\ UNCHANGED armed

\* PipewireSendGuard::send
GuardSend(m) == toPw' = Append(toPw, m) /\ armed' = TRUE

Blit(b) ==
    /\ picomPc = "blit" /\ b \in active
    /\ active' = active \ {b}
    /\ CASE b \notin buffers ->
              fault' = "unknown_buffer" /\ UNCHANGED <<toPw, armed>>
         [] b \in buffers /\ RxClosed ->
              fault' = "pw_gone" /\ UNCHANGED <<toPw, armed>>
         [] b \in buffers /\ ~RxClosed ->
              /\ \/ GuardSend(NewFrame(b))
                 \/ "fence" \in Failures /\ GuardSend(BufferError(b))
              /\ UNCHANGED fault
    /\ UNCHANGED <<fromPw, wake, oneshot, pwVars, picomPc, pwTx, buffers, made,
                   closed>>

\* The guard is dropped, which may have to wait for the waker channel's lock;
\* if copy_back_buffer failed, pw_tx is taken.
PresentEnd ==
    /\ (picomPc = "blit" /\ active = {}) \/ picomPc = "bail"
    /\ armed => ~InWaker
    /\ wake' = (wake \/ armed)
    /\ armed' = FALSE
    /\ pwTx' = (picomPc # "bail")
    /\ picomPc' = "idle"
    /\ UNCHANGED <<toPw, fromPw, oneshot, fault, pwVars, buffers, made, active,
                   closed>>

\* deinit drops the PluginContext: the receiver with the messages in it and the
\* imported buffers.  The pipewire thread runs on, the server keeps a sender.
Unload ==
    /\ "unload" \in Failures
    /\ picomPc = "idle"
    /\ picomPc' = "gone" /\ pwTx' = FALSE
    /\ buffers' = {} /\ fromPw' = <<>>
    /\ oneshot' = IF \E i \in DOMAIN fromPw : fromPw[i].type = "AddBuffer"
                  THEN "dropped" ELSE oneshot
    /\ UNCHANGED <<toPw, wake, fault, pwVars, made, active, armed, closed>>

\* What the pipewire thread is about to do includes a message to picom.
SendDue ==
    \/ /\ pwPc = "drain" /\ toPw # <<>>
       /\ \/ Head(toPw).type = "BufferError" /\ Live(Owner(Head(toPw).id))
          \/ Head(toPw).type = "CloseStream" /\ Head(toPw).stream \in nodes /\ Live(Head(toPw).stream)
    \/ pwPc \in {"clear", "destroy"} /\ bufs[cur] # {}
    \/ pwPc = "add" /\ oneshot = "sent" /\ "alloc" \in Failures
    \/ pwPc = "idle" /\ \E s \in Streams :
         \/ state[s] = "paused" /\ "format" \in Failures
         \/ /\ state[s] = "paused" /\ bufs[s] # {}
            /\ IF ready[s] THEN outstanding[s] # None
               ELSE outstanding[s] = None /\ free[s] # {}
         \/ /\ state[s] \in {"paused", "error"}
            /\ \/ fmt[s] /\ made[s] < MaxBuffers
               \/ ~blank[s] /\ (IF fmt[s] THEN "alloc" ELSE "noformat") \in Failures
         \/ /\ state[s] = "streaming" /\ \E b \in fences : Owner(b) = s
            /\ free[s] # {} \/ "trigger" \in Failures

\* The unwrap of a send in a C callback, after picom has dropped the receiver.
SendFails ==
    /\ picomPc = "gone" /\ SendDue
    /\ fault' = "picom_gone"
    /\ UNCHANGED <<toPw, fromPw, wake, oneshot, pwVars, picomVars, closed>>

-----------------------------------------------------------------------------
Server == \E s \in Streams : RequestStream(s) \/ RequestClose(s)

WakerCallback ==
    \/ HandleCreateStream \/ HandleCreateStreamFails
    \/ HandleNewFrame \/ HandleBufferError \/ HandleCloseStreams
    \/ DrainEmpty
    \/ \E s \in Streams : ReapStream(s)
    \/ StreamDropped \/ ReapDone

Removal == RemoveBlankBuffer \/ \E b \in BufIds : RemoveBuffer(b)

\* What the pipewire thread does next once it is inside a callback.
Callback ==
    WakerCallback \/ Removal \/ BuffersCleared
        \/ AddBufferReplied \/ AddBufferRefused

Environment ==
    \/ \E s \in Streams :
         \/ StatePaused(s) \/ StateStreaming(s) \/ StateError(s)
         \/ FormatProposed(s) \/ FormatCleared(s) \/ ClearBuffers(s)
         \/ HandleAddBuffer(s) \/ HandleAddBufferFails(s)
    \/ \E b \in BufIds : Recycle(b)

\* The rest of a present once it has begun.
Present ==
    \/ ReceiveAddBuffer \/ ReceiveAddBufferFails \/ ReceiveActivateBuffer
    \/ ReceiveRemoveBuffers \/ ReceiveWakeMeUp \/ ChannelEmpty
    \/ \E b \in BufIds : Blit(b)
    \/ PresentEnd

\* All threads live in one process: a panic on the picom thread or in a C
\* callback aborts it.
Next ==
    /\ fault = "none"
    /\ \/ Server \/ WakeUp \/ Callback \/ Environment
       \/ \E b \in BufIds : FenceFired(b)
       \/ PresentBegin \/ PresentFails \/ Present
       \/ Unload \/ SendFails

Spec == Init /\ [][Next]_vars

Running(A) == fault = "none" /\ A

\* picom keeps presenting; each thread keeps running; the main loop dispatches
\* every source that is ready, the waker and each fence, however many others
\* are; the GPU signals every fence.
Fairness ==
    /\ WF_vars(Running(PresentBegin)) /\ WF_vars(Running(Present))
    /\ WF_vars(Running(Callback))
    /\ SF_vars(Running(WakeUp))
    /\ \A b \in BufIds : SF_vars(Running(FenceFired(b)))

FairSpec == Spec /\ Fairness

-----------------------------------------------------------------------------
(* Properties.                                                             *)

\* Type correctness: the values each variable of the two threads can have.
TypeOK ==
    /\ toPw \in Seq(ToPipewire) /\ fromPw \in Seq(FromPipewire)
    /\ wake \in BOOLEAN /\ oneshot \in {"empty", "sent", "dropped"}
    /\ fault \in Faults
    /\ pwPc \in {"idle", "drain", "reap", "destroy", "clear", "add", "quit"}
    /\ cur \in Streams \cup {None}
    /\ pwPc \in {"destroy", "clear", "add"} <=> cur # None
    /\ nodes \subseteq Streams /\ fences \subseteq BufIds
    /\ state \in [Streams -> StreamStates]
    /\ reply \in [Streams -> {"none", "pending", "sent", "dropped"}]
    /\ fmt \in [Streams -> BOOLEAN] /\ blank \in [Streams -> BOOLEAN]
    /\ bufs \in [Streams -> SUBSET BufIds]
    /\ free \in [Streams -> SUBSET BufIds]
    /\ outstanding \in [Streams -> BufIds \cup {None}]
    /\ ready \in [Streams -> BOOLEAN]
    /\ picomPc \in {"idle", "drain", "blit", "bail", "gone"}
    /\ pwTx \in BOOLEAN /\ armed \in BOOLEAN
    /\ buffers \subseteq BufIds /\ active \subseteq BufIds
    /\ made \in [Streams -> 0..MaxBuffers]
    /\ closed \subseteq Streams

AtMostOne(S) == \A x, y \in S : x = y

\* Where the messages of a set M are in a channel.
Positions(q, M) == {i \in DOMAIN q : q[i] \in M}

IdsOf(s) == {s} \X (1..MaxBuffers)
ActivationsFor(s) == [type : {"ActivateBuffer"}, id : IdsOf(s)]
AnswersFor(s) == [type : {"NewFrame", "BufferError"}, id : IdsOf(s)]

\* Where the capture of a frame for stream s can be on its way round: an
\* ActivateBuffer in the channel, an active buffer of the present, its answer
\* in the other channel, a fence being waited for.
Activations(s) == Positions(fromPw, ActivationsFor(s))
ActiveOf(s) == active \cap IdsOf(s)
Answers(s) == Positions(toPw, AnswersFor(s))
FencesOf(s) == fences \cap IdsOf(s)

InFlight(s) ==
    Activations(s) # {} \/ ActiveOf(s) # {} \/ Answers(s) # {} \/ FencesOf(s) # {}

\* A stream has at most one frame on its way round the two threads, at whatever
\* point pauses, removals and errors find it: so no buffer is activated twice
\* (the assertion in copy_back_buffer) and fence_waits holds one fence for it.
OneInFlight ==
    \A s \in Streams :
        /\ AtMostOne(Activations(s)) /\ AtMostOne(ActiveOf(s))
        /\ AtMostOne(Answers(s)) /\ AtMostOne(FencesOf(s))
        /\ Activations(s) # {} => ActiveOf(s) = {} /\ Answers(s) = {} /\ FencesOf(s) = {}
        /\ ActiveOf(s) # {} => Answers(s) = {} /\ FencesOf(s) = {}
        /\ Answers(s) # {} => FencesOf(s) = {}

\* While a frame is under way its stream has an outstanding buffer that is not
\* ready, and a ready buffer is there: the unwrap in state_changed is safe.
OutstandingUntilReady ==
    \A s \in Streams :
        /\ Live(s) /\ InFlight(s) => outstanding[s] # None /\ ~ready[s]
        /\ ready[s] => outstanding[s] # None

\* Nothing on either thread loses the frame of a buffer that is still there:
\* as long as picom has not bailed, a healthy stream with an outstanding buffer
\* has that frame under way, or ready and waiting for the stream to resume.
FrameNotLost ==
    \A s \in Streams :
        pwTx /\ picomPc # "bail" /\ state[s] \in {"paused", "streaming"}
             /\ outstanding[s] \in bufs[s]
        => ready[s] \/ InFlight(s)

\* The waker callback is going to run again: its channel holds something, or
\* the present under way will wake it when its guard is dropped.
WakeComing == wake \/ (armed /\ picomPc # "idle")

\* No wake-up is lost: whatever lies in the channel when the pipewire thread is
\* past draining it, or busy with something else, is read in another wake-up,
\* which comes however guards on two threads and the callback overlap.
MessagesWillBeRead ==
    toPw # <<>> /\ pwPc \notin {"drain", "quit"} => WakeComing

\* Nor is a stream in error forgotten: if the callback that removes it is not
\* running, it will be, or WakeMeUp lies before picom, at whatever point of a
\* batch of additions, a renegotiation or a present the error came.  (PipeWire's
\* own errors are told to nobody, and picom must not have been unloaded.)
ErrorsWillBeSeen ==
    Errored # {} /\ picomPc # "gone" /\ pwPc \in {"idle", "clear", "add"} =>
        WakeComing \/ \E i \in DOMAIN fromPw : fromPw[i] = WakeMeUp

\* The pipewire thread blocks for an answer only while its request lies in the
\* channel to picom or the answer before itself: picom never takes a request, nor
\* drops the channel, without answering or dropping the reply.  (Whether picom
\* ever reads the channel again is the question of AddBufferAnswered.)
BlockedThreadAsked ==
    pwPc = "add" /\ oneshot = "empty" =>
        \E i \in DOMAIN fromPw : fromPw[i] = AddBuffer(cur)

RemovalQueued(b) == \E i \in DOMAIN fromPw : fromPw[i] = RemoveBuffers(b)

\* picom never blits into a buffer it does not have: a buffer is imported when
\* its activation arrives, and its removal is never received before that.
ActiveImported ==
    /\ active \subseteq buffers
    /\ \A i \in DOMAIN fromPw : fromPw[i].type = "ActivateBuffer" =>
            /\ fromPw[i].id \in buffers
            /\ \A j \in 1..i : fromPw[j] # RemoveBuffers(fromPw[i].id)

\* Every buffer PipeWire has is imported on the GPU, and the GPU keeps none for
\* longer: an imported buffer is in use, just being added, or has its removal
\* on the way, also when streams fail or close while a present is under way.
\* Unloading drops all imports.
ImportsTracked ==
    /\ picomPc # "gone" => \A s \in Streams : bufs[s] \subseteq buffers
    /\ \A b \in buffers :
         \/ b \in bufs[Owner(b)]
         \/ RemovalQueued(b)
         \/ pwPc = "add" /\ oneshot = "sent" /\ b = <<cur, made[cur]>>

\* node_id_to_stream names exactly the streams whose client got a node id and
\* that are not being dropped: such a stream can be closed by its client, and
\* the index of `streams' in CloseStreams does not fail.
NodeMapAccurate ==
    \A s \in Streams :
        s \in nodes <=>
            reply[s] = "sent" /\ Live(s) /\ ~(pwPc = "destroy" /\ cur = s)

\* The assertion on activations, the index of a blit and the unwraps of the
\* outstanding buffer and of a fence wait never fail, whatever fails around them.
AssertionsHold ==
    fault \notin {"double_activate", "unknown_buffer", "no_outstanding", "fence_twice"}

\* While the plugin stays loaded and nothing fails but a present, trigger_process
\* or the negotiation of a format, no step of either thread panics or frees a
\* pointer never set.
NeverPanics == fault = "none"

\* How far the frame of a stream is, and the buffer it is made in.
Stage(s) ==
    CASE Activations(s) # {} -> "wanted"
      [] Activations(s) = {} /\ ActiveOf(s) # {} -> "taken"
      [] Activations(s) \cup ActiveOf(s) = {} /\ Answers(s) # {} -> "answered"
      [] ~InFlight(s) /\ ready[s] -> "ready"
      [] ~InFlight(s) /\ ~ready[s] -> "rest"
      [] OTHER -> "fenced"

InTheMaking(s) ==
    {fromPw[i].id : i \in Activations(s)} \cup ActiveOf(s)
        \cup {toPw[i].id : i \in Answers(s)} \cup FencesOf(s)

Target(s) == IF InFlight(s) THEN CHOOSE b \in InTheMaking(s) : TRUE ELSE None

Cycle == INSTANCE CaptureCycle WITH
    Buffers <- BufIds,
    stage <- [s \in Streams |-> Stage(s)],
    target <- [s \in Streams |-> Target(s)],
    held <- [s \in Streams |-> Held(s)]

\* The two threads implement the capture cycle: the consumer gets a buffer only
\* in the step in which the fence of the frame picom blitted into it is
\* signalled, and no frame is made in a buffer it has.
CyclesInOrder == Cycle!Spec

\* The documentation of AddBuffer says that the main thread imports the buffer
\* and sends back an id: the pipewire thread, blocked in handle_add_buffer, is
\* always answered.
AddBufferAnswered == pwPc = "add" ~> pwPc # "add"

\* The documentation of BufferError says that the pipewire thread drops the
\* buffer and its stream: handling it never fails for want of the stream.
BufferErrorHandled == fault # "stream_index"

\* The unwrap when an errored stream is removed asserts that every stream that
\* can have an error is in node_id_to_stream.
ErroredStreamRegistered == fault # "node_map"

\* A client's close is always carried out: by the wake-up after it, or by an
\* earlier one, unless the stream is gone by then.
CloseCompletes ==
    \A s \in Streams : s \in closed ~> (state[s] = "gone" \/ fault # "none")

\* A stream that gets an error, wherever it came from, is dropped in the end.
ErroredReaped ==
    \A s \in Streams : state[s] = "error" ~> (state[s] = "gone" \/ fault # "none")

\* While a stream streams, its outstanding buffer comes round: it is filled
\* and handed over, unless the stream pauses or ends first.
FrameDelivered ==
    \A b \in BufIds :
        (state[Owner(b)] = "streaming" /\ outstanding[Owner(b)] = b /\ b \in bufs[Owner(b)])
            ~> (state[Owner(b)] # "streaming" \/ outstanding[Owner(b)] # b)
=============================================================================
