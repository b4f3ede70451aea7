------------------------ MODULE PipelineSafetyProofs ------------------------
(***************************************************************************)
(* The rest of what the runs check of Pipeline's states: imports, the node *)
(* map, frames that are not lost, panics that cannot happen, and wake-ups  *)
(* that are not lost.                                                      *)
(***************************************************************************)
EXTENDS PipelineRefinementProofs

-----------------------------------------------------------------------------
(* The node map.                                                           *)

\* A client whose CreateStream is on its way has no answer.
NodeInv ==
    /\ NodeMapAccurate
    /\ \A s \in Streams : Creates(s) # {} => reply[s] = "pending"

-----------------------------------------------------------------------------
(* Presents and unloading.                                                 *)

\* Buffers are active only in a present, and picom keeps nothing once unloaded.
Unloaded == picomPc = "gone"

PresentInv ==
    /\ picomPc \notin {"drain", "blit"} => active = {}
    /\ Unloaded => buffers = {} /\ fromPw = <<>>

-----------------------------------------------------------------------------
(* Imports.                                                                *)

Removals(b) == Positions(fromPw, {RemoveBuffers(b)})

\* The reply of handle_add_buffer's AddBuffer is there, with this id.
Fetched(b) == pwPc = "add" /\ oneshot = "sent" /\ b = <<cur, made[cur]>>

\* Until picom is unloaded, a buffer of a stream is imported, and stays so until
\* its removal, which is sent once, is received; ids that are imported have been
\* handed out.
ImportInv ==
    /\ \A s \in Streams : \A b \in bufs[s] : b \in buffers /\ Removals(b) = {}
    /\ \A b \in BufIds :
        /\ AtMostOne(Removals(b))
        /\ Removals(b) # {} => b \in buffers
        /\ b \in buffers => b[2] <= made[Owner(b)]
        /\ b \in buffers => b \in bufs[Owner(b)] \/ Removals(b) # {} \/ Fetched(b)
        /\ Fetched(b) => b \in buffers /\ Removals(b) = {}

-----------------------------------------------------------------------------
(* Frames.                                                                 *)

\* As FrameNotLost, from before a stream is created.
Promised(s) ==
    /\ pwTx /\ picomPc # "bail" /\ state[s] \notin {"error", "gone"}
    /\ outstanding[s] \in bufs[s]

Kept(s) == Promised(s) => ready[s] \/ InFlight(s)

KeptInv == (picomPc \in {"drain", "blit"} => pwTx) /\ \A s \in Streams : Kept(s)

-----------------------------------------------------------------------------
(* Activations.                                                            *)

Asked(b) == Positions(fromPw, {ActivateBuffer(b)})

\* Until picom is unloaded, a buffer whose activation is in the channel is
\* imported, and its removal, if sent, comes later.
Ordered(b) == Asked(b) # {} => b \in buffers /\ \A i \in Asked(b), j \in Removals(b) : i < j

ActInv == active \subseteq buffers /\ \A b \in BufIds : Ordered(b)

-----------------------------------------------------------------------------
(* Panics.                                                                 *)

\* Failures the code survives, as long as the plugin stays loaded.
Survivable == {"present", "trigger", "format"}

ErrorsOf(s) == Positions(toPw, [type : {"BufferError"}, id : IdsOf(s)])

\* A stream answers its client when it is paused for the first time.
Answering(s) ==
    /\ state[s] = "connecting" => reply[s] \in {"pending", "sent"}
    /\ state[s] \in {"paused", "streaming", "error"} => reply[s] = "sent"

\* Without other failures nobody quits, no add_buffer fails, no buffer is in
\* error; and whoever has been paused has answered its client.
CalmInv ==
    /\ pwPc # "quit" /\ oneshot # "dropped"
    /\ \A s \in Streams : ~blank[s] /\ ErrorsOf(s) = {} /\ Answering(s)

-----------------------------------------------------------------------------
(* The node map is kept.                                                   *)

LEMMA NodeQuiet ==
    ASSUME CycleInv, NodeInv, UNCHANGED <<nodes, reply, toPw, state>>,
           \A s \in Streams : (pwPc' = "destroy" /\ cur' = s) <=> (pwPc = "destroy" /\ cur = s)
    PROVE  NodeInv'
BY StagesUnchanged DEF NodeInv, NodeMapAccurate, Live

LEMMA NodeError ==
    ASSUME CycleInv, NodeInv, UNCHANGED <<nodes, reply, toPw>>,
           NEW t \in Streams, Live(t), SetError(t) \/ UNCHANGED state,
           \A s \in Streams : (pwPc' = "destroy" /\ cur' = s) <=> (pwPc = "destroy" /\ cur = s)
    PROVE  NodeInv'
<1>1. \A s \in Streams : Live(s)' <=> Live(s)
  BY SetErrorLife DEF SameLife, Live
<1> QED
  BY <1>1, StagesUnchanged DEF NodeInv, NodeMapAccurate

LEMMA NodeServer ==
    ASSUME CycleInv, NodeInv, Server
    PROVE  NodeInv'
<1> USE DEF shared, pwVars, streamVars, picomVars
<1>0. toPw \in Seq(ToPipewire) /\ reply \in [Streams -> {"none", "pending", "sent", "dropped"}]
  BY DEF CycleInv, TypeInv, TypeOK
<1>1. ASSUME NEW s \in Streams, RequestStream(s)
      PROVE  NodeInv'
  <2>1. \A t \in Streams : Creates(t)' # {} => Creates(t) # {} \/ t = s
    <3> SUFFICES ASSUME NEW t \in Streams, t # s
                 PROVE  Creates(t)' = Creates(t)
      OBVIOUS
    <3>1. CreateStream(s) \notin {CreateStream(t)}
      BY DEF CreateStream
    <3> QED
      BY <1>0, <1>1, <3>1, MessageTypes, Sent DEF RequestStream, ServerSend, Creates
  <2>2. UNCHANGED <<nodes, pwPc, cur, state>> /\ reply[s] = "none"
        /\ reply' = [reply EXCEPT ![s] = "pending"]
    BY <1>1 DEF RequestStream
  <2> QED
    BY <1>0, <2>1, <2>2 DEF NodeInv, NodeMapAccurate, Live
<1>2. ASSUME NEW s \in Streams, RequestClose(s)
      PROVE  NodeInv'
  <2>1. \A t \in Streams : CloseStream(s) \notin {CreateStream(t)}
    BY DEF CloseStream, CreateStream
  <2>2. \A t \in Streams : Creates(t)' = Creates(t)
    BY <1>0, <1>2, <2>1, MessageTypes, Sent DEF RequestClose, ServerSend, Creates
  <2> QED
    BY <1>2, <2>2 DEF RequestClose, NodeInv, NodeMapAccurate, Live
<1> QED
  BY <1>1, <1>2 DEF Server

LEMMA NodeWaker ==
    ASSUME CycleInv, NodeInv, WakeUp \/ WakerCallback
    PROVE  NodeInv'
<1> USE DEF shared, pwVars, streamVars, picomVars
<1>0. TypeOK /\ TypeInv
  BY DEF CycleInv, TypeInv
<1>1. CASE WakeUp \/ DrainEmpty \/ ReapDone
  <2>1. /\ UNCHANGED <<nodes, reply, toPw, state, cur>>
        /\ pwPc # "destroy" /\ pwPc' # "destroy"
    BY <1>1 DEF WakeUp, DrainEmpty, ReapDone
  <2> QED
    BY <2>1, NodeQuiet
<1>2. ASSUME NEW type, Received(type)
      PROVE  /\ \A s \in Streams : Creates(s)' # {} => Creates(s) # {}
             /\ pwPc = "drain"
             /\ type = "CreateStream" =>
                  \E s \in Streams :
                    s = Head(toPw).stream /\ Creates(s) # {} /\ Creates(s)' = {}
  <2>1. pwPc = "drain" /\ (type = "CreateStream" => Head(toPw).stream \in Streams)
    BY <1>0, <1>2, ReceivedType
  <2>2. \A s \in Streams : NoMore(Creates(s), Creates(s)')
    BY <1>2, ReceivedStages
  <2>3. type = "CreateStream" =>
            \A s \in Streams : s = Head(toPw).stream => Creates(s) # {} /\ Creates(s)' = {}
    BY <1>2, ReceivedStages
  <2> QED
    BY <2>1, <2>2, <2>3 DEF NoMore
<1>3. CASE HandleCreateStream
  <2>1. PICK s \in Streams :
            /\ Creates(s) # {} /\ UNCHANGED <<nodes, reply, pwPc, cur>>
            /\ state' = [state EXCEPT ![s] = "connecting"] /\ pwPc = "drain"
            /\ \A t \in Streams : Creates(t)' # {} => Creates(t) # {}
    BY <1>2, <1>3 DEF HandleCreateStream
  <2>2. reply[s] = "pending"
    BY <2>1 DEF NodeInv
  <2> QED
    BY <1>0, <2>1, <2>2 DEF NodeInv, NodeMapAccurate, Live, TypeOK
<1>4. CASE HandleCreateStreamFails
  <2>1. PICK s \in Streams :
            /\ Creates(s) # {} /\ Creates(s)' = {} /\ UNCHANGED <<nodes, state, cur>>
            /\ reply' = [reply EXCEPT ![s] = "dropped"] /\ pwPc = "drain" /\ pwPc' = "quit"
            /\ \A t \in Streams : Creates(t)' # {} => Creates(t) # {}
    BY <1>2, <1>4 DEF HandleCreateStreamFails
  <2>2. reply[s] = "pending"
    BY <2>1 DEF NodeInv
  <2> QED
    BY <1>0, <2>1, <2>2 DEF NodeInv, NodeMapAccurate, Live, TypeOK
<1>5. CASE HandleNewFrame
  <2>1. /\ UNCHANGED <<nodes, reply, state, pwPc, cur>>
        /\ \A t \in Streams : Creates(t)' # {} => Creates(t) # {}
    BY <1>2, <1>5 DEF HandleNewFrame
  <2> QED
    BY <2>1 DEF NodeInv, NodeMapAccurate, Live
<1>6. CASE HandleBufferError \/ HandleCloseStreams
  <2>1. /\ UNCHANGED <<nodes, reply, pwPc, cur>>
        /\ \A t \in Streams : Creates(t)' # {} => Creates(t) # {}
    BY <1>2, <1>6 DEF HandleBufferError, HandleCloseStreams
  <2>2. UNCHANGED state \/ \E t \in Streams : Live(t) /\ SetError(t)
    BY <1>0, <1>6, ReceivedType DEF HandleBufferError, HandleCloseStreams
  <2>3. \A t \in Streams : Live(t)' <=> Live(t)
    BY <2>2, SetErrorLife DEF SameLife, Live
  <2> QED
    BY <2>1, <2>3 DEF NodeInv, NodeMapAccurate
<1>7. ASSUME NEW s \in Streams, ReapStream(s)
      PROVE  NodeInv'
  <2>1. /\ UNCHANGED <<reply, state, toPw>> /\ pwPc = "reap" /\ Live(s)
        /\ \/ s \in nodes /\ nodes' = nodes \ {s} /\ pwPc' = "destroy" /\ cur' = s
           \/ s \notin nodes /\ UNCHANGED <<nodes, pwPc, cur>>
    BY <1>7 DEF ReapStream, ForgetNode, Errored, Live
  <2>2. \A t \in Streams : Creates(t)' = Creates(t)
    BY <2>1, StagesUnchanged
  <2> QED
    BY <2>1, <2>2 DEF NodeInv, NodeMapAccurate, Live
<1>8. CASE StreamDropped
  <2>1. /\ UNCHANGED <<nodes, reply, toPw>> /\ pwPc = "destroy" /\ pwPc' = "reap" /\ cur \in Streams
        /\ state' = [state EXCEPT ![cur] = "gone"]
    BY <1>0, <1>8 DEF StreamDropped, TypeOK
  <2>2. \A t \in Streams : Creates(t)' = Creates(t)
    BY <2>1, StagesUnchanged
  <2> QED
    BY <1>0, <2>1, <2>2 DEF NodeInv, NodeMapAccurate, Live, TypeOK
<1> QED
  BY <1>1, <1>3, <1>4, <1>5, <1>6, <1>7, <1>8 DEF WakerCallback

LEMMA NodeStream ==
    ASSUME CycleInv, NodeInv, Removal \/ BuffersCleared \/ AddBufferReplied \/ AddBufferRefused
                                \/ Environment
    PROVE  NodeInv'
<1> USE DEF shared, pwVars, streamVars, picomVars
<1>0. TypeOK
  BY DEF CycleInv, TypeInv
<1>1. CASE Removal \/ BuffersCleared \/ AddBufferRefused \/ \E b \in BufIds : Recycle(b)
  <2>1. /\ UNCHANGED <<nodes, reply, toPw, state>>
        /\ UNCHANGED <<pwPc, cur>> \/ (pwPc = "clear" /\ pwPc' = "idle")
    BY <1>1 DEF Removal, RemoveBlankBuffer, RemoveBuffer, BuffersCleared, AddBufferRefused, Recycle
  <2> QED
    BY <2>1, NodeQuiet
<1>2. CASE AddBufferReplied
  <2>1. /\ UNCHANGED <<nodes, reply, toPw>> /\ pwPc = "add" /\ pwPc' = "idle"
        /\ SetError(cur) \/ UNCHANGED state
    BY <1>2 DEF AddBufferReplied
  <2>2. cur \in Streams /\ Live(cur)
    BY <1>0, <2>1 DEF TypeOK, CycleInv, CurLive
  <2> QED
    BY <2>1, <2>2, NodeError
<1>3. ASSUME NEW s \in Streams, StatePaused(s)
      PROVE  NodeInv'
  <2>1. /\ UNCHANGED toPw /\ pwPc = "idle" /\ pwPc' = "idle" /\ Live(s)
        /\ state' = [state EXCEPT ![s] = "paused"]
        /\ \/ reply[s] = "pending" /\ nodes' = nodes \cup {s} /\ reply' = [reply EXCEPT ![s] = "sent"]
           \/ UNCHANGED <<nodes, reply>>
    BY <1>3 DEF StatePaused, Live
  <2>2. \A t \in Streams : Creates(t)' = Creates(t)
    BY <2>1, StagesUnchanged
  <2>3. Creates(s) = {}
    BY <2>1 DEF CycleInv, CreatedOnce, Live
  <2> QED
    BY <1>0, <2>1, <2>2, <2>3 DEF NodeInv, NodeMapAccurate, Live, TypeOK
<1>4. ASSUME NEW s \in Streams,
             \/ StateStreaming(s) \/ StateError(s) \/ FormatCleared(s) \/ ClearBuffers(s)
             \/ HandleAddBuffer(s)
      PROVE  NodeInv'
  <2>1. /\ UNCHANGED <<nodes, reply, toPw>> /\ pwPc = "idle" /\ pwPc' # "destroy"
        /\ UNCHANGED state
             \/ (Live(s) /\ \E e \in {"error", "streaming"} : state' = [state EXCEPT ![s] = e])
    BY <1>4 DEF StateStreaming, StateError, FormatCleared, ClearBuffers, HandleAddBuffer, Live
  <2>2. \A t \in Streams : Creates(t)' = Creates(t)
    BY <2>1, StagesUnchanged
  <2> QED
    BY <1>0, <2>1, <2>2 DEF NodeInv, NodeMapAccurate, Live, TypeOK
<1>5. ASSUME NEW s \in Streams, FormatProposed(s) \/ HandleAddBufferFails(s)
      PROVE  NodeInv'
  <2>1. /\ UNCHANGED <<nodes, reply, toPw>> /\ pwPc = "idle" /\ pwPc' = "idle" /\ Live(s)
        /\ SetError(s) \/ UNCHANGED state
    BY <1>5 DEF FormatProposed, HandleAddBufferFails, Live
  <2> QED
    BY <2>1, NodeError
<1> QED
  BY <1>1, <1>2, <1>3, <1>4, <1>5 DEF Environment

LEMMA NodeFences ==
    ASSUME CycleInv, NodeInv, NEW b \in BufIds, FenceFired(b)
    PROVE  NodeInv'
<1> USE DEF shared, pwVars, streamVars, picomVars
<1>1. PICK s \in Streams : s = Owner(b)
  BY OwnerType
<1>2. /\ UNCHANGED <<nodes, reply, toPw, pwPc, cur>> /\ pwPc = "idle"
      /\ UNCHANGED state \/ (Live(s) /\ SetError(s))
  BY <1>1 DEF FenceFired, Live
<1>3. CASE UNCHANGED state
  BY <1>2, <1>3, NodeQuiet
<1>4. CASE Live(s) /\ SetError(s)
  BY <1>2, <1>4, NodeError
<1> QED
  BY <1>2, <1>3, <1>4

LEMMA NodePresent ==
    ASSUME CycleInv, NodeInv, PresentBegin \/ PresentFails \/ Present \/ Unload \/ SendFails
    PROVE  NodeInv'
<1> USE DEF shared, pwVars, streamVars, picomVars
<1>1. UNCHANGED <<nodes, reply, state, pwPc, cur>>
  BY DEF PresentBegin, PresentFails, Present, ReceiveAddBuffer, ReceiveAddBufferFails,
     ReceiveActivateBuffer, ReceiveRemoveBuffers, ReceiveWakeMeUp, ChannelEmpty, Blit, PresentEnd,
     Unload, SendFails
<1>2. \/ UNCHANGED toPw
      \/ \E b \in BufIds : \E m \in {NewFrame(b), BufferError(b)} : toPw' = Append(toPw, m)
  <2>1. ASSUME NEW b \in BufIds, Blit(b)
        PROVE  UNCHANGED toPw \/ \E m \in {NewFrame(b), BufferError(b)} : toPw' = Append(toPw, m)
    BY <2>1 DEF Blit, GuardSend
  <2> QED
    BY <2>1 DEF PresentBegin, PresentFails, Present, ReceiveAddBuffer, ReceiveAddBufferFails,
       ReceiveActivateBuffer, ReceiveRemoveBuffers, ReceiveWakeMeUp, ChannelEmpty, PresentEnd,
       Unload, SendFails
<1>3. ASSUME NEW b \in BufIds, NEW m \in {NewFrame(b), BufferError(b)}, toPw' = Append(toPw, m),
             NEW s \in Streams
      PROVE  Creates(s)' = Creates(s)
  <2>1. m \in ToPipewire
    BY MessageTypes
  <2>2. m \notin {CreateStream(s)}
    BY DEF CreateStream, NewFrame, BufferError
  <2>3. toPw \in Seq(ToPipewire)
    BY DEF CycleInv, TypeInv, TypeOK
  <2> QED
    BY <1>3, <2>1, <2>2, <2>3, Sent DEF Creates
<1>4. \A s \in Streams : Creates(s)' = Creates(s)
  BY <1>2, <1>3, StagesUnchanged
<1> QED
  BY <1>1, <1>4 DEF NodeInv, NodeMapAccurate, Live

LEMMA NodeStep == CycleInv /\ NodeInv /\ [Next]_vars => NodeInv'
<1> SUFFICES ASSUME CycleInv, NodeInv, [Next]_vars
             PROVE  NodeInv'
  OBVIOUS
<1>1. CASE Next
  BY <1>1, NodeServer, NodeWaker, NodeStream, NodeFences, NodePresent DEF Next, Callback
<1>2. CASE UNCHANGED vars
  BY <1>2, NodeQuiet DEF vars, shared, pwVars, streamVars
<1> QED
  BY <1>1, <1>2

\* node_id_to_stream names the streams whose clients were answered and that are
\* not being dropped, whatever fails: a client's close finds its stream, and no
\* entry is left that the index of `streams' in CloseStreams fails on.
THEOREM NodeMapIsAccurate == Spec => []NodeMapAccurate
<1>1. Init => NodeInv
  <2> SUFFICES ASSUME Init PROVE NodeInv
    OBVIOUS
  <2>1. \A s \in Streams : Creates(s) = {}
    BY DEF Init, Creates, Positions
  <2> QED
    BY <2>1 DEF Init, NodeInv, NodeMapAccurate
<1>2. NodeInv => NodeMapAccurate
  BY DEF NodeInv
<1> QED
  BY <1>1, <1>2, NodeStep, CycleInvariant, PTL DEF Spec

-----------------------------------------------------------------------------
(* What picom has, in a present and once it is unloaded.                   *)

\* Only picom touches its buffers, and nothing is sent to it once it is gone.
LEMMA PipewireSteps ==
    ASSUME \/ Server \/ WakeUp \/ Callback \/ Environment \/ SendFails \/ UNCHANGED vars
           \/ \E b \in BufIds : FenceFired(b)
    PROVE  UNCHANGED <<picomPc, buffers, active>> /\ (Unloaded => UNCHANGED fromPw)
<1> USE DEF shared, pwVars, streamVars, picomVars, Unloaded
<1>1. CASE Server \/ WakeUp \/ WakerCallback \/ SendFails \/ UNCHANGED vars
  BY <1>1
  DEF Server, RequestStream, RequestClose, WakeUp, WakerCallback, HandleCreateStream,
      HandleCreateStreamFails, HandleNewFrame, HandleBufferError, HandleCloseStreams, SetError,
      SendToPicom, DrainEmpty, ReapStream, StreamDropped, ReapDone, SendFails, vars
<1>2. CASE Removal \/ BuffersCleared \/ AddBufferReplied \/ AddBufferRefused
  BY <1>2
  DEF Removal, RemoveBlankBuffer, RemoveBuffer, TellRemoved, BuffersCleared, AddBufferReplied,
      AddBufferRefused, SetError, SendToPicom
<1>3. CASE Environment
  BY <1>3
  DEF Environment, Recycle, StatePaused, StateStreaming, Resume, SendBuffer, StateError,
      FormatProposed, FormatCleared, ClearBuffers, HandleAddBuffer, HandleAddBufferFails, SetError,
      SendToPicom
<1>4. CASE \E b \in BufIds : FenceFired(b)
  BY <1>4 DEF FenceFired, Process, SendBuffer, SetError, SendToPicom
<1> QED
  BY <1>1, <1>2, <1>3, <1>4 DEF Callback

LEMMA PresentStep ==
    ASSUME PresentInv, [Next]_vars
    PROVE  PresentInv' /\ (Unloaded => Unloaded') /\ (~Unloaded' \/ Unloaded \/ Unload)
<1> USE DEF shared, pwVars, picomVars, PresentInv, Unloaded
<1>1. CASE \/ Server \/ WakeUp \/ Callback \/ Environment \/ SendFails \/ UNCHANGED vars
           \/ \E b \in BufIds : FenceFired(b)
  BY <1>1, PipewireSteps
<1>2. CASE PresentBegin \/ PresentFails \/ ChannelEmpty \/ PresentEnd \/ \E b \in BufIds : Blit(b)
  BY <1>2 DEF PresentBegin, PresentFails, ChannelEmpty, PresentEnd, Blit
<1>3. CASE ReceiveAddBuffer \/ ReceiveAddBufferFails \/ ReceiveActivateBuffer
             \/ ReceiveRemoveBuffers \/ ReceiveWakeMeUp
  BY <1>3
  DEF Taken, ReceiveAddBuffer, ReceiveAddBufferFails, ReceiveActivateBuffer, ReceiveRemoveBuffers,
      ReceiveWakeMeUp
<1>4. CASE Unload
  BY <1>4 DEF Unload
<1> QED
  BY <1>1, <1>2, <1>3, <1>4 DEF Next, Present

LEMMA PresentInit == Init => PresentInv
BY DEF Init, PresentInv, Unloaded

-----------------------------------------------------------------------------
(* Imports stay tracked.                                                   *)

LEMMA SendRemovals ==
    ASSUME TypeInv, NEW m \in FromPipewire, SendToPicom(m), NEW b \in BufIds
    PROVE  /\ m # RemoveBuffers(b) => Removals(b)' = Removals(b)
           /\ m = RemoveBuffers(b) /\ Removals(b) = {} =>
                Removals(b)' # {} /\ AtMostOne(Removals(b)')
<1>1. fromPw \in Seq(FromPipewire) /\ fromPw' = Append(fromPw, m)
  BY DEF TypeInv, TypeOK, SendToPicom
<1>2. m # RemoveBuffers(b) => Removals(b)' = Removals(b)
  BY <1>1, Sent DEF Removals
<1>3. ASSUME m = RemoveBuffers(b), Removals(b) = {}
      PROVE  Removals(b)' # {} /\ AtMostOne(Removals(b)')
  <2>1. m \in {RemoveBuffers(b)} /\ Positions(fromPw, {RemoveBuffers(b)}) = {}
    BY <1>3 DEF Removals
  <2>2. \A M : m \in M /\ Positions(fromPw, M) = {} =>
            Positions(Append(fromPw, m), M) # {} /\ AtMostOne(Positions(Append(fromPw, m), M))
    BY <1>1, Sent
  <2> QED
    BY <1>1, <2>1, <2>2 DEF Removals
<1> QED
  BY <1>2, <1>3

LEMMA TakeRemovals ==
    ASSUME TypeInv, NEW type, Taken(type), NEW b \in BufIds, AtMostOne(Removals(b))
    PROVE  /\ AtMostOne(Removals(b)')
           /\ Head(fromPw) # RemoveBuffers(b) => (Removals(b)' = {} <=> Removals(b) = {})
           /\ Head(fromPw) = RemoveBuffers(b) => Removals(b) # {} /\ Removals(b)' = {}
<1>1. fromPw \in Seq(FromPipewire) /\ fromPw # <<>> /\ fromPw' = Tail(fromPw)
  BY DEF TypeInv, TypeOK, Taken
<1>2. AtMostOne(Positions(fromPw, {RemoveBuffers(b)}))
  BY DEF Removals
<1>3. \A M : /\ AtMostOne(Positions(fromPw, M)) => AtMostOne(Positions(Tail(fromPw), M))
             /\ Head(fromPw) \notin M => (Positions(Tail(fromPw), M) = {} <=> Positions(fromPw, M) = {})
             /\ Head(fromPw) \in M /\ AtMostOne(Positions(fromPw, M)) =>
                    Positions(fromPw, M) # {} /\ Positions(Tail(fromPw), M) = {}
  BY <1>1, Got
<1>4. Removals(b)' = Positions(Tail(fromPw), {RemoveBuffers(b)})
  BY <1>1 DEF Removals
<1> QED
  BY <1>2, <1>3, <1>4 DEF Removals

\* A step that removes no buffer and imports none.
SameRemovals ==
    \A b \in BufIds : /\ AtMostOne(Removals(b)) => AtMostOne(Removals(b)')
                      /\ Removals(b)' = {} <=> Removals(b) = {}

SameFetch ==
    \/ UNCHANGED <<pwPc, cur, oneshot>>
    \/ ~(pwPc = "add" /\ oneshot = "sent") /\ ~(pwPc' = "add" /\ oneshot' = "sent")

LEMMA ImportQuiet ==
    ASSUME TypeInv, ImportInv, UNCHANGED <<bufs, buffers, made>>, SameRemovals, SameFetch
    PROVE  ImportInv'
<1>1. \A b \in BufIds : Fetched(b)' <=> Fetched(b)
  BY DEF SameFetch, Fetched
<1>2. \A s \in Streams : \A b \in bufs'[s] : b \in BufIds
  BY DEF TypeInv, TypeOK
<1> QED
  BY <1>1, <1>2 DEF ImportInv, SameRemovals

\* What the pipewire thread sends in the steps that remove no buffer.
Harmless(m) == m \in FromPipewire /\ m.type # "RemoveBuffers"

LEMMA HarmlessSend ==
    ASSUME TypeInv, UNCHANGED fromPw \/ \E m : Harmless(m) /\ SendToPicom(m)
    PROVE  SameRemovals
<1>1. CASE UNCHANGED fromPw
  BY <1>1 DEF SameRemovals, Removals
<1>2. ASSUME NEW m, Harmless(m), SendToPicom(m)
      PROVE  SameRemovals
  <2>1. \A b \in BufIds : m # RemoveBuffers(b)
    BY <1>2 DEF Harmless, RemoveBuffers
  <2> QED
    BY <1>2, <2>1, SendRemovals DEF Harmless, SameRemovals
<1> QED
  BY <1>1, <1>2

LEMMA Errors == \A s : SetError(s) => \E m : Harmless(m) /\ SendToPicom(m)
<1>1. Harmless(WakeMeUp)
  BY MessageTypes DEF Harmless, WakeMeUp
<1> QED
  BY <1>1 DEF SetError

LEMMA HarmlessActivation ==
    ASSUME NEW b \in BufIds, SendToPicom(ActivateBuffer(b))
    PROVE  \E m : Harmless(m) /\ SendToPicom(m)
<1>1. Harmless(ActivateBuffer(b))
  BY MessageTypes DEF Harmless, ActivateBuffer
<1> QED
  BY <1>1 DEF SendToPicom

LEMMA Sends ==
    ASSUME NEW s, NEW streaming, NEW out, NEW avail \in SUBSET BufIds,
           SendBuffer(s, streaming, out, avail)
    PROVE  UNCHANGED fromPw \/ \E m : Harmless(m) /\ SendToPicom(m)
BY HarmlessActivation DEF SendBuffer

LEMMA ImportServerWaker ==
    ASSUME TypeInv, ImportInv, Server \/ WakeUp \/ WakerCallback
    PROVE  ImportInv'
<1> USE DEF shared, pwVars, streamVars, picomVars
<1>1. CASE Server
  BY <1>1, HarmlessSend, ImportQuiet DEF Server, RequestStream, RequestClose, SameFetch
<1>2. CASE WakeUp \/ HandleCreateStream \/ HandleCreateStreamFails \/ HandleNewFrame \/ DrainEmpty
             \/ ReapDone \/ StreamDropped \/ \E s \in Streams : ReapStream(s)
  <2>1. UNCHANGED <<fromPw, bufs, buffers, made>> /\ pwPc # "add" /\ pwPc' # "add"
    BY <1>2 DEF WakeUp, HandleCreateStream, HandleCreateStreamFails, HandleNewFrame, DrainEmpty,
       ReapDone, StreamDropped, ReapStream, Received
  <2> QED
    BY <2>1, HarmlessSend, ImportQuiet DEF SameFetch
<1>3. CASE HandleBufferError \/ HandleCloseStreams
  <2>1. UNCHANGED <<bufs, buffers, made, pwPc, cur, oneshot>>
    BY <1>3 DEF HandleBufferError, HandleCloseStreams
  <2>2. UNCHANGED fromPw \/ \E s : SetError(s)
    BY <1>3 DEF HandleBufferError, HandleCloseStreams
  <2> QED
    BY <2>1, <2>2, Errors, HarmlessSend, ImportQuiet DEF SameFetch
<1> QED
  BY <1>1, <1>2, <1>3 DEF WakerCallback

LEMMA ImportRemoval ==
    ASSUME CycleInv, ImportInv, NEW b \in BufIds, RemoveBuffer(b)
    PROVE  ImportInv'
<1> USE DEF shared, pwVars, streamVars, picomVars
<1>0. TypeInv /\ TypeOK
  BY DEF CycleInv, TypeInv
<1>1. PICK s \in Streams : s = Owner(b) /\ s = cur
  BY OwnerType DEF RemoveBuffer
<1>2. /\ pwPc \in {"clear", "destroy"} /\ b \in bufs[s] /\ SendToPicom(RemoveBuffers(b))
      /\ bufs' = [bufs EXCEPT ![s] = bufs[s] \ {b}] /\ UNCHANGED <<buffers, made, pwPc, cur, oneshot>>
  BY <1>1 DEF RemoveBuffer, TellRemoved
<1>3. b \in buffers /\ Removals(b) = {}
  BY <1>2 DEF ImportInv
<1>4. Removals(b)' # {} /\ AtMostOne(Removals(b)')
  BY <1>0, <1>2, <1>3, MessageTypes, SendRemovals
<1>5. \A c \in BufIds : c # b => Removals(c)' = Removals(c)
  <2>1. \A c : c # b => RemoveBuffers(b) # RemoveBuffers(c)
    BY DEF RemoveBuffers
  <2> QED
    BY <1>0, <1>2, <2>1, MessageTypes, SendRemovals
<1>6. /\ bufs'[s] = bufs[s] \ {b}
      /\ \A t \in Streams : t # s => bufs'[t] = bufs[t] /\ b \notin bufs[t]
  BY <1>0, <1>1, <1>2 DEF TypeOK, CycleInv, OwnIds, IdsOf, Owner
<1>7. \A c \in BufIds : ~Fetched(c)' /\ ~Fetched(c)
  BY <1>2 DEF Fetched
<1>8. \A t \in Streams : \A c \in bufs'[t] : c # b /\ c \in BufIds /\ c \in bufs[t]
  BY <1>0, <1>6 DEF TypeOK
<1>9. \A c \in BufIds : Owner(c) \in Streams /\ (c # b => (c \in bufs'[Owner(c)] <=> c \in bufs[Owner(c)]))
  BY <1>6, OwnerType
<1> QED
  BY <1>1, <1>2, <1>3, <1>4, <1>5, <1>7, <1>8, <1>9 DEF ImportInv

LEMMA ImportReplied ==
    ASSUME CycleInv, ImportInv, AddBufferReplied
    PROVE  ImportInv'
<1> USE DEF shared, pwVars, streamVars, picomVars
<1>0. TypeInv /\ TypeOK
  BY DEF CycleInv, TypeInv
<1>1. PICK s \in Streams : s = cur
  BY <1>0 DEF AddBufferReplied, TypeOK
<1> DEFINE b == <<s, made[s]>>
<1>2. /\ bufs' = [bufs EXCEPT ![s] = bufs[s] \cup {b}] /\ UNCHANGED <<buffers, made>>
      /\ UNCHANGED fromPw \/ SetError(s)
      /\ pwPc = "add" /\ oneshot = "sent" /\ pwPc' = "idle"
  BY <1>1 DEF AddBufferReplied
<1>3. b \in BufIds /\ Fetched(b) /\ Owner(b) = s
  BY <1>0, <1>1, <1>2 DEF TypeOK, TypeInv, AddAnswered, BufIds, Fetched, Owner
<1>4. b \in buffers /\ Removals(b) = {}
  BY <1>3 DEF ImportInv
<1>5. SameRemovals
  BY <1>0, <1>2, Errors, HarmlessSend
<1>6. \A c \in BufIds : ~Fetched(c)' /\ (Fetched(c) => c = b)
  BY <1>1, <1>2 DEF Fetched
<1>7. /\ bufs'[s] = bufs[s] \cup {b}
      /\ \A t \in Streams : t # s => bufs'[t] = bufs[t]
  BY <1>0, <1>2 DEF TypeOK
<1>8. \A t \in Streams : \A c \in bufs'[t] : c \in BufIds /\ (c # b => c \in bufs[t])
  BY <1>0, <1>3, <1>7 DEF TypeOK
<1>9. \A c \in BufIds : /\ Owner(c) \in Streams /\ (c \in bufs[Owner(c)] => c \in bufs'[Owner(c)])
                        /\ c = b => c \in bufs'[Owner(c)]
  BY <1>3, <1>7, OwnerType
<1> HIDE DEF b
<1> QED
  BY <1>2, <1>3, <1>4, <1>5, <1>6, <1>8, <1>9 DEF ImportInv, SameRemovals

LEMMA ImportStream ==
    ASSUME CycleInv, ImportInv, RemoveBlankBuffer \/ BuffersCleared \/ AddBufferRefused \/ Environment
    PROVE  ImportInv'
<1> USE DEF shared, pwVars, streamVars, picomVars
<1>0. TypeInv /\ TypeOK
  BY DEF CycleInv, TypeInv
<1>1. CASE RemoveBlankBuffer \/ BuffersCleared \/ AddBufferRefused \/ \E b \in BufIds : Recycle(b)
  <2>1. /\ UNCHANGED <<fromPw, bufs, buffers, made>>
        /\ UNCHANGED <<pwPc, cur, oneshot>> \/ (pwPc = "clear" /\ pwPc' = "idle")
    BY <1>1 DEF RemoveBlankBuffer, BuffersCleared, AddBufferRefused, Recycle
  <2> QED
    BY <1>0, <2>1, HarmlessSend, ImportQuiet DEF SameFetch
<1>2. ASSUME NEW s \in Streams,
             \/ StatePaused(s) \/ StateError(s) \/ FormatProposed(s) \/ FormatCleared(s)
             \/ ClearBuffers(s) \/ HandleAddBufferFails(s)
      PROVE  ImportInv'
  <2>1. /\ UNCHANGED <<bufs, buffers, made>> /\ pwPc = "idle" /\ pwPc' # "add"
        /\ UNCHANGED fromPw \/ SetError(s)
    BY <1>2 DEF StatePaused, StateError, FormatProposed, FormatCleared, ClearBuffers, HandleAddBufferFails
  <2> QED
    BY <1>0, <2>1, Errors, HarmlessSend, ImportQuiet DEF SameFetch
<1>3. ASSUME NEW s \in Streams, HandleAddBuffer(s)
      PROVE  ImportInv'
  <2>1. /\ UNCHANGED <<bufs, buffers, made>> /\ pwPc = "idle" /\ oneshot' = "empty"
        /\ SendToPicom(AddBuffer(s))
    BY <1>3 DEF HandleAddBuffer
  <2>2. Harmless(AddBuffer(s))
    BY MessageTypes DEF Harmless, AddBuffer
  <2>3. SameRemovals
    BY <1>0, <2>1, <2>2, HarmlessSend
  <2> QED
    BY <1>0, <2>1, <2>3, ImportQuiet DEF SameFetch
<1>4. ASSUME NEW s \in Streams, StateStreaming(s)
      PROVE  ImportInv'
  <2>1. /\ UNCHANGED <<bufs, buffers, made>> /\ pwPc = "idle" /\ pwPc' = "idle" /\ Resume(s)
    BY <1>4 DEF StateStreaming
  <2>2. free[s] \in SUBSET BufIds /\ bufs[s] \in SUBSET BufIds /\ outstanding[s] \in BufIds \cup {None}
    BY <1>0 DEF TypeOK
  <2>3. outstanding[s] # None => Deref(s) \subseteq BufIds
    BY <2>2 DEF Deref
  <2>4. UNCHANGED fromPw \/ \E m : Harmless(m) /\ SendToPicom(m)
    BY <2>1, <2>2, <2>3, HarmlessActivation, Sends DEF Resume
  <2> QED
    BY <1>0, <2>1, <2>4, HarmlessSend, ImportQuiet DEF SameFetch
<1> QED
  BY <1>1, <1>2, <1>3, <1>4 DEF Environment

LEMMA ImportFences ==
    ASSUME CycleInv, ImportInv, NEW b \in BufIds, FenceFired(b)
    PROVE  ImportInv'
<1> USE DEF shared, pwVars, streamVars, picomVars
<1>0. TypeInv /\ TypeOK
  BY DEF CycleInv, TypeInv
<1>1. PICK s \in Streams : s = Owner(b)
  BY OwnerType
<1>2. /\ UNCHANGED <<bufs, buffers, made, pwPc, cur, oneshot>>
      /\ UNCHANGED fromPw \/ SetError(s) \/ SendBuffer(s, TRUE, None, free[s])
  BY <1>1 DEF FenceFired, Process
<1>3. free[s] \in SUBSET BufIds
  BY <1>0 DEF TypeOK
<1>4. UNCHANGED fromPw \/ \E m : Harmless(m) /\ SendToPicom(m)
  BY <1>2, <1>3, Errors, Sends
<1> QED
  BY <1>0, <1>2, <1>4, HarmlessSend, ImportQuiet DEF SameFetch

LEMMA ImportPresent ==
    ASSUME CycleInv, ImportInv, PresentBegin \/ PresentFails \/ Present
    PROVE  ImportInv'
<1> USE DEF shared, pwVars, streamVars, picomVars
<1>0. TypeInv /\ TypeOK
  BY DEF CycleInv, TypeInv
<1>1. CASE PresentBegin \/ PresentFails \/ ChannelEmpty \/ PresentEnd \/ \E b \in BufIds : Blit(b)
  <2>1. UNCHANGED <<fromPw, bufs, buffers, made, pwPc, cur, oneshot>>
    BY <1>1 DEF PresentBegin, PresentFails, ChannelEmpty, PresentEnd, Blit
  <2> QED
    BY <1>0, <2>1, HarmlessSend, ImportQuiet DEF SameFetch
\* A message is taken that is no removal.
<1>2. ASSUME NEW type, type # "RemoveBuffers", Taken(type)
      PROVE  SameRemovals
  <2>1. \A b \in BufIds : Head(fromPw) # RemoveBuffers(b)
    BY <1>2 DEF Taken, RemoveBuffers
  <2>2. \A b \in BufIds : AtMostOne(Removals(b))
    BY DEF ImportInv
  <2> QED
    BY <1>0, <1>2, <2>1, <2>2, TakeRemovals DEF SameRemovals
<1>3. CASE ReceiveActivateBuffer \/ ReceiveWakeMeUp
  <2>1. UNCHANGED <<bufs, buffers, made, pwPc, cur, oneshot>> /\ SameRemovals
    BY <1>2, <1>3 DEF ReceiveActivateBuffer, ReceiveWakeMeUp
  <2> QED
    BY <1>0, <2>1, ImportQuiet DEF SameFetch
<1>4. ASSUME Taken("AddBuffer")
      PROVE  \E s \in Streams : s = Head(fromPw).stream /\ pwPc = "add" /\ cur = s /\ oneshot = "empty"
                                /\ made[s] < MaxBuffers
  BY <1>0, <1>4, TakenType DEF TypeInv, AddInProgress
<1>5. CASE ReceiveAddBufferFails
  <2>1. /\ UNCHANGED <<bufs, buffers, made, pwPc, cur>> /\ SameRemovals
        /\ oneshot' = "dropped" /\ Taken("AddBuffer")
    BY <1>2, <1>5 DEF ReceiveAddBufferFails
  <2>2. oneshot = "empty"
    BY <1>4, <2>1
  <2> QED
    BY <1>0, <2>1, <2>2, ImportQuiet DEF SameFetch
<1>6. CASE ReceiveAddBuffer
  <2>1. PICK s \in Streams :
            /\ pwPc = "add" /\ cur = s /\ oneshot = "empty" /\ made[s] < MaxBuffers
            /\ made' = [made EXCEPT ![s] = made[s] + 1]
            /\ buffers' = buffers \cup {<<s, made[s] + 1>>}
    BY <1>4, <1>6 DEF ReceiveAddBuffer, Import
  <2>2. UNCHANGED <<bufs, pwPc, cur>> /\ oneshot' = "sent" /\ SameRemovals
    BY <1>2, <1>6 DEF ReceiveAddBuffer, Import
  <2> DEFINE b == <<s, made[s] + 1>>
  <2>3. \A t \in Streams : made[t] \in Nat
    BY <1>0 DEF TypeOK
  <2>4. /\ made'[s] = made[s] + 1
        /\ \A t \in Streams : t # s => made'[t] = made[t]
    BY <1>0, <2>1 DEF TypeOK
  <2>5. b \in BufIds /\ Owner(b) = s /\ b[2] = made[s] + 1
    BY <2>1, <2>3, MaxBuffersAssumption DEF BufIds, Owner
  <2>6. b \notin buffers
    BY <2>3, <2>5 DEF ImportInv
  <2>7. Removals(b) = {}
    BY <2>5, <2>6 DEF ImportInv
  <2>8. \A c \in BufIds : ~Fetched(c) /\ (Fetched(c)' <=> c = b)
    BY <2>1, <2>2, <2>4 DEF Fetched
  <2>9. \A c \in BufIds : c[2] \in Nat /\ Owner(c) \in Streams
    BY OwnerType DEF BufIds
  <2>10. \A c \in BufIds : c[2] <= made[Owner(c)] => c[2] <= made'[Owner(c)]
    BY <2>3, <2>4, <2>9
  <2>11. b[2] <= made'[Owner(b)]
    BY <2>3, <2>4, <2>5
  <2>12. buffers' = buffers \cup {b}
    BY <2>1
  <2>13. \A t \in Streams : \A c \in bufs[t] : c \in BufIds
    BY <1>0 DEF TypeOK
  <2> HIDE DEF b
  <2> QED
    BY <2>2, <2>5, <2>7, <2>8, <2>10, <2>11, <2>12, <2>13 DEF ImportInv, SameRemovals
<1>7. CASE ReceiveRemoveBuffers
  <2>1. Taken("RemoveBuffers") /\ UNCHANGED <<bufs, made, pwPc, cur, oneshot>>
        /\ buffers' = buffers \ {Head(fromPw).id}
    BY <1>7 DEF ReceiveRemoveBuffers, Discard
  <2>2. Head(fromPw) \in FromPipewire /\ Head(fromPw).type = "RemoveBuffers"
    BY <1>0, <2>1 DEF Taken, TypeOK
  <2>3. PICK b \in BufIds : Head(fromPw) = RemoveBuffers(b) /\ b = Head(fromPw).id
    BY <2>2 DEF FromPipewire, RemoveBuffers
  <2>4. \A c \in BufIds : AtMostOne(Removals(c))
    BY DEF ImportInv
  <2>5. Removals(b) # {} /\ Removals(b)' = {} /\ AtMostOne(Removals(b)')
    BY <1>0, <2>1, <2>3, <2>4, TakeRemovals
  <2>6. \A c \in BufIds : c # b => Head(fromPw) # RemoveBuffers(c)
    BY <2>3 DEF RemoveBuffers
  <2>7. \A c \in BufIds : c # b => AtMostOne(Removals(c)') /\ (Removals(c)' = {} <=> Removals(c) = {})
    BY <1>0, <2>1, <2>4, <2>6, TakeRemovals
  <2>8. \A c \in BufIds : Fetched(c)' <=> Fetched(c)
    BY <2>1 DEF Fetched
  <2>9. buffers' = buffers \ {b}
    BY <2>1, <2>3
  <2>10. \A t \in Streams : \A c \in bufs[t] : c \in BufIds
    BY <1>0 DEF TypeOK
  <2> QED
    BY <2>1, <2>5, <2>7, <2>8, <2>9, <2>10 DEF ImportInv
<1> QED
  BY <1>1, <1>3, <1>5, <1>6, <1>7 DEF Present

LEMMA ImportStep ==
    ASSUME CycleInv, PresentInv, ~Unloaded => ImportInv, [Next]_vars
    PROVE  ~Unloaded' => ImportInv'
<1> SUFFICES ASSUME ~Unloaded'
             PROVE  ImportInv'
  OBVIOUS
<1>0. TypeInv /\ ImportInv /\ ~Unload
  BY PresentStep DEF CycleInv, Unload, Unloaded
<1>1. CASE UNCHANGED vars \/ SendFails
  BY <1>0, <1>1, HarmlessSend, ImportQuiet
  DEF vars, shared, pwVars, streamVars, picomVars, SameFetch, SendFails
<1>2. CASE Server \/ WakeUp \/ Callback \/ Environment \/ \E b \in BufIds : FenceFired(b)
  BY <1>0, <1>2, ImportServerWaker, ImportRemoval, ImportReplied, ImportStream, ImportFences
  DEF Callback, Removal
<1>3. CASE PresentBegin \/ PresentFails \/ Present
  BY <1>0, <1>3, ImportPresent
<1> QED
  BY <1>0, <1>1, <1>2, <1>3 DEF Next

LEMMA ImportInit == Init => ImportInv
<1> SUFFICES ASSUME Init PROVE ImportInv
  OBVIOUS
<1>1. \A b : Removals(b) = {}
  BY DEF Init, Removals, Positions
<1> QED
  BY <1>1 DEF Init, ImportInv, Fetched, AtMostOne

\* Until picom is unloaded, every buffer PipeWire has is imported, and every
\* import is a buffer's, is being told to the pipewire thread, or will be
\* removed, whatever fails and however streams and presents overlap; unloading
\* drops all imports.
THEOREM ImportsAreTracked == Spec => []ImportsTracked
<1> DEFINE Inv == PresentInv /\ (~Unloaded => ImportInv)
<1>1. TypeOK /\ Inv => ImportsTracked
  <2>1. CASE Unloaded
    BY <2>1 DEF PresentInv, ImportsTracked, Unloaded
  <2>2. ASSUME TypeOK, ImportInv PROVE ImportsTracked
    <3>1. \A s \in Streams : bufs[s] \subseteq buffers
      BY <2>2 DEF ImportInv
    <3>2. \A b \in BufIds : Removals(b) # {} => RemovalQueued(b)
      BY DEF Removals, Positions, RemovalQueued
    <3>3. \A b \in buffers : b \in BufIds
      BY <2>2 DEF TypeOK
    <3> QED
      BY <2>2, <3>1, <3>2, <3>3 DEF ImportInv, ImportsTracked, Fetched
  <2> QED
    BY <2>1, <2>2
<1>2. Init => Inv
  BY PresentInit, ImportInit
<1>3. CycleInv /\ Inv /\ [Next]_vars => Inv'
  BY PresentStep, ImportStep
<1> QED
  BY <1>1, <1>2, <1>3, CycleInvariant, TypeCorrect, PTL DEF Spec

-----------------------------------------------------------------------------
(* No frame is lost.                                                       *)

\* Nothing of a stream's frame disappears.
Stays(s) ==
    /\ Wanted(s) \subseteq Wanted(s)' /\ ActiveOf(s) \subseteq ActiveOf(s)'
    /\ Answered(s) \subseteq Answered(s)' /\ FencesOf(s) \subseteq FencesOf(s)'

LEMMA StaysKept ==
    ASSUME NEW s, Kept(s), Stays(s), Promised(s)' => Promised(s), ready[s] => ready'[s]
    PROVE  Kept(s)'
BY EmptyIds, EmptyIdsNext DEF Kept, Stays

\* Sending keeps the ids that are in a channel.
LEMMA SendsStay ==
    ASSUME CycleInv, NEW s \in Streams
    PROVE  /\ UNCHANGED fromPw \/ (\E m \in FromPipewire : SendToPicom(m)) =>
                Wanted(s) \subseteq Wanted(s)'
           /\ UNCHANGED toPw \/ (\E m \in ToPipewire : toPw' = Append(toPw, m)) =>
                Answered(s) \subseteq Answered(s)'
<1>0. toPw \in Seq(ToPipewire) /\ fromPw \in Seq(FromPipewire)
  BY DEF CycleInv, TypeInv, TypeOK
<1>1. ASSUME NEW m \in FromPipewire, SendToPicom(m)
      PROVE  Wanted(s) \subseteq Wanted(s)'
  BY <1>0, <1>1, SentIds DEF SendToPicom, Wanted
<1>2. ASSUME NEW m \in ToPipewire, toPw' = Append(toPw, m)
      PROVE  Answered(s) \subseteq Answered(s)'
  BY <1>0, <1>2, SentIds DEF Answered
<1> QED
  BY <1>1, <1>2 DEF Wanted, Answered

LEMMA ErrorsSent == \A s : SetError(s) => \E m \in FromPipewire : SendToPicom(m)
BY MessageTypes DEF SetError

\* A stream that was promised a frame before, with nothing received.
LEMMA KeptQuiet ==
    ASSUME CycleInv, KeptInv, UNCHANGED <<active, fences, ready>>,
           UNCHANGED fromPw \/ \E m \in FromPipewire : SendToPicom(m),
           UNCHANGED toPw \/ \E m \in ToPipewire : toPw' = Append(toPw, m),
           NEW s \in Streams, Promised(s)' => Promised(s)
    PROVE  Kept(s)'
<1>1. Stays(s)
  BY SendsStay DEF Stays, ActiveOf, FencesOf
<1> QED
  BY <1>1, StaysKept DEF KeptInv

\* A stream that has no frame under way is not there, or not yet.
LEMMA LiveOrLost ==
    ASSUME CycleInv, NEW s \in Streams, InTheMaking(s) # {}, ~Live(s)
    PROVE  state[s] = "gone"
BY EmptyIds DEF CycleInv, Flight, Live

LEMMA KeptServerWaker ==
    ASSUME CycleInv, KeptInv,
           \/ Server \/ WakeUp \/ DrainEmpty \/ ReapDone \/ HandleCreateStream
           \/ HandleCreateStreamFails \/ HandleCloseStreams \/ \E s \in Streams : ReapStream(s)
    PROVE  KeptInv'
<1> USE DEF shared, pwVars, streamVars, picomVars
<1>0. TypeOK /\ TypeInv
  BY DEF CycleInv, TypeInv
<1>1. UNCHANGED <<active, fences, ready, outstanding, bufs, pwTx, picomPc>>
  BY DEF Server, RequestStream, RequestClose, WakeUp, DrainEmpty, ReapDone, HandleCreateStream,
     HandleCreateStreamFails, HandleCloseStreams, ReapStream
<1>2. UNCHANGED fromPw \/ \E m \in FromPipewire : SendToPicom(m)
  BY ErrorsSent
  DEF Server, RequestStream, RequestClose, WakeUp, DrainEmpty, ReapDone, HandleCreateStream,
      HandleCreateStreamFails, HandleCloseStreams, ReapStream
<1>3. CASE Server \/ WakeUp \/ DrainEmpty \/ ReapDone \/ \E s \in Streams : ReapStream(s)
  <2>1. UNCHANGED state
    BY <1>3 DEF Server, RequestStream, RequestClose, WakeUp, DrainEmpty, ReapDone, ReapStream
  <2>2. UNCHANGED toPw \/ \E m \in ToPipewire : toPw' = Append(toPw, m)
    BY <1>3, MessageTypes
    DEF Server, RequestStream, RequestClose, ServerSend, WakeUp, DrainEmpty, ReapDone, ReapStream
  <2>3. \A s \in Streams : Promised(s)' <=> Promised(s)
    BY <1>1, <2>1 DEF Promised
  <2> QED
    BY <1>1, <1>2, <2>2, <2>3, KeptQuiet DEF KeptInv
<1>4. CASE HandleCreateStream \/ HandleCreateStreamFails \/ HandleCloseStreams
  <2>1. PICK type \in {"CreateStream", "CloseStream"} :
            Received(type) /\ (HandleCreateStream => type = "CreateStream")
    BY <1>4 DEF HandleCreateStream, HandleCreateStreamFails, HandleCloseStreams
  <2>2. \A s \in Streams : Stays(s)
    BY <1>1, <1>2, <2>1, ReceiveIds, SendsStay DEF Stays, ActiveOf, FencesOf
  <2>3. ASSUME NEW s \in Streams, state'[s] \notin {"error", "gone"}
        PROVE  state[s] \notin {"error", "gone"}
    <3>1. CASE HandleCreateStream
      <4>1. PICK t \in Streams : t = Head(toPw).stream /\ Creates(t) # {}
        BY <1>0, <2>1, <3>1, ReceivedType, ReceivedStages
      <4>2. state[t] = "none" /\ state' = [state EXCEPT ![t] = "connecting"]
        BY <3>1, <4>1 DEF HandleCreateStream, CycleInv, CreatedOnce
      <4> QED
        BY <1>0, <2>3, <4>2 DEF TypeOK
    <3>2. CASE HandleCreateStreamFails
      BY <2>3, <3>2 DEF HandleCreateStreamFails
    <3>3. CASE HandleCloseStreams
      BY <1>0, <2>3, <3>3 DEF HandleCloseStreams, SetError, TypeOK
    <3> QED
      BY <1>4, <3>1, <3>2, <3>3
  <2>4. \A s \in Streams : Promised(s)' => Promised(s)
    BY <1>1, <2>3 DEF Promised
  <2> QED
    BY <1>1, <2>2, <2>4, StaysKept DEF KeptInv
<1> QED
  BY <1>3, <1>4

LEMMA KeptAnswer ==
    ASSUME CycleInv, KeptInv, HandleNewFrame \/ HandleBufferError
    PROVE  KeptInv'
<1> USE DEF shared, pwVars, streamVars, picomVars
<1>0. TypeOK /\ TypeInv
  BY DEF CycleInv, TypeInv
<1>1. PICK type \in {"NewFrame", "BufferError"} :
        Received(type)
  BY DEF HandleNewFrame, HandleBufferError
<1>2. PICK b \in BufIds : b = Head(toPw).id
  BY <1>0, <1>1, ReceivedType
<1>3. PICK s \in Streams : s = Owner(b)
  BY OwnerType
<1>4. b \in IdsOf(s)
  BY <1>3 DEF BufIds, IdsOf, Owner
<1>5. /\ Answered(s) = {b}
      /\ \A t \in Streams : t # s => Answered(t)' = Answered(t)
  BY <1>1, <1>2, <1>3, ReceiveIds
<1>6. /\ UNCHANGED <<active, outstanding, ready, bufs, pwTx, picomPc>>
      /\ HandleNewFrame => UNCHANGED <<fromPw, state>>
      /\ HandleNewFrame => fences' = IF Live(s) THEN fences \cup {b} ELSE fences
      /\ HandleBufferError => fences' = fences
      /\ HandleBufferError => IF Live(s) THEN SetError(s) ELSE UNCHANGED <<state, fromPw>>
  BY <1>2, <1>3 DEF HandleNewFrame, HandleBufferError
<1>7. \A t \in Streams : Wanted(t) \subseteq Wanted(t)'
  BY <1>6, SendsStay, ErrorsSent
<1>8. ASSUME NEW t \in Streams, t # s PROVE Kept(t)'
  <2>1. Stays(t)
    BY <1>5, <1>6, <1>7, <1>8 DEF Stays, ActiveOf, FencesOf
  <2>2. state'[t] = state[t]
    BY <1>0, <1>6, <1>8 DEF SetError, TypeOK
  <2> QED
    BY <1>6, <2>1, <2>2, StaysKept DEF KeptInv, Promised
<1>9. Kept(s)'
  <2>1. CASE ~Live(s)
    <3>1. InTheMaking(s) # {}
      BY <1>5, EmptyIds
    <3>2. state'[s] = "gone"
      BY <1>6, <2>1, <3>1, LiveOrLost
    <3> QED
      BY <3>2 DEF Kept, Promised
  <2>2. CASE HandleNewFrame /\ Live(s)
    <3>1. FencesOf(s)' # {}
      BY <1>4, <1>6, <2>2 DEF FencesOf
    <3> QED
      BY <3>1 DEF Kept, InFlight
  <2>3. CASE HandleBufferError /\ Live(s)
    <3>1. state'[s] = "error"
      BY <1>0, <1>6, <2>3 DEF SetError, TypeOK
    <3> QED
      BY <3>1 DEF Kept, Promised
  <2> QED
    BY <2>1, <2>2, <2>3
<1> QED
  BY <1>6, <1>8, <1>9 DEF KeptInv

LEMMA KeptDropped ==
    ASSUME CycleInv, KeptInv, StreamDropped
    PROVE  KeptInv'
<1> USE DEF shared, pwVars, streamVars, picomVars
<1>0. TypeOK
  BY DEF CycleInv, TypeInv
<1>1. PICK s \in Streams : s = cur
  BY <1>0 DEF TypeOK, StreamDropped
<1>2. /\ UNCHANGED <<active, fences, toPw, fromPw, bufs, pwTx, picomPc>>
      /\ state' = [state EXCEPT ![s] = "gone"]
      /\ outstanding' = [outstanding EXCEPT ![s] = None]
      /\ ready' = [ready EXCEPT ![s] = FALSE]
  BY <1>1 DEF StreamDropped
<1>3. ASSUME NEW t \in Streams PROVE Kept(t)'
  <2>1. CASE t = s
    BY <1>0, <1>2, <2>1 DEF Kept, Promised, TypeOK
  <2>2. CASE t # s
    <3>1. state'[t] = state[t] /\ outstanding'[t] = outstanding[t] /\ ready'[t] = ready[t]
      BY <1>0, <1>2, <2>2 DEF TypeOK
    <3>2. Stays(t)
      BY <1>2 DEF Stays, Wanted, ActiveOf, Answered, FencesOf
    <3> QED
      BY <1>2, <3>1, <3>2, StaysKept DEF KeptInv, Promised
  <2> QED
    BY <2>1, <2>2
<1> QED
  BY <1>2, <1>3 DEF KeptInv

\* Callbacks of streams and of PipeWire that move no frame.
LEMMA KeptQuietStream ==
    ASSUME FrameInv, KeptInv,
           \/ Removal \/ BuffersCleared \/ AddBufferReplied \/ AddBufferRefused
           \/ \E b \in BufIds : Recycle(b)
           \/ \E s \in Streams :
                \/ StatePaused(s) \/ StateError(s) \/ FormatProposed(s) \/ FormatCleared(s)
                \/ ClearBuffers(s) \/ HandleAddBuffer(s) \/ HandleAddBufferFails(s)
    PROVE  KeptInv'
<1> USE DEF shared, pwVars, streamVars, picomVars
<1>0. TypeOK /\ CycleInv
  BY DEF FrameInv, CycleInv, TypeInv
<1>1. UNCHANGED <<active, fences, ready, outstanding, toPw, pwTx, picomPc>>
  BY DEF Removal, RemoveBlankBuffer, RemoveBuffer, BuffersCleared, AddBufferReplied, AddBufferRefused,
     Recycle, StatePaused, StateError, FormatProposed, FormatCleared, ClearBuffers, HandleAddBuffer,
     HandleAddBufferFails
<1>2. UNCHANGED fromPw \/ \E m \in FromPipewire : SendToPicom(m)
  BY MessageTypes, ErrorsSent
  DEF Removal, RemoveBlankBuffer, RemoveBuffer, TellRemoved, BuffersCleared, AddBufferReplied,
      AddBufferRefused, Recycle, StatePaused, StateError, FormatProposed, FormatCleared, ClearBuffers,
      HandleAddBuffer, HandleAddBufferFails
<1>3. ASSUME NEW s \in Streams, state'[s] \notin {"error", "gone"}
      PROVE  state[s] \notin {"error", "gone"}
  BY <1>0, <1>3
  DEF Removal, RemoveBlankBuffer, RemoveBuffer, BuffersCleared, AddBufferReplied, AddBufferRefused,
      Recycle, StatePaused, StateError, FormatProposed, FormatCleared, ClearBuffers, HandleAddBuffer,
      HandleAddBufferFails, SetError, TypeOK
<1>4. ASSUME NEW s \in Streams, outstanding[s] \in bufs'[s]
      PROVE  outstanding[s] \in bufs[s]
  <2>1. CASE UNCHANGED bufs
    BY <1>4, <2>1
  <2>2. ASSUME NEW b \in BufIds, RemoveBuffer(b)
        PROVE  outstanding[s] \in bufs[s]
    <3>1. PICK t \in Streams : t = cur
      BY <2>2, OwnerType DEF RemoveBuffer
    <3>2. bufs' = [bufs EXCEPT ![t] = bufs[t] \ {b}]
      BY <2>2, <3>1 DEF RemoveBuffer
    <3>3. bufs'[s] \subseteq bufs[s]
      BY <1>0, <3>2 DEF TypeOK
    <3> QED
      BY <1>4, <3>3
  <2>3. CASE AddBufferReplied
    <3>1. PICK t \in Streams : t = cur
      BY <1>0, <2>3 DEF TypeOK, AddBufferReplied
    <3>2. PICK n : n = <<t, made[t]>>
      OBVIOUS
    <3>3. bufs' = [bufs EXCEPT ![t] = bufs[t] \cup {n}] /\ pwPc = "add" /\ oneshot = "sent"
      BY <2>3, <3>1, <3>2 DEF AddBufferReplied
    <3>4. n \notin Known(t) /\ n # None
      <4>1. made[t] \in Nat \ {0} /\ made[t] \in 0..MaxBuffers
        BY <1>0, <3>1, <3>3, MaxBuffersAssumption DEF CycleInv, TypeInv, AddAnswered, TypeOK
      <4>2. Known(t) = {t} \X (1..(made[t] - 1)) /\ made[t] \notin 1..(made[t] - 1)
        BY <3>1, <3>3, <4>1 DEF Known
      <4>3. n \in BufIds
        BY <3>2, <4>1, MaxBuffersAssumption DEF BufIds
      <4> QED
        BY <3>2, <4>2, <4>3, NoneAssumption
    <3>5. outstanding[t] # n
      BY <3>4 DEF FrameInv, Belongs
    <3>6. bufs'[t] = bufs[t] \cup {n} /\ (s # t => bufs'[s] = bufs[s])
      BY <1>0, <3>3 DEF TypeOK
    <3> QED
      BY <1>4, <3>5, <3>6
  <2> QED
    BY <2>1, <2>2, <2>3
    DEF Removal, RemoveBlankBuffer, BuffersCleared, AddBufferRefused, Recycle, StatePaused,
        StateError, FormatProposed, FormatCleared, ClearBuffers, HandleAddBuffer, HandleAddBufferFails
<1>5. \A s \in Streams : Promised(s)' => Promised(s)
  BY <1>1, <1>3, <1>4 DEF Promised
<1> QED
  BY <1>0, <1>1, <1>2, <1>5, KeptQuiet DEF KeptInv

\* A buffer of s is activated, or s has no outstanding buffer.
LEMMA KeptNext ==
    ASSUME CycleInv, KeptInv, NEW s \in Streams,
           \/ outstanding'[s] = None
           \/ \E b \in IdsOf(s) : SendToPicom(ActivateBuffer(b))
           \/ Stays(s) /\ (Promised(s)' => Promised(s)) /\ (ready[s] => ready'[s]),
           UNCHANGED bufs
    PROVE  Kept(s)'
<1>1. None \notin bufs'[s]
  BY NoneAssumption DEF CycleInv, TypeInv, TypeOK
<1>2. CASE outstanding'[s] = None
  BY <1>1, <1>2 DEF Kept, Promised
<1>3. ASSUME NEW b \in IdsOf(s), SendToPicom(ActivateBuffer(b))
      PROVE  Kept(s)'
  <2>1. Activations(s)' # {}
    BY <1>3, SendActivation
  <2> QED
    BY <2>1 DEF Kept, InFlight
<1>4. CASE Stays(s) /\ (Promised(s)' => Promised(s)) /\ (ready[s] => ready'[s])
  BY <1>4, StaysKept DEF KeptInv
<1> QED
  BY <1>2, <1>3, <1>4

LEMMA KeptStreaming ==
    ASSUME CycleInv, KeptInv, NEW s \in Streams, StateStreaming(s)
    PROVE  KeptInv'
<1> USE DEF shared, pwVars, streamVars, picomVars
<1>0. TypeOK
  BY DEF CycleInv, TypeInv
<1>1. /\ UNCHANGED <<active, fences, toPw, bufs, pwTx, picomPc>>
      /\ state[s] = "paused" /\ state' = [state EXCEPT ![s] = "streaming"] /\ Resume(s)
  BY DEF StateStreaming
<1>2. /\ free[s] \subseteq IdsOf(s) /\ bufs[s] \subseteq IdsOf(s)
      /\ outstanding[s] # None => Deref(s) \subseteq IdsOf(s)
  BY DEF CycleInv, OwnIds, Deref
<1>3. /\ UNCHANGED fromPw \/ \E m \in FromPipewire : SendToPicom(m)
      /\ \A t \in Streams : t # s => outstanding'[t] = outstanding[t] /\ ready'[t] = ready[t]
  <2>1. \A b \in IdsOf(s) : ActivateBuffer(b) \in FromPipewire
    BY MessageTypes DEF IdsOf, BufIds
  <2> QED
    BY <1>0, <1>1, <1>2, <2>1 DEF Resume, SendBuffer, TypeOK
<1>4. ASSUME NEW t \in Streams PROVE Stays(t)
  BY <1>1, <1>3, SendsStay DEF Stays, ActiveOf, FencesOf
<1>5. ASSUME NEW t \in Streams, t # s PROVE Kept(t)'
  BY <1>0, <1>1, <1>3, <1>4, <1>5, StaysKept DEF KeptInv, Promised, TypeOK
<1>6. Kept(s)'
  <2>1. CASE ready[s]
    <3>1. outstanding[s] # None
      BY <2>1 DEF CycleInv, Flight
    <3>2. \E b \in IdsOf(s) : SendToPicom(ActivateBuffer(b))
      BY <1>1, <1>2, <2>1, <3>1 DEF Resume
    <3> QED
      BY <1>1, <3>2, KeptNext
  <2>2. CASE ~ready[s]
    <3>1. \/ \E b \in IdsOf(s) : SendToPicom(ActivateBuffer(b))
          \/ outstanding'[s] = outstanding[s]
      BY <1>0, <1>1, <1>2, <2>2 DEF Resume, SendBuffer, TypeOK
    <3>2. outstanding'[s] = outstanding[s] => (Promised(s)' => Promised(s))
      BY <1>1 DEF Promised
    <3> QED
      BY <1>1, <1>4, <2>2, <3>1, <3>2, KeptNext
  <2> QED
    BY <2>1, <2>2
<1> QED
  BY <1>1, <1>5, <1>6 DEF KeptInv

LEMMA KeptFence ==
    ASSUME CycleInv, KeptInv, NEW b \in BufIds, FenceFired(b)
    PROVE  KeptInv'
<1> USE DEF shared, pwVars, streamVars, picomVars
<1>0. TypeOK
  BY DEF CycleInv, TypeInv
<1>1. PICK s \in Streams : s = Owner(b)
  BY OwnerType
<1>2. b \in IdsOf(s) /\ \A t \in Streams : t # s => b \notin IdsOf(t)
  BY <1>1 DEF BufIds, IdsOf, Owner
<1>3. UNCHANGED <<active, toPw, bufs, pwTx, picomPc>> /\ b \in fences /\ fences' = fences \ {b}
  BY DEF FenceFired
<1>4. \/ state[s] = "streaming" /\ Process(s) /\ UNCHANGED state
      \/ /\ ready' = [ready EXCEPT ![s] = TRUE] /\ SetError(s)
         /\ UNCHANGED <<outstanding, free>>
      \/ /\ ready' = [ready EXCEPT ![s] = Live(s)]
         /\ UNCHANGED <<state, fromPw, outstanding, free>>
  BY <1>1 DEF FenceFired
<1>5. free[s] \subseteq IdsOf(s)
  BY DEF CycleInv, OwnIds
<1>6. ASSUME NEW t \in Streams, t # s PROVE Kept(t)'
  <2>1. \A c \in IdsOf(s) : ActivateBuffer(c) \in FromPipewire
    BY MessageTypes DEF IdsOf, BufIds
  <2>2. /\ UNCHANGED fromPw \/ \E m \in FromPipewire : SendToPicom(m)
        /\ outstanding'[t] = outstanding[t] /\ ready'[t] = ready[t] /\ state'[t] = state[t]
    <3>1. CASE Process(s) /\ UNCHANGED state
      BY <1>0, <1>5, <1>6, <2>1, <3>1 DEF Process, SendBuffer, TypeOK
    <3>2. CASE SetError(s) /\ ready' = [ready EXCEPT ![s] = TRUE] /\ UNCHANGED <<outstanding, free>>
      BY <1>0, <1>6, <3>2, ErrorsSent DEF SetError, TypeOK
    <3>3. CASE ready' = [ready EXCEPT ![s] = Live(s)] /\ UNCHANGED <<state, fromPw, outstanding, free>>
      BY <1>0, <1>6, <3>3 DEF TypeOK
    <3> QED
      BY <1>4, <3>1, <3>2, <3>3
  <2>3. Stays(t)
    <3>1. FencesOf(t)' = FencesOf(t) /\ ActiveOf(t)' = ActiveOf(t)
      BY <1>2, <1>3, <1>6 DEF FencesOf, ActiveOf
    <3> QED
      BY <1>3, <2>2, <3>1, SendsStay DEF Stays
  <2> QED
    BY <1>3, <2>2, <2>3, StaysKept DEF KeptInv, Promised
<1>7. Kept(s)'
  <2>1. CASE Process(s)
    <3>1. outstanding'[s] = None \/ \E c \in IdsOf(s) : SendToPicom(ActivateBuffer(c))
      BY <1>0, <1>5, <2>1 DEF Process, SendBuffer, TypeOK
    <3> QED
      BY <1>3, <3>1, KeptNext
  <2>2. CASE SetError(s)
    BY <1>0, <2>2 DEF SetError, TypeOK, Kept, Promised
  <2>3. CASE ready' = [ready EXCEPT ![s] = Live(s)] /\ UNCHANGED state
    <3>1. CASE Live(s)
      BY <1>0, <2>3, <3>1 DEF Kept, TypeOK
    <3>2. CASE ~Live(s)
      <4>1. InTheMaking(s) # {}
        BY <1>2, <1>3, EmptyIds DEF FencesOf
      <4>2. state[s] = "gone"
        BY <3>2, <4>1, LiveOrLost
      <4> QED
        BY <2>3, <4>2 DEF Kept, Promised
    <3> QED
      BY <3>1, <3>2
  <2> QED
    BY <1>4, <2>1, <2>2, <2>3
<1> QED
  BY <1>3, <1>6, <1>7 DEF KeptInv

LEMMA KeptQuietPresent ==
    ASSUME CycleInv, KeptInv,
           \/ PresentBegin \/ PresentFails \/ ChannelEmpty \/ PresentEnd
           \/ ReceiveAddBuffer \/ ReceiveAddBufferFails \/ ReceiveWakeMeUp
           \/ Unload \/ SendFails
    PROVE  KeptInv'
<1> USE DEF shared, pwVars, streamVars, picomVars
<1>1. UNCHANGED <<fences, ready, outstanding, bufs, state, toPw>>
  BY DEF PresentBegin, PresentFails, ChannelEmpty, PresentEnd, ReceiveAddBuffer,
     ReceiveAddBufferFails, ReceiveWakeMeUp, Unload, SendFails
<1>2. CASE PresentBegin \/ PresentFails \/ ChannelEmpty \/ PresentEnd \/ ReceiveAddBuffer
             \/ ReceiveWakeMeUp \/ SendFails
  <2>1. UNCHANGED active
    BY <1>2 DEF PresentBegin, PresentFails, ChannelEmpty, PresentEnd, ReceiveAddBuffer, ReceiveWakeMeUp,
       SendFails
  <2>2. \A s \in Streams : Wanted(s)' = Wanted(s)
    <3>1. CASE UNCHANGED fromPw
      BY <3>1 DEF Wanted
    <3>2. ASSUME NEW type \in {"AddBuffer", "WakeMeUp"}, Taken(type)
          PROVE  \A s \in Streams : Wanted(s)' = Wanted(s)
      BY <3>2, TakeIds
    <3> QED
      BY <1>2, <3>1, <3>2
      DEF PresentBegin, PresentFails, ChannelEmpty, PresentEnd, ReceiveAddBuffer, ReceiveWakeMeUp,
          SendFails
  <2>3. \A s \in Streams : Stays(s)
    BY <1>1, <2>1, <2>2 DEF Stays, ActiveOf, Answered, FencesOf
  <2>4. pwTx' /\ picomPc' # "bail" => pwTx /\ picomPc # "bail"
    BY <1>2
    DEF KeptInv, PresentBegin, PresentFails, ChannelEmpty, PresentEnd, ReceiveAddBuffer,
        ReceiveWakeMeUp, SendFails, Taken
  <2>5. \A s \in Streams : Promised(s)' => Promised(s)
    BY <1>1, <2>4 DEF Promised
  <2>6. picomPc' \in {"drain", "blit"} => pwTx'
    BY <1>2
    DEF KeptInv, PresentBegin, PresentFails, ChannelEmpty, PresentEnd, ReceiveAddBuffer,
        ReceiveWakeMeUp, SendFails, Taken
  <2>7. ASSUME NEW s \in Streams PROVE Kept(s)'
    BY <1>1, <2>3, <2>5, StaysKept DEF KeptInv
  <2> QED
    BY <2>6, <2>7 DEF KeptInv
<1>3. CASE ReceiveAddBufferFails \/ Unload
  BY <1>3 DEF ReceiveAddBufferFails, Unload, KeptInv, Kept, Promised
<1> QED
  BY <1>2, <1>3

LEMMA KeptTake ==
    ASSUME CycleInv, KeptInv, ReceiveActivateBuffer
    PROVE  KeptInv'
<1> USE DEF shared, pwVars, streamVars, picomVars
<1>0. TypeOK /\ TypeInv
  BY DEF CycleInv, TypeInv
<1>1. Taken("ActivateBuffer")
  BY DEF ReceiveActivateBuffer
<1>2. PICK b \in BufIds : b = Head(fromPw).id
  BY <1>0, <1>1, TakenType
<1>3. PICK s \in Streams : s = Owner(b)
  BY OwnerType
<1>4. b \in IdsOf(s) /\ \A t \in Streams : t # s => b \notin IdsOf(t)
  BY <1>3 DEF BufIds, IdsOf, Owner
<1>5. UNCHANGED <<fences, ready, outstanding, bufs, state, toPw, picomPc, pwTx>>
      /\ active' = active \cup {b}
  BY <1>2 DEF ReceiveActivateBuffer
<1>6. ASSUME NEW t \in Streams PROVE Kept(t)'
  <2>1. CASE t = s
    <3>1. ActiveOf(s)' # {}
      BY <1>4, <1>5 DEF ActiveOf
    <3> QED
      BY <2>1, <3>1 DEF Kept, InFlight
  <2>2. CASE t # s
    <3>1. Wanted(t)' = Wanted(t)
      BY <1>1, <1>2, <1>4, <2>2, TakeIds
    <3>2. Stays(t)
      BY <1>5, <3>1 DEF Stays, ActiveOf, Answered, FencesOf
    <3> QED
      BY <1>5, <3>2, StaysKept DEF KeptInv, Promised
  <2> QED
    BY <2>1, <2>2
<1> QED
  BY <1>5, <1>6 DEF KeptInv

\* The buffer of a promised frame is imported, and its removal not sent.
LEMMA PromisedImported ==
    ASSUME FrameInv, ImportInv, NEW s \in Streams, Promised(s), NEW b \in InTheMaking(s)
    PROVE  b \in buffers /\ Removals(b) = {}
BY DEF FrameInv, Belongs, Promised, ImportInv

LEMMA KeptDiscard ==
    ASSUME FrameInv, ImportInv, KeptInv, ReceiveRemoveBuffers
    PROVE  KeptInv'
<1> USE DEF shared, pwVars, streamVars, picomVars
<1>0. TypeOK /\ TypeInv /\ CycleInv
  BY DEF FrameInv, CycleInv, TypeInv
<1>1. Taken("RemoveBuffers")
  BY DEF ReceiveRemoveBuffers
<1>2. PICK b \in BufIds : Head(fromPw) = RemoveBuffers(b) /\ b = Head(fromPw).id
  <2>1. Head(fromPw) \in FromPipewire /\ Head(fromPw).type = "RemoveBuffers"
    BY <1>0, <1>1 DEF Taken, TypeOK
  <2> QED
    BY <2>1 DEF FromPipewire, RemoveBuffers
<1>3. UNCHANGED <<fences, ready, outstanding, bufs, state, toPw, picomPc, pwTx>>
      /\ active' = active \ {b}
  BY <1>2 DEF ReceiveRemoveBuffers, Discard
<1>4. Removals(b) # {}
  BY <1>0, <1>1, <1>2 DEF Taken, TypeOK, Removals, Positions
<1>5. ASSUME NEW s \in Streams PROVE Kept(s)'
  <2>1. CASE b \in ActiveOf(s)
    <3>1. b \in InTheMaking(s)
      BY <2>1, EmptyIds
    <3>2. ~Promised(s)
      BY <1>4, <3>1, PromisedImported
    <3> QED
      BY <1>3, <3>2 DEF Kept, Promised
  <2>2. CASE b \notin ActiveOf(s)
    <3>1. Wanted(s)' = Wanted(s)
      BY <1>0, <1>1, TakeIds
    <3>2. Stays(s)
      BY <1>3, <2>2, <3>1 DEF Stays, ActiveOf, Answered, FencesOf
    <3> QED
      BY <1>3, <3>2, StaysKept DEF KeptInv, Promised
  <2> QED
    BY <2>1, <2>2
<1> QED
  BY <1>3, <1>5 DEF KeptInv

LEMMA KeptBlit ==
    ASSUME FrameInv, ImportInv, KeptInv, NEW b \in BufIds, Blit(b)
    PROVE  KeptInv'
<1> USE DEF shared, pwVars, streamVars, picomVars
<1>0. TypeOK /\ CycleInv
  BY DEF FrameInv, CycleInv, TypeInv
<1>1. PICK s \in Streams : s = Owner(b)
  BY OwnerType
<1>2. b \in IdsOf(s) /\ \A t \in Streams : t # s => b \notin IdsOf(t)
  BY <1>1 DEF BufIds, IdsOf, Owner
<1>3. /\ UNCHANGED <<fences, ready, outstanding, bufs, fromPw, state, picomPc, pwTx>>
      /\ b \in active /\ active' = active \ {b}
      /\ \/ b \notin buffers /\ UNCHANGED toPw
         \/ RxClosed /\ UNCHANGED toPw
         \/ \E m \in {NewFrame(b), BufferError(b)} : toPw' = Append(toPw, m)
  BY DEF Blit, GuardSend
<1>4. b \in InTheMaking(s)
  BY <1>2, <1>3, EmptyIds DEF ActiveOf
<1>5. \A m \in {NewFrame(b), BufferError(b)} : m \in ToPipewire /\ m \in AnswersFor(s)
  <2>1. \A m \in {NewFrame(b), BufferError(b)} : m \in ToPipewire
    BY MessageTypes
  <2> QED
    BY <1>2, <2>1 DEF AnswersFor, NewFrame, BufferError
<1>6. ASSUME NEW t \in Streams, t # s PROVE Kept(t)'
  <2>1. Answered(t) \subseteq Answered(t)'
    BY <1>0, <1>3, <1>5, SendsStay
  <2>2. Stays(t)
    BY <1>2, <1>3, <1>6, <2>1 DEF Stays, Wanted, ActiveOf, FencesOf
  <2> QED
    BY <1>3, <2>2, StaysKept DEF KeptInv, Promised
<1>7. Kept(s)'
  <2>1. CASE b \notin buffers
    <3>1. ~Promised(s)
      BY <1>4, <2>1, PromisedImported
    <3> QED
      BY <1>3, <3>1 DEF Kept, Promised
  <2>2. CASE RxClosed
    <3>1. state[s] = "gone"
      BY <1>0, <1>4, <2>2, LiveOrLost DEF RxClosed
    <3> QED
      BY <1>3, <3>1 DEF Kept, Promised
  <2>3. ASSUME NEW m \in {NewFrame(b), BufferError(b)}, toPw' = Append(toPw, m)
        PROVE  Kept(s)'
    <3>1. toPw \in Seq(ToPipewire)
      BY <1>0 DEF TypeOK
    <3>2. Answers(s)' # {}
      BY <1>5, <2>3, <3>1, Sent DEF Answers
    <3> QED
      BY <3>2 DEF Kept, InFlight
  <2> QED
    BY <1>3, <2>1, <2>2, <2>3
<1> QED
  BY <1>3, <1>6, <1>7 DEF KeptInv

SafetyInv == FrameInv /\ PresentInv /\ (~Unloaded => ImportInv) /\ KeptInv

LEMMA SafetyStep == SafetyInv /\ [Next]_vars => SafetyInv'
<1> SUFFICES ASSUME SafetyInv, [Next]_vars
             PROVE  SafetyInv'
  OBVIOUS
<1>0. FrameInv /\ CycleInv /\ PresentInv /\ (~Unloaded => ImportInv) /\ KeptInv
  BY DEF SafetyInv, FrameInv
<1>1. FrameInv' /\ PresentInv' /\ (~Unloaded' => ImportInv')
  BY <1>0, FrameStep, PresentStep, ImportStep
<1>2. KeptInv'
  <2>1. CASE UNCHANGED vars
    <3>1. UNCHANGED <<active, fences, ready, fromPw, toPw, picomPc, pwTx, state, outstanding, bufs>>
      BY <2>1 DEF vars, shared, pwVars, streamVars, picomVars
    <3>2. \A s \in Streams : Promised(s)' => Promised(s)
      BY <3>1 DEF Promised
    <3>3. \A s \in Streams : Kept(s)'
      BY <1>0, <3>1, <3>2, KeptQuiet
    <3> QED
      BY <1>0, <3>1, <3>3 DEF KeptInv
  <2>2. CASE Server \/ WakeUp \/ WakerCallback
    BY <1>0, <2>2, KeptServerWaker, KeptAnswer, KeptDropped DEF WakerCallback
  <2>3. CASE Removal \/ BuffersCleared \/ AddBufferReplied \/ AddBufferRefused \/ Environment
    BY <1>0, <2>3, KeptQuietStream, KeptStreaming DEF Environment
  <2>4. CASE \E b \in BufIds : FenceFired(b)
    BY <1>0, <2>4, KeptFence
  <2>5. CASE PresentBegin \/ PresentFails \/ Present \/ Unload \/ SendFails
    <3>1. ReceiveRemoveBuffers \/ (\E b \in BufIds : Blit(b)) => ~Unloaded
      BY DEF ReceiveRemoveBuffers, Taken, Blit, Unloaded
    <3> QED
      BY <1>0, <2>5, <3>1, KeptQuietPresent, KeptTake, KeptDiscard, KeptBlit DEF Present
  <2> QED
    BY <2>1, <2>2, <2>3, <2>4, <2>5 DEF Next, Callback
<1> QED
  BY <1>1, <1>2 DEF SafetyInv

LEMMA SafetyInit == Init => SafetyInv
<1> SUFFICES ASSUME Init PROVE SafetyInv
  OBVIOUS
<1>1. KeptInv
  BY NoneAssumption DEF Init, KeptInv, Kept, Promised
<1> QED
  BY <1>1, FrameInit, PresentInit, ImportInit DEF SafetyInv

LEMMA SafetyInvariant == Spec => []SafetyInv
BY SafetyInit, SafetyStep, PTL DEF Spec

\* Unless picom has bailed or been unloaded, a stream that is not in error and whose outstanding
\* buffer has not been taken away has a frame under way or ready: whatever
\* fails on either thread, no message about it gets lost.
THEOREM FramesAreKept == Spec => []FrameNotLost
<1>1. SafetyInv => FrameNotLost
  BY DEF SafetyInv, KeptInv, Kept, Promised, FrameNotLost
<1> QED
  BY <1>1, SafetyInvariant, PTL

-----------------------------------------------------------------------------
(* No activation without an import.                                        *)

\* What may be sent to picom: no activation of a buffer it does not have.
Orderly(m) ==
    /\ m \in FromPipewire
    /\ \A b \in BufIds : m = ActivateBuffer(b) => b \in buffers /\ Removals(b) = {}

LEMMA SendOrdered ==
    ASSUME TypeInv, NEW b \in BufIds, NEW m, Orderly(m), SendToPicom(m), Ordered(b), UNCHANGED buffers
    PROVE  Ordered(b)'
<1>1. fromPw \in Seq(FromPipewire) /\ fromPw' = Append(fromPw, m) /\ m \in FromPipewire
  BY DEF TypeInv, TypeOK, SendToPicom, Orderly
<1>2. /\ m # ActivateBuffer(b) => Asked(b)' = Asked(b)
      /\ m = ActivateBuffer(b) => Asked(b)' = Asked(b) \cup {Len(fromPw) + 1}
  BY <1>1, AppendPositions DEF Asked
<1>3. /\ m # RemoveBuffers(b) => Removals(b)' = Removals(b)
      /\ m = RemoveBuffers(b) => Removals(b)' = Removals(b) \cup {Len(fromPw) + 1}
  BY <1>1, AppendPositions DEF Removals
<1>4. \A i \in Asked(b) : i < Len(fromPw) + 1
  BY <1>1 DEF Asked, Positions
<1>5. CASE m = ActivateBuffer(b)
  <2>1. m # RemoveBuffers(b)
    BY <1>5 DEF ActivateBuffer, RemoveBuffers
  <2>2. b \in buffers /\ Removals(b)' = {}
    BY <1>3, <1>5, <2>1 DEF Orderly
  <2> QED
    BY <2>2 DEF Ordered
<1>6. CASE m # ActivateBuffer(b)
  BY <1>2, <1>3, <1>4, <1>6 DEF Ordered
<1> QED
  BY <1>5, <1>6

LEMMA TakeOrdered ==
    ASSUME TypeInv, NEW b \in BufIds, NEW type, Taken(type), Ordered(b),
           b \in buffers => b \in buffers' \/ Head(fromPw) = RemoveBuffers(b)
    PROVE  Ordered(b)'
<1>1. fromPw \in Seq(FromPipewire) /\ fromPw # <<>> /\ fromPw' = Tail(fromPw)
  BY DEF TypeInv, TypeOK, Taken
<1>2. \A i \in Asked(b)' : i \in Nat \ {0} /\ i + 1 \in Asked(b)
  BY <1>1, TailPositions DEF Asked
<1>3. \A i \in Removals(b)' : i \in Nat \ {0} /\ i + 1 \in Removals(b)
  BY <1>1, TailPositions DEF Removals
<1>4. Head(fromPw) = RemoveBuffers(b) => 1 \in Removals(b)
  BY <1>1, TailPositions DEF Removals
<1> SUFFICES ASSUME NEW i \in Asked(b)'
             PROVE  b \in buffers' /\ \A j \in Removals(b)' : i < j
  BY DEF Ordered
<1>5. i \in Nat \ {0} /\ b \in buffers /\ \A j \in Removals(b) : i + 1 < j
  BY <1>2 DEF Ordered
<1>6. Head(fromPw) # RemoveBuffers(b)
  <2>1. ~(i + 1 < 1)
    BY <1>5
  <2> QED
    BY <1>4, <1>5, <2>1
<1>7. \A j \in Removals(b)' : i < j
  <2> SUFFICES ASSUME NEW j \in Removals(b)'
               PROVE  i < j
    OBVIOUS
  <2>1. j \in Nat /\ i + 1 < j + 1
    BY <1>3, <1>5
  <2> QED
    BY <1>5, <2>1
<1> QED
  BY <1>5, <1>6, <1>7

LEMMA ActQuiet ==
    ASSUME TypeInv, ActInv, UNCHANGED buffers, active' \subseteq active,
           UNCHANGED fromPw \/ \E m : Orderly(m) /\ SendToPicom(m)
    PROVE  ActInv'
<1>1. CASE UNCHANGED fromPw
  BY <1>1 DEF ActInv, Ordered, Asked, Removals
<1>2. CASE \E m : Orderly(m) /\ SendToPicom(m)
  BY <1>2, SendOrdered DEF ActInv
<1> QED
  BY <1>1, <1>2

LEMMA OrderlyOthers ==
    /\ \A s : SetError(s) => \E m : Orderly(m) /\ SendToPicom(m)
    /\ \A s \in Streams : Orderly(AddBuffer(s))
    /\ \A b \in BufIds : Orderly(RemoveBuffers(b))
<1>1. Orderly(WakeMeUp)
  BY MessageTypes DEF Orderly, WakeMeUp, ActivateBuffer
<1>2. \A s \in Streams : Orderly(AddBuffer(s))
  <2>1. \A s, b : AddBuffer(s) # ActivateBuffer(b)
    BY DEF AddBuffer, ActivateBuffer
  <2> QED
    BY <2>1, MessageTypes DEF Orderly
<1>3. \A b \in BufIds : Orderly(RemoveBuffers(b))
  <2>1. \A c, b : RemoveBuffers(c) # ActivateBuffer(b)
    BY DEF RemoveBuffers, ActivateBuffer
  <2> QED
    BY <2>1, MessageTypes DEF Orderly
<1> QED
  BY <1>1, <1>2, <1>3 DEF SetError

\* send_buffer and the second activation of a ready buffer name one of the
\* stream's buffers, unless the outstanding one is freed memory.
LEMMA OrderlyActivation ==
    ASSUME FrameInv, ImportInv, NEW s \in Streams, NEW b \in bufs[s]
    PROVE  Orderly(ActivateBuffer(b))
<1>1. b \in BufIds /\ b \in buffers /\ Removals(b) = {}
  BY DEF FrameInv, CycleInv, TypeInv, TypeOK, ImportInv
<1>2. \A c : ActivateBuffer(b) = ActivateBuffer(c) => b = c
  BY DEF ActivateBuffer
<1> QED
  BY <1>1, <1>2, MessageTypes DEF Orderly

LEMMA OrderlySends ==
    ASSUME FrameInv, ImportInv, NEW s \in Streams, "shrink" \notin Failures,
           Resume(s) \/ Process(s)
    PROVE  UNCHANGED fromPw \/ \E m : Orderly(m) /\ SendToPicom(m)
<1>1. free[s] \subseteq bufs[s] /\ Deref(s) \subseteq bufs[s]
  BY DEF FrameInv, Belongs, Deref
<1>2. UNCHANGED fromPw \/ \E b \in bufs[s] : SendToPicom(ActivateBuffer(b))
  BY <1>1 DEF Resume, Process, SendBuffer
<1> QED
  BY <1>2, OrderlyActivation

LEMMA ActStep ==
    ASSUME FrameInv, ImportInv, ActInv, "shrink" \notin Failures, [Next]_vars, ~Unload
    PROVE  ActInv'
<1> USE DEF shared, pwVars, streamVars, picomVars
<1>0. TypeInv /\ TypeOK
  BY DEF FrameInv, CycleInv, TypeInv
<1>1. CASE UNCHANGED vars \/ SendFails
  BY <1>0, <1>1, ActQuiet DEF vars, SendFails
<1>2. CASE Server \/ WakeUp \/ WakerCallback
  <2>1. UNCHANGED <<buffers, active>>
    BY <1>2
    DEF Server, RequestStream, RequestClose, WakeUp, WakerCallback, HandleCreateStream,
        HandleCreateStreamFails, HandleNewFrame, HandleBufferError, HandleCloseStreams, DrainEmpty,
        ReapStream, StreamDropped, ReapDone
  <2>2. UNCHANGED fromPw \/ \E s : SetError(s)
    BY <1>2
    DEF Server, RequestStream, RequestClose, WakeUp, WakerCallback, HandleCreateStream,
        HandleCreateStreamFails, HandleNewFrame, HandleBufferError, HandleCloseStreams, DrainEmpty,
        ReapStream, StreamDropped, ReapDone
  <2> QED
    BY <1>0, <2>1, <2>2, OrderlyOthers, ActQuiet
<1>3. CASE Removal \/ BuffersCleared \/ AddBufferReplied \/ AddBufferRefused \/ Environment
  <2>1. UNCHANGED <<buffers, active>>
    BY <1>3
    DEF Removal, RemoveBlankBuffer, RemoveBuffer, BuffersCleared, AddBufferReplied,
        AddBufferRefused, Environment, Recycle, StatePaused, StateStreaming, StateError,
        FormatProposed, FormatCleared, ClearBuffers, HandleAddBuffer, HandleAddBufferFails
  <2>2. \/ UNCHANGED fromPw \/ \E s : SetError(s)
        \/ \E s \in Streams : SendToPicom(AddBuffer(s)) \/ Resume(s)
        \/ \E b \in BufIds : SendToPicom(RemoveBuffers(b))
    BY <1>3
    DEF Removal, RemoveBlankBuffer, RemoveBuffer, TellRemoved, BuffersCleared, AddBufferReplied,
        AddBufferRefused, Environment, Recycle, StatePaused, StateStreaming, StateError,
        FormatProposed, FormatCleared, ClearBuffers, HandleAddBuffer, HandleAddBufferFails
  <2>3. UNCHANGED fromPw \/ \E m : Orderly(m) /\ SendToPicom(m)
    BY <2>2, OrderlyOthers, OrderlySends
  <2> QED
    BY <1>0, <2>1, <2>3, ActQuiet
<1>4. ASSUME NEW b \in BufIds, FenceFired(b)
      PROVE  ActInv'
  <2>1. PICK s \in Streams : s = Owner(b)
    BY OwnerType
  <2>2. UNCHANGED <<buffers, active>> /\ (UNCHANGED fromPw \/ SetError(s) \/ Process(s))
    BY <1>4, <2>1 DEF FenceFired
  <2>3. UNCHANGED fromPw \/ \E m : Orderly(m) /\ SendToPicom(m)
    BY <2>2, OrderlyOthers, OrderlySends
  <2> QED
    BY <1>0, <2>2, <2>3, ActQuiet
<1>5. CASE PresentBegin \/ PresentFails \/ ChannelEmpty \/ PresentEnd \/ \E b \in BufIds : Blit(b)
  <2>1. UNCHANGED <<buffers, fromPw>> /\ active' \subseteq active
    BY <1>5 DEF PresentBegin, PresentFails, ChannelEmpty, PresentEnd, Blit
  <2> QED
    BY <1>0, <2>1, ActQuiet
<1>6. CASE ReceiveAddBuffer \/ ReceiveAddBufferFails \/ ReceiveWakeMeUp
  <2>1. PICK type : Taken(type)
    BY <1>6 DEF ReceiveAddBuffer, ReceiveAddBufferFails, ReceiveWakeMeUp
  <2>2. buffers \subseteq buffers' /\ active' \subseteq active
    BY <1>6 DEF ReceiveAddBuffer, Import, ReceiveAddBufferFails, ReceiveWakeMeUp
  <2> QED
    BY <1>0, <2>1, <2>2, TakeOrdered DEF ActInv
<1>7. CASE ReceiveActivateBuffer
  <2>1. Taken("ActivateBuffer") /\ UNCHANGED buffers
    BY <1>7 DEF ReceiveActivateBuffer
  <2>2. PICK b \in BufIds : Head(fromPw) = ActivateBuffer(b) /\ b = Head(fromPw).id
    <3>1. Head(fromPw) \in FromPipewire /\ Head(fromPw).type = "ActivateBuffer"
      BY <1>0, <2>1 DEF Taken, TypeOK
    <3> QED
      BY <3>1 DEF FromPipewire, ActivateBuffer
  <2>3. active' = active \cup {b}
    BY <1>7, <2>2 DEF ReceiveActivateBuffer
  <2>4. Asked(b) # {}
    BY <1>0, <2>1, <2>2 DEF Taken, TypeOK, Asked, Positions
  <2>5. b \in buffers
    BY <2>4 DEF ActInv, Ordered
  <2> QED
    BY <1>0, <2>1, <2>3, <2>5, TakeOrdered DEF ActInv
<1>8. CASE ReceiveRemoveBuffers
  <2>1. Taken("RemoveBuffers")
    BY <1>8 DEF ReceiveRemoveBuffers
  <2>2. PICK b \in BufIds : Head(fromPw) = RemoveBuffers(b) /\ b = Head(fromPw).id
    <3>1. Head(fromPw) \in FromPipewire /\ Head(fromPw).type = "RemoveBuffers"
      BY <1>0, <2>1 DEF Taken, TypeOK
    <3> QED
      BY <3>1 DEF FromPipewire, RemoveBuffers
  <2>3. buffers' = buffers \ {b} /\ active' = active \ {b}
    BY <1>8, <2>2 DEF ReceiveRemoveBuffers, Discard
  <2>4. \A c \in BufIds : Ordered(c)'
    BY <1>0, <2>1, <2>2, <2>3, TakeOrdered DEF ActInv
  <2> QED
    BY <2>3, <2>4 DEF ActInv
<1> QED
  BY <1>1, <1>2, <1>3, <1>4, <1>5, <1>6, <1>7, <1>8 DEF Next, Callback, Present

LEMMA ActInit == Init => ActInv
BY DEF Init, ActInv, Ordered, Asked, Positions

LEMMA UnknownStep ==
    ASSUME ~Unloaded => ActInv, fault # "unknown_buffer", [Next]_vars
    PROVE  fault' # "unknown_buffer"
<1> USE DEF shared, pwVars, streamVars, picomVars
<1>1. ASSUME NEW b \in BufIds, Blit(b)
      PROVE  fault' # "unknown_buffer"
  <2>1. b \in buffers
    BY <1>1 DEF Blit, ActInv, Unloaded
  <2> QED
    BY <1>1, <2>1 DEF Blit
<1>2. CASE UNCHANGED fault
  BY <1>2
<1>3. CASE Server \/ WakeUp \/ WakerCallback
  BY <1>3
  DEF Server, RequestStream, RequestClose, WakeUp, WakerCallback, HandleCreateStream,
      HandleCreateStreamFails, HandleNewFrame, HandleBufferError, HandleCloseStreams, DrainEmpty,
      ReapStream, StreamDropped, ReapDone
<1>4. CASE Removal \/ BuffersCleared \/ AddBufferReplied \/ AddBufferRefused \/ Environment
  BY <1>4
  DEF Removal, RemoveBlankBuffer, RemoveBuffer, BuffersCleared, AddBufferReplied, AddBufferRefused,
      Environment, Recycle, StatePaused, StateStreaming, Resume, StateError, FormatProposed,
      FormatCleared, ClearBuffers, HandleAddBuffer, HandleAddBufferFails
<1>5. CASE PresentBegin \/ PresentFails \/ Present
  BY <1>1, <1>5
  DEF PresentBegin, PresentFails, Present, ReceiveAddBuffer, ReceiveAddBufferFails,
      ReceiveActivateBuffer, ReceiveRemoveBuffers, ReceiveWakeMeUp, ChannelEmpty, PresentEnd
<1>6. CASE Unload \/ SendFails \/ \E b \in BufIds : FenceFired(b)
  BY <1>6 DEF FenceFired, Unload, SendFails
<1> QED
  BY <1>2, <1>3, <1>4, <1>5, <1>6 DEF Next, Callback, vars

\* The same until picom is unloaded, which leaves no activation.
LEMMA LoadedActStep ==
    ASSUME SafetyInv, ~Unloaded => ActInv, "shrink" \notin Failures, [Next]_vars
    PROVE  ~Unloaded' => ActInv'
<1> SUFFICES ASSUME ~Unloaded'
             PROVE  ActInv'
  OBVIOUS
<1>1. FrameInv /\ PresentInv
  BY DEF SafetyInv
<1>2. ~Unloaded /\ ~Unload
  BY <1>1, PresentStep DEF Unload, Unloaded
<1> QED
  BY <1>1, <1>2, ActStep DEF SafetyInv

\* If no new consumer negotiates fewer buffers than the last, picom never blits
\* into a buffer it does not have: no activation comes before the import or
\* after the removal of its buffer, however the threads and failures interleave.
THEOREM ActivationsAreImported ==
    ASSUME "shrink" \notin Failures
    PROVE  Spec => []ActiveImported
<1> DEFINE Inv == ~Unloaded => ActInv
<1>1. TypeOK /\ PresentInv /\ Inv => ActiveImported
  <2> SUFFICES ASSUME TypeOK, ActInv,
                      NEW i \in DOMAIN fromPw, fromPw[i].type = "ActivateBuffer"
               PROVE  /\ fromPw[i].id \in buffers
                      /\ \A j \in 1..i : fromPw[j] # RemoveBuffers(fromPw[i].id)
    BY DEF ActiveImported, ActInv, PresentInv, Unloaded
  <2>1. PICK b \in BufIds : fromPw[i] = ActivateBuffer(b) /\ b = fromPw[i].id
    <3>1. fromPw[i] \in FromPipewire
      BY DEF TypeOK
    <3> QED
      BY <3>1 DEF FromPipewire, ActivateBuffer
  <2>2. i \in Asked(b) /\ i \in 1..Len(fromPw)
    BY <2>1 DEF Asked, Positions, TypeOK
  <2>3. b \in buffers /\ \A j \in Removals(b) : i < j
    BY <2>2 DEF ActInv, Ordered
  <2>4. \A j \in 1..i : fromPw[j] # RemoveBuffers(b)
    BY <2>2, <2>3 DEF Removals, Positions, TypeOK
  <2> QED
    BY <2>1, <2>3, <2>4
<1>2. SafetyInv /\ Inv /\ [Next]_vars => Inv'
  BY LoadedActStep
<1>3. SafetyInv => PresentInv
  BY DEF SafetyInv
<1>4. Init => Inv
  BY ActInit
<1> QED
  BY <1>1, <1>2, <1>3, <1>4, SafetyInvariant, TypeCorrect, PTL DEF Spec

\* Under the same condition the assertion and the index of copy_back_buffer and the
\* unwraps of outstanding_buffer and fence_waits never fail, whatever fails around them.
THEOREM AssertionsNeverFail ==
    ASSUME "shrink" \notin Failures
    PROVE  Spec => []AssertionsHold
<1> DEFINE Inv == (~Unloaded => ActInv) /\ fault # "unknown_buffer"
<1>1. Init => Inv
  BY ActInit DEF Init
<1>2. SafetyInv /\ Inv /\ [Next]_vars => Inv'
  <2> SUFFICES ASSUME SafetyInv, Inv, [Next]_vars
               PROVE  Inv'
    OBVIOUS
  <2>1. ~Unloaded' => ActInv'
    BY LoadedActStep
  <2>2. fault' # "unknown_buffer"
    BY UnknownStep
  <2> QED
    BY <2>1, <2>2
<1>3. SafetyInv /\ Inv => AssertionsHold
  BY DEF SafetyInv, FrameInv, CycleInv, CycleFaults, AssertionsHold
<1> QED
  BY <1>1, <1>2, <1>3, SafetyInvariant, PTL DEF Spec

-----------------------------------------------------------------------------
(* Nothing panics, unless something fails that the code gives up on.       *)

\* Messages that are sent are no errors, and receiving adds none.
LEMMA CalmChannel ==
    ASSUME TypeInv,
           \/ UNCHANGED toPw
           \/ \E m \in ToPipewire : m.type # "BufferError" /\ toPw' = Append(toPw, m)
           \/ \E type : Received(type),
           NEW s \in Streams, ErrorsOf(s) = {}
    PROVE  ErrorsOf(s)' = {}
<1>0. toPw \in Seq(ToPipewire)
  BY DEF TypeInv, TypeOK
<1>1. ASSUME NEW M, Positions(toPw, M) = {}, NEW m \in ToPipewire, m \notin M,
             toPw' = Append(toPw, m)
      PROVE  Positions(toPw', M) = {}
  BY <1>0, <1>1, AppendPositions
<1>2. ASSUME NEW M, Positions(toPw, M) = {}, NEW type, Received(type)
      PROVE  Positions(toPw', M) = {}
  <2>1. toPw # <<>> /\ toPw' = Tail(toPw)
    BY <1>2 DEF Received
  <2> QED
    BY <1>0, <1>2, <2>1, Got
<1>3. \A m : m.type # "BufferError" => m \notin [type : {"BufferError"}, id : IdsOf(s)]
  OBVIOUS
<1> QED
  BY <1>1, <1>2, <1>3 DEF ErrorsOf

\* A stream that has no BufferError has none at the head.
LEMMA NoErrorReceived ==
    ASSUME TypeInv, CalmInv
    PROVE  ~Received("BufferError")
<1> SUFFICES ASSUME Received("BufferError") PROVE FALSE
  OBVIOUS
<1>1. toPw \in Seq(ToPipewire) /\ toPw # <<>> /\ Head(toPw) \in ToPipewire
      /\ Head(toPw).type = "BufferError" /\ Head(toPw) = toPw[1] /\ 1 \in DOMAIN toPw
  BY DEF TypeInv, TypeOK, Received
<1>2. PICK b \in BufIds : Head(toPw).id = b /\ Head(toPw) \in [type : {"BufferError"}, id : BufIds]
  BY <1>1 DEF ToPipewire
<1>3. PICK s \in Streams : b \in IdsOf(s)
  BY DEF BufIds, IdsOf
<1>4. Head(toPw) \in [type : {"BufferError"}, id : IdsOf(s)]
  BY <1>2, <1>3
<1>5. ErrorsOf(s) # {}
  BY <1>1, <1>4 DEF ErrorsOf, Positions
<1> QED
  BY <1>5 DEF CalmInv

LEMMA CalmServerWaker ==
    ASSUME CycleInv, NodeInv, CalmInv, Failures \subseteq Survivable, Server \/ WakeUp \/ WakerCallback
    PROVE  CalmInv'
<1> USE DEF shared, pwVars, streamVars, picomVars
<1>0. TypeInv /\ TypeOK
  BY DEF CycleInv, TypeInv
<1>1. ~HandleCreateStreamFails /\ ~HandleBufferError
  BY NoErrorReceived, <1>0 DEF HandleCreateStreamFails, HandleBufferError, Survivable
<1>2. UNCHANGED <<blank, oneshot>> /\ pwPc' # "quit"
  BY <1>1
  DEF CalmInv, Server, RequestStream, RequestClose, WakeUp, WakerCallback, HandleCreateStream,
      HandleNewFrame, HandleCloseStreams, DrainEmpty, ReapStream, StreamDropped, ReapDone
<1>3. \/ UNCHANGED toPw
      \/ \E m \in ToPipewire : m.type # "BufferError" /\ toPw' = Append(toPw, m)
      \/ \E type : Received(type)
  <2>1. \A s \in Streams : CreateStream(s).type # "BufferError" /\ CloseStream(s).type # "BufferError"
    BY DEF CreateStream, CloseStream
  <2> QED
    BY <1>1, <2>1, MessageTypes
    DEF Server, RequestStream, RequestClose, ServerSend, WakeUp, WakerCallback, HandleCreateStream,
        HandleNewFrame, HandleCloseStreams, DrainEmpty, ReapStream, StreamDropped, ReapDone
<1>4. \A s \in Streams : ErrorsOf(s)' = {}
  BY <1>0, <1>3, CalmChannel DEF CalmInv
<1>5. ASSUME NEW s \in Streams PROVE Answering(s)'
  <2>0. Answering(s)
    BY DEF CalmInv
  <2>1. ASSUME NEW t \in Streams, RequestStream(t)
        PROVE  Answering(s)'
    <3>1. reply[t] = "none" /\ state[t] = "none" /\ UNCHANGED state
          /\ reply' = [reply EXCEPT ![t] = "pending"]
      BY <2>1 DEF RequestStream, CycleInv, CreatedOnce
    <3> QED
      BY <1>0, <2>0, <3>1 DEF Answering, TypeOK
  <2>2. CASE HandleCreateStream
    <3>1. Received("CreateStream")
      BY <2>2 DEF HandleCreateStream
    <3>2. PICK t \in Streams : t = Head(toPw).stream /\ Creates(t) # {}
      BY <1>0, <3>1, ReceivedType, ReceivedStages
    <3>3. reply[t] = "pending" /\ UNCHANGED reply /\ state' = [state EXCEPT ![t] = "connecting"]
      BY <2>2, <3>2 DEF HandleCreateStream, NodeInv
    <3> QED
      BY <1>0, <2>0, <3>3 DEF Answering, TypeOK
  <2>3. CASE HandleCloseStreams
    <3>1. UNCHANGED reply /\ (UNCHANGED state \/ \E t \in nodes : SetError(t))
      BY <2>3 DEF HandleCloseStreams
    <3>2. \A t \in nodes : t \in Streams /\ reply[t] = "sent"
      BY <1>0 DEF NodeInv, NodeMapAccurate, TypeOK
    <3> QED
      BY <1>0, <2>0, <3>1, <3>2 DEF SetError, Answering, TypeOK
  <2>4. CASE StreamDropped
    <3>1. UNCHANGED reply /\ state' = [state EXCEPT ![cur] = "gone"]
      BY <2>4 DEF StreamDropped
    <3> QED
      BY <1>0, <2>0, <3>1 DEF Answering, TypeOK
  <2>5. CASE UNCHANGED <<state, reply>>
    BY <2>0, <2>5 DEF Answering
  <2> QED
    BY <1>1, <2>1, <2>2, <2>3, <2>4, <2>5
    DEF Server, RequestClose, WakeUp, WakerCallback, HandleNewFrame, DrainEmpty, ReapStream, ReapDone
<1> QED
  BY <1>2, <1>4, <1>5 DEF CalmInv

LEMMA CalmStream ==
    ASSUME CycleInv, CalmInv, Failures \subseteq Survivable,
           Removal \/ BuffersCleared \/ AddBufferReplied \/ AddBufferRefused \/ Environment
    PROVE  CalmInv'
<1> USE DEF shared, pwVars, streamVars, picomVars
<1>0. TypeInv /\ TypeOK
  BY DEF CycleInv, TypeInv
<1>1. /\ ~AddBufferRefused
      /\ \A s \in Streams : ~StateError(s) /\ (HandleAddBufferFails(s) => FALSE)
  BY DEF CalmInv, AddBufferRefused, StateError, HandleAddBufferFails, Survivable
<1>2. UNCHANGED <<toPw, blank>> /\ pwPc' # "quit" /\ oneshot' # "dropped"
  BY <1>1
  DEF CalmInv, Removal, RemoveBlankBuffer, RemoveBuffer, BuffersCleared, AddBufferReplied,
      Environment, Recycle, StatePaused, StateStreaming, FormatProposed, FormatCleared, ClearBuffers,
      HandleAddBuffer
<1>3. ASSUME NEW s \in Streams PROVE Answering(s)'
  <2>0. Answering(s)
    BY DEF CalmInv
  <2>1. ASSUME NEW t \in Streams, StatePaused(t)
        PROVE  Answering(s)'
    <3>1. Answering(t)
      BY DEF CalmInv
    <3> QED
      BY <1>0, <2>0, <2>1, <3>1 DEF StatePaused, Answering, TypeOK
  <2>2. ASSUME NEW t \in Streams, StateStreaming(t) \/ FormatProposed(t)
        PROVE  Answering(s)'
    <3>1. Answering(t)
      BY DEF CalmInv
    <3>2. UNCHANGED reply /\ state[t] = "paused" /\ reply[t] = "sent"
          /\ (UNCHANGED state \/ \E e : state' = [state EXCEPT ![t] = e])
      BY <2>2, <3>1 DEF StateStreaming, FormatProposed, SetError, Answering
    <3> QED
      BY <1>0, <2>0, <3>2 DEF Answering, TypeOK
  <2>3. CASE UNCHANGED <<state, reply>>
    BY <2>0, <2>3 DEF Answering
  <2>4. CASE AddBufferReplied
    <3>1. UNCHANGED <<state, reply>>
      BY <2>4 DEF AddBufferReplied, Survivable
    <3> QED
      BY <2>3, <3>1
  <2> QED
    BY <1>1, <2>1, <2>2, <2>3, <2>4
    DEF Removal, RemoveBlankBuffer, RemoveBuffer, BuffersCleared, Environment, Recycle,
        FormatCleared, ClearBuffers, HandleAddBuffer
<1>4. \A s \in Streams : ErrorsOf(s)' = {}
  BY <1>0, <1>2, CalmChannel DEF CalmInv
<1> QED
  BY <1>2, <1>3, <1>4 DEF CalmInv

LEMMA CalmPresent ==
    ASSUME CycleInv, CalmInv, Failures \subseteq Survivable,
           PresentBegin \/ PresentFails \/ Present
    PROVE  CalmInv'
<1> USE DEF shared, pwVars, streamVars, picomVars
<1>0. TypeInv
  BY DEF CycleInv
<1>1. ~ReceiveAddBufferFails
  BY DEF ReceiveAddBufferFails, Survivable
<1>2. UNCHANGED <<blank, pwPc, state, reply>> /\ oneshot' # "dropped"
  BY <1>1
  DEF CalmInv, PresentBegin, PresentFails, Present, ReceiveAddBuffer, Import,
      ReceiveActivateBuffer, ReceiveRemoveBuffers, ReceiveWakeMeUp, ChannelEmpty, Blit, PresentEnd
<1>3. \/ UNCHANGED toPw
      \/ \E m \in ToPipewire : m.type # "BufferError" /\ toPw' = Append(toPw, m)
  <2>1. \A b \in BufIds : NewFrame(b).type # "BufferError"
    BY DEF NewFrame
  <2>2. ASSUME NEW b \in BufIds, Blit(b)
        PROVE  UNCHANGED toPw \/ toPw' = Append(toPw, NewFrame(b))
    BY <2>2 DEF Blit, GuardSend, Survivable
  <2> QED
    BY <1>1, <2>1, <2>2, MessageTypes
    DEF PresentBegin, PresentFails, Present, ReceiveAddBuffer, ReceiveActivateBuffer,
        ReceiveRemoveBuffers, ReceiveWakeMeUp, ChannelEmpty, PresentEnd
<1>4. \A s \in Streams : ErrorsOf(s)' = {}
  BY <1>0, <1>3, CalmChannel DEF CalmInv
<1> QED
  BY <1>2, <1>4 DEF CalmInv, Answering

LEMMA CalmStep ==
    ASSUME CycleInv, NodeInv, CalmInv, Failures \subseteq Survivable, [Next]_vars
    PROVE  CalmInv'
<1> USE DEF shared, pwVars, streamVars, picomVars
<1>0. TypeInv /\ TypeOK
  BY DEF CycleInv, TypeInv
<1>1. ASSUME UNCHANGED <<toPw, blank, pwPc, oneshot, reply>>, \A s \in Streams : Answering(s)'
      PROVE  CalmInv'
  <2>1. \A s \in Streams : ErrorsOf(s)' = {}
    BY <1>0, <1>1, CalmChannel DEF CalmInv
  <2> QED
    BY <1>1, <2>1 DEF CalmInv
<1>2. CASE UNCHANGED vars \/ SendFails
  BY <1>1, <1>2 DEF vars, SendFails, CalmInv, Answering
<1>3. ASSUME NEW b \in BufIds, FenceFired(b)
      PROVE  CalmInv'
  <2>1. PICK s \in Streams : s = Owner(b)
    BY OwnerType
  <2>2. /\ UNCHANGED <<toPw, blank, pwPc, oneshot, reply>>
        /\ UNCHANGED state \/ (state[s] = "streaming" /\ SetError(s))
    BY <1>3, <2>1 DEF FenceFired
  <2>3. \A t \in Streams : Answering(t)'
    BY <1>0, <2>2 DEF CalmInv, Answering, SetError, TypeOK
  <2> QED
    BY <1>1, <2>2, <2>3
<1>4. ~Unload
  BY DEF Unload, Survivable
<1> QED
  BY <1>2, <1>3, <1>4, CalmServerWaker, CalmStream, CalmPresent DEF Next, Callback

LEMMA PanicStep ==
    ASSUME CycleInv, NodeInv, ActInv, CalmInv, ~Unloaded, fault = "none", [Next]_vars,
           fault' \notin CycleFaults
    PROVE  fault' = "none"
<1> USE DEF shared, pwVars, streamVars, picomVars
<1>0. TypeInv /\ TypeOK
  BY DEF CycleInv, TypeInv
<1>1. CASE UNCHANGED fault
  BY <1>1
<1>2. CASE Server \/ WakeUp \/ WakerCallback
  <2>1. ~HandleBufferError
    BY <1>0, NoErrorReceived DEF HandleBufferError
  <2>2. ASSUME HandleCloseStreams
        PROVE  UNCHANGED fault
    <3>1. Head(toPw).stream \in Streams
      BY <1>0, <2>2, ReceivedType DEF HandleCloseStreams
    <3>2. Head(toPw).stream \in nodes => Live(Head(toPw).stream)
      BY <3>1 DEF NodeInv, NodeMapAccurate
    <3> QED
      BY <2>2, <3>2 DEF HandleCloseStreams
  <2>3. ASSUME NEW s \in Streams, ReapStream(s)
        PROVE  UNCHANGED fault
    <3>1. reply[s] = "sent" /\ Live(s) /\ pwPc = "reap"
      BY <2>3 DEF ReapStream, Errored, CalmInv, Answering, Live
    <3>2. s \in nodes
      BY <3>1 DEF NodeInv, NodeMapAccurate
    <3> QED
      BY <2>3, <3>2 DEF ReapStream
  <2>4. HandleNewFrame => UNCHANGED fault
    BY DEF HandleNewFrame, CycleFaults
  <2> QED
    BY <1>1, <1>2, <2>1, <2>2, <2>3, <2>4
    DEF Server, RequestStream, RequestClose, WakeUp, WakerCallback, HandleCreateStream,
        HandleCreateStreamFails, DrainEmpty, StreamDropped, ReapDone
<1>3. CASE Removal \/ BuffersCleared \/ AddBufferReplied \/ AddBufferRefused \/ Environment
  <2>1. ~AddBufferRefused
    BY DEF AddBufferRefused, CalmInv
  <2>2. ~RemoveBlankBuffer
    BY <1>0 DEF RemoveBlankBuffer, CalmInv, TypeOK
  <2>3. \A s \in Streams : StateStreaming(s) => UNCHANGED fault
    BY DEF StateStreaming, Resume, CycleFaults
  <2> QED
    BY <1>1, <1>3, <2>1, <2>2, <2>3
    DEF Removal, RemoveBuffer, BuffersCleared, AddBufferReplied, Environment, Recycle, StatePaused,
        StateError, FormatProposed, FormatCleared, ClearBuffers, HandleAddBuffer, HandleAddBufferFails
<1>4. CASE \E b \in BufIds : FenceFired(b)
  BY <1>4 DEF FenceFired
<1>5. CASE PresentBegin \/ PresentFails \/ Present
  <2>1. ASSUME NEW b \in BufIds, Blit(b)
        PROVE  UNCHANGED fault
    <3>1. b \in buffers /\ ~RxClosed
      BY <2>1 DEF Blit, ActInv, CalmInv, RxClosed
    <3> QED
      BY <2>1, <3>1 DEF Blit
  <2>2. ReceiveActivateBuffer => UNCHANGED fault
    BY DEF ReceiveActivateBuffer, CycleFaults
  <2> QED
    BY <1>1, <1>5, <2>1, <2>2
    DEF PresentBegin, PresentFails, Present, ReceiveAddBuffer, ReceiveAddBufferFails,
        ReceiveRemoveBuffers, ReceiveWakeMeUp, ChannelEmpty, PresentEnd
<1>6. CASE Unload \/ SendFails
  BY <1>1, <1>6 DEF Unload, SendFails, Unloaded
<1> QED
  BY <1>1, <1>2, <1>3, <1>4, <1>5, <1>6 DEF Next, Callback, vars

\* While the plugin stays loaded and nothing fails but a present, trigger_process
\* or the negotiation of a format, no step of either thread panics or frees what
\* was never set: of the failures the plugin meets these are the ones it
\* survives.
THEOREM SurvivableFailures ==
    ASSUME Failures \subseteq Survivable
    PROVE  Spec => []NeverPanics
<1> DEFINE Inv == NodeInv /\ ActInv /\ CalmInv /\ ~Unloaded /\ fault = "none"
<1>1. Init => Inv
  <2> SUFFICES ASSUME Init PROVE Inv
    OBVIOUS
  <2>1. \A M : Positions(toPw, M) = {}
    BY DEF Init, Positions
  <2>2. NodeInv
    BY <2>1 DEF Init, NodeInv, NodeMapAccurate, Creates
  <2>3. CalmInv
    BY <2>1 DEF Init, CalmInv, ErrorsOf, Answering
  <2> QED
    BY <2>2, <2>3, ActInit DEF Init, Unloaded
<1>2. SafetyInv /\ SafetyInv' /\ Inv /\ [Next]_vars => Inv'
  <2> SUFFICES ASSUME SafetyInv, SafetyInv', Inv, [Next]_vars
               PROVE  Inv'
    OBVIOUS
  <2>1. FrameInv /\ ImportInv /\ CycleInv /\ fault' \notin CycleFaults
    BY DEF SafetyInv, FrameInv, CycleInv
  <2>2. "shrink" \notin Failures /\ ~Unload
    BY DEF Unload, Survivable
  <2>3. NodeInv' /\ CalmInv'
    BY <2>1, NodeStep, CalmStep
  <2>4. ActInv'
    BY <2>1, <2>2, ActStep
  <2>5. fault' = "none"
    BY <2>1, PanicStep
  <2>6. ~Unloaded'
    BY <2>2, PresentStep DEF SafetyInv
  <2> QED
    BY <2>3, <2>4, <2>5, <2>6
<1>3. Inv => NeverPanics
  BY DEF NeverPanics
<1> QED
  BY <1>1, <1>2, <1>3, SafetyInvariant, PTL DEF Spec

-----------------------------------------------------------------------------
(* No wake-up is lost.                                                     *)

\* The thread leaves its drain loop with an empty channel, whoever sends after
\* that wakes it, and a wake-up goes only into the drain loop.
LEMMA ReadStep == MessagesWillBeRead /\ [Next]_vars => MessagesWillBeRead'
<1> SUFFICES ASSUME MessagesWillBeRead, [Next]_vars
             PROVE  MessagesWillBeRead'
  OBVIOUS
<1> USE DEF shared, pwVars, streamVars, picomVars
<1>1. ASSUME UNCHANGED <<toPw, wake, armed, picomPc>>,
             pwPc \in {"drain", "quit"} => pwPc' = pwPc \/ pwPc' = "quit" \/ toPw = <<>>
      PROVE  MessagesWillBeRead'
  BY <1>1 DEF MessagesWillBeRead, WakeComing
<1>2. ASSUME pwPc' \in {"drain", "quit"} \/ wake' = TRUE
      PROVE  MessagesWillBeRead'
  BY <1>2 DEF MessagesWillBeRead, WakeComing
<1>3. CASE UNCHANGED vars \/ SendFails
  BY <1>1, <1>3 DEF vars, SendFails
<1>4. CASE Server \/ WakeUp
  BY <1>2, <1>4 DEF Server, RequestStream, RequestClose, ServerSend, WakeUp
<1>5. CASE HandleCreateStream \/ HandleCreateStreamFails \/ HandleNewFrame \/ HandleBufferError
             \/ HandleCloseStreams
  BY <1>2, <1>5
  DEF Received, HandleCreateStream, HandleCreateStreamFails, HandleNewFrame, HandleBufferError,
      HandleCloseStreams
<1>6. CASE DrainEmpty \/ (\E s \in Streams : ReapStream(s)) \/ StreamDropped \/ ReapDone
  BY <1>1, <1>6 DEF DrainEmpty, ReapStream, StreamDropped, ReapDone
<1>7. CASE Removal \/ BuffersCleared \/ AddBufferReplied \/ AddBufferRefused
  BY <1>1, <1>7
  DEF Removal, RemoveBlankBuffer, RemoveBuffer, BuffersCleared, AddBufferReplied, AddBufferRefused
<1>8. CASE Environment
  BY <1>1, <1>8
  DEF Environment, Recycle, StatePaused, StateStreaming, StateError, FormatProposed, FormatCleared,
      ClearBuffers, HandleAddBuffer, HandleAddBufferFails
<1>9. CASE \E b \in BufIds : FenceFired(b)
  BY <1>1, <1>9 DEF FenceFired
<1>10. CASE PresentFails
  BY <1>1, <1>10 DEF PresentFails
<1>11. CASE PresentBegin \/ Present
  <2>1. ASSUME NEW b \in BufIds, Blit(b)
        PROVE  MessagesWillBeRead'
    <3>1. /\ UNCHANGED <<wake, pwPc, picomPc>> /\ picomPc = "blit"
          /\ UNCHANGED <<toPw, armed>> \/ armed' = TRUE
      BY <2>1 DEF Blit, GuardSend
    <3> QED
      BY <3>1 DEF MessagesWillBeRead, WakeComing
  <2>2. CASE PresentEnd
    BY <2>2 DEF PresentEnd, MessagesWillBeRead, WakeComing
  <2>3. ASSUME UNCHANGED <<toPw, wake, pwPc>>, armed' = armed \/ armed' = TRUE, picomPc' # "idle"
        PROVE  MessagesWillBeRead'
    BY <2>3 DEF MessagesWillBeRead, WakeComing
  <2> QED
    BY <1>11, <2>1, <2>2, <2>3
    DEF PresentBegin, Present, Taken, Import, Discard, GuardWake, ReceiveAddBuffer,
        ReceiveAddBufferFails, ReceiveActivateBuffer, ReceiveRemoveBuffers, ReceiveWakeMeUp,
        ChannelEmpty
<1>12. CASE Unload
  BY <1>12 DEF Unload, MessagesWillBeRead, WakeComing
<1> QED
  BY <1>3, <1>4, <1>5, <1>6, <1>7, <1>8, <1>9, <1>10, <1>11, <1>12 DEF Next, Callback, WakerCallback

\* Whatever fails, and however guards of the server and of presents overlap with
\* the waker callback, no message stays in the pipewire thread's channel without
\* a wake-up to come: what a client asks for is not forgotten, nor is a fence.
THEOREM NoWakeUpLost == Spec => []MessagesWillBeRead
<1>1. Init => MessagesWillBeRead
  BY DEF Init, MessagesWillBeRead
<1> QED
  BY <1>1, ReadStep, PTL DEF Spec

\* PipeWire's own errors aside, a stream in error that the thread has not yet
\* begun to remove has a wake-up on its way.
Wakings == Positions(fromPw, {WakeMeUp})

ErrorInv ==
    Errored # {} /\ ~Unloaded /\ pwPc \in {"idle", "clear", "add"} => WakeComing \/ Wakings # {}

LEMMA SentWaking ==
    ASSUME TypeInv, NEW m \in FromPipewire, SendToPicom(m)
    PROVE  (Wakings # {} => Wakings' # {}) /\ (m = WakeMeUp => Wakings' # {})
<1>1. fromPw \in Seq(FromPipewire) /\ fromPw' = Append(fromPw, m)
  BY DEF TypeInv, TypeOK, SendToPicom
<1>2. m \in {WakeMeUp} => Wakings' # {}
  BY <1>1, Sent DEF Wakings
<1>3. m \notin {WakeMeUp} => Wakings' = Wakings
  BY <1>1, Sent DEF Wakings
<1> QED
  BY <1>2, <1>3

\* A step that puts no stream in error, or tells picom.
LEMMA ErrorKept ==
    ASSUME TypeInv, ErrorInv, UNCHANGED <<wake, armed, picomPc>>,
           \/ UNCHANGED fromPw /\ Errored' \subseteq Errored
           \/ (\E m \in FromPipewire : SendToPicom(m)) /\ Errored' \subseteq Errored
           \/ \E s : SetError(s),
           \/ pwPc' \notin {"idle", "clear", "add"} \/ pwPc \in {"idle", "clear", "add"}
           \/ Errored' = {}
    PROVE  ErrorInv'
<1>1. ASSUME NEW s, SetError(s)
      PROVE  Wakings' # {}
  BY <1>1, SentWaking, MessageTypes DEF SetError
<1>2. ASSUME NEW m \in FromPipewire, SendToPicom(m)
      PROVE  Wakings # {} => Wakings' # {}
  BY <1>2, SentWaking
<1>3. UNCHANGED fromPw => UNCHANGED Wakings
  BY DEF Wakings
<1> QED
  BY <1>1, <1>2, <1>3 DEF ErrorInv, WakeComing, Unloaded

LEMMA ErrorPipewire ==
    ASSUME TypeInv, ErrorInv, "extern" \notin Failures,
           WakeUp \/ Callback \/ Environment \/ \E b \in BufIds : FenceFired(b)
    PROVE  ErrorInv'
<1> USE DEF shared, pwVars, streamVars, picomVars
<1>0. TypeOK
  BY DEF TypeInv
<1>1. CASE WakeUp \/ HandleCreateStream \/ HandleCreateStreamFails \/ HandleNewFrame
             \/ HandleBufferError \/ HandleCloseStreams \/ DrainEmpty
  <2>1. pwPc' \in {"drain", "quit", "reap"}
    BY <1>1
    DEF WakeUp, Received, HandleCreateStream, HandleCreateStreamFails, HandleNewFrame,
        HandleBufferError, HandleCloseStreams, DrainEmpty
  <2> QED
    BY <2>1 DEF ErrorInv
<1>2. CASE (\E s \in Streams : ReapStream(s)) \/ StreamDropped
  <2>1. pwPc' \in {"reap", "destroy"}
    BY <1>2 DEF ReapStream, StreamDropped
  <2> QED
    BY <2>1 DEF ErrorInv
<1>3. CASE ReapDone
  BY <1>3, ErrorKept DEF ReapDone, Errored
<1>4. CASE RemoveBlankBuffer \/ BuffersCleared \/ AddBufferRefused \/ \E a \in BufIds : Recycle(a)
  <2>1. /\ UNCHANGED <<wake, armed, picomPc, fromPw, state>>
        /\ UNCHANGED pwPc \/ pwPc = "clear"
    BY <1>4 DEF RemoveBlankBuffer, BuffersCleared, AddBufferRefused, Recycle
  <2> QED
    BY <2>1, ErrorKept DEF Errored
<1>5. ASSUME NEW a \in BufIds, RemoveBuffer(a)
      PROVE  ErrorInv'
  <2>1. /\ UNCHANGED <<wake, armed, picomPc, state, pwPc>> /\ SendToPicom(RemoveBuffers(a))
    BY <1>5 DEF RemoveBuffer, TellRemoved
  <2>2. RemoveBuffers(a) \in FromPipewire
    BY MessageTypes
  <2> QED
    BY <2>1, <2>2, ErrorKept DEF Errored
<1>6. CASE AddBufferReplied
  <2>1. /\ UNCHANGED <<wake, armed, picomPc>> /\ pwPc = "add"
        /\ UNCHANGED <<fromPw, state>> \/ SetError(cur)
    BY <1>6 DEF AddBufferReplied
  <2> QED
    BY <2>1, ErrorKept DEF Errored
<1>7. ASSUME NEW s \in Streams, StatePaused(s) \/ FormatCleared(s) \/ ClearBuffers(s)
      PROVE  ErrorInv'
  <2>1. /\ UNCHANGED <<wake, armed, picomPc, fromPw>> /\ pwPc = "idle"
        /\ UNCHANGED state \/ state' = [state EXCEPT ![s] = "paused"]
    BY <1>7 DEF StatePaused, FormatCleared, ClearBuffers
  <2>2. Errored' \subseteq Errored
    BY <1>0, <2>1 DEF Errored, TypeOK
  <2> QED
    BY <2>1, <2>2, ErrorKept
<1>8. ASSUME NEW s \in Streams, FormatProposed(s) \/ HandleAddBufferFails(s)
      PROVE  ErrorInv'
  <2>1. /\ UNCHANGED <<wake, armed, picomPc>> /\ pwPc = "idle"
        /\ UNCHANGED <<fromPw, state>> \/ SetError(s)
    BY <1>8 DEF FormatProposed, HandleAddBufferFails
  <2> QED
    BY <2>1, ErrorKept DEF Errored
<1>9. ASSUME NEW s \in Streams, HandleAddBuffer(s)
      PROVE  ErrorInv'
  <2>1. /\ UNCHANGED <<wake, armed, picomPc, state>> /\ pwPc = "idle"
        /\ SendToPicom(AddBuffer(s)) /\ AddBuffer(s) \in FromPipewire
    BY <1>9, MessageTypes DEF HandleAddBuffer
  <2> QED
    BY <2>1, ErrorKept DEF Errored
<1>10. ASSUME NEW s \in Streams, StateStreaming(s)
       PROVE  ErrorInv'
  <2>1. /\ UNCHANGED <<wake, armed, picomPc>> /\ pwPc = "idle"
        /\ state' = [state EXCEPT ![s] = "streaming"] /\ Resume(s)
    BY <1>10 DEF StateStreaming
  <2>2. UNCHANGED fromPw \/ \E m \in FromPipewire : SendToPicom(m)
    <3>1. free[s] \in SUBSET BufIds /\ bufs[s] \subseteq BufIds
      BY <1>0 DEF TypeOK
    <3>2. \A a \in BufIds : ActivateBuffer(a) \in FromPipewire
      BY MessageTypes
    <3>3. outstanding[s] # None => Deref(s) \subseteq BufIds
      BY <1>0, <3>1 DEF Deref, TypeOK
    <3>4. CASE SendBuffer(s, TRUE, outstanding[s], free[s])
      BY <3>1, <3>4, Sends DEF Harmless
    <3> QED
      BY <2>1, <3>2, <3>3, <3>4 DEF Resume
  <2>3. Errored' \subseteq Errored
    BY <1>0, <2>1 DEF Errored, TypeOK
  <2> QED
    BY <2>1, <2>2, <2>3, ErrorKept
<1>11. ASSUME NEW b \in BufIds, FenceFired(b)
       PROVE  ErrorInv'
  <2>1. PICK s \in Streams : s = Owner(b)
    BY OwnerType
  <2>2. /\ UNCHANGED <<wake, armed, picomPc>> /\ pwPc = "idle"
        /\ \/ UNCHANGED state /\ SendBuffer(s, TRUE, None, free[s])
           \/ SetError(s)
           \/ UNCHANGED <<state, fromPw>>
    BY <1>11, <2>1 DEF FenceFired, Process
  <2>3. free[s] \in SUBSET BufIds
    BY <1>0 DEF TypeOK
  <2>4. SendBuffer(s, TRUE, None, free[s]) => UNCHANGED fromPw \/ \E m \in FromPipewire : SendToPicom(m)
    BY <2>3, Sends DEF Harmless
  <2> QED
    BY <2>2, <2>4, ErrorKept DEF Errored
<1> QED
  BY <1>1, <1>2, <1>3, <1>4, <1>5, <1>6, <1>7, <1>8, <1>9, <1>10, <1>11
  DEF Callback, WakerCallback, Removal, Environment, StateError

\* picom keeps WakeMeUp for its guard, and its guard for the end of the present.
LEMMA ErrorPresent ==
    ASSUME TypeInv, ErrorInv, PresentBegin \/ PresentFails \/ Present
    PROVE  ErrorInv'
<1> USE DEF shared, pwVars, streamVars, picomVars
<1>1. UNCHANGED <<pwPc, state>>
  BY DEF PresentBegin, PresentFails, Present, ReceiveAddBuffer, ReceiveAddBufferFails,
     ReceiveActivateBuffer, ReceiveRemoveBuffers, ReceiveWakeMeUp, ChannelEmpty, Blit, PresentEnd
<1>0. ~Unloaded
  BY DEF Unloaded, PresentBegin, PresentFails, Present, Taken, ReceiveAddBuffer,
     ReceiveAddBufferFails, ReceiveActivateBuffer, ReceiveRemoveBuffers, ReceiveWakeMeUp,
     ChannelEmpty, Blit, PresentEnd
<1>2. ASSUME WakeComing \/ Wakings # {} => WakeComing' \/ Wakings' # {}
      PROVE  ErrorInv'
  BY <1>0, <1>1, <1>2 DEF ErrorInv, Errored
<1>3. CASE PresentBegin \/ PresentFails \/ ChannelEmpty
  <2>1. UNCHANGED <<fromPw, wake, armed>> /\ (UNCHANGED picomPc \/ picomPc' # "idle")
    BY <1>3 DEF PresentBegin, PresentFails, ChannelEmpty
  <2> QED
    BY <1>2, <2>1 DEF WakeComing, Wakings
<1>4. ASSUME NEW b \in BufIds, Blit(b)
      PROVE  ErrorInv'
  <2>1. UNCHANGED <<fromPw, wake, picomPc>> /\ (UNCHANGED armed \/ armed' = TRUE) /\ picomPc = "blit"
    BY <1>4 DEF Blit, GuardSend
  <2> QED
    BY <1>2, <2>1 DEF WakeComing, Wakings
<1>5. CASE PresentEnd
  <2>1. UNCHANGED fromPw /\ wake' = (wake \/ armed)
    BY <1>5 DEF PresentEnd
  <2> QED
    BY <1>2, <2>1 DEF WakeComing, Wakings
<1>6. CASE ReceiveWakeMeUp
  <2>1. armed' = TRUE /\ picomPc' = "drain"
    BY <1>6 DEF ReceiveWakeMeUp, GuardWake, Taken
  <2> QED
    BY <1>2, <2>1 DEF WakeComing
<1>7. CASE ReceiveAddBuffer \/ ReceiveAddBufferFails \/ ReceiveActivateBuffer \/ ReceiveRemoveBuffers
  <2>1. /\ UNCHANGED <<wake, armed>> /\ picomPc' # "idle"
        /\ fromPw # <<>> /\ Head(fromPw).type # "WakeMeUp" /\ fromPw' = Tail(fromPw)
    BY <1>7
    DEF Taken, ReceiveAddBuffer, ReceiveAddBufferFails, ReceiveActivateBuffer, ReceiveRemoveBuffers
  <2>2. Head(fromPw) \notin {WakeMeUp} /\ fromPw \in Seq(FromPipewire)
    BY <2>1 DEF WakeMeUp, TypeInv, TypeOK
  <2>3. Wakings # {} => Wakings' # {}
    BY <2>1, <2>2, Got DEF Wakings
  <2> QED
    BY <1>2, <2>1, <2>3 DEF WakeComing
<1> QED
  BY <1>3, <1>4, <1>5, <1>6, <1>7 DEF Present

LEMMA ErrorStep ==
    ASSUME "extern" \notin Failures, TypeInv, ErrorInv, [Next]_vars
    PROVE  ErrorInv'
<1> USE DEF shared, pwVars, streamVars, picomVars
<1>1. CASE Server \/ SendFails \/ UNCHANGED vars
  <2>1. /\ UNCHANGED <<fromPw, armed, picomPc, state, pwPc>> /\ (wake' = TRUE \/ UNCHANGED wake)
    BY <1>1 DEF Server, RequestStream, RequestClose, ServerSend, SendFails, vars
  <2> QED
    BY <2>1 DEF ErrorInv, WakeComing, Wakings, Errored, Unloaded
<1>2. CASE Unload
  BY <1>2 DEF Unload, ErrorInv, Unloaded
<1> QED
  BY <1>1, <1>2, ErrorPipewire, ErrorPresent DEF Next

\* An error of a stream, wherever in a negotiation, a batch of additions, a
\* present or a trigger it came from, stays noticed until the callback that
\* removes the stream has begun: the pipewire thread, which cannot wake itself,
\* is going to be woken or has WakeMeUp before picom, unless that has been
\* unloaded.  (The errors PipeWire reports by itself are another exception: the
\* code tells nobody of them.)
THEOREM ErrorsStayNoticed ==
    ASSUME "extern" \notin Failures
    PROVE  Spec => []ErrorsWillBeSeen
<1>1. Init => ErrorInv
  BY DEF Init, ErrorInv, Errored
<1>2. TypeInv /\ ErrorInv /\ [Next]_vars => ErrorInv'
  BY ErrorStep
<1>3. TypeInv /\ ErrorInv => ErrorsWillBeSeen
  BY DEF TypeInv, TypeOK, ErrorInv, ErrorsWillBeSeen, Wakings, Positions, Unloaded
<1> QED
  BY <1>1, <1>2, <1>3, TypeInvariant, PTL DEF Spec

\* The request of a pipewire thread that blocks is there until it is answered.
AskedInv == pwPc = "add" /\ oneshot = "empty" => Adds(cur) # {}

LEMMA AskedStep == TypeInv /\ AskedInv /\ [Next]_vars => AskedInv'
<1> SUFFICES ASSUME TypeInv, AskedInv, [Next]_vars
             PROVE  AskedInv'
  OBVIOUS
<1> USE DEF shared, pwVars, streamVars, picomVars
<1>0. fromPw \in Seq(FromPipewire) /\ (pwPc = "add" => cur \in Streams)
  BY DEF TypeInv, TypeOK
<1>1. ASSUME pwPc' # "add" \/ oneshot' # "empty"
      PROVE  AskedInv'
  BY <1>1 DEF AskedInv
<1>2. ASSUME UNCHANGED <<pwPc, cur, oneshot, fromPw>>
      PROVE  AskedInv'
  BY <1>2 DEF AskedInv, Adds
<1>3. ASSUME NEW s \in Streams, HandleAddBuffer(s)
      PROVE  AskedInv'
  <2>1. SendToPicom(AddBuffer(s)) /\ AddBuffer(s) \in FromPipewire /\ cur' = s
    BY <1>3, MessageTypes DEF HandleAddBuffer
  <2>2. Positions(fromPw', {AddBuffer(s)}) # {}
    BY <1>0, <2>1, Sent DEF SendToPicom
  <2> QED
    BY <2>1, <2>2 DEF AskedInv, Adds
<1>4. CASE WakeUp \/ WakerCallback \/ Removal \/ BuffersCleared \/ AddBufferReplied
             \/ \E b \in BufIds : FenceFired(b)
  <2>1. pwPc' # "add"
    BY <1>4
    DEF WakeUp, WakerCallback, Received, HandleCreateStream, HandleCreateStreamFails,
        HandleNewFrame, HandleBufferError, HandleCloseStreams, DrainEmpty, ReapStream,
        StreamDropped, ReapDone, Removal, RemoveBlankBuffer, RemoveBuffer, BuffersCleared,
        AddBufferReplied, FenceFired
  <2> QED
    BY <1>1, <2>1
<1>5. ASSUME NEW s \in Streams,
             \/ StatePaused(s) \/ StateStreaming(s) \/ StateError(s) \/ FormatProposed(s)
             \/ FormatCleared(s) \/ ClearBuffers(s) \/ HandleAddBufferFails(s)
      PROVE  AskedInv'
  BY <1>1, <1>5
  DEF StatePaused, StateStreaming, StateError, FormatProposed, FormatCleared, ClearBuffers,
      HandleAddBufferFails
<1>6. CASE AddBufferRefused \/ (\E b \in BufIds : Recycle(b)) \/ Server \/ PresentBegin
             \/ PresentFails \/ ChannelEmpty \/ (\E b \in BufIds : Blit(b)) \/ PresentEnd
             \/ SendFails \/ UNCHANGED vars
  BY <1>2, <1>6
  DEF AddBufferRefused, Recycle, Server, RequestStream, RequestClose, ServerSend, PresentBegin,
      PresentFails, ChannelEmpty, Blit, PresentEnd, SendFails, vars
<1>7. CASE ReceiveAddBuffer \/ ReceiveAddBufferFails
  BY <1>1, <1>7 DEF ReceiveAddBuffer, ReceiveAddBufferFails, Import
<1>8. CASE ReceiveActivateBuffer \/ ReceiveRemoveBuffers \/ ReceiveWakeMeUp
  <2>1. /\ UNCHANGED <<pwPc, cur, oneshot>> /\ fromPw # <<>> /\ fromPw' = Tail(fromPw)
        /\ Head(fromPw).type # "AddBuffer"
    BY <1>8 DEF Taken, ReceiveActivateBuffer, ReceiveRemoveBuffers, ReceiveWakeMeUp
  <2>2. Head(fromPw) \notin {AddBuffer(cur)}
    BY <2>1 DEF AddBuffer
  <2>3. Adds(cur) # {} => Positions(fromPw', {AddBuffer(cur)}) # {}
    BY <1>0, <2>1, <2>2, Got DEF Adds
  <2> QED
    BY <2>1, <2>3 DEF AskedInv, Adds
<1>9. CASE Unload
  <2>1. (\E i \in DOMAIN fromPw : fromPw[i] = AddBuffer(cur)) => oneshot' = "dropped"
    BY <1>9 DEF Unload, AddBuffer
  <2> QED
    BY <1>1, <1>9, <2>1 DEF Unload, AskedInv, Adds, Positions
<1> QED
  BY <1>3, <1>4, <1>5, <1>6, <1>7, <1>8, <1>9 DEF Next, Callback, Environment, Present

\* The pipewire thread never blocks for an answer that nobody owes it: until
\* the answer is there or refused its AddBuffer lies before picom, which drops
\* the reply with the channel when it is unloaded.  (That picom reads it is
\* another matter: one that has bailed does not.)
THEOREM BlockedThreadsAsked == Spec => []BlockedThreadAsked
<1>1. Init => AskedInv
  BY DEF Init, AskedInv
<1>2. TypeInv /\ AskedInv => BlockedThreadAsked
  <2> SUFFICES ASSUME TypeInv, AskedInv, pwPc = "add", oneshot = "empty"
               PROVE  \E i \in DOMAIN fromPw : fromPw[i] = AddBuffer(cur)
    BY DEF BlockedThreadAsked
  <2> QED
    BY DEF AskedInv, Adds, Positions
<1> QED
  BY <1>1, <1>2, AskedStep, TypeInvariant, PTL DEF Spec
=============================================================================
