--------------------------- MODULE PipelineProofs ---------------------------
(***************************************************************************)
(* Theorems about the capture pipeline, for every set of streams, every    *)
(* bound on imports and every set of failures.                             *)
(***************************************************************************)
EXTENDS Pipeline, TLAPS

-----------------------------------------------------------------------------
(* Channels: what sending and receiving do to the positions of messages.   *)

\* A message sent stands behind all others, which stay where they are.
LEMMA AppendPositions ==
    ASSUME NEW S, NEW q \in Seq(S), NEW m \in S, NEW M
    PROVE  /\ Append(q, m) \in Seq(S)
           /\ m \notin M => Positions(Append(q, m), M) = Positions(q, M)
           /\ m \in M => Positions(Append(q, m), M) = Positions(q, M) \cup {Len(q) + 1}
BY DEF Positions

\* Receiving the head moves every other message one place ahead.
LEMMA TailPositions ==
    ASSUME NEW S, NEW q \in Seq(S), q # <<>>, NEW M
    PROVE  /\ Tail(q) \in Seq(S) /\ Head(q) \in S
           /\ 1 \in Positions(q, M) <=> Head(q) \in M
           /\ \A i : i \in Positions(Tail(q), M) <=> i \in Nat \ {0} /\ i + 1 \in Positions(q, M)
BY DEF Positions

\* So sending a message outside a class does not disturb the class, and sending
\* one of the class when there was none leaves exactly one.
LEMMA Sent ==
    ASSUME NEW S, NEW q \in Seq(S), NEW m \in S, NEW M
    PROVE  /\ Append(q, m) \in Seq(S)
           /\ m \notin M => Positions(Append(q, m), M) = Positions(q, M)
           /\ m \in M => Positions(Append(q, m), M) # {}
           /\ m \in M /\ Positions(q, M) = {} => AtMostOne(Positions(Append(q, m), M))
<1>1. /\ Append(q, m) \in Seq(S)
      /\ m \notin M => Positions(Append(q, m), M) = Positions(q, M)
      /\ m \in M => Positions(Append(q, m), M) = Positions(q, M) \cup {Len(q) + 1}
  BY AppendPositions
<1> QED
  BY <1>1 DEF AtMostOne

\* And receiving takes a message that was alone in its class out of the channel
\* and never makes one where there was none.
LEMMA Got ==
    ASSUME NEW S, NEW q \in Seq(S), q # <<>>, NEW M
    PROVE  /\ Tail(q) \in Seq(S) /\ Head(q) \in S
           /\ Positions(Tail(q), M) # {} => Positions(q, M) # {}
           /\ AtMostOne(Positions(q, M)) => AtMostOne(Positions(Tail(q), M))
           /\ Head(q) \in M => Positions(q, M) # {}
           /\ Head(q) \in M /\ AtMostOne(Positions(q, M)) => Positions(Tail(q), M) = {}
           /\ Head(q) \notin M /\ Positions(q, M) # {} => Positions(Tail(q), M) # {}
<1>1. \A i \in Positions(q, M) : i \in Nat \ {0}
  BY DEF Positions
<1>2. \A i \in Positions(Tail(q), M) : i \in Nat \ {0} /\ i + 1 \in Positions(q, M)
  BY TailPositions
<1>3. \A i \in Positions(q, M) : i # 1 => i - 1 \in Positions(Tail(q), M)
  BY <1>1, TailPositions
<1>4. Positions(Tail(q), M) # {} => Positions(q, M) # {}
  BY <1>2
<1>5. AtMostOne(Positions(q, M)) => AtMostOne(Positions(Tail(q), M))
  <2> SUFFICES ASSUME AtMostOne(Positions(q, M)),
                      NEW i \in Positions(Tail(q), M), NEW j \in Positions(Tail(q), M)
               PROVE  i = j
    BY DEF AtMostOne
  <2>1. i + 1 = j + 1 /\ i \in Nat /\ j \in Nat
    BY <1>2 DEF AtMostOne
  <2> QED
    BY <2>1
<1>6. Head(q) \in M => 1 \in Positions(q, M)
  BY TailPositions
<1>7. Head(q) \in M /\ AtMostOne(Positions(q, M)) => Positions(Tail(q), M) = {}
  <2> SUFFICES ASSUME Head(q) \in M, AtMostOne(Positions(q, M)),
                      NEW i \in Positions(Tail(q), M)
               PROVE  FALSE
    OBVIOUS
  <2>1. i + 1 = 1 /\ i \in Nat \ {0}
    BY <1>2, <1>6 DEF AtMostOne
  <2> QED
    BY <2>1
<1>8. Head(q) \notin M /\ Positions(q, M) # {} => Positions(Tail(q), M) # {}
  <2> SUFFICES ASSUME Head(q) \notin M, NEW i \in Positions(q, M)
               PROVE  Positions(Tail(q), M) # {}
    OBVIOUS
  <2>1. i # 1
    BY TailPositions
  <2> QED
    BY <2>1, <1>3
<1> QED
  BY <1>4, <1>5, <1>6, <1>7, <1>8, TailPositions

-----------------------------------------------------------------------------
(* Type correctness.  TypeOK is not inductive by itself: that picom imports *)
(* at most MaxBuffers buffers, and that the id add_buffer gets back is one  *)
(* of them, needs that an AddBuffer in the channel is the only one, for the *)
(* stream the pipewire thread is blocked on, and not answered yet.          *)

Adds(s) == Positions(fromPw, {AddBuffer(s)})

AddInProgress ==
    \A s \in Streams : Adds(s) # {} =>
        /\ AtMostOne(Adds(s))
        /\ pwPc = "add" /\ cur = s /\ oneshot = "empty" /\ made[s] < MaxBuffers

AddAnswered == pwPc = "add" /\ oneshot = "sent" => made[cur] # 0

TypeInv == TypeOK /\ AddInProgress /\ AddAnswered

LEMMA TypeInit == Init => TypeInv
<1> SUFFICES ASSUME Init
             PROVE  TypeInv
  OBVIOUS
<1>1. TypeOK
  <2>1. toPw \in Seq(ToPipewire) /\ fromPw \in Seq(FromPipewire)
    BY DEF Init
  <2>2. /\ fmt \in [Streams -> BOOLEAN] /\ blank \in [Streams -> BOOLEAN]
        /\ ready \in [Streams -> BOOLEAN]
        /\ wake \in BOOLEAN /\ pwTx \in BOOLEAN /\ armed \in BOOLEAN
    BY DEF Init
  <2>3. /\ bufs \in [Streams -> SUBSET BufIds] /\ free \in [Streams -> SUBSET BufIds]
        /\ outstanding \in [Streams -> BufIds \cup {None}]
        /\ made \in [Streams -> 0..MaxBuffers]
    BY MaxBuffersAssumption DEF Init
  <2> QED
    BY <2>1, <2>2, <2>3 DEF Init, TypeOK, StreamStates, Faults
<1>2. \A s \in Streams : Adds(s) = {}
  BY DEF Init, Adds, Positions
<1> QED
  BY <1>1, <1>2 DEF Init, TypeInv, AddInProgress, AddAnswered

\* Messages other than AddBuffer do not matter to Adds.
LEMMA SendOther ==
    ASSUME TypeInv, NEW m \in FromPipewire, m.type # "AddBuffer", SendToPicom(m)
    PROVE  fromPw' \in Seq(FromPipewire) /\ \A s \in Streams : Adds(s)' = Adds(s)
<1>1. fromPw \in Seq(FromPipewire) /\ fromPw' = Append(fromPw, m)
  BY DEF TypeInv, TypeOK, SendToPicom
<1>2. \A s \in Streams : m \notin {AddBuffer(s)}
  BY DEF AddBuffer
<1> QED
  BY <1>1, <1>2, Sent DEF Adds

LEMMA MessageTypes ==
    /\ \A s \in Streams : CreateStream(s) \in ToPipewire /\ CloseStream(s) \in ToPipewire
    /\ \A b \in BufIds : NewFrame(b) \in ToPipewire /\ BufferError(b) \in ToPipewire
    /\ \A s \in Streams : AddBuffer(s) \in FromPipewire
    /\ \A b \in BufIds : ActivateBuffer(b) \in FromPipewire /\ RemoveBuffers(b) \in FromPipewire
    /\ WakeMeUp \in FromPipewire
BY DEF CreateStream, CloseStream, NewFrame, BufferError, AddBuffer,
       ActivateBuffer, RemoveBuffers, WakeMeUp, ToPipewire, FromPipewire

LEMMA OwnerType == \A b \in BufIds : Owner(b) \in Streams
BY DEF BufIds, Owner

LEMMA SetErrorType ==
    ASSUME TypeInv, NEW s \in Streams, SetError(s)
    PROVE  /\ fromPw' \in Seq(FromPipewire) /\ \A t \in Streams : Adds(t)' = Adds(t)
           /\ state' \in [Streams -> StreamStates]
<1>1. SendToPicom(WakeMeUp) /\ WakeMeUp \in FromPipewire /\ WakeMeUp.type # "AddBuffer"
  BY MessageTypes DEF SetError, WakeMeUp
<1>2. state' \in [Streams -> StreamStates]
  BY DEF TypeInv, TypeOK, SetError, StreamStates
<1> QED
  BY <1>1, <1>2, SendOther

LEMMA SendBufferType ==
    ASSUME TypeInv, NEW s \in Streams, NEW streaming \in BOOLEAN,
           NEW out \in BufIds \cup {None}, NEW avail \in SUBSET BufIds,
           SendBuffer(s, streaming, out, avail)
    PROVE  /\ fromPw' \in Seq(FromPipewire) /\ \A t \in Streams : Adds(t)' = Adds(t)
           /\ outstanding' \in [Streams -> BufIds \cup {None}]
           /\ free' \in [Streams -> SUBSET BufIds]
<1>1. CASE UNCHANGED fromPw /\ outstanding' = [outstanding EXCEPT ![s] = out]
             /\ free' = [free EXCEPT ![s] = avail]
  BY <1>1 DEF TypeInv, TypeOK, Adds
<1>2. ASSUME NEW b \in avail, SendToPicom(ActivateBuffer(b)),
             outstanding' = [outstanding EXCEPT ![s] = b],
             free' = [free EXCEPT ![s] = avail \ {b}]
      PROVE  /\ fromPw' \in Seq(FromPipewire) /\ \A t \in Streams : Adds(t)' = Adds(t)
             /\ outstanding' \in [Streams -> BufIds \cup {None}]
             /\ free' \in [Streams -> SUBSET BufIds]
  <2>1. ActivateBuffer(b) \in FromPipewire /\ ActivateBuffer(b).type # "AddBuffer"
    BY MessageTypes DEF ActivateBuffer
  <2>2. fromPw' \in Seq(FromPipewire) /\ \A t \in Streams : Adds(t)' = Adds(t)
    BY <1>2, <2>1, SendOther
  <2> QED
    BY <1>2, <2>2 DEF TypeInv, TypeOK
<1> QED
  BY <1>1, <1>2 DEF SendBuffer

\* A received message is one of its type's.
LEMMA ReceivedType ==
    ASSUME TypeInv, NEW type, Received(type)
    PROVE  /\ toPw' \in Seq(ToPipewire) /\ pwPc = "drain" /\ Head(toPw).type = type
           /\ type \in {"CreateStream", "CloseStream"} => Head(toPw).stream \in Streams
           /\ type \in {"NewFrame", "BufferError"} =>
                Head(toPw).id \in BufIds /\ Owner(Head(toPw).id) \in Streams
<1>1. toPw \in Seq(ToPipewire) /\ toPw # <<>>
  BY DEF TypeInv, TypeOK, Received
<1>2. Tail(toPw) \in Seq(ToPipewire) /\ Head(toPw) \in ToPipewire
  BY <1>1
<1> QED
  BY <1>2, OwnerType DEF Received, ToPipewire

LEMMA TakenType ==
    ASSUME TypeInv, NEW type, Taken(type)
    PROVE  /\ fromPw' \in Seq(FromPipewire) /\ picomPc = "drain"
           /\ type \in {"ActivateBuffer", "RemoveBuffers"} => Head(fromPw).id \in BufIds
           /\ type = "AddBuffer" =>
                \E s \in Streams : s = Head(fromPw).stream /\ Adds(s) # {} /\ Adds(s)' = {}
           /\ \A s \in Streams : Adds(s)' # {} => Adds(s) # {} /\ AtMostOne(Adds(s)')
<1>1. fromPw \in Seq(FromPipewire) /\ fromPw # <<>> /\ fromPw' = Tail(fromPw)
  BY DEF TypeInv, TypeOK, Taken
<1>2. Tail(fromPw) \in Seq(FromPipewire) /\ Head(fromPw) \in FromPipewire
  BY <1>1
<1>3. \A s \in Streams : Adds(s)' # {} => Adds(s) # {} /\ AtMostOne(Adds(s)')
  <2> SUFFICES ASSUME NEW s \in Streams, Adds(s)' # {}
               PROVE  Adds(s) # {} /\ AtMostOne(Adds(s)')
    OBVIOUS
  <2>1. Adds(s) # {}
    BY <1>1, Got DEF Adds
  <2>2. AtMostOne(Adds(s))
    BY <2>1 DEF TypeInv, AddInProgress
  <2> QED
    BY <1>1, <2>1, <2>2, Got DEF Adds
<1>4. ASSUME type = "AddBuffer"
      PROVE  \E s \in Streams : s = Head(fromPw).stream /\ Adds(s) # {} /\ Adds(s)' = {}
  <2>1. PICK s \in Streams : s = Head(fromPw).stream /\ Head(fromPw) = AddBuffer(s)
    BY <1>2, <1>4 DEF Taken, FromPipewire, AddBuffer
  <2>2. Head(fromPw) \in {AddBuffer(s)}
    BY <2>1
  <2>3. Adds(s) # {}
    BY <1>1, <2>2, Got DEF Adds
  <2>4. AtMostOne(Adds(s))
    BY <2>1, <2>3 DEF TypeInv, AddInProgress
  <2>5. Positions(Tail(fromPw), {AddBuffer(s)}) = {}
    BY <1>1, <2>2, <2>4, Got DEF Adds
  <2> QED
    BY <1>1, <2>1, <2>3, <2>5 DEF Adds
<1> QED
  BY <1>2, <1>3, <1>4 DEF Taken, FromPipewire

\* The pipewire thread is blocked, on an unanswered request, when an AddBuffer
\* is in the channel: what it does elsewhere finds none there.
LEMMA NotAdding ==
    ASSUME TypeInv, pwPc # "add"
    PROVE  \A s \in Streams : Adds(s) = {}
BY DEF TypeInv, AddInProgress

LEMMA TypeServer ==
    ASSUME TypeInv, Server
    PROVE  TypeInv'
<1> USE DEF pwVars, streamVars, picomVars
<1>1. ASSUME NEW s \in Streams, RequestStream(s)
      PROVE  TypeInv'
  <2>1. toPw' \in Seq(ToPipewire)
    BY <1>1, MessageTypes DEF TypeInv, TypeOK, RequestStream, ServerSend
  <2> QED
    BY <1>1, <2>1
    DEF TypeInv, TypeOK, AddInProgress, AddAnswered, Adds, RequestStream, ServerSend
<1>2. ASSUME NEW s \in Streams, RequestClose(s)
      PROVE  TypeInv'
  <2>1. toPw' \in Seq(ToPipewire)
    BY <1>2, MessageTypes DEF TypeInv, TypeOK, RequestClose, ServerSend
  <2> QED
    BY <1>2, <2>1
    DEF TypeInv, TypeOK, AddInProgress, AddAnswered, Adds, RequestClose, ServerSend
<1> QED
  BY <1>1, <1>2 DEF Server

LEMMA TypeWaker ==
    ASSUME TypeInv, WakeUp \/ WakerCallback
    PROVE  TypeInv'
<1> USE DEF shared, pwVars, streamVars, picomVars
<1>1. CASE WakeUp
  BY <1>1 DEF TypeInv, TypeOK, AddInProgress, AddAnswered, Adds, WakeUp
<1>2. CASE HandleCreateStream
  <2>1. toPw' \in Seq(ToPipewire) /\ pwPc = "drain" /\ Head(toPw).stream \in Streams
    BY <1>2, ReceivedType DEF HandleCreateStream
  <2> QED
    BY <1>2, <2>1
    DEF TypeInv, TypeOK, StreamStates, AddInProgress, AddAnswered, Adds, HandleCreateStream
<1>3. CASE HandleCreateStreamFails
  <2>1. toPw' \in Seq(ToPipewire) /\ pwPc = "drain" /\ Head(toPw).stream \in Streams
    BY <1>3, ReceivedType DEF HandleCreateStreamFails
  <2> QED
    BY <1>3, <2>1
    DEF TypeInv, TypeOK, AddInProgress, AddAnswered, Adds, HandleCreateStreamFails
<1>4. CASE HandleNewFrame
  <2>1. toPw' \in Seq(ToPipewire) /\ pwPc = "drain" /\ Head(toPw).id \in BufIds
    BY <1>4, ReceivedType DEF HandleNewFrame
  <2> QED
    BY <1>4, <2>1
    DEF TypeInv, TypeOK, Faults, AddInProgress, AddAnswered, Adds, HandleNewFrame
<1>5. CASE HandleBufferError
  <2>1. toPw' \in Seq(ToPipewire) /\ pwPc = "drain" /\ Owner(Head(toPw).id) \in Streams
    BY <1>5, ReceivedType DEF HandleBufferError
  <2>2. CASE Live(Owner(Head(toPw).id))
    <3>1. SetError(Owner(Head(toPw).id))
      BY <1>5, <2>2 DEF HandleBufferError
    <3>2. fromPw' \in Seq(FromPipewire) /\ (\A t \in Streams : Adds(t)' = Adds(t))
          /\ state' \in [Streams -> StreamStates]
      BY <2>1, <3>1, SetErrorType
    <3> QED
      BY <1>5, <2>1, <2>2, <3>2
      DEF TypeInv, TypeOK, AddInProgress, AddAnswered, HandleBufferError
  <2>3. CASE ~Live(Owner(Head(toPw).id))
    BY <1>5, <2>1, <2>3
    DEF TypeInv, TypeOK, Faults, AddInProgress, AddAnswered, Adds, HandleBufferError
  <2> QED
    BY <2>2, <2>3
<1>6. CASE HandleCloseStreams
  <2>1. toPw' \in Seq(ToPipewire) /\ pwPc = "drain" /\ Head(toPw).stream \in Streams
    BY <1>6, ReceivedType DEF HandleCloseStreams
  <2>2. CASE SetError(Head(toPw).stream) /\ UNCHANGED fault
    <3>1. fromPw' \in Seq(FromPipewire) /\ (\A t \in Streams : Adds(t)' = Adds(t))
          /\ state' \in [Streams -> StreamStates]
      BY <2>1, <2>2, SetErrorType
    <3> QED
      BY <1>6, <2>1, <2>2, <3>1
      DEF TypeInv, TypeOK, AddInProgress, AddAnswered, HandleCloseStreams
  <2>3. CASE fault' \in Faults /\ UNCHANGED <<state, fromPw>>
    BY <1>6, <2>1, <2>3
    DEF TypeInv, TypeOK, AddInProgress, AddAnswered, Adds, HandleCloseStreams
  <2> QED
    BY <1>6, <2>2, <2>3 DEF HandleCloseStreams, TypeInv, TypeOK, Faults
<1>7. CASE DrainEmpty \/ ReapDone
  BY <1>7 DEF TypeInv, TypeOK, AddInProgress, AddAnswered, Adds, DrainEmpty, ReapDone
<1>8. ASSUME NEW s \in Streams, ReapStream(s)
      PROVE  TypeInv'
  BY <1>8, NoneAssumption
  DEF TypeInv, TypeOK, Faults, AddInProgress, AddAnswered, Adds, ReapStream, ForgetNode
<1>9. CASE StreamDropped
  BY <1>9
  DEF TypeInv, TypeOK, StreamStates, AddInProgress, AddAnswered, Adds, StreamDropped
<1> QED
  BY <1>1, <1>2, <1>3, <1>4, <1>5, <1>6, <1>7, <1>8, <1>9 DEF WakerCallback

LEMMA TypeRemoval ==
    ASSUME TypeInv, Removal \/ BuffersCleared
    PROVE  TypeInv'
<1> USE DEF shared, pwVars, streamVars, picomVars
<1>1. CASE RemoveBlankBuffer
  BY <1>1 DEF TypeInv, TypeOK, Faults, AddInProgress, AddAnswered, Adds, RemoveBlankBuffer
<1>2. ASSUME NEW b \in BufIds, RemoveBuffer(b)
      PROVE  TypeInv'
  <2>1. RemoveBuffers(b) \in FromPipewire /\ RemoveBuffers(b).type # "AddBuffer"
    BY MessageTypes DEF RemoveBuffers
  <2>2. fromPw' \in Seq(FromPipewire) /\ \A t \in Streams : Adds(t)' = Adds(t)
    BY <1>2, <2>1, SendOther DEF RemoveBuffer, TellRemoved
  <2>3. bufs' \in [Streams -> SUBSET BufIds] /\ free' \in [Streams -> SUBSET BufIds]
    BY <1>2 DEF RemoveBuffer, TypeInv, TypeOK
  <2> QED
    BY <1>2, <2>2, <2>3 DEF TypeInv, TypeOK, AddInProgress, AddAnswered, RemoveBuffer
<1>3. CASE BuffersCleared
  BY <1>3 DEF TypeInv, TypeOK, AddInProgress, AddAnswered, Adds, BuffersCleared
<1> QED
  BY <1>1, <1>2, <1>3 DEF Removal

LEMMA TypeAddBuffer ==
    ASSUME TypeInv,
           AddBufferReplied \/ AddBufferRefused
             \/ \E s \in Streams : HandleAddBuffer(s) \/ HandleAddBufferFails(s)
    PROVE  TypeInv'
<1> USE DEF shared, pwVars, streamVars, picomVars
<1>1. CASE AddBufferReplied
  <2>1. pwPc = "add" /\ cur \in Streams /\ <<cur, made[cur]>> \in BufIds
    BY <1>1, MaxBuffersAssumption, NoneAssumption
    DEF AddBufferReplied, TypeInv, TypeOK, AddAnswered, BufIds
  <2>2. bufs' \in [Streams -> SUBSET BufIds] /\ free' \in [Streams -> SUBSET BufIds]
    BY <1>1, <2>1 DEF AddBufferReplied, TypeInv, TypeOK
  <2>3. \A s \in Streams : Adds(s) = {}
    BY <1>1 DEF TypeInv, AddInProgress, AddBufferReplied
  <2>4. /\ fromPw' \in Seq(FromPipewire) /\ \A s \in Streams : Adds(s)' = {}
        /\ state' \in [Streams -> StreamStates]
    BY <1>1, <2>1, <2>3, SetErrorType DEF AddBufferReplied, TypeInv, TypeOK, Adds
  <2> QED
    BY <1>1, <2>2, <2>4 DEF AddBufferReplied, TypeInv, TypeOK, AddInProgress, AddAnswered
<1>2. CASE AddBufferRefused
  BY <1>2 DEF TypeInv, TypeOK, Faults, AddInProgress, AddAnswered, Adds, AddBufferRefused
<1>3. ASSUME NEW s \in Streams, HandleAddBuffer(s)
      PROVE  TypeInv'
  <2>1. \A t \in Streams : Adds(t) = {}
    BY <1>3, NotAdding DEF HandleAddBuffer
  <2>2. fromPw \in Seq(FromPipewire) /\ fromPw' = Append(fromPw, AddBuffer(s))
    BY <1>3 DEF TypeInv, TypeOK, HandleAddBuffer, SendToPicom
  <2>3. fromPw' \in Seq(FromPipewire) /\ AtMostOne(Adds(s)')
    BY <2>1, <2>2, Sent, MessageTypes DEF Adds
  <2>4. \A t \in Streams : t # s => Adds(t)' = {}
    <3> SUFFICES ASSUME NEW t \in Streams, t # s
                 PROVE  Adds(t)' = {}
      OBVIOUS
    <3>1. AddBuffer(s) \notin {AddBuffer(t)}
      BY DEF AddBuffer
    <3> QED
      BY <2>1, <2>2, <3>1, Sent, MessageTypes DEF Adds
  <2> QED
    BY <1>3, <2>3, <2>4, NoneAssumption
    DEF HandleAddBuffer, TypeInv, TypeOK, AddInProgress, AddAnswered
<1>4. ASSUME NEW s \in Streams, HandleAddBufferFails(s)
      PROVE  TypeInv'
  <2>1. /\ fromPw' \in Seq(FromPipewire) /\ \A t \in Streams : Adds(t)' = Adds(t)
        /\ state' \in [Streams -> StreamStates]
    BY <1>4, SetErrorType DEF HandleAddBufferFails
  <2> QED
    BY <1>4, <2>1 DEF HandleAddBufferFails, TypeInv, TypeOK, AddInProgress, AddAnswered
<1> QED
  BY <1>1, <1>2, <1>3, <1>4

LEMMA TypeStreamState ==
    ASSUME TypeInv, NEW s \in Streams,
           \/ StatePaused(s) \/ StateStreaming(s) \/ StateError(s)
           \/ FormatProposed(s) \/ FormatCleared(s) \/ ClearBuffers(s)
    PROVE  TypeInv'
<1> USE DEF shared, pwVars, streamVars, picomVars
<1>1. CASE StatePaused(s)
  <2>1. state' \in [Streams -> StreamStates]
    BY <1>1 DEF StatePaused, TypeInv, TypeOK, StreamStates
  <2>2. /\ nodes' \subseteq Streams
        /\ reply' \in [Streams -> {"none", "pending", "sent", "dropped"}]
    <3>1. \/ nodes' = nodes \cup {s} /\ reply' = [reply EXCEPT ![s] = "sent"]
          \/ UNCHANGED <<nodes, reply>>
      BY <1>1 DEF StatePaused
    <3> QED
      BY <3>1 DEF TypeInv, TypeOK
  <2> QED
    BY <1>1, <2>1, <2>2 DEF StatePaused, TypeInv, TypeOK, AddInProgress, AddAnswered, Adds
<1>2. CASE StateStreaming(s)
  <2>1. /\ fromPw' \in Seq(FromPipewire) /\ \A t \in Streams : Adds(t)' = Adds(t)
        /\ outstanding' \in [Streams -> BufIds \cup {None}]
        /\ free' \in [Streams -> SUBSET BufIds]
        /\ ready' \in [Streams -> BOOLEAN] /\ fault' \in Faults
    <3>1. CASE ~ready[s]
      <4>1. SendBuffer(s, TRUE, outstanding[s], free[s]) /\ UNCHANGED <<ready, fault>>
        BY <1>2, <3>1 DEF StateStreaming, Resume
      <4>2. outstanding[s] \in BufIds \cup {None} /\ free[s] \in SUBSET BufIds
        BY DEF TypeInv, TypeOK
      <4> QED
        BY <4>1, <4>2, SendBufferType DEF TypeInv, TypeOK
    <3>2. ASSUME ready[s], outstanding[s] # None,
                 NEW b \in Deref(s), SendToPicom(ActivateBuffer(b)), UNCHANGED fault
          PROVE  /\ fromPw' \in Seq(FromPipewire) /\ \A t \in Streams : Adds(t)' = Adds(t)
                 /\ fault' \in Faults
      <4>1. b \in BufIds
        BY <3>2 DEF Deref, TypeInv, TypeOK
      <4>2. ActivateBuffer(b) \in FromPipewire /\ ActivateBuffer(b).type # "AddBuffer"
        BY <4>1, MessageTypes DEF ActivateBuffer
      <4> QED
        BY <3>2, <4>2, SendOther DEF TypeInv, TypeOK
    <3>3. CASE ready[s] /\ outstanding[s] = None
      BY <1>2, <3>3 DEF StateStreaming, Resume, TypeInv, TypeOK, Faults, Adds
    <3> QED
      BY <1>2, <3>1, <3>2, <3>3 DEF StateStreaming, Resume, TypeInv, TypeOK
  <2> QED
    BY <1>2, <2>1
    DEF StateStreaming, TypeInv, TypeOK, StreamStates, AddInProgress, AddAnswered
<1>3. CASE StateError(s)
  BY <1>3 DEF TypeInv, TypeOK, StreamStates, AddInProgress, AddAnswered, Adds, StateError
<1>4. CASE FormatProposed(s)
  <2>1. /\ fromPw' \in Seq(FromPipewire) /\ \A t \in Streams : Adds(t)' = Adds(t)
        /\ state' \in [Streams -> StreamStates] /\ fmt' \in [Streams -> BOOLEAN]
    BY <1>4, SetErrorType DEF FormatProposed, TypeInv, TypeOK, Adds
  <2> QED
    BY <1>4, <2>1 DEF FormatProposed, TypeInv, TypeOK, AddInProgress, AddAnswered
<1>5. CASE FormatCleared(s)
  BY <1>5 DEF TypeInv, TypeOK, AddInProgress, AddAnswered, Adds, FormatCleared
<1>6. CASE ClearBuffers(s)
  BY <1>6, NoneAssumption
  DEF TypeInv, TypeOK, AddInProgress, AddAnswered, Adds, ClearBuffers
<1> QED
  BY <1>1, <1>2, <1>3, <1>4, <1>5, <1>6

LEMMA TypeFences ==
    ASSUME TypeInv, NEW b \in BufIds, FenceFired(b) \/ Recycle(b)
    PROVE  TypeInv'
<1> USE DEF shared, pwVars, streamVars, picomVars
<1> DEFINE s == Owner(b)
<1>1. s \in Streams
  BY OwnerType
<1> HIDE DEF s
<1>2. CASE FenceFired(b)
  <2>1. CASE Process(s) /\ UNCHANGED state
    <3>1. SendBuffer(s, TRUE, None, free[s]) /\ free[s] \in SUBSET BufIds
      BY <1>1, <2>1 DEF Process, TypeInv, TypeOK
    <3>2. /\ fromPw' \in Seq(FromPipewire) /\ \A t \in Streams : Adds(t)' = Adds(t)
          /\ outstanding' \in [Streams -> BufIds \cup {None}]
          /\ free' \in [Streams -> SUBSET BufIds]
      BY <1>1, <3>1, SendBufferType
    <3>3. ready' \in [Streams -> BOOLEAN]
      BY <1>1, <2>1 DEF Process, TypeInv, TypeOK
    <3> QED
      BY <1>2, <2>1, <3>2, <3>3 DEF FenceFired, TypeInv, TypeOK, AddInProgress, AddAnswered
  <2>2. CASE SetError(s) /\ ready' = [ready EXCEPT ![s] = TRUE] /\ UNCHANGED <<outstanding, free>>
    <3>1. /\ fromPw' \in Seq(FromPipewire) /\ \A t \in Streams : Adds(t)' = Adds(t)
          /\ state' \in [Streams -> StreamStates]
      BY <1>1, <2>2, SetErrorType
    <3> QED
      BY <1>1, <1>2, <2>2, <3>1 DEF FenceFired, TypeInv, TypeOK, AddInProgress, AddAnswered
  <2>3. CASE /\ ready' = [ready EXCEPT ![s] = Live(s)]
             /\ UNCHANGED <<state, fromPw, outstanding, free>>
    <3>1. ready' \in [Streams -> BOOLEAN]
      BY <1>1, <2>3 DEF TypeInv, TypeOK, Live
    <3> QED
      BY <1>2, <2>3, <3>1 DEF FenceFired, TypeInv, TypeOK, AddInProgress, AddAnswered, Adds
  <2> QED
    BY <1>2, <2>1, <2>2, <2>3 DEF FenceFired, s
<1>3. CASE Recycle(b)
  <2>1. free' \in [Streams -> SUBSET BufIds]
    BY <1>1, <1>3 DEF Recycle, TypeInv, TypeOK, s
  <2> QED
    BY <1>3, <2>1 DEF Recycle, TypeInv, TypeOK, AddInProgress, AddAnswered, Adds
<1> QED
  BY <1>2, <1>3

LEMMA TypePresent ==
    ASSUME TypeInv, PresentBegin \/ PresentFails \/ Present
    PROVE  TypeInv'
<1> USE DEF shared, pwVars, streamVars, picomVars
<1>1. CASE PresentBegin \/ PresentFails \/ ChannelEmpty \/ PresentEnd
  BY <1>1
  DEF TypeInv, TypeOK, AddInProgress, AddAnswered, Adds, PresentBegin, PresentFails,
      ChannelEmpty, PresentEnd
<1>2. CASE ReceiveAddBuffer
  <2>1. PICK s \in Streams : s = Head(fromPw).stream /\ Adds(s) # {} /\ Adds(s)' = {}
    BY <1>2, TakenType DEF ReceiveAddBuffer
  <2>2. cur = s /\ pwPc = "add" /\ oneshot = "empty" /\ made[s] < MaxBuffers
    BY <2>1 DEF TypeInv, AddInProgress
  <2>3. /\ fromPw' \in Seq(FromPipewire)
        /\ \A t \in Streams : Adds(t)' # {} => Adds(t) # {}
    BY <1>2, TakenType DEF ReceiveAddBuffer
  <2>4. \A t \in Streams : Adds(t)' = {}
    BY <2>1, <2>2, <2>3 DEF TypeInv, AddInProgress
  <2>5. made[s] \in 0..MaxBuffers
    BY DEF TypeInv, TypeOK
  <2>6. made[s] + 1 \in 1..MaxBuffers
    BY <2>2, <2>5, MaxBuffersAssumption
  <2>7. made' = [made EXCEPT ![s] = @ + 1] /\ buffers' = buffers \cup {<<s, made[s] + 1>>}
    BY <1>2, <2>1 DEF ReceiveAddBuffer, Import
  <2>8. made' \in [Streams -> 0..MaxBuffers] /\ made'[cur] # 0 /\ buffers' \subseteq BufIds
    BY <2>2, <2>6, <2>7, MaxBuffersAssumption DEF TypeInv, TypeOK, BufIds
  <2> QED
    BY <1>2, <2>3, <2>4, <2>8
    DEF ReceiveAddBuffer, Import, TypeInv, TypeOK, AddInProgress, AddAnswered
<1>3. CASE ReceiveAddBufferFails
  <2>1. PICK s \in Streams : s = Head(fromPw).stream /\ Adds(s) # {} /\ Adds(s)' = {}
    BY <1>3, TakenType DEF ReceiveAddBufferFails
  <2>2. /\ fromPw' \in Seq(FromPipewire)
        /\ \A t \in Streams : Adds(t)' # {} => Adds(t) # {}
    BY <1>3, TakenType DEF ReceiveAddBufferFails
  <2>3. \A t \in Streams : Adds(t)' = {}
    BY <2>1, <2>2 DEF TypeInv, AddInProgress
  <2> QED
    BY <1>3, <2>2, <2>3
    DEF ReceiveAddBufferFails, TypeInv, TypeOK, AddInProgress, AddAnswered
<1>4. CASE ReceiveActivateBuffer
  <2>1. /\ fromPw' \in Seq(FromPipewire) /\ Head(fromPw).id \in BufIds
        /\ \A t \in Streams : Adds(t)' # {} => Adds(t) # {} /\ AtMostOne(Adds(t)')
    BY <1>4, TakenType DEF ReceiveActivateBuffer
  <2> QED
    BY <1>4, <2>1
    DEF ReceiveActivateBuffer, TypeInv, TypeOK, Faults, AddInProgress, AddAnswered
<1>5. CASE ReceiveRemoveBuffers
  <2>1. /\ fromPw' \in Seq(FromPipewire)
        /\ \A t \in Streams : Adds(t)' # {} => Adds(t) # {} /\ AtMostOne(Adds(t)')
    BY <1>5, TakenType DEF ReceiveRemoveBuffers
  <2> QED
    BY <1>5, <2>1
    DEF ReceiveRemoveBuffers, Discard, TypeInv, TypeOK, AddInProgress, AddAnswered
<1>6. CASE ReceiveWakeMeUp
  <2>1. /\ fromPw' \in Seq(FromPipewire)
        /\ \A t \in Streams : Adds(t)' # {} => Adds(t) # {} /\ AtMostOne(Adds(t)')
    BY <1>6, TakenType DEF ReceiveWakeMeUp
  <2> QED
    BY <1>6, <2>1
    DEF ReceiveWakeMeUp, GuardWake, TypeInv, TypeOK, AddInProgress, AddAnswered
<1>7. ASSUME NEW b \in BufIds, Blit(b)
      PROVE  TypeInv'
  <2>1. toPw' \in Seq(ToPipewire) /\ armed' \in BOOLEAN /\ fault' \in Faults
    <3>1. NewFrame(b) \in ToPipewire /\ BufferError(b) \in ToPipewire
      BY MessageTypes
    <3>2. CASE UNCHANGED <<toPw, armed>>
      BY <1>7, <3>2 DEF Blit, GuardSend, TypeInv, TypeOK, Faults
    <3>3. ASSUME NEW m \in ToPipewire, GuardSend(m), UNCHANGED fault
          PROVE  toPw' \in Seq(ToPipewire) /\ armed' \in BOOLEAN /\ fault' \in Faults
      BY <3>3 DEF GuardSend, TypeInv, TypeOK
    <3> QED
      BY <1>7, <3>1, <3>2, <3>3 DEF Blit
  <2> QED
    BY <1>7, <2>1 DEF Blit, TypeInv, TypeOK, AddInProgress, AddAnswered, Adds
<1> QED
  BY <1>1, <1>2, <1>3, <1>4, <1>5, <1>6, <1>7 DEF Present

LEMMA TypeUnload ==
    ASSUME TypeInv, Unload \/ SendFails
    PROVE  TypeInv'
<1> USE DEF shared, pwVars, streamVars, picomVars
<1>1. CASE Unload
  <2>1. fromPw' \in Seq(FromPipewire) /\ \A s \in Streams : Adds(s)' = {}
    BY <1>1 DEF Unload, Adds, Positions
  <2>2. oneshot' \in {"dropped", oneshot}
    BY <1>1 DEF Unload
  <2> QED
    BY <1>1, <2>1, <2>2 DEF Unload, TypeInv, TypeOK, AddInProgress, AddAnswered
<1>2. CASE SendFails
  BY <1>2 DEF SendFails, TypeInv, TypeOK, Faults, AddInProgress, AddAnswered, Adds
<1> QED
  BY <1>1, <1>2

LEMMA TypeStep ==
    ASSUME TypeInv, [Next]_vars
    PROVE  TypeInv'
<1>1. CASE UNCHANGED vars
  BY <1>1
  DEF vars, shared, pwVars, streamVars, picomVars, TypeInv, TypeOK, AddInProgress,
      AddAnswered, Adds
<1>2. CASE Next
  BY <1>2, TypeServer, TypeWaker, TypeRemoval, TypeAddBuffer, TypeStreamState, TypeFences,
     TypePresent, TypeUnload
  DEF Next, Callback, Environment
<1> QED
  BY <1>1, <1>2

THEOREM TypeInvariant == Spec => []TypeInv
<1>1. TypeInv /\ [Next]_vars => TypeInv'
  BY TypeStep
<1> QED
  BY <1>1, TypeInit, PTL DEF Spec

\* Type correctness of the pipeline: whatever the order of presents, callbacks
\* and failures, every message and variable has a value of its type, and picom
\* never hands out more buffer ids than were asked for.
THEOREM TypeCorrect == Spec => []TypeOK
<1>1. TypeInv => TypeOK
  BY DEF TypeInv
<1> QED
  BY <1>1, TypeInvariant, PTL

-----------------------------------------------------------------------------
(* The capture cycle of a stream: never more than one frame on its way     *)
(* round the two threads, and the unwraps and assertions that rely on it.  *)

(* The inductive invariant.                                                *)

\* A stream deals in its own buffers only.
OwnIds ==
    \A s \in Streams :
        /\ bufs[s] \subseteq IdsOf(s) /\ free[s] \subseteq IdsOf(s)
        /\ outstanding[s] \in IdsOf(s) \cup {None}

Creates(s) == Positions(toPw, {CreateStream(s)})

\* A stream is created once, and not before its CreateStream is received: so
\* a stream that comes alive has no frame under way from an earlier life.
CreatedOnce ==
    \A s \in Streams :
        /\ AtMostOne(Creates(s))
        /\ Creates(s) # {} => state[s] = "none"
        /\ reply[s] = "none" => Creates(s) = {} /\ state[s] = "none"

\* A multi-step callback works on a stream that is still there.
CurLive == cur # None => Live(cur)

OneStage(s) ==
    /\ AtMostOne(Activations(s)) /\ AtMostOne(ActiveOf(s))
    /\ AtMostOne(Answers(s)) /\ AtMostOne(FencesOf(s))
    /\ Activations(s) # {} => ActiveOf(s) = {} /\ Answers(s) = {} /\ FencesOf(s) = {}
    /\ ActiveOf(s) # {} => Answers(s) = {} /\ FencesOf(s) = {}
    /\ Answers(s) # {} => FencesOf(s) = {}

Flight(s) ==
    /\ OneStage(s)
    /\ Live(s) /\ InFlight(s) => outstanding[s] # None /\ ~ready[s]
    /\ ready[s] => outstanding[s] # None
    /\ state[s] = "none" => ~InFlight(s)

CycleFaults == {"double_activate", "no_outstanding", "fence_twice"}

CycleInv ==
    /\ TypeInv /\ OwnIds /\ CreatedOnce /\ CurLive
    /\ \A s \in Streams : Flight(s)
    /\ fault \notin CycleFaults

LEMMA CycleInit == Init => CycleInv
<1> SUFFICES ASSUME Init
             PROVE  CycleInv
  OBVIOUS
<1>1. TypeInv
  BY TypeInit
<1>2. \A M : Positions(fromPw, M) = {} /\ Positions(toPw, M) = {}
  BY DEF Init, Positions
<1>3. OwnIds
  BY DEF Init, OwnIds
<1>4. CreatedOnce
  BY <1>2 DEF Init, CreatedOnce, Creates, AtMostOne
<1>5. \A s \in Streams : Flight(s)
  <2> SUFFICES ASSUME NEW s \in Streams
               PROVE  Flight(s)
    OBVIOUS
  <2>1. Activations(s) = {} /\ Answers(s) = {} /\ ActiveOf(s) = {} /\ FencesOf(s) = {}
    BY <1>2 DEF Init, Activations, Answers, ActiveOf, FencesOf
  <2>2. ~ready[s]
    BY DEF Init
  <2> QED
    BY <2>1, <2>2 DEF Flight, OneStage, InFlight, AtMostOne
<1> QED
  BY <1>1, <1>3, <1>4, <1>5 DEF Init, CycleInv, CurLive, CycleFaults

-----------------------------------------------------------------------------
(* What each kind of communication does to the stages of every stream.     *)

\* In stage set B, after, there is a frame only if there was one in A, before.
NoMore(A, B) == AtMostOne(B) /\ (B # {} => A # {})

\* A step that moves no frame forward and leaves outstanding_buffer and its
\* flag alone keeps Flight.
LEMMA FlightKept ==
    ASSUME NEW s \in Streams, Flight(s),
           NoMore(Activations(s), Activations(s)'), NoMore(ActiveOf(s), ActiveOf(s)'),
           NoMore(Answers(s), Answers(s)'), NoMore(FencesOf(s), FencesOf(s)'),
           outstanding'[s] = outstanding[s], ready'[s] = ready[s],
           Live(s)' => Live(s) \/ ~InFlight(s), state'[s] = "none" => state[s] = "none"
    PROVE  Flight(s)'
<1>1. OneStage(s)'
  BY DEF Flight, OneStage, NoMore
<1>2. InFlight(s)' => InFlight(s)
  BY DEF InFlight, NoMore
<1> QED
  BY <1>1, <1>2 DEF Flight

LEMMA StagesUnchanged ==
    ASSUME CycleInv, NEW s \in Streams
    PROVE  /\ UNCHANGED fromPw => NoMore(Activations(s), Activations(s)')
           /\ UNCHANGED active => NoMore(ActiveOf(s), ActiveOf(s)')
           /\ UNCHANGED toPw => NoMore(Answers(s), Answers(s)')
           /\ UNCHANGED fences => NoMore(FencesOf(s), FencesOf(s)')
           /\ UNCHANGED toPw => Creates(s)' = Creates(s)
BY DEF CycleInv, Flight, OneStage, NoMore, Activations, ActiveOf, Answers, FencesOf, Creates

LEMMA SendNoActivation ==
    ASSUME CycleInv, NEW m \in FromPipewire, m.type # "ActivateBuffer", SendToPicom(m),
           NEW s \in Streams
    PROVE  Activations(s)' = Activations(s) /\ NoMore(Activations(s), Activations(s)')
<1>1. fromPw \in Seq(FromPipewire) /\ fromPw' = Append(fromPw, m)
  BY DEF CycleInv, TypeInv, TypeOK, SendToPicom
<1>2. m \notin ActivationsFor(s)
  BY DEF ActivationsFor
<1>3. Activations(s)' = Activations(s)
  BY <1>1, <1>2, Sent DEF Activations
<1> QED
  BY <1>3 DEF CycleInv, Flight, OneStage, NoMore

LEMMA SendActivation ==
    ASSUME CycleInv, NEW s \in Streams, NEW b \in IdsOf(s), SendToPicom(ActivateBuffer(b))
    PROVE  /\ \A t \in Streams : t # s => NoMore(Activations(t), Activations(t)')
           /\ Activations(s)' # {}
           /\ Activations(s) = {} => AtMostOne(Activations(s)')
<1>1. fromPw \in Seq(FromPipewire) /\ fromPw' = Append(fromPw, ActivateBuffer(b))
  BY DEF CycleInv, TypeInv, TypeOK, SendToPicom
<1>2. b \in BufIds /\ ActivateBuffer(b) \in FromPipewire
  BY MessageTypes DEF IdsOf, BufIds
<1>3. \A t \in Streams : t # s => NoMore(Activations(t), Activations(t)')
  <2> SUFFICES ASSUME NEW t \in Streams, t # s
               PROVE  NoMore(Activations(t), Activations(t)')
    OBVIOUS
  <2>1. ActivateBuffer(b) \notin ActivationsFor(t)
    BY DEF ActivationsFor, IdsOf, ActivateBuffer
  <2>2. Activations(t)' = Activations(t)
    BY <1>1, <1>2, <2>1, Sent DEF Activations
  <2> QED
    BY <2>2 DEF CycleInv, Flight, OneStage, NoMore
<1>4. ActivateBuffer(b) \in ActivationsFor(s)
  BY DEF ActivateBuffer, ActivationsFor
<1> QED
  BY <1>1, <1>2, <1>3, <1>4, Sent DEF Activations

LEMMA SetErrorStages ==
    ASSUME CycleInv, NEW t \in Streams, SetError(t), NEW s \in Streams
    PROVE  NoMore(Activations(s), Activations(s)')
<1>1. SendToPicom(WakeMeUp) /\ WakeMeUp \in FromPipewire /\ WakeMeUp.type # "ActivateBuffer"
  BY MessageTypes DEF SetError, WakeMeUp
<1> QED
  BY <1>1, SendNoActivation

\* picom receives a message: an activation was the only one of its stream.
LEMMA TakenStages ==
    ASSUME CycleInv, NEW type, Taken(type)
    PROVE  /\ \A s \in Streams : NoMore(Activations(s), Activations(s)')
           /\ type = "ActivateBuffer" =>
                \E s \in Streams : /\ Head(fromPw).id \in IdsOf(s)
                                   /\ Activations(s) # {} /\ Activations(s)' = {}
<1>1. fromPw \in Seq(FromPipewire) /\ fromPw # <<>> /\ fromPw' = Tail(fromPw)
  BY DEF CycleInv, TypeInv, TypeOK, Taken
<1>2. \A s \in Streams : NoMore(Activations(s), Activations(s)')
  <2> SUFFICES ASSUME NEW s \in Streams
               PROVE  NoMore(Activations(s), Activations(s)')
    OBVIOUS
  <2>1. AtMostOne(Activations(s))
    BY DEF CycleInv, Flight, OneStage
  <2> QED
    BY <1>1, <2>1, Got DEF Activations, NoMore
<1>3. ASSUME type = "ActivateBuffer"
      PROVE  \E s \in Streams : /\ Head(fromPw).id \in IdsOf(s)
                                /\ Activations(s) # {} /\ Activations(s)' = {}
  <2>1. Head(fromPw) \in FromPipewire /\ Head(fromPw).type = "ActivateBuffer"
    BY <1>1, <1>3 DEF Taken
  <2>2. Head(fromPw) \in [type : {"ActivateBuffer"}, id : BufIds]
    BY <2>1 DEF FromPipewire
  <2>3. PICK s \in Streams : Head(fromPw).id \in IdsOf(s)
    BY <2>2 DEF BufIds, IdsOf
  <2>4. Head(fromPw) \in ActivationsFor(s)
    BY <2>2, <2>3 DEF ActivationsFor
  <2>5. AtMostOne(Activations(s))
    BY DEF CycleInv, Flight, OneStage
  <2>6. Activations(s) # {} /\ Activations(s)' = {}
    BY <1>1, <2>4, <2>5, Got DEF Activations
  <2> QED
    BY <2>3, <2>6
<1> QED
  BY <1>2, <1>3

\* The pipewire thread receives a message: an answer was the only one of its
\* stream, and so was a CreateStream.
LEMMA ReceivedStages ==
    ASSUME CycleInv, NEW type, Received(type)
    PROVE  /\ \A s \in Streams : NoMore(Answers(s), Answers(s)')
           /\ \A s \in Streams : NoMore(Creates(s), Creates(s)')
           /\ type \in {"NewFrame", "BufferError"} =>
                /\ Head(toPw).id \in IdsOf(Owner(Head(toPw).id))
                /\ \A s \in Streams : s = Owner(Head(toPw).id) =>
                      Answers(s) # {} /\ Answers(s)' = {}
           /\ type = "CreateStream" =>
                \A s \in Streams : s = Head(toPw).stream =>
                      Creates(s) # {} /\ Creates(s)' = {}
<1>1. toPw \in Seq(ToPipewire) /\ toPw # <<>> /\ toPw' = Tail(toPw)
  BY DEF CycleInv, TypeInv, TypeOK, Received
<1>2. Head(toPw) \in ToPipewire /\ Head(toPw).type = type
  BY <1>1 DEF Received
<1>3. \A s \in Streams : AtMostOne(Answers(s)) /\ AtMostOne(Creates(s))
  BY DEF CycleInv, Flight, OneStage, CreatedOnce
<1>4. \A s \in Streams : NoMore(Answers(s), Answers(s)')
  BY <1>1, <1>3, Got DEF Answers, NoMore
<1>5. \A s \in Streams : NoMore(Creates(s), Creates(s)')
  BY <1>1, <1>3, Got DEF Creates, NoMore
<1>6. ASSUME type \in {"NewFrame", "BufferError"}
      PROVE  /\ Head(toPw).id \in IdsOf(Owner(Head(toPw).id))
             /\ \A s \in Streams : s = Owner(Head(toPw).id) =>
                   Answers(s) # {} /\ Answers(s)' = {}
  <2>1. Head(toPw) \in [type : {"NewFrame", "BufferError"}, id : BufIds]
    BY <1>2, <1>6 DEF ToPipewire
  <2>2. Head(toPw).id \in IdsOf(Owner(Head(toPw).id))
    BY <2>1 DEF BufIds, IdsOf, Owner
  <2>3. ASSUME NEW s \in Streams, s = Owner(Head(toPw).id)
        PROVE  Answers(s) # {} /\ Answers(s)' = {}
    <3>1. Head(toPw) \in AnswersFor(s)
      BY <2>1, <2>2, <2>3 DEF AnswersFor
    <3> QED
      BY <1>1, <1>3, <3>1, Got DEF Answers
  <2> QED
    BY <2>2, <2>3
<1>7. ASSUME type = "CreateStream", NEW s \in Streams, s = Head(toPw).stream
      PROVE  Creates(s) # {} /\ Creates(s)' = {}
  <2>1. Head(toPw) \in {CreateStream(s)}
    BY <1>2, <1>7 DEF ToPipewire, CreateStream
  <2> QED
    BY <1>1, <1>3, <2>1, Got DEF Creates
<1> QED
  BY <1>4, <1>5, <1>6, <1>7

-----------------------------------------------------------------------------
(* The steps.                                                              *)

\* Which streams are there, and which were never created, stays the same.
SameLife ==
    \A s \in Streams : /\ Live(s)' <=> Live(s)
                       /\ state'[s] = "none" <=> state[s] = "none"

\* Steps that touch neither a stage nor an outstanding buffer.
LEMMA QuietFlight ==
    ASSUME CycleInv, UNCHANGED <<toPw, fromPw, active, fences, outstanding, ready>>, SameLife
    PROVE  \A s \in Streams : Flight(s)'
<1> SUFFICES ASSUME NEW s \in Streams
             PROVE  Flight(s)'
  OBVIOUS
<1>1. Flight(s)
  BY DEF CycleInv
<1> QED
  BY <1>1, StagesUnchanged, FlightKept DEF SameLife

\* CreatedOnce and CurLive, in steps that neither send nor receive a message
\* to the pipewire thread.
LEMMA QuietLife ==
    ASSUME CycleInv, UNCHANGED <<toPw, reply, cur>>, SameLife
    PROVE  CreatedOnce' /\ CurLive'
<1>1. CreatedOnce'
  BY StagesUnchanged DEF CycleInv, CreatedOnce, SameLife, AtMostOne
<1>2. CurLive'
  BY DEF CycleInv, CurLive, SameLife, TypeInv, TypeOK
<1> QED
  BY <1>1, <1>2

LEMMA QuietOwn ==
    ASSUME CycleInv, UNCHANGED <<bufs, free, outstanding>>
    PROVE  OwnIds'
BY DEF CycleInv, OwnIds

LEMMA SetErrorLife ==
    ASSUME CycleInv, NEW s \in Streams, Live(s), SetError(s)
    PROVE  SameLife
BY DEF CycleInv, TypeInv, TypeOK, SetError, SameLife, Live

LEMMA CycleServer ==
    ASSUME CycleInv, TypeInv', Server
    PROVE  CycleInv'
<1> USE DEF shared, pwVars, streamVars, picomVars
<1>1. ASSUME NEW s \in Streams, NEW m \in {CreateStream(s), CloseStream(s)}, ServerSend(m),
             m = CreateStream(s) => reply[s] = "none" /\ reply' = [reply EXCEPT ![s] = "pending"],
             m = CloseStream(s) => UNCHANGED reply,
             UNCHANGED <<fromPw, active, fences, outstanding, ready, state, bufs, free, cur, fault>>
      PROVE  CycleInv'
  <2>1. toPw \in Seq(ToPipewire) /\ m \in ToPipewire /\ toPw' = Append(toPw, m)
    BY <1>1, MessageTypes DEF CycleInv, TypeInv, TypeOK, ServerSend
  <2>2. \A t \in Streams : NoMore(Answers(t), Answers(t)')
    <3> SUFFICES ASSUME NEW t \in Streams
                 PROVE  NoMore(Answers(t), Answers(t)')
      OBVIOUS
    <3>1. m \notin AnswersFor(t)
      BY <1>1 DEF CreateStream, CloseStream, AnswersFor
    <3>2. Answers(t)' = Answers(t)
      BY <2>1, <3>1, Sent DEF Answers
    <3> QED
      BY <3>2 DEF CycleInv, Flight, OneStage, NoMore
  <2>3. \A t \in Streams : Flight(t)'
    <3> SUFFICES ASSUME NEW t \in Streams
                 PROVE  Flight(t)'
      OBVIOUS
    <3>1. Flight(t)
      BY DEF CycleInv
    <3> QED
      BY <1>1, <2>2, <3>1, StagesUnchanged, FlightKept DEF Live
  <2>4. CreatedOnce'
    <3> SUFFICES ASSUME NEW t \in Streams
                 PROVE  /\ AtMostOne(Creates(t)')
                        /\ Creates(t)' # {} => state'[t] = "none"
                        /\ reply'[t] = "none" => Creates(t)' = {} /\ state'[t] = "none"
      BY DEF CreatedOnce
    <3>1. /\ AtMostOne(Creates(t))
          /\ Creates(t) # {} => state[t] = "none"
          /\ reply[t] = "none" => Creates(t) = {} /\ state[t] = "none"
      BY DEF CycleInv, CreatedOnce
    <3>2. CASE m \notin {CreateStream(t)}
      <4>1. Creates(t)' = Creates(t)
        BY <2>1, <3>2, Sent DEF Creates
      <4>2. reply'[t] = "none" => reply[t] = "none"
        BY <1>1 DEF CycleInv, TypeInv, TypeOK
      <4> QED
        BY <1>1, <3>1, <4>1, <4>2
    <3>3. CASE m \in {CreateStream(t)}
      <4>1. s = t /\ m = CreateStream(s)
        BY <1>1, <3>3 DEF CreateStream, CloseStream
      <4>2. Creates(t) = {} /\ state[t] = "none"
        BY <1>1, <3>1, <4>1
      <4>3. AtMostOne(Creates(t)')
        BY <2>1, <3>3, <4>2, Sent DEF Creates
      <4>4. reply'[t] = "pending"
        BY <1>1, <4>1 DEF CycleInv, TypeInv, TypeOK
      <4>5. state'[t] = "none"
        BY <1>1, <4>2
      <4> QED
        BY <4>3, <4>4, <4>5
    <3> QED
      BY <3>2, <3>3
  <2> QED
    BY <1>1, <2>3, <2>4 DEF CycleInv, OwnIds, CurLive, Live, TypeInv
<1>2. ASSUME NEW s \in Streams, RequestStream(s)
      PROVE  CycleInv'
  BY <1>1, <1>2 DEF RequestStream, CreateStream, CloseStream
<1>3. ASSUME NEW s \in Streams, RequestClose(s)
      PROVE  CycleInv'
  BY <1>1, <1>3 DEF RequestClose, CreateStream, CloseStream
<1> QED
  BY <1>2, <1>3 DEF Server

LEMMA CycleWaker ==
    ASSUME CycleInv, TypeInv', WakeUp \/ WakerCallback
    PROVE  CycleInv'
<1> USE DEF shared, pwVars, streamVars, picomVars
<1>1. CASE WakeUp \/ DrainEmpty \/ ReapDone
  <2>1. /\ UNCHANGED <<toPw, fromPw, active, fences, outstanding, ready, bufs, free, reply, cur>>
        /\ UNCHANGED <<fault, state>>
    BY <1>1 DEF WakeUp, DrainEmpty, ReapDone
  <2>2. SameLife
    BY <2>1 DEF SameLife, Live
  <2> QED
    BY <2>1, <2>2, QuietFlight, QuietLife, QuietOwn DEF CycleInv
<1>2. CASE HandleCreateStream
  <2>1. PICK s \in Streams : s = Head(toPw).stream
    BY <1>2, ReceivedType DEF HandleCreateStream, CycleInv
  <2>2. /\ \A t \in Streams : NoMore(Answers(t), Answers(t)') /\ NoMore(Creates(t), Creates(t)')
        /\ Creates(s) # {} /\ Creates(s)' = {}
    BY <1>2, <2>1, ReceivedStages DEF HandleCreateStream
  <2>3. state[s] = "none" /\ state' = [state EXCEPT ![s] = "connecting"]
    BY <1>2, <2>1, <2>2 DEF HandleCreateStream, CycleInv, CreatedOnce
  <2>4. ~InFlight(s)
    BY <2>3 DEF CycleInv, Flight
  <2>5. \A t \in Streams : Flight(t)'
    <3> SUFFICES ASSUME NEW t \in Streams
                 PROVE  Flight(t)'
      OBVIOUS
    <3>1. Flight(t)
      BY DEF CycleInv
    <3>2. Live(t)' => Live(t) \/ ~InFlight(t)
      BY <2>3, <2>4 DEF Live, CycleInv, TypeInv, TypeOK
    <3>3. state'[t] = "none" => state[t] = "none"
      BY <2>3 DEF CycleInv, TypeInv, TypeOK
    <3> QED
      BY <1>2, <2>2, <3>1, <3>2, <3>3, StagesUnchanged, FlightKept DEF HandleCreateStream
  <2>6. CreatedOnce'
    <3> SUFFICES ASSUME NEW t \in Streams
                 PROVE  /\ AtMostOne(Creates(t)')
                        /\ Creates(t)' # {} => state'[t] = "none"
                        /\ reply'[t] = "none" => Creates(t)' = {} /\ state'[t] = "none"
      BY DEF CreatedOnce
    <3>1. /\ AtMostOne(Creates(t)')
          /\ Creates(t)' # {} => Creates(t) # {}
          /\ Creates(t) # {} => state[t] = "none"
          /\ reply[t] = "none" => Creates(t) = {} /\ state[t] = "none"
      BY <2>2 DEF NoMore, CycleInv, CreatedOnce
    <3>2. reply' = reply /\ (t # s => state'[t] = state[t])
      BY <1>2, <2>3 DEF HandleCreateStream, CycleInv, TypeInv, TypeOK
    <3> QED
      BY <2>2, <3>1, <3>2
  <2>7. CurLive'
    BY <1>2, <2>3 DEF HandleCreateStream, CycleInv, CurLive, Live, TypeInv, TypeOK
  <2> QED
    BY <1>2, <2>5, <2>6, <2>7, QuietOwn DEF HandleCreateStream, CycleInv
<1>3. CASE HandleCreateStreamFails
  <2>1. PICK s \in Streams : s = Head(toPw).stream
    BY <1>3, ReceivedType DEF HandleCreateStreamFails, CycleInv
  <2>2. \A t \in Streams : NoMore(Answers(t), Answers(t)') /\ NoMore(Creates(t), Creates(t)')
    BY <1>3, ReceivedStages DEF HandleCreateStreamFails
  <2>3. reply' = [reply EXCEPT ![s] = "dropped"]
    BY <1>3, <2>1 DEF HandleCreateStreamFails
  <2>4. \A t \in Streams : Flight(t)'
    <3> SUFFICES ASSUME NEW t \in Streams
                 PROVE  Flight(t)'
      OBVIOUS
    <3>1. Flight(t)
      BY DEF CycleInv
    <3> QED
      BY <1>3, <2>2, <3>1, StagesUnchanged, FlightKept DEF HandleCreateStreamFails, Live
  <2>5. CreatedOnce'
    BY <1>3, <2>2, <2>3
    DEF HandleCreateStreamFails, CycleInv, CreatedOnce, NoMore, TypeInv, TypeOK
  <2>6. CurLive'
    BY <1>3 DEF HandleCreateStreamFails, CycleInv, CurLive, Live
  <2> QED
    BY <1>3, <2>4, <2>5, <2>6, QuietOwn DEF HandleCreateStreamFails, CycleInv
<1>4. CASE HandleNewFrame
  <2>1. PICK b \in BufIds : b = Head(toPw).id /\ Owner(b) \in Streams /\ b \in IdsOf(Owner(b))
    BY <1>4, ReceivedType, ReceivedStages DEF HandleNewFrame, CycleInv
  <2>2. /\ \A t \in Streams : NoMore(Answers(t), Answers(t)') /\ NoMore(Creates(t), Creates(t)')
        /\ Answers(Owner(b)) # {} /\ Answers(Owner(b))' = {}
    BY <1>4, <2>1, ReceivedStages DEF HandleNewFrame
  <2>3. /\ fences' = fences \/ fences' = fences \cup {b}
        /\ fault' = IF Live(Owner(b)) /\ b \in fences THEN "fence_twice" ELSE fault
    BY <1>4, <2>1 DEF HandleNewFrame
  <2>4. FencesOf(Owner(b)) = {} /\ ActiveOf(Owner(b)) = {} /\ Activations(Owner(b)) = {}
    BY <2>1, <2>2 DEF CycleInv, Flight, OneStage
  <2>5. b \notin fences
    BY <2>1, <2>4 DEF FencesOf
  <2>6. \A t \in Streams : Flight(t)'
    <3> SUFFICES ASSUME NEW t \in Streams
                 PROVE  Flight(t)'
      OBVIOUS
    <3>1. Flight(t)
      BY DEF CycleInv
    <3>2. CASE t # Owner(b)
      <4>1. FencesOf(t)' = FencesOf(t)
        BY <2>1, <2>3, <3>2 DEF FencesOf, IdsOf
      <4>2. NoMore(FencesOf(t), FencesOf(t)')
        BY <3>1, <4>1 DEF NoMore, Flight, OneStage
      <4> QED
        BY <1>4, <2>2, <3>1, <4>2, StagesUnchanged, FlightKept DEF HandleNewFrame, Live
    <3>3. CASE t = Owner(b)
      <4>1. AtMostOne(FencesOf(t)')
        BY <2>3, <2>4, <3>3 DEF FencesOf, AtMostOne
      <4>2. Activations(t)' = {} /\ ActiveOf(t)' = {} /\ Answers(t)' = {}
        BY <1>4, <2>2, <2>4, <3>3 DEF HandleNewFrame, Activations, ActiveOf
      <4>3. InFlight(t)
        BY <2>2, <3>3 DEF InFlight
      <4> QED
        BY <1>4, <3>1, <4>1, <4>2, <4>3
        DEF HandleNewFrame, Flight, OneStage, AtMostOne, Live
    <3> QED
      BY <3>2, <3>3
  <2>7. CreatedOnce'
    BY <1>4, <2>2 DEF HandleNewFrame, CycleInv, CreatedOnce, NoMore
  <2>8. CurLive'
    BY <1>4 DEF HandleNewFrame, CycleInv, CurLive, Live
  <2> QED
    BY <1>4, <2>3, <2>5, <2>6, <2>7, <2>8, QuietOwn DEF HandleNewFrame, CycleInv
<1>5. CASE HandleBufferError \/ HandleCloseStreams
  <2>1. /\ \A t \in Streams : NoMore(Answers(t), Answers(t)') /\ NoMore(Creates(t), Creates(t)')
        /\ UNCHANGED <<active, fences, outstanding, ready, bufs, free, reply, cur>>
    BY <1>5, ReceivedStages DEF HandleBufferError, HandleCloseStreams
  <2>2. \/ UNCHANGED <<state, fromPw>> /\ fault' \in {fault, "stream_index"}
        \/ \E s \in Streams : Live(s) /\ SetError(s) /\ UNCHANGED fault
    BY <1>5, ReceivedType DEF HandleBufferError, HandleCloseStreams, CycleInv
  <2>3. /\ SameLife /\ fault' \in {fault, "stream_index"}
        /\ \A t \in Streams : NoMore(Activations(t), Activations(t)')
    BY <2>2, SetErrorLife, SetErrorStages, StagesUnchanged DEF SameLife, Live
  <2>4. \A t \in Streams : Flight(t)'
    <3> SUFFICES ASSUME NEW t \in Streams
                 PROVE  Flight(t)'
      OBVIOUS
    <3>1. Flight(t)
      BY DEF CycleInv
    <3> QED
      BY <2>1, <2>3, <3>1, StagesUnchanged, FlightKept DEF SameLife
  <2>5. CreatedOnce'
    BY <2>1, <2>3 DEF CycleInv, CreatedOnce, NoMore, SameLife
  <2>6. CurLive'
    BY <2>1, <2>3 DEF CycleInv, CurLive, SameLife, TypeInv, TypeOK
  <2> QED
    BY <2>1, <2>3, <2>4, <2>5, <2>6, QuietOwn DEF CycleInv, CycleFaults
<1>6. ASSUME NEW s \in Streams, ReapStream(s)
      PROVE  CycleInv'
  <2>1. /\ UNCHANGED <<toPw, fromPw, active, fences, outstanding, ready, bufs, free, reply, state>>
        /\ cur' \in {cur, s} /\ fault' \in {fault, "node_map"} /\ Live(s)
    BY <1>6 DEF ReapStream, Errored, Live
  <2>2. SameLife
    BY <2>1 DEF SameLife, Live
  <2>3. CreatedOnce'
    BY <2>1, StagesUnchanged DEF CycleInv, CreatedOnce
  <2>4. CurLive'
    BY <2>1 DEF CycleInv, CurLive, Live
  <2> QED
    BY <2>1, <2>2, <2>3, <2>4, QuietFlight, QuietOwn DEF CycleInv, CycleFaults
<1>7. CASE StreamDropped
  <2>1. cur \in Streams /\ Live(cur) /\ cur' = None
    BY <1>7, NoneAssumption DEF StreamDropped, CycleInv, TypeInv, TypeOK, CurLive
  <2>2. \A t \in Streams : Flight(t)'
    <3> SUFFICES ASSUME NEW t \in Streams
                 PROVE  Flight(t)'
      OBVIOUS
    <3>1. Flight(t)
      BY DEF CycleInv
    <3>2. CASE t # cur
      <4>1. state'[t] = state[t] /\ outstanding'[t] = outstanding[t] /\ ready'[t] = ready[t]
        BY <1>7, <2>1, <3>2 DEF StreamDropped, CycleInv, TypeInv, TypeOK
      <4> QED
        BY <1>7, <3>1, <4>1, StagesUnchanged, FlightKept DEF StreamDropped, Live
    <3>3. CASE t = cur
      <4>1. state'[t] = "gone" /\ ~ready'[t]
        BY <1>7, <2>1, <3>3 DEF StreamDropped, CycleInv, TypeInv, TypeOK
      <4>2. OneStage(t)'
        BY <1>7, <3>1
        DEF StreamDropped, Flight, OneStage, Activations, ActiveOf, Answers, FencesOf
      <4> QED
        BY <4>1, <4>2 DEF Flight, Live
    <3> QED
      BY <3>2, <3>3
  <2>3. CreatedOnce'
    <3>1. \A t \in Streams : state'[t] = "none" <=> state[t] = "none"
      BY <1>7, <2>1 DEF StreamDropped, CycleInv, TypeInv, TypeOK, Live
    <3> QED
      BY <1>7, <3>1, StagesUnchanged DEF StreamDropped, CycleInv, CreatedOnce
  <2>4. OwnIds'
    BY <1>7, <2>1 DEF StreamDropped, CycleInv, OwnIds, TypeInv, TypeOK
  <2> QED
    BY <1>7, <2>1, <2>2, <2>3, <2>4 DEF StreamDropped, CycleInv, CurLive
<1> QED
  BY <1>1, <1>2, <1>3, <1>4, <1>5, <1>6, <1>7 DEF WakerCallback

LEMMA CycleRemoval ==
    ASSUME CycleInv, TypeInv', Removal \/ BuffersCleared
    PROVE  CycleInv'
<1> USE DEF shared, pwVars, streamVars, picomVars
<1>1. CASE RemoveBlankBuffer \/ BuffersCleared
  <2>1. /\ UNCHANGED <<toPw, fromPw, active, fences, outstanding, ready, bufs, free, reply, state>>
        /\ fault' \in {fault, "user_data"} /\ cur' \in {cur, None}
    BY <1>1 DEF RemoveBlankBuffer, BuffersCleared
  <2>2. SameLife
    BY <2>1 DEF SameLife, Live
  <2>3. CreatedOnce' /\ CurLive'
    BY <2>1, StagesUnchanged DEF CycleInv, CreatedOnce, CurLive, Live
  <2> QED
    BY <2>1, <2>2, <2>3, QuietFlight, QuietOwn DEF CycleInv, CycleFaults
<1>2. ASSUME NEW b \in BufIds, RemoveBuffer(b)
      PROVE  CycleInv'
  <2>1. /\ SendToPicom(RemoveBuffers(b))
        /\ UNCHANGED <<toPw, active, fences, outstanding, ready, reply, state, cur, fault>>
        /\ bufs' = [bufs EXCEPT ![cur] = @ \ {b}] /\ free' = [free EXCEPT ![cur] = @ \ {b}]
    BY <1>2 DEF RemoveBuffer, TellRemoved
  <2>2. RemoveBuffers(b) \in FromPipewire /\ RemoveBuffers(b).type # "ActivateBuffer"
    BY MessageTypes DEF RemoveBuffers
  <2>3. SameLife
    BY <2>1 DEF SameLife, Live
  <2>4. \A t \in Streams : Flight(t)'
    <3> SUFFICES ASSUME NEW t \in Streams
                 PROVE  Flight(t)'
      OBVIOUS
    <3>1. Flight(t) /\ NoMore(Activations(t), Activations(t)')
      BY <2>1, <2>2, SendNoActivation DEF CycleInv
    <3> QED
      BY <2>1, <2>3, <3>1, StagesUnchanged, FlightKept DEF SameLife
  <2>5. OwnIds'
    BY <2>1 DEF CycleInv, OwnIds, TypeInv, TypeOK
  <2> QED
    BY <2>1, <2>3, <2>4, <2>5, QuietLife DEF CycleInv
<1> QED
  BY <1>1, <1>2 DEF Removal

\* send_buffer for a stream that has no frame in any stage: the cycle starts
\* afresh, or stands still.
LEMMA SendBufferFlight ==
    ASSUME CycleInv, NEW s \in Streams, NEW out \in {None, outstanding[s]},
           SendBuffer(s, TRUE, out, free[s]),
           UNCHANGED <<toPw, active>>, Activations(s) = {}, ActiveOf(s) = {},
           Answers(s) = {}, FencesOf(s)' = {}, ~ready'[s], state'[s] # "none"
    PROVE  /\ Flight(s)'
           /\ \A t \in Streams : t # s =>
                outstanding'[t] = outstanding[t] /\ NoMore(Activations(t), Activations(t)')
           /\ \A t \in Streams : /\ free'[t] \subseteq IdsOf(t)
                                 /\ outstanding'[t] \in IdsOf(t) \cup {None}
<1>1. ActiveOf(s)' = {} /\ Answers(s)' = {}
  BY DEF ActiveOf, Answers
<1>2. ASSUME NEW b \in free[s], outstanding' = [outstanding EXCEPT ![s] = b],
             free' = [free EXCEPT ![s] = free[s] \ {b}], SendToPicom(ActivateBuffer(b))
      PROVE  /\ Flight(s)'
             /\ \A t \in Streams : t # s =>
                  outstanding'[t] = outstanding[t] /\ NoMore(Activations(t), Activations(t)')
             /\ \A t \in Streams : /\ free'[t] \subseteq IdsOf(t)
                                   /\ outstanding'[t] \in IdsOf(t) \cup {None}
  <2>1. b \in IdsOf(s)
    BY DEF CycleInv, OwnIds
  <2>2. b # None
    BY <2>1, NoneAssumption DEF IdsOf, BufIds
  <2>3. /\ AtMostOne(Activations(s)')
        /\ \A t \in Streams : t # s => NoMore(Activations(t), Activations(t)')
    BY <1>2, <2>1, SendActivation
  <2>4. outstanding'[s] = b /\ \A t \in Streams : t # s => outstanding'[t] = outstanding[t]
    BY <1>2 DEF CycleInv, TypeInv, TypeOK
  <2>5. Flight(s)'
    BY <1>1, <2>2, <2>3, <2>4 DEF Flight, OneStage, AtMostOne
  <2>6. \A t \in Streams : free'[t] \subseteq IdsOf(t)
    BY <1>2 DEF CycleInv, OwnIds, TypeInv, TypeOK
  <2> QED
    BY <2>1, <2>3, <2>4, <2>5, <2>6 DEF CycleInv, OwnIds
<1>3. CASE /\ outstanding' = [outstanding EXCEPT ![s] = out]
           /\ free' = [free EXCEPT ![s] = free[s]] /\ UNCHANGED fromPw
  <2>1. Activations(s)' = {} /\ \A t \in Streams : NoMore(Activations(t), Activations(t)')
    BY <1>3, StagesUnchanged DEF Activations
  <2>2. \A t \in Streams : t # s => outstanding'[t] = outstanding[t]
    BY <1>3 DEF CycleInv, TypeInv, TypeOK
  <2>3. Flight(s)'
    BY <1>1, <2>1 DEF Flight, OneStage, InFlight, AtMostOne
  <2>4. \A t \in Streams : /\ free'[t] \subseteq IdsOf(t)
                           /\ outstanding'[t] \in IdsOf(t) \cup {None}
    BY <1>3 DEF CycleInv, OwnIds, TypeInv, TypeOK
  <2> QED
    BY <2>1, <2>2, <2>3, <2>4
<1> QED
  BY <1>2, <1>3 DEF SendBuffer

LEMMA CycleAddBuffer ==
    ASSUME CycleInv, TypeInv',
           AddBufferReplied \/ AddBufferRefused
             \/ \E s \in Streams : HandleAddBuffer(s) \/ HandleAddBufferFails(s)
    PROVE  CycleInv'
<1> USE DEF shared, pwVars, streamVars, picomVars
<1>1. /\ UNCHANGED <<toPw, active, fences, outstanding, ready, reply>>
      /\ fault' \in {fault, "add_failed"}
  BY DEF AddBufferReplied, AddBufferRefused, HandleAddBuffer, HandleAddBufferFails
<1>2. /\ SameLife /\ CurLive'
      /\ \A t \in Streams : NoMore(Activations(t), Activations(t)')
  <2>1. CASE AddBufferReplied
    <3>1. cur \in Streams /\ Live(cur) /\ cur' = None
      BY <2>1, NoneAssumption DEF AddBufferReplied, CycleInv, CurLive, TypeInv, TypeOK
    <3> QED
      BY <2>1, <3>1, SetErrorLife, SetErrorStages, StagesUnchanged
      DEF AddBufferReplied, SameLife, Live, CurLive
  <2>2. CASE AddBufferRefused
    BY <2>2, StagesUnchanged DEF AddBufferRefused, SameLife, Live, CurLive, CycleInv
  <2>3. ASSUME NEW s \in Streams, HandleAddBuffer(s)
        PROVE  /\ SameLife /\ CurLive'
               /\ \A t \in Streams : NoMore(Activations(t), Activations(t)')
    <3>1. AddBuffer(s) \in FromPipewire /\ AddBuffer(s).type # "ActivateBuffer"
      BY MessageTypes DEF AddBuffer
    <3>2. \A t \in Streams : NoMore(Activations(t), Activations(t)')
      BY <2>3, <3>1, SendNoActivation DEF HandleAddBuffer
    <3> QED
      BY <2>3, <3>2 DEF HandleAddBuffer, SameLife, Live, CurLive
  <2>4. ASSUME NEW s \in Streams, HandleAddBufferFails(s)
        PROVE  /\ SameLife /\ CurLive'
               /\ \A t \in Streams : NoMore(Activations(t), Activations(t)')
    <3>1. Live(s) /\ SetError(s) /\ cur' = cur
      BY <2>4 DEF HandleAddBufferFails, Live
    <3>2. SameLife
      BY <3>1, SetErrorLife
    <3> QED
      BY <3>1, <3>2, SetErrorStages DEF CycleInv, CurLive, SameLife, TypeInv, TypeOK
  <2> QED
    BY <2>1, <2>2, <2>3, <2>4
<1>3. \A t \in Streams : Flight(t)'
  <2> SUFFICES ASSUME NEW t \in Streams
               PROVE  Flight(t)'
    OBVIOUS
  <2>1. Flight(t)
    BY DEF CycleInv
  <2> QED
    BY <1>1, <1>2, <2>1, StagesUnchanged, FlightKept DEF SameLife
<1>4. OwnIds'
  <2>1. CASE UNCHANGED <<bufs, free>>
    BY <1>1, <2>1 DEF CycleInv, OwnIds
  <2>2. CASE AddBufferReplied
    <3>1. cur \in Streams /\ <<cur, made[cur]>> \in IdsOf(cur)
      BY <2>2, MaxBuffersAssumption, NoneAssumption
      DEF AddBufferReplied, CycleInv, TypeInv, TypeOK, AddAnswered, IdsOf
    <3> QED
      BY <1>1, <2>2, <3>1 DEF AddBufferReplied, CycleInv, OwnIds, TypeInv, TypeOK
  <2> QED
    BY <2>1, <2>2 DEF AddBufferRefused, HandleAddBuffer, HandleAddBufferFails
<1>5. CreatedOnce'
  BY <1>1, <1>2, StagesUnchanged DEF CycleInv, CreatedOnce, SameLife, AtMostOne
<1> QED
  BY <1>1, <1>2, <1>3, <1>4, <1>5 DEF CycleInv, CycleFaults

LEMMA CycleStreamState ==
    ASSUME CycleInv, TypeInv', NEW s \in Streams,
           \/ StatePaused(s) \/ StateStreaming(s) \/ StateError(s)
           \/ FormatProposed(s) \/ FormatCleared(s) \/ ClearBuffers(s)
    PROVE  CycleInv'
<1> USE DEF shared, pwVars, streamVars, picomVars
<1>1. CASE StatePaused(s) \/ StateError(s)
  <2>1. /\ UNCHANGED <<toPw, fromPw, active, fences, outstanding, ready, bufs, free, cur, fault>>
        /\ Live(s) /\ state' \in {[state EXCEPT ![s] = x] : x \in {"paused", "error"}}
        /\ \/ UNCHANGED reply
           \/ reply[s] = "pending" /\ reply' = [reply EXCEPT ![s] = "sent"]
    BY <1>1 DEF StatePaused, StateError, Live
  <2>2. SameLife
    BY <2>1 DEF SameLife, Live, CycleInv, TypeInv, TypeOK
  <2>3. \A t \in Streams : reply'[t] = "none" => reply[t] = "none"
    BY <2>1 DEF CycleInv, TypeInv, TypeOK
  <2>4. CreatedOnce'
    BY <2>1, <2>2, <2>3, StagesUnchanged DEF CycleInv, CreatedOnce, SameLife, AtMostOne
  <2>5. CurLive'
    BY <2>1, <2>2 DEF CycleInv, CurLive, SameLife, TypeInv, TypeOK
  <2> QED
    BY <2>1, <2>2, <2>4, <2>5, QuietFlight, QuietOwn DEF CycleInv
<1>2. CASE FormatProposed(s)
  <2>1. /\ UNCHANGED <<toPw, active, fences, outstanding, ready, bufs, free, cur, fault, reply>>
        /\ (UNCHANGED <<state, fromPw>> \/ SetError(s)) /\ Live(s)
    BY <1>2 DEF FormatProposed, Live
  <2>2. SameLife /\ \A t \in Streams : NoMore(Activations(t), Activations(t)')
    BY <2>1, SetErrorLife, SetErrorStages, StagesUnchanged DEF SameLife, Live
  <2>3. \A t \in Streams : Flight(t)'
    <3> SUFFICES ASSUME NEW t \in Streams
                 PROVE  Flight(t)'
      OBVIOUS
    <3>1. Flight(t)
      BY DEF CycleInv
    <3> QED
      BY <2>1, <2>2, <3>1, StagesUnchanged, FlightKept DEF SameLife
  <2> QED
    BY <2>1, <2>2, <2>3, QuietLife, QuietOwn DEF CycleInv
<1>3. CASE FormatCleared(s) \/ ClearBuffers(s)
  <2>1. /\ UNCHANGED <<toPw, fromPw, active, fences, outstanding, ready, bufs, free, fault>>
        /\ UNCHANGED <<reply, state>> /\ cur' \in {cur, s} /\ Live(s)
    BY <1>3 DEF FormatCleared, ClearBuffers, Live
  <2>2. SameLife
    BY <2>1 DEF SameLife, Live
  <2>3. CreatedOnce' /\ CurLive'
    BY <2>1, StagesUnchanged DEF CycleInv, CreatedOnce, CurLive, Live
  <2> QED
    BY <2>1, <2>2, <2>3, QuietFlight, QuietOwn DEF CycleInv
<1>4. CASE StateStreaming(s)
  <2>1. /\ UNCHANGED <<toPw, active, fences, bufs, cur, reply>>
        /\ Live(s) /\ state'[s] = "streaming"
        /\ \A t \in Streams : t # s => state'[t] = state[t]
    BY <1>4 DEF StateStreaming, Live, CycleInv, TypeInv, TypeOK
  <2>2. SameLife
    BY <2>1 DEF SameLife, Live
  <2>3. Flight(s)
    BY DEF CycleInv
  <2>4. /\ \A t \in Streams : Flight(t)'
        /\ fault' = fault
        /\ \A t \in Streams : /\ free'[t] \subseteq IdsOf(t)
                              /\ outstanding'[t] \in IdsOf(t) \cup {None}
    <3>1. CASE ready[s]
      <4>1. outstanding[s] # None /\ ~InFlight(s)
        BY <2>1, <2>3, <3>1 DEF Flight
      <4>2. PICK b \in Deref(s) : SendToPicom(ActivateBuffer(b))
        BY <1>4, <3>1, <4>1 DEF StateStreaming, Resume
      <4>3. /\ fault' = fault /\ UNCHANGED <<outstanding, free>>
            /\ ready' = [ready EXCEPT ![s] = FALSE]
        BY <1>4, <3>1, <4>1 DEF StateStreaming, Resume
      <4>4. b \in IdsOf(s)
        BY <4>1, <4>2 DEF Deref, CycleInv, OwnIds
      <4>5. /\ AtMostOne(Activations(s)')
            /\ \A t \in Streams : t # s => NoMore(Activations(t), Activations(t)')
        BY <4>1, <4>2, <4>4, SendActivation DEF InFlight
      <4>6. Flight(s)'
        BY <2>1, <4>1, <4>3, <4>5
        DEF Flight, OneStage, InFlight, AtMostOne, ActiveOf, Answers, FencesOf, CycleInv,
            TypeInv, TypeOK
      <4>7. ASSUME NEW t \in Streams, t # s
            PROVE  Flight(t)'
        <5>1. Flight(t) /\ ready'[t] = ready[t]
          BY <4>3, <4>7 DEF CycleInv, TypeInv, TypeOK
        <5> QED
          BY <2>1, <4>3, <4>5, <4>7, <5>1, StagesUnchanged, FlightKept DEF Live
      <4> QED
        BY <4>3, <4>6, <4>7 DEF CycleInv, OwnIds
    <3>2. CASE ~ready[s]
      <4>1. SendBuffer(s, TRUE, outstanding[s], free[s]) /\ UNCHANGED <<ready, fault>>
        BY <1>4, <3>2 DEF StateStreaming, Resume
      <4>2. CASE outstanding[s] # None
        <5>1. UNCHANGED fromPw
          BY <4>1, <4>2 DEF SendBuffer
        <5>2. outstanding' = outstanding /\ free' = free
          BY <4>1, <4>2 DEF SendBuffer, CycleInv, TypeInv, TypeOK
        <5> QED
          BY <2>1, <2>2, <4>1, <5>1, <5>2, QuietFlight DEF CycleInv, OwnIds
      <4>3. CASE outstanding[s] = None
        <5>1. ~InFlight(s)
          BY <2>1, <2>3, <4>3 DEF Flight
        <5>2. /\ Activations(s) = {} /\ ActiveOf(s) = {} /\ Answers(s) = {}
              /\ FencesOf(s)' = {} /\ ~ready'[s] /\ state'[s] # "none"
          BY <2>1, <3>2, <4>1, <5>1 DEF InFlight, FencesOf
        <5>3. /\ Flight(s)'
              /\ \A t \in Streams : t # s =>
                   outstanding'[t] = outstanding[t] /\ NoMore(Activations(t), Activations(t)')
              /\ \A t \in Streams : /\ free'[t] \subseteq IdsOf(t)
                                    /\ outstanding'[t] \in IdsOf(t) \cup {None}
          BY <2>1, <4>1, <5>2, SendBufferFlight
        <5>4. ASSUME NEW t \in Streams, t # s
              PROVE  Flight(t)'
          <6>1. Flight(t)
            BY DEF CycleInv
          <6> QED
            BY <2>1, <4>1, <5>3, <5>4, <6>1, StagesUnchanged, FlightKept DEF Live
        <5> QED
          BY <4>1, <5>3, <5>4
      <4> QED
        BY <4>2, <4>3
    <3> QED
      BY <3>1, <3>2
  <2>5. OwnIds'
    BY <2>1, <2>4 DEF OwnIds, CycleInv
  <2> QED
    BY <2>1, <2>2, <2>4, <2>5, QuietLife DEF CycleInv
<1> QED
  BY <1>1, <1>2, <1>3, <1>4

LEMMA CycleFences ==
    ASSUME CycleInv, TypeInv', NEW b \in BufIds, FenceFired(b) \/ Recycle(b)
    PROVE  CycleInv'
<1> USE DEF shared, pwVars, streamVars, picomVars
<1> DEFINE s == Owner(b)
<1>1. s \in Streams /\ b \in IdsOf(s)
  BY DEF BufIds, Owner, IdsOf
<1> HIDE DEF s
<1>2. CASE FenceFired(b)
  <2>1. /\ UNCHANGED <<toPw, active, bufs, cur, reply, fault>>
        /\ fences' = fences \ {b} /\ b \in fences
    BY <1>2 DEF FenceFired
  <2>2. Flight(s) /\ b \in FencesOf(s)
    BY <1>1, <2>1 DEF CycleInv, FencesOf
  <2>3. /\ Activations(s) = {} /\ ActiveOf(s) = {} /\ Answers(s) = {} /\ InFlight(s)
    BY <2>2 DEF Flight, OneStage, InFlight
  <2>4. FencesOf(s)' = {}
    BY <2>1, <2>2 DEF FencesOf, Flight, OneStage, AtMostOne
  <2>5. \A t \in Streams : t # s => NoMore(FencesOf(t), FencesOf(t)')
    <3> SUFFICES ASSUME NEW t \in Streams, t # s
                 PROVE  NoMore(FencesOf(t), FencesOf(t)')
      OBVIOUS
    <3>1. FencesOf(t)' = FencesOf(t)
      BY <1>1, <2>1 DEF FencesOf, IdsOf
    <3> QED
      BY <3>1 DEF CycleInv, Flight, OneStage, NoMore
  <2>6. state[s] # "none"
    BY <2>2, <2>3 DEF Flight
  <2>7. ASSUME NEW t \in Streams, t # s, outstanding'[t] = outstanding[t], ready'[t] = ready[t],
               NoMore(Activations(t), Activations(t)'), state'[t] = state[t]
        PROVE  Flight(t)'
    <3>1. Flight(t)
      BY DEF CycleInv
    <3> QED
      BY <2>1, <2>5, <2>7, <3>1, StagesUnchanged, FlightKept DEF Live
  <2>8. CASE state[s] = "streaming" /\ Process(s) /\ UNCHANGED state
    <3>1. SameLife
      BY <2>8 DEF SameLife, Live
    <3>2. SendBuffer(s, TRUE, None, free[s]) /\ ready' = [ready EXCEPT ![s] = FALSE]
      BY <2>8 DEF Process
    <3>3. ~ready'[s] /\ \A t \in Streams : t # s => ready'[t] = ready[t]
      BY <1>1, <3>2 DEF CycleInv, TypeInv, TypeOK
    <3>4. UNCHANGED <<toPw, active>> /\ state'[s] # "none"
      BY <2>1, <2>8
    <3>5. /\ Flight(s)'
          /\ \A t \in Streams : t # s =>
               outstanding'[t] = outstanding[t] /\ NoMore(Activations(t), Activations(t)')
          /\ \A t \in Streams : /\ free'[t] \subseteq IdsOf(t)
                                /\ outstanding'[t] \in IdsOf(t) \cup {None}
      BY <1>1, <2>3, <2>4, <3>2, <3>3, <3>4, SendBufferFlight
    <3>6. \A t \in Streams : Flight(t)'
      BY <2>7, <2>8, <3>3, <3>5
    <3>7. OwnIds'
      BY <2>1, <3>5 DEF CycleInv, OwnIds
    <3> QED
      BY <2>1, <3>1, <3>6, <3>7, QuietLife DEF CycleInv
  <2>9. CASE state[s] = "streaming" /\ ready' = [ready EXCEPT ![s] = TRUE] /\ SetError(s)
             /\ UNCHANGED <<outstanding, free>>
    <3>1. Live(s)
      BY <2>9 DEF Live
    <3>2. SameLife /\ \A t \in Streams : NoMore(Activations(t), Activations(t)')
      BY <1>1, <2>9, <3>1, SetErrorLife, SetErrorStages
    <3>3. SendToPicom(WakeMeUp) /\ WakeMeUp \in FromPipewire /\ WakeMeUp.type # "ActivateBuffer"
      BY <2>9, MessageTypes DEF SetError, WakeMeUp
    <3>4. Activations(s)' = {} /\ ActiveOf(s)' = {} /\ Answers(s)' = {}
      BY <1>1, <2>1, <2>3, <3>3, SendNoActivation DEF ActiveOf, Answers
    <3>5. outstanding[s] # None
      BY <2>2, <2>3, <3>1 DEF Flight
    <3>6. Flight(s)'
      BY <2>4, <2>6, <2>9, <3>2, <3>4, <3>5, <1>1
      DEF Flight, OneStage, InFlight, AtMostOne, SameLife
    <3>7. \A t \in Streams : t # s => ready'[t] = ready[t] /\ state'[t] = state[t]
      BY <2>9 DEF SetError, CycleInv, TypeInv, TypeOK
    <3>8. \A t \in Streams : Flight(t)'
      BY <2>7, <2>9, <3>2, <3>6, <3>7
    <3>9. OwnIds'
      BY <2>1, <2>9, QuietOwn
    <3> QED
      BY <2>1, <3>2, <3>8, <3>9, QuietLife DEF CycleInv
  <2>10. CASE /\ ready' = [ready EXCEPT ![s] = Live(s)]
              /\ UNCHANGED <<state, fromPw, outstanding, free>>
    <3>1. SameLife
      BY <2>10 DEF SameLife, Live
    <3>2. Activations(s)' = {} /\ ActiveOf(s)' = {} /\ Answers(s)' = {}
      BY <2>1, <2>3, <2>10 DEF Activations, ActiveOf, Answers
    <3>3. Live(s) => outstanding[s] # None
      BY <2>2, <2>3 DEF Flight
    <3>4. ready'[s] = Live(s) /\ \A t \in Streams : t # s => ready'[t] = ready[t]
      BY <1>1, <2>10 DEF CycleInv, TypeInv, TypeOK
    <3>5. Flight(s)'
      BY <2>4, <2>10, <3>2, <3>3, <3>4
      DEF Flight, OneStage, InFlight, AtMostOne
    <3>6. \A t \in Streams : Flight(t)'
      BY <2>7, <2>10, <3>4, <3>5, StagesUnchanged
    <3>7. OwnIds'
      BY <2>1, <2>10, QuietOwn
    <3> QED
      BY <2>1, <3>1, <3>6, <3>7, QuietLife DEF CycleInv
  <2> QED
    BY <1>2, <2>8, <2>9, <2>10 DEF FenceFired, s
<1>3. CASE Recycle(b)
  <2>1. /\ UNCHANGED <<toPw, fromPw, active, fences, outstanding, ready, bufs, cur, fault>>
        /\ UNCHANGED <<reply, state>> /\ free' = [free EXCEPT ![s] = @ \cup {b}]
    BY <1>3 DEF Recycle, s
  <2>2. SameLife
    BY <2>1 DEF SameLife, Live
  <2>3. OwnIds'
    BY <1>1, <2>1 DEF CycleInv, OwnIds, TypeInv, TypeOK
  <2> QED
    BY <2>1, <2>2, <2>3, QuietFlight, QuietLife DEF CycleInv
<1> QED
  BY <1>2, <1>3

LEMMA CyclePresent ==
    ASSUME CycleInv, TypeInv', PresentBegin \/ PresentFails \/ Present
    PROVE  CycleInv'
<1> USE DEF shared, pwVars, streamVars, picomVars
<1>1. /\ UNCHANGED <<fences, outstanding, ready, bufs, free, cur, reply, state>>
      /\ SameLife /\ OwnIds' /\ CurLive'
  <2>1. UNCHANGED <<fences, outstanding, ready, bufs, free, cur, reply, state>>
    BY DEF PresentBegin, PresentFails, Present, ReceiveAddBuffer, ReceiveAddBufferFails,
           ReceiveActivateBuffer, ReceiveRemoveBuffers, ReceiveWakeMeUp, ChannelEmpty, Blit,
           PresentEnd
  <2>2. SameLife /\ CurLive'
    BY <2>1 DEF SameLife, Live, CurLive, CycleInv
  <2> QED
    BY <2>1, <2>2, QuietOwn
\* Steps that activate nothing and answer nothing.
<1>2. ASSUME UNCHANGED <<toPw, fault>>, active' \subseteq active,
             \A t \in Streams : NoMore(Activations(t), Activations(t)')
      PROVE  CycleInv'
  <2>1. ASSUME NEW t \in Streams
        PROVE  Flight(t)'
    <3>1. Flight(t)
      BY DEF CycleInv
    <3>2. NoMore(ActiveOf(t), ActiveOf(t)')
      BY <1>2, <3>1 DEF NoMore, ActiveOf, Flight, OneStage, AtMostOne
    <3> QED
      BY <1>1, <1>2, <3>1, <3>2, StagesUnchanged, FlightKept DEF SameLife
  <2> QED
    BY <1>1, <1>2, <2>1, QuietLife DEF CycleInv
<1>3. CASE PresentBegin \/ PresentFails \/ ChannelEmpty \/ PresentEnd
  <2>1. UNCHANGED <<toPw, fromPw, fault, active>>
    BY <1>3 DEF PresentBegin, PresentFails, ChannelEmpty, PresentEnd
  <2> QED
    BY <1>2, <2>1, StagesUnchanged
<1>4. CASE ReceiveAddBuffer \/ ReceiveAddBufferFails \/ ReceiveRemoveBuffers \/ ReceiveWakeMeUp
  <2>1. UNCHANGED <<toPw, fault>> /\ active' \subseteq active
    BY <1>4 DEF ReceiveAddBuffer, ReceiveAddBufferFails, ReceiveRemoveBuffers, ReceiveWakeMeUp,
                Discard
  <2>2. \A t \in Streams : NoMore(Activations(t), Activations(t)')
    BY <1>4, TakenStages
    DEF ReceiveAddBuffer, ReceiveAddBufferFails, ReceiveRemoveBuffers, ReceiveWakeMeUp
  <2> QED
    BY <1>2, <2>1, <2>2
<1>5. CASE ReceiveActivateBuffer
  <2> DEFINE b == Head(fromPw).id
  <2>1. /\ UNCHANGED toPw /\ active' = active \cup {b}
        /\ fault' = IF b \in active THEN "double_activate" ELSE fault
    BY <1>5 DEF ReceiveActivateBuffer
  <2>2. /\ \A t \in Streams : NoMore(Activations(t), Activations(t)')
        /\ \E t \in Streams : b \in IdsOf(t) /\ Activations(t) # {} /\ Activations(t)' = {}
    BY <1>5, TakenStages DEF ReceiveActivateBuffer
  <2> HIDE DEF b
  <2>3. PICK s \in Streams : b \in IdsOf(s) /\ Activations(s) # {} /\ Activations(s)' = {}
    BY <2>2
  <2>4. /\ ActiveOf(s) = {} /\ Answers(s) = {} /\ FencesOf(s) = {} /\ InFlight(s)
        /\ Flight(s)
    BY <2>3 DEF CycleInv, Flight, OneStage, InFlight
  <2>5. b \notin active
    BY <2>3, <2>4 DEF ActiveOf
  <2>6. Flight(s)'
    <3>1. AtMostOne(ActiveOf(s)')
      BY <2>1, <2>4 DEF ActiveOf, AtMostOne
    <3>2. Answers(s)' = {} /\ FencesOf(s)' = {}
      BY <1>1, <2>1, <2>4 DEF Answers, FencesOf
    <3> QED
      BY <1>1, <2>3, <2>4, <3>1, <3>2 DEF Flight, OneStage, AtMostOne, SameLife
  <2>7. ASSUME NEW t \in Streams, t # s
        PROVE  Flight(t)'
    <3>1. Flight(t) /\ ActiveOf(t)' = ActiveOf(t)
      BY <2>1, <2>3, <2>7 DEF CycleInv, ActiveOf, IdsOf
    <3>2. NoMore(ActiveOf(t), ActiveOf(t)')
      BY <3>1 DEF NoMore, Flight, OneStage
    <3> QED
      BY <1>1, <2>1, <2>2, <3>1, <3>2, StagesUnchanged, FlightKept DEF SameLife
  <2> QED
    BY <1>1, <2>1, <2>5, <2>6, <2>7, QuietLife DEF CycleInv
<1>6. ASSUME NEW b \in BufIds, Blit(b)
      PROVE  CycleInv'
  <2>1. /\ UNCHANGED fromPw /\ active' = active \ {b} /\ b \in active
        /\ \/ UNCHANGED toPw /\ fault' \in {"unknown_buffer", "pw_gone"}
           \/ /\ \E m \in {NewFrame(b), BufferError(b)} : toPw' = Append(toPw, m)
              /\ UNCHANGED fault
    BY <1>6 DEF Blit, GuardSend
  <2>2. CASE UNCHANGED toPw /\ fault' \in {"unknown_buffer", "pw_gone"}
    <3>1. ASSUME NEW t \in Streams
          PROVE  Flight(t)'
      <4>1. Flight(t)
        BY DEF CycleInv
      <4>2. NoMore(ActiveOf(t), ActiveOf(t)')
        BY <2>1, <4>1 DEF NoMore, ActiveOf, Flight, OneStage, AtMostOne
      <4> QED
        BY <1>1, <2>1, <2>2, <4>1, <4>2, StagesUnchanged, FlightKept DEF SameLife
    <3> QED
      BY <1>1, <2>2, <3>1, QuietLife DEF CycleInv, CycleFaults
  <2>3. ASSUME NEW m \in {NewFrame(b), BufferError(b)}, toPw' = Append(toPw, m), UNCHANGED fault
        PROVE  CycleInv'
    <3>1. PICK s \in Streams : b \in IdsOf(s)
      BY DEF BufIds, IdsOf
    <3>2. /\ toPw \in Seq(ToPipewire) /\ m \in ToPipewire
          /\ m.type \in {"NewFrame", "BufferError"} /\ m.id = b
      <4>1. toPw \in Seq(ToPipewire) /\ m \in ToPipewire
        BY <2>3, MessageTypes DEF CycleInv, TypeInv, TypeOK
      <4>2. m.type \in {"NewFrame", "BufferError"} /\ m.id = b
        BY <2>3 DEF NewFrame, BufferError
      <4> QED
        BY <4>1, <4>2
    <3>3. /\ Activations(s) = {} /\ Answers(s) = {} /\ FencesOf(s) = {} /\ InFlight(s)
          /\ AtMostOne(ActiveOf(s)) /\ Flight(s) /\ b \in ActiveOf(s)
      <4>1. b \in ActiveOf(s)
        BY <2>1, <3>1 DEF ActiveOf
      <4>2. Flight(s)
        BY DEF CycleInv
      <4> QED
        BY <4>1, <4>2 DEF Flight, OneStage, InFlight
    <3>4. ActiveOf(s)' = {} /\ Activations(s)' = {} /\ FencesOf(s)' = {}
      BY <1>1, <2>1, <3>3 DEF ActiveOf, AtMostOne, Activations, FencesOf
    <3>5. AtMostOne(Answers(s)')
      <4>1. m \in AnswersFor(s) \/ m \notin AnswersFor(s)
        OBVIOUS
      <4> QED
        BY <2>3, <3>2, <3>3, <4>1, Sent DEF Answers, AtMostOne
    <3>6. Flight(s)'
      BY <1>1, <3>3, <3>4, <3>5 DEF Flight, OneStage, AtMostOne, SameLife
    <3>7. ASSUME NEW t \in Streams, t # s
          PROVE  Flight(t)'
      <4>1. m \notin AnswersFor(t)
        BY <3>1, <3>2, <3>7 DEF AnswersFor, IdsOf
      <4>2. Answers(t)' = Answers(t)
        BY <2>3, <3>2, <4>1, Sent DEF Answers
      <4>3. ActiveOf(t)' = ActiveOf(t)
        BY <2>1, <3>1, <3>7 DEF ActiveOf, IdsOf
      <4>4. Flight(t)
        BY DEF CycleInv
      <4>5. NoMore(Answers(t), Answers(t)') /\ NoMore(ActiveOf(t), ActiveOf(t)')
        BY <4>2, <4>3, <4>4 DEF NoMore, Flight, OneStage
      <4> QED
        BY <1>1, <2>1, <4>4, <4>5, StagesUnchanged, FlightKept DEF SameLife
    <3>8. CreatedOnce'
      <4>1. ASSUME NEW t \in Streams
            PROVE  Creates(t)' = Creates(t)
        <5>1. m \notin {CreateStream(t)}
          BY <3>2 DEF CreateStream
        <5> QED
          BY <2>3, <3>2, <5>1, Sent DEF Creates
      <4> QED
        BY <1>1, <4>1 DEF CycleInv, CreatedOnce
    <3> QED
      BY <1>1, <2>3, <3>6, <3>7, <3>8 DEF CycleInv
  <2> QED
    BY <2>1, <2>2, <2>3
<1> QED
  BY <1>3, <1>4, <1>5, <1>6 DEF Present

\* Unloading takes activations out of the channel, a failed send takes nothing.
LEMMA CycleUnload ==
    ASSUME CycleInv, TypeInv', Unload \/ SendFails
    PROVE  CycleInv'
<1>1. /\ UNCHANGED <<toPw, active, fences, outstanding, ready, bufs, free, cur, reply, state>>
      /\ fault' \in {fault, "picom_gone"}
  BY DEF Unload, SendFails, pwVars, streamVars, picomVars
<1>2. SameLife /\ OwnIds' /\ CurLive'
  <2>1. SameLife /\ CurLive'
    BY <1>1 DEF SameLife, Live, CurLive, CycleInv
  <2> QED
    BY <1>1, <2>1, QuietOwn
<1>3. ASSUME NEW t \in Streams
      PROVE  Flight(t)'
  <2>1. Flight(t)
    BY DEF CycleInv
  <2>2. CASE Unload
    <3>1. Activations(t)' = {}
      BY <2>2 DEF Unload, Activations, Positions
    <3>2. NoMore(Activations(t), Activations(t)')
      BY <3>1 DEF NoMore, AtMostOne
    <3> QED
      BY <1>1, <1>2, <2>1, <3>2, StagesUnchanged, FlightKept DEF SameLife
  <2>3. CASE SendFails
    BY <1>1, <1>2, <2>1, <2>3, StagesUnchanged, FlightKept DEF SendFails, SameLife
  <2> QED
    BY <2>2, <2>3
<1> QED
  BY <1>1, <1>2, <1>3, QuietLife DEF CycleInv, CycleFaults

LEMMA CycleStep ==
    ASSUME CycleInv, [Next]_vars
    PROVE  CycleInv'
<1>1. TypeInv'
  BY TypeStep DEF CycleInv
<1>2. CASE UNCHANGED vars
  <2>1. UNCHANGED <<toPw, fromPw, active, fences, outstanding, ready, bufs, free, cur, fault>>
    BY <1>2 DEF vars, shared, pwVars, streamVars, picomVars
  <2>2. UNCHANGED <<reply, state>>
    BY <1>2 DEF vars, pwVars, streamVars
  <2>3. SameLife
    BY <2>2 DEF SameLife, Live
  <2> QED
    BY <1>1, <2>1, <2>2, <2>3, QuietFlight, QuietLife, QuietOwn DEF CycleInv
<1>3. CASE Next
  BY <1>1, <1>3, CycleServer, CycleWaker, CycleRemoval, CycleAddBuffer, CycleStreamState,
     CycleFences, CyclePresent, CycleUnload
  DEF Next, Callback, Environment
<1> QED
  BY <1>2, <1>3

THEOREM CycleInvariant == Spec => []CycleInv
<1>1. CycleInv /\ [Next]_vars => CycleInv'
  BY CycleStep
<1> QED
  BY <1>1, CycleInit, PTL DEF Spec

\* However pauses, removals, errors and presents interleave, a stream has at
\* most one frame on its way round the two threads: one activation, blit,
\* answer or fence wait, and never two of them.
THEOREM OneFrameInFlight == Spec => []OneInFlight
<1>1. CycleInv => OneInFlight
  BY DEF CycleInv, Flight, OneStage, OneInFlight
<1> QED
  BY <1>1, CycleInvariant, PTL

\* The outstanding buffer and its ready flag tell the truth about that frame.
THEOREM OutstandingTrue == Spec => []OutstandingUntilReady
<1>1. CycleInv => OutstandingUntilReady
  BY DEF CycleInv, Flight, OutstandingUntilReady
<1> QED
  BY <1>1, CycleInvariant, PTL
=============================================================================
