---------------------- MODULE PipelineRefinementProofs ----------------------
(***************************************************************************)
(* The two threads implement CaptureCycle, for every set of streams, every *)
(* bound on imports and every set of failures.                             *)
(***************************************************************************)
EXTENDS PipelineProofs

-----------------------------------------------------------------------------
(* The inductive invariant: to what buffer the frame of a stream belongs.  *)

\* The buffers whose ids the pipewire thread has been told.
Known(s) ==
    {s} \X (1..(IF pwPc = "add" /\ oneshot = "sent" /\ cur = s THEN made[s] - 1 ELSE made[s]))

\* PipeWire is taking the buffers of the stream away.
Clearing(s) == pwPc \in {"clear", "destroy"} /\ cur = s

\* The outstanding buffer has been removed.
Stale(s) == outstanding[s] # None /\ outstanding[s] \notin bufs[s]

\* The frame under way is made in the outstanding buffer, unless that is stale;
\* then the consumer has none of the buffers that came after it.
Belongs(s) ==
    /\ free[s] \subseteq bufs[s] /\ bufs[s] \subseteq Known(s)
    /\ outstanding[s] \in Known(s) \cup {None}
    /\ ready[s] => Live(s)
    /\ outstanding[s] \in bufs[s] => InTheMaking(s) \subseteq {outstanding[s]}
    /\ Stale(s) /\ ~Clearing(s) => bufs[s] \subseteq free[s]

FrameInv == CycleInv /\ \A s \in Streams : Belongs(s)

-----------------------------------------------------------------------------
(* Ids in a channel, and the frame of a stream in terms of them.           *)

IdsIn(q, M) == {q[i].id : i \in Positions(q, M)}

LEMMA SentIds ==
    ASSUME NEW S, NEW q \in Seq(S), NEW m \in S, NEW M
    PROVE  /\ m \notin M => IdsIn(Append(q, m), M) = IdsIn(q, M)
           /\ m \in M => IdsIn(Append(q, m), M) = IdsIn(q, M) \cup {m.id}
<1>1. /\ m \notin M => Positions(Append(q, m), M) = Positions(q, M)
      /\ m \in M => Positions(Append(q, m), M) = Positions(q, M) \cup {Len(q) + 1}
  BY AppendPositions
<1>2. /\ \A i \in Positions(q, M) : Append(q, m)[i] = q[i]
      /\ Append(q, m)[Len(q) + 1] = m
  BY DEF Positions
<1> QED
  BY <1>1, <1>2 DEF IdsIn

LEMMA GotIds ==
    ASSUME NEW S, NEW q \in Seq(S), q # <<>>, NEW M
    PROVE  /\ Head(q) \notin M => IdsIn(Tail(q), M) = IdsIn(q, M)
           /\ Head(q) \in M /\ AtMostOne(Positions(q, M)) =>
                IdsIn(q, M) = {Head(q).id} /\ IdsIn(Tail(q), M) = {}
<1>1. \A i \in Positions(Tail(q), M) : i \in Nat \ {0} /\ i + 1 \in Positions(q, M)
  BY TailPositions
<1>2. \A i \in Positions(q, M) : i \in Nat \ {0} /\ (i # 1 => i - 1 \in Positions(Tail(q), M))
  <2>1. \A i \in Positions(q, M) : i \in Nat \ {0}
    BY DEF Positions
  <2> QED
    BY <2>1, TailPositions
<1>3. \A i \in Positions(Tail(q), M) : Tail(q)[i] = q[i + 1]
  BY DEF Positions
<1>4. q[1] = Head(q) /\ (1 \in Positions(q, M) <=> Head(q) \in M)
  BY TailPositions
<1>5. ASSUME Head(q) \notin M PROVE IdsIn(Tail(q), M) = IdsIn(q, M)
  <2>1. \A i \in Positions(q, M) : i - 1 \in Positions(Tail(q), M) /\ q[i] = Tail(q)[i - 1]
    <3> SUFFICES ASSUME NEW i \in Positions(q, M)
                 PROVE  i - 1 \in Positions(Tail(q), M) /\ q[i] = Tail(q)[i - 1]
      OBVIOUS
    <3>1. i \in Nat /\ i - 1 \in Positions(Tail(q), M)
      BY <1>2, <1>4, <1>5
    <3>2. (i - 1) + 1 = i
      BY <3>1
    <3> QED
      BY <1>3, <3>1, <3>2
  <2> QED
    BY <1>1, <1>3, <2>1 DEF IdsIn
<1>6. ASSUME Head(q) \in M, AtMostOne(Positions(q, M))
      PROVE  IdsIn(q, M) = {Head(q).id} /\ IdsIn(Tail(q), M) = {}
  <2>1. Positions(q, M) = {1}
    BY <1>4, <1>6 DEF AtMostOne
  <2>2. Positions(Tail(q), M) = {}
    BY <1>6, Got
  <2> QED
    BY <1>4, <2>1, <2>2 DEF IdsIn
<1> QED
  BY <1>5, <1>6

Wanted(s) == IdsIn(fromPw, ActivationsFor(s))
Answered(s) == IdsIn(toPw, AnswersFor(s))

\* How far a frame is when its id is in W, B, C or D, and which buffer it has.
StageOf(W, B, C, D, r) ==
    CASE W # {} -> "wanted"
      [] W = {} /\ B # {} -> "taken"
      [] W = {} /\ B = {} /\ C # {} -> "answered"
      [] W = {} /\ B = {} /\ C = {} /\ D # {} -> "fenced"
      [] W = {} /\ B = {} /\ C = {} /\ D = {} /\ r -> "ready"
      [] W = {} /\ B = {} /\ C = {} /\ D = {} /\ ~r -> "rest"

TargetOf(ids) == IF ids = {} THEN None ELSE CHOOSE b \in ids : TRUE

LEMMA EmptyIds ==
    \A s : /\ Wanted(s) = {} <=> Activations(s) = {}
           /\ Answered(s) = {} <=> Answers(s) = {}
           /\ InTheMaking(s) = Wanted(s) \cup ActiveOf(s) \cup Answered(s) \cup FencesOf(s)
           /\ InFlight(s) <=> InTheMaking(s) # {}
<1> SUFFICES ASSUME NEW s
             PROVE  /\ Wanted(s) = {} <=> Activations(s) = {}
                    /\ Answered(s) = {} <=> Answers(s) = {}
                    /\ InTheMaking(s) = Wanted(s) \cup ActiveOf(s) \cup Answered(s) \cup FencesOf(s)
                    /\ InFlight(s) <=> InTheMaking(s) # {}
  OBVIOUS
<1>1. Wanted(s) = {} <=> Activations(s) = {}
  BY DEF Wanted, IdsIn, Activations
<1>2. Answered(s) = {} <=> Answers(s) = {}
  BY DEF Answered, IdsIn, Answers
<1>3. InTheMaking(s) = Wanted(s) \cup ActiveOf(s) \cup Answered(s) \cup FencesOf(s)
  BY DEF InTheMaking, Wanted, Answered, IdsIn, Activations, Answers
<1> QED
  BY <1>1, <1>2, <1>3 DEF InFlight

LEMMA StageNow ==
    \A s : /\ Stage(s) = StageOf(Wanted(s), ActiveOf(s), Answered(s), FencesOf(s), ready[s])
           /\ Target(s) = TargetOf(InTheMaking(s))
<1> SUFFICES ASSUME NEW s
             PROVE  /\ Stage(s) = StageOf(Wanted(s), ActiveOf(s), Answered(s), FencesOf(s), ready[s])
                    /\ Target(s) = TargetOf(InTheMaking(s))
  OBVIOUS
<1> USE EmptyIds
<1>1. Stage(s) = StageOf(Wanted(s), ActiveOf(s), Answered(s), FencesOf(s), ready[s])
  <2>1. CASE Activations(s) # {}
    BY <2>1 DEF Stage, StageOf
  <2>2. CASE Activations(s) = {} /\ ActiveOf(s) # {}
    BY <2>2 DEF Stage, StageOf
  <2>3. CASE Activations(s) = {} /\ ActiveOf(s) = {} /\ Answers(s) # {}
    BY <2>3 DEF Stage, StageOf, InFlight
  <2>4. CASE Activations(s) = {} /\ ActiveOf(s) = {} /\ Answers(s) = {} /\ FencesOf(s) # {}
    BY <2>4 DEF Stage, StageOf, InFlight
  <2>5. CASE ~InFlight(s)
    BY <2>5 DEF Stage, StageOf, InFlight
  <2> QED
    BY <2>1, <2>2, <2>3, <2>4, <2>5 DEF InFlight
<1>2. Target(s) = TargetOf(InTheMaking(s))
  BY DEF Target, TargetOf
<1> QED
  BY <1>1, <1>2

\* The same after a step.
LEMMA EmptyIdsNext ==
    \A s : /\ Wanted(s)' = {} <=> Activations(s)' = {}
           /\ Answered(s)' = {} <=> Answers(s)' = {}
           /\ InTheMaking(s)' = Wanted(s)' \cup ActiveOf(s)' \cup Answered(s)' \cup FencesOf(s)'
           /\ InFlight(s)' <=> InTheMaking(s)' # {}
<1>1. (\A s : /\ Wanted(s) = {} <=> Activations(s) = {}
              /\ Answered(s) = {} <=> Answers(s) = {}
              /\ InTheMaking(s) = Wanted(s) \cup ActiveOf(s) \cup Answered(s) \cup FencesOf(s)
              /\ InFlight(s) <=> InTheMaking(s) # {})'
  BY EmptyIds, PTL
<1> QED
  BY <1>1

LEMMA StageNext ==
    \A s : /\ Stage(s)' = StageOf(Wanted(s)', ActiveOf(s)', Answered(s)', FencesOf(s)', ready'[s])
           /\ Target(s)' = TargetOf(InTheMaking(s)')
<1>1. (\A s : /\ Stage(s) = StageOf(Wanted(s), ActiveOf(s), Answered(s), FencesOf(s), ready[s])
              /\ Target(s) = TargetOf(InTheMaking(s)))'
  BY StageNow, PTL
<1> QED
  BY <1>1 DEF StageOf, TargetOf

-----------------------------------------------------------------------------
(* Steps of the cycle, one stream at a time.                               *)

Still(s) == Stage(s)' = Stage(s) /\ Target(s)' = Target(s) /\ Held(s)' = Held(s)

Moves(s) ==
    \/ /\ Stage(s) \in {"rest", "ready"} /\ Stage(s)' = "wanted"
       /\ Target(s)' \in BufIds \ Held(s) /\ Held(s)' = Held(s)
    \/ /\ \/ Stage(s) = "wanted" /\ Stage(s)' = "taken"
          \/ Stage(s) = "taken" /\ Stage(s)' = "answered"
          \/ Stage(s) = "answered" /\ Stage(s)' = "fenced"
       /\ Target(s)' = Target(s) /\ Held(s)' = Held(s)
    \/ /\ Stage(s) = "fenced"
       /\ Held(s)' \in {Held(s), Held(s) \cup {Target(s)}}
       /\ \/ Stage(s)' = "rest" /\ Target(s)' = None
          \/ Stage(s)' = "wanted" /\ Target(s)' \in BufIds \ Held(s)'
    \/ /\ Stage(s) = "fenced" /\ Stage(s)' = "ready"
       /\ Target(s)' = None /\ Held(s)' = Held(s)
    \/ /\ Stage(s) \in {"taken", "answered", "fenced", "ready"} /\ Stage(s)' = "rest"
       /\ Target(s)' = None /\ Held(s)' = Held(s)
    \/ /\ Stage(s)' = Stage(s) /\ Target(s)' = Target(s) /\ Held(s)' \subseteq Held(s)

Abandons(s, where) ==
    /\ Held(s)' = Held(s)
    /\ Stage(s)' = (IF Stage(s) = where THEN "rest" ELSE Stage(s))
    /\ Target(s)' = (IF Stage(s) = where THEN None ELSE Target(s))

CycleStepTaken == [Cycle!Next]_(Cycle!vars)

LEMMA StillStep ==
    ASSUME \A s \in Streams : Still(s)
    PROVE  CycleStepTaken
BY DEF Still, CycleStepTaken, Cycle!vars

LEMMA OneMoves ==
    ASSUME NEW s \in Streams, Moves(s), \A u \in Streams : u # s => Still(u)
    PROVE  CycleStepTaken
<1> DEFINE stages == [u \in Streams |-> Stage(u)]
           targets == [u \in Streams |-> Target(u)]
           helds == [u \in Streams |-> Held(u)]
<1>1. /\ stages' = [stages EXCEPT ![s] = Stage(s)']
      /\ targets' = [targets EXCEPT ![s] = Target(s)']
      /\ helds' = [helds EXCEPT ![s] = Held(s)']
  BY DEF Still
<1>2. stages[s] = Stage(s) /\ targets[s] = Target(s) /\ helds[s] = Held(s)
  OBVIOUS
<1>3. Held(s)' = Held(s) => helds' = helds
  BY DEF Still
<1>4. Stage(s)' = Stage(s) => stages' = stages
  BY DEF Still
<1>5. Target(s)' = Target(s) => targets' = targets
  BY DEF Still
<1>6. CASE /\ Stage(s) \in {"rest", "ready"} /\ Stage(s)' = "wanted"
           /\ Target(s)' \in BufIds \ Held(s) /\ Held(s)' = Held(s)
  <2>1. Cycle!Want(s, Target(s)')
    BY <1>1, <1>2, <1>3, <1>6 DEF Cycle!Want, Cycle!Frame
  <2> QED
    BY <1>6, <2>1 DEF CycleStepTaken, Cycle!Next
<1>7. CASE Stage(s) = "wanted" /\ Stage(s)' = "taken"
           /\ Target(s)' = Target(s) /\ Held(s)' = Held(s)
  <2>1. Cycle!Take(s)
    BY <1>1, <1>2, <1>3, <1>7 DEF Cycle!Take, Cycle!Frame
  <2> QED
    BY <2>1 DEF CycleStepTaken, Cycle!Next
<1>8. CASE Stage(s) = "taken" /\ Stage(s)' = "answered"
           /\ Target(s)' = Target(s) /\ Held(s)' = Held(s)
  <2>1. Cycle!Answer(s)
    BY <1>1, <1>2, <1>3, <1>8 DEF Cycle!Answer, Cycle!Frame
  <2> QED
    BY <2>1 DEF CycleStepTaken, Cycle!Next
<1>9. CASE Stage(s) = "answered" /\ Stage(s)' = "fenced"
           /\ Target(s)' = Target(s) /\ Held(s)' = Held(s)
  <2>1. Cycle!Wait(s)
    BY <1>1, <1>2, <1>3, <1>9 DEF Cycle!Wait, Cycle!Frame
  <2> QED
    BY <2>1 DEF CycleStepTaken, Cycle!Next
<1>10. CASE /\ Stage(s) = "fenced"
            /\ Held(s)' \in {Held(s), Held(s) \cup {Target(s)}}
            /\ \/ Stage(s)' = "rest" /\ Target(s)' = None
               \/ Stage(s)' = "wanted" /\ Target(s)' \in BufIds \ Held(s)'
  <2>1. Cycle!Deliver(s)
    BY <1>1, <1>2, <1>10 DEF Cycle!Deliver, Cycle!Frame
  <2> QED
    BY <2>1 DEF CycleStepTaken, Cycle!Next
<1>11. CASE /\ Stage(s) = "fenced" /\ Stage(s)' = "ready"
            /\ Target(s)' = None /\ Held(s)' = Held(s)
  <2>1. Cycle!Pause(s)
    BY <1>1, <1>2, <1>3, <1>11 DEF Cycle!Pause, Cycle!Frame
  <2> QED
    BY <2>1 DEF CycleStepTaken, Cycle!Next
<1>12. CASE /\ Stage(s) \in {"taken", "answered", "fenced", "ready"} /\ Stage(s)' = "rest"
            /\ Target(s)' = None /\ Held(s)' = Held(s)
  <2>1. Cycle!Drop(s)
    BY <1>1, <1>2, <1>3, <1>12 DEF Cycle!Drop, Cycle!Frame
  <2> QED
    BY <2>1 DEF CycleStepTaken, Cycle!Next
<1>13. CASE Stage(s)' = Stage(s) /\ Target(s)' = Target(s) /\ Held(s)' \subseteq Held(s)
  <2>1. Cycle!Return(s)
    BY <1>1, <1>2, <1>4, <1>5, <1>13 DEF Cycle!Return
  <2> QED
    BY <2>1 DEF CycleStepTaken, Cycle!Next
<1> QED
  BY <1>6, <1>7, <1>8, <1>9, <1>10, <1>11, <1>12, <1>13 DEF Moves

\* picom bails, or is unloaded.
LEMMA AllAbandon ==
    ASSUME NEW where \in {"wanted", "taken"}, \A s \in Streams : Abandons(s, where)
    PROVE  CycleStepTaken
<1>1. Cycle!Abandon(where)
  BY DEF Abandons, Cycle!Abandon
<1> QED
  BY <1>1 DEF CycleStepTaken, Cycle!Next

LEMMA CycleStarts == Init => Cycle!Init
<1> SUFFICES ASSUME Init PROVE Cycle!Init
  OBVIOUS
<1>1. ASSUME NEW s \in Streams
      PROVE  Stage(s) = "rest" /\ Target(s) = None /\ Held(s) = {}
  <2>1. Positions(fromPw, ActivationsFor(s)) = {} /\ Positions(toPw, AnswersFor(s)) = {}
    BY DEF Init, Positions
  <2>2. ~InFlight(s) /\ ~ready[s]
    BY <2>1 DEF Init, InFlight, Activations, Answers, ActiveOf, FencesOf
  <2>3. Held(s) = {}
    BY DEF Init, Held
  <2> QED
    BY <2>2, <2>3 DEF Stage, Target, InFlight
<1> QED
  BY <1>1 DEF Cycle!Init

-----------------------------------------------------------------------------
(* What communication does to the ids, and what leaves a stream in order.  *)

LEMMA SendIds ==
    ASSUME CycleInv, NEW m \in FromPipewire, SendToPicom(m), NEW s \in Streams
    PROVE  /\ m.type # "ActivateBuffer" => Wanted(s)' = Wanted(s)
           /\ m \notin ActivationsFor(s) => Wanted(s)' = Wanted(s)
           /\ m \in ActivationsFor(s) => Wanted(s)' = Wanted(s) \cup {m.id}
<1>1. fromPw \in Seq(FromPipewire) /\ fromPw' = Append(fromPw, m)
  BY DEF CycleInv, TypeInv, TypeOK, SendToPicom
<1>2. m.type # "ActivateBuffer" => m \notin ActivationsFor(s)
  BY DEF ActivationsFor
<1> QED
  BY <1>1, <1>2, SentIds DEF Wanted

LEMMA SetErrorIds ==
    ASSUME CycleInv, NEW t, SetError(t), NEW s \in Streams
    PROVE  Wanted(s)' = Wanted(s)
<1>1. SendToPicom(WakeMeUp) /\ WakeMeUp \in FromPipewire /\ WakeMeUp.type # "ActivateBuffer"
  BY MessageTypes DEF SetError, WakeMeUp
<1> QED
  BY <1>1, SendIds

LEMMA TakeIds ==
    ASSUME CycleInv, NEW type, Taken(type), NEW s \in Streams
    PROVE  /\ type # "ActivateBuffer" => Wanted(s)' = Wanted(s)
           /\ type = "ActivateBuffer" /\ Head(fromPw).id \notin IdsOf(s) =>
                Wanted(s)' = Wanted(s)
           /\ type = "ActivateBuffer" /\ Head(fromPw).id \in IdsOf(s) =>
                Wanted(s) = {Head(fromPw).id} /\ Wanted(s)' = {}
<1>1. fromPw \in Seq(FromPipewire) /\ fromPw # <<>> /\ fromPw' = Tail(fromPw)
      /\ Head(fromPw).type = type
  BY DEF CycleInv, TypeInv, TypeOK, Taken
<1>2. Head(fromPw) \in FromPipewire
  BY <1>1
<1>3. AtMostOne(Activations(s))
  BY DEF CycleInv, Flight, OneStage
<1>4. type # "ActivateBuffer" \/ Head(fromPw).id \notin IdsOf(s) => Head(fromPw) \notin ActivationsFor(s)
  BY <1>1 DEF ActivationsFor
<1>5. type = "ActivateBuffer" /\ Head(fromPw).id \in IdsOf(s) => Head(fromPw) \in ActivationsFor(s)
  BY <1>1, <1>2 DEF ActivationsFor, FromPipewire
<1> QED
  BY <1>1, <1>3, <1>4, <1>5, GotIds DEF Wanted, Activations

LEMMA ReceiveIds ==
    ASSUME CycleInv, NEW type, Received(type), NEW s \in Streams
    PROVE  /\ type \notin {"NewFrame", "BufferError"} => Answered(s)' = Answered(s)
           /\ type \in {"NewFrame", "BufferError"} /\ Owner(Head(toPw).id) # s =>
                Answered(s)' = Answered(s)
           /\ type \in {"NewFrame", "BufferError"} /\ Owner(Head(toPw).id) = s =>
                Answered(s) = {Head(toPw).id} /\ Answered(s)' = {}
<1>1. toPw \in Seq(ToPipewire) /\ toPw # <<>> /\ toPw' = Tail(toPw) /\ Head(toPw).type = type
  BY DEF CycleInv, TypeInv, TypeOK, Received
<1>2. Head(toPw) \in ToPipewire
  BY <1>1
<1>3. AtMostOne(Answers(s))
  BY DEF CycleInv, Flight, OneStage
<1>4. type \notin {"NewFrame", "BufferError"} \/ Owner(Head(toPw).id) # s =>
        Head(toPw) \notin AnswersFor(s)
  BY <1>1 DEF AnswersFor, IdsOf, Owner
<1>5. type \in {"NewFrame", "BufferError"} /\ Owner(Head(toPw).id) = s =>
        Head(toPw) \in AnswersFor(s)
  BY <1>1, <1>2 DEF AnswersFor, ToPipewire, BufIds, IdsOf, Owner
<1> QED
  BY <1>1, <1>3, <1>4, <1>5, GotIds DEF Answered, Answers

\* The ids of a stream's frame: there is one at most, in one place.
LEMMA Alone ==
    ASSUME CycleInv, NEW s \in Streams
    PROVE  /\ Wanted(s) # {} => ActiveOf(s) = {} /\ Answered(s) = {} /\ FencesOf(s) = {}
           /\ ActiveOf(s) # {} => Wanted(s) = {} /\ Answered(s) = {} /\ FencesOf(s) = {}
           /\ Answered(s) # {} => Wanted(s) = {} /\ ActiveOf(s) = {} /\ FencesOf(s) = {}
           /\ FencesOf(s) # {} => Wanted(s) = {} /\ ActiveOf(s) = {} /\ Answered(s) = {}
           /\ AtMostOne(ActiveOf(s)) /\ AtMostOne(FencesOf(s))
BY EmptyIds DEF CycleInv, Flight, OneStage

LEMMA OneTarget == TargetOf({}) = None /\ \A b : TargetOf({b}) = b
BY DEF TargetOf

\* Where the frame is, its stage and its buffer, now and after a step.
LEMMA Place ==
    \A s, b :
        LET W == Wanted(s)  B == ActiveOf(s)  C == Answered(s)  D == FencesOf(s)
        IN  /\ W = {b} /\ B = {} /\ C = {} /\ D = {} =>
                 InTheMaking(s) = {b} /\ Target(s) = b /\ Stage(s) = "wanted"
            /\ W = {} /\ B = {b} /\ C = {} /\ D = {} =>
                 InTheMaking(s) = {b} /\ Target(s) = b /\ Stage(s) = "taken"
            /\ W = {} /\ B = {} /\ C = {b} /\ D = {} =>
                 InTheMaking(s) = {b} /\ Target(s) = b /\ Stage(s) = "answered"
            /\ W = {} /\ B = {} /\ C = {} /\ D = {b} =>
                 InTheMaking(s) = {b} /\ Target(s) = b /\ Stage(s) = "fenced"
            /\ W = {} /\ B = {} /\ C = {} /\ D = {} =>
                 /\ InTheMaking(s) = {} /\ Target(s) = None
                 /\ ready[s] => Stage(s) = "ready"
                 /\ ~ready[s] => Stage(s) = "rest"
<1> SUFFICES ASSUME NEW s, NEW b, NEW W, NEW B, NEW C, NEW D,
                    W = Wanted(s), B = ActiveOf(s), C = Answered(s), D = FencesOf(s)
             PROVE  /\ W = {b} /\ B = {} /\ C = {} /\ D = {} =>
                         InTheMaking(s) = {b} /\ Target(s) = b /\ Stage(s) = "wanted"
                    /\ W = {} /\ B = {b} /\ C = {} /\ D = {} =>
                         InTheMaking(s) = {b} /\ Target(s) = b /\ Stage(s) = "taken"
                    /\ W = {} /\ B = {} /\ C = {b} /\ D = {} =>
                         InTheMaking(s) = {b} /\ Target(s) = b /\ Stage(s) = "answered"
                    /\ W = {} /\ B = {} /\ C = {} /\ D = {b} =>
                         InTheMaking(s) = {b} /\ Target(s) = b /\ Stage(s) = "fenced"
                    /\ W = {} /\ B = {} /\ C = {} /\ D = {} =>
                         /\ InTheMaking(s) = {} /\ Target(s) = None
                         /\ ready[s] => Stage(s) = "ready"
                         /\ ~ready[s] => Stage(s) = "rest"
  OBVIOUS
<1>1. InTheMaking(s) = W \cup B \cup C \cup D
  BY EmptyIds
<1>2. Target(s) = TargetOf(InTheMaking(s))
  BY StageNow
<1>3. Stage(s) = StageOf(W, B, C, D, ready[s])
  BY StageNow
<1>4. /\ W = {b} /\ B = {} /\ C = {} /\ D = {} => StageOf(W, B, C, D, ready[s]) = "wanted"
      /\ W = {} /\ B = {b} /\ C = {} /\ D = {} => StageOf(W, B, C, D, ready[s]) = "taken"
      /\ W = {} /\ B = {} /\ C = {b} /\ D = {} => StageOf(W, B, C, D, ready[s]) = "answered"
      /\ W = {} /\ B = {} /\ C = {} /\ D = {b} => StageOf(W, B, C, D, ready[s]) = "fenced"
      /\ W = {} /\ B = {} /\ C = {} /\ D = {} /\ ready[s] =>
           StageOf(W, B, C, D, ready[s]) = "ready"
      /\ W = {} /\ B = {} /\ C = {} /\ D = {} /\ ~ready[s] =>
           StageOf(W, B, C, D, ready[s]) = "rest"
  BY DEF StageOf
<1>5. /\ W = {b} /\ B = {} /\ C = {} /\ D = {} => W \cup B \cup C \cup D = {b}
      /\ W = {} /\ B = {b} /\ C = {} /\ D = {} => W \cup B \cup C \cup D = {b}
      /\ W = {} /\ B = {} /\ C = {b} /\ D = {} => W \cup B \cup C \cup D = {b}
      /\ W = {} /\ B = {} /\ C = {} /\ D = {b} => W \cup B \cup C \cup D = {b}
      /\ W = {} /\ B = {} /\ C = {} /\ D = {} => W \cup B \cup C \cup D = {}
  OBVIOUS
<1>6. /\ InTheMaking(s) = {b} => Target(s) = b
      /\ InTheMaking(s) = {} => Target(s) = None
  BY <1>2, OneTarget
<1>7. ASSUME W = {b}, B = {}, C = {}, D = {}
      PROVE  InTheMaking(s) = {b} /\ Target(s) = b /\ Stage(s) = "wanted"
  BY <1>1, <1>3, <1>4, <1>5, <1>6, <1>7
<1>8. ASSUME W = {}, B = {b}, C = {}, D = {}
      PROVE  InTheMaking(s) = {b} /\ Target(s) = b /\ Stage(s) = "taken"
  BY <1>1, <1>3, <1>4, <1>5, <1>6, <1>8
<1>9. ASSUME W = {}, B = {}, C = {b}, D = {}
      PROVE  InTheMaking(s) = {b} /\ Target(s) = b /\ Stage(s) = "answered"
  BY <1>1, <1>3, <1>4, <1>5, <1>6, <1>9
<1>10. ASSUME W = {}, B = {}, C = {}, D = {b}
      PROVE  InTheMaking(s) = {b} /\ Target(s) = b /\ Stage(s) = "fenced"
  BY <1>1, <1>3, <1>4, <1>5, <1>6, <1>10
<1>11. ASSUME W = {}, B = {}, C = {}, D = {}
       PROVE  /\ InTheMaking(s) = {} /\ Target(s) = None
              /\ ready[s] => Stage(s) = "ready"
              /\ ~ready[s] => Stage(s) = "rest"
  BY <1>1, <1>3, <1>4, <1>5, <1>6, <1>11
<1> QED
  BY <1>7, <1>8, <1>9, <1>10, <1>11

LEMMA PlaceNext ==
    \A s, b :
        LET W == Wanted(s)'  B == ActiveOf(s)'  C == Answered(s)'  D == FencesOf(s)'
        IN  /\ W = {b} /\ B = {} /\ C = {} /\ D = {} =>
                 InTheMaking(s)' = {b} /\ Target(s)' = b /\ Stage(s)' = "wanted"
            /\ W = {} /\ B = {b} /\ C = {} /\ D = {} =>
                 InTheMaking(s)' = {b} /\ Target(s)' = b /\ Stage(s)' = "taken"
            /\ W = {} /\ B = {} /\ C = {b} /\ D = {} =>
                 InTheMaking(s)' = {b} /\ Target(s)' = b /\ Stage(s)' = "answered"
            /\ W = {} /\ B = {} /\ C = {} /\ D = {b} =>
                 InTheMaking(s)' = {b} /\ Target(s)' = b /\ Stage(s)' = "fenced"
            /\ W = {} /\ B = {} /\ C = {} /\ D = {} =>
                 /\ InTheMaking(s)' = {} /\ Target(s)' = None
                 /\ ready'[s] => Stage(s)' = "ready"
                 /\ ~ready'[s] => Stage(s)' = "rest"
<1> SUFFICES ASSUME NEW s, NEW b, NEW W, NEW B, NEW C, NEW D,
                    W = Wanted(s)', B = ActiveOf(s)', C = Answered(s)', D = FencesOf(s)'
             PROVE  /\ W = {b} /\ B = {} /\ C = {} /\ D = {} =>
                         InTheMaking(s)' = {b} /\ Target(s)' = b /\ Stage(s)' = "wanted"
                    /\ W = {} /\ B = {b} /\ C = {} /\ D = {} =>
                         InTheMaking(s)' = {b} /\ Target(s)' = b /\ Stage(s)' = "taken"
                    /\ W = {} /\ B = {} /\ C = {b} /\ D = {} =>
                         InTheMaking(s)' = {b} /\ Target(s)' = b /\ Stage(s)' = "answered"
                    /\ W = {} /\ B = {} /\ C = {} /\ D = {b} =>
                         InTheMaking(s)' = {b} /\ Target(s)' = b /\ Stage(s)' = "fenced"
                    /\ W = {} /\ B = {} /\ C = {} /\ D = {} =>
                         /\ InTheMaking(s)' = {} /\ Target(s)' = None
                         /\ ready'[s] => Stage(s)' = "ready"
                         /\ ~ready'[s] => Stage(s)' = "rest"
  OBVIOUS
<1>1. InTheMaking(s)' = W \cup B \cup C \cup D
  BY EmptyIdsNext
<1>2. Target(s)' = TargetOf(InTheMaking(s)')
  BY StageNext
<1>3. Stage(s)' = StageOf(W, B, C, D, ready'[s])
  BY StageNext
<1>4. /\ W = {b} /\ B = {} /\ C = {} /\ D = {} => StageOf(W, B, C, D, ready'[s]) = "wanted"
      /\ W = {} /\ B = {b} /\ C = {} /\ D = {} => StageOf(W, B, C, D, ready'[s]) = "taken"
      /\ W = {} /\ B = {} /\ C = {b} /\ D = {} => StageOf(W, B, C, D, ready'[s]) = "answered"
      /\ W = {} /\ B = {} /\ C = {} /\ D = {b} => StageOf(W, B, C, D, ready'[s]) = "fenced"
      /\ W = {} /\ B = {} /\ C = {} /\ D = {} /\ ready'[s] =>
           StageOf(W, B, C, D, ready'[s]) = "ready"
      /\ W = {} /\ B = {} /\ C = {} /\ D = {} /\ ~ready'[s] =>
           StageOf(W, B, C, D, ready'[s]) = "rest"
  BY DEF StageOf
<1>5. /\ W = {b} /\ B = {} /\ C = {} /\ D = {} => W \cup B \cup C \cup D = {b}
      /\ W = {} /\ B = {b} /\ C = {} /\ D = {} => W \cup B \cup C \cup D = {b}
      /\ W = {} /\ B = {} /\ C = {b} /\ D = {} => W \cup B \cup C \cup D = {b}
      /\ W = {} /\ B = {} /\ C = {} /\ D = {b} => W \cup B \cup C \cup D = {b}
      /\ W = {} /\ B = {} /\ C = {} /\ D = {} => W \cup B \cup C \cup D = {}
  OBVIOUS
<1>6. /\ InTheMaking(s)' = {b} => Target(s)' = b
      /\ InTheMaking(s)' = {} => Target(s)' = None
  BY <1>2, OneTarget
<1>7. ASSUME W = {b}, B = {}, C = {}, D = {}
      PROVE  InTheMaking(s)' = {b} /\ Target(s)' = b /\ Stage(s)' = "wanted"
  BY <1>1, <1>3, <1>4, <1>5, <1>6, <1>7
<1>8. ASSUME W = {}, B = {b}, C = {}, D = {}
      PROVE  InTheMaking(s)' = {b} /\ Target(s)' = b /\ Stage(s)' = "taken"
  BY <1>1, <1>3, <1>4, <1>5, <1>6, <1>8
<1>9. ASSUME W = {}, B = {}, C = {b}, D = {}
      PROVE  InTheMaking(s)' = {b} /\ Target(s)' = b /\ Stage(s)' = "answered"
  BY <1>1, <1>3, <1>4, <1>5, <1>6, <1>9
<1>10. ASSUME W = {}, B = {}, C = {}, D = {b}
      PROVE  InTheMaking(s)' = {b} /\ Target(s)' = b /\ Stage(s)' = "fenced"
  BY <1>1, <1>3, <1>4, <1>5, <1>6, <1>10
<1>11. ASSUME W = {}, B = {}, C = {}, D = {}
       PROVE  /\ InTheMaking(s)' = {} /\ Target(s)' = None
              /\ ready'[s] => Stage(s)' = "ready"
              /\ ~ready'[s] => Stage(s)' = "rest"
  BY <1>1, <1>3, <1>4, <1>5, <1>6, <1>11
<1> QED
  BY <1>7, <1>8, <1>9, <1>10, <1>11

\* A frame that is under way is not ready.
LEMMA NotReady ==
    ASSUME FrameInv, NEW s \in Streams, InFlight(s)
    PROVE  ~ready[s]
BY DEF FrameInv, Belongs, CycleInv, Flight

LEMMA QuietFrame ==
    ASSUME NEW s \in Streams, Wanted(s)' = Wanted(s), ActiveOf(s)' = ActiveOf(s),
           Answered(s)' = Answered(s), FencesOf(s)' = FencesOf(s),
           ready'[s] = ready[s] \/ InFlight(s)
    PROVE  /\ Stage(s)' = Stage(s) /\ Target(s)' = Target(s)
           /\ InTheMaking(s)' = InTheMaking(s)
<1>1. InTheMaking(s)' = InTheMaking(s)
  BY EmptyIds, EmptyIdsNext
<1>2. Target(s)' = Target(s)
  BY <1>1, StageNow, StageNext
<1>3. CASE ready'[s] = ready[s]
  BY <1>1, <1>2, <1>3, StageNow, StageNext
<1>4. CASE InFlight(s)
  BY <1>1, <1>2, <1>4, StageNow, StageNext, EmptyIds DEF StageOf
<1> QED
  BY <1>3, <1>4

LEMMA KnownGrows ==
    ASSUME CycleInv, NEW s \in Streams, UNCHANGED made,
           pwPc' = "add" /\ oneshot' = "sent" =>
                pwPc = "add" /\ oneshot = "sent" /\ cur' = cur
    PROVE  Known(s) \subseteq Known(s)'
<1>1. made[s] \in Nat
  BY DEF CycleInv, TypeInv, TypeOK
<1> QED
  BY <1>1 DEF Known

LEMMA BelongsKept ==
    ASSUME NEW s \in Streams, Belongs(s), InTheMaking(s)' \subseteq InTheMaking(s),
           outstanding'[s] = outstanding[s], bufs'[s] = bufs[s], free'[s] = free[s],
           Known(s) \subseteq Known(s)', ready'[s] => Live(s)',
           Clearing(s) => Clearing(s)' \/ bufs[s] = {}
    PROVE  Belongs(s)'
BY DEF Belongs, Stale

\* A step that moves no frame and touches no buffer.
LEMMA Quiet ==
    ASSUME FrameInv, UNCHANGED <<made, active, fences, outstanding, ready, bufs, free>>,
           \A s \in Streams : Wanted(s)' = Wanted(s) /\ Answered(s)' = Answered(s),
           pwPc' = "add" /\ oneshot' = "sent" =>
                pwPc = "add" /\ oneshot = "sent" /\ cur' = cur,
           \A s \in Streams : Clearing(s) => Clearing(s)' \/ bufs[s] = {},
           \A s \in Streams : Live(s) => Live(s)'
    PROVE  CycleStepTaken /\ \A s \in Streams : Belongs(s)'
<1>1. \A s \in Streams : ActiveOf(s)' = ActiveOf(s) /\ FencesOf(s)' = FencesOf(s)
                         /\ Held(s)' = Held(s)
  BY DEF ActiveOf, FencesOf, Held
<1>2. \A s \in Streams : Still(s) /\ InTheMaking(s)' = InTheMaking(s)
  BY <1>1, QuietFrame DEF Still
<1>3. ASSUME NEW s \in Streams PROVE Belongs(s)'
  <2>1. Belongs(s) /\ Known(s) \subseteq Known(s)'
    BY KnownGrows DEF FrameInv
  <2>2. ready'[s] => Live(s)'
    BY <2>1 DEF Belongs
  <2> QED
    BY <1>2, <2>1, <2>2, BelongsKept
<1> QED
  BY <1>2, <1>3, StillStep

-----------------------------------------------------------------------------
(* The steps.                                                              *)

Refines == CycleStepTaken /\ \A s \in Streams : Belongs(s)'

LEMMA RefinesServer ==
    ASSUME FrameInv, Server
    PROVE  Refines
<1> USE DEF shared, pwVars, streamVars, picomVars
<1>1. PICK m \in UNION {{CreateStream(s), CloseStream(s)} : s \in Streams} :
        /\ ServerSend(m)
        /\ UNCHANGED <<fromPw, made, active, fences, outstanding, ready, bufs, free,
                       pwPc, oneshot, cur, state>>
  <2>1. ASSUME NEW s \in Streams, RequestStream(s) \/ RequestClose(s)
        PROVE  \E m \in {CreateStream(s), CloseStream(s)} :
                  /\ ServerSend(m)
                  /\ UNCHANGED <<fromPw, made, active, fences, outstanding, ready, bufs, free,
                                 pwPc, oneshot, cur, state>>
    BY <2>1 DEF RequestStream, RequestClose
  <2> QED
    BY <2>1 DEF Server
<1>2. toPw \in Seq(ToPipewire) /\ m \in ToPipewire /\ toPw' = Append(toPw, m)
  BY <1>1, MessageTypes DEF FrameInv, CycleInv, TypeInv, TypeOK, ServerSend
<1>3. \A t \in Streams : m \notin AnswersFor(t)
  BY DEF CreateStream, CloseStream, AnswersFor
<1>4. \A t \in Streams : Wanted(t)' = Wanted(t) /\ Answered(t)' = Answered(t)
  BY <1>1, <1>2, <1>3, SentIds DEF Wanted, Answered
<1> QED
  BY <1>1, <1>4, Quiet DEF Clearing, Live, Refines

\* Steps of the waker callback and of removals that move no frame.
LEMMA RefinesQuietWaker ==
    ASSUME FrameInv,
           \/ WakeUp \/ DrainEmpty \/ ReapDone \/ HandleCreateStream \/ HandleCreateStreamFails
           \/ HandleCloseStreams \/ RemoveBlankBuffer \/ BuffersCleared
           \/ \E s \in Streams : ReapStream(s)
    PROVE  Refines
<1> USE DEF shared, pwVars, streamVars, picomVars
<1>0. CycleInv /\ TypeOK
  BY DEF FrameInv, CycleInv, TypeInv
<1>1. UNCHANGED <<made, active, fences, outstanding, ready, bufs, free, oneshot>>
  BY DEF WakeUp, DrainEmpty, ReapDone, HandleCreateStream, HandleCreateStreamFails,
         HandleCloseStreams, RemoveBlankBuffer, BuffersCleared, ReapStream
<1>2. /\ pwPc' = "add" => pwPc = "add" /\ cur' = cur
      /\ \A s \in Streams : Clearing(s) => Clearing(s)' \/ bufs[s] = {}
  BY <1>0 DEF WakeUp, DrainEmpty, ReapDone, HandleCreateStream, HandleCreateStreamFails,
              HandleCloseStreams, RemoveBlankBuffer, BuffersCleared, ReapStream, Received, Clearing
<1>3. \A s \in Streams : Live(s) => Live(s)'
  <2>1. CASE HandleCloseStreams
    BY <1>0, <2>1 DEF HandleCloseStreams, SetError, Live, TypeOK
  <2>2. CASE HandleCreateStream
    BY <1>0, <2>2 DEF HandleCreateStream, Live, TypeOK
  <2> QED
    BY <2>1, <2>2
    DEF WakeUp, DrainEmpty, ReapDone, HandleCreateStreamFails, RemoveBlankBuffer, BuffersCleared,
        ReapStream, Live
<1>4. ASSUME NEW s \in Streams PROVE Answered(s)' = Answered(s)
  <2>1. CASE UNCHANGED toPw
    BY <2>1 DEF Answered
  <2>2. ASSUME NEW type \in {"CreateStream", "CloseStream"}, Received(type)
        PROVE  Answered(s)' = Answered(s)
    BY <1>0, <2>2, ReceiveIds
  <2> QED
    BY <2>1, <2>2
    DEF WakeUp, DrainEmpty, ReapDone, HandleCreateStream, HandleCreateStreamFails,
        HandleCloseStreams, RemoveBlankBuffer, BuffersCleared, ReapStream
<1>5. ASSUME NEW s \in Streams PROVE Wanted(s)' = Wanted(s)
  <2>1. CASE UNCHANGED fromPw
    BY <2>1 DEF Wanted
  <2>2. ASSUME NEW t, SetError(t)
        PROVE  Wanted(s)' = Wanted(s)
    BY <1>0, <2>2, SetErrorIds
  <2> QED
    BY <2>1, <2>2
    DEF WakeUp, DrainEmpty, ReapDone, HandleCreateStream, HandleCreateStreamFails,
        HandleCloseStreams, RemoveBlankBuffer, BuffersCleared, ReapStream
<1> QED
  BY <1>1, <1>2, <1>3, <1>4, <1>5, Quiet DEF Refines

\* Callbacks of streams that move no frame.
LEMMA RefinesQuietStream ==
    ASSUME FrameInv, NEW s \in Streams,
           \/ StatePaused(s) \/ StateError(s) \/ FormatProposed(s) \/ FormatCleared(s)
           \/ ClearBuffers(s) \/ HandleAddBuffer(s) \/ HandleAddBufferFails(s) \/ AddBufferRefused
    PROVE  Refines
<1> USE DEF shared, pwVars, streamVars, picomVars
<1>0. CycleInv /\ TypeOK
  BY DEF FrameInv, CycleInv, TypeInv
<1>1. UNCHANGED <<made, active, fences, outstanding, ready, bufs, free, toPw>>
  BY DEF StatePaused, StateError, FormatProposed, FormatCleared, ClearBuffers, HandleAddBuffer,
         HandleAddBufferFails, AddBufferRefused
<1>2. /\ pwPc' = "add" /\ oneshot' = "sent" => pwPc = "add" /\ oneshot = "sent" /\ cur' = cur
      /\ \A t \in Streams : Clearing(t) => Clearing(t)'
  BY DEF StatePaused, StateError, FormatProposed, FormatCleared, ClearBuffers, HandleAddBuffer,
         HandleAddBufferFails, AddBufferRefused, Clearing
<1>3. \A t \in Streams : Live(t) => Live(t)'
  BY <1>0
  DEF StatePaused, StateError, FormatProposed, FormatCleared, ClearBuffers, HandleAddBuffer,
      HandleAddBufferFails, AddBufferRefused, SetError, Live, TypeOK
<1>4. AddBuffer(s) \in FromPipewire /\ AddBuffer(s).type # "ActivateBuffer"
  BY MessageTypes DEF AddBuffer
<1>5. ASSUME NEW t \in Streams PROVE Wanted(t)' = Wanted(t)
  <2>1. CASE UNCHANGED fromPw
    BY <2>1 DEF Wanted
  <2>2. CASE SetError(s)
    BY <1>0, <2>2, SetErrorIds
  <2>3. CASE SendToPicom(AddBuffer(s))
    BY <1>0, <1>4, <2>3, SendIds
  <2> QED
    BY <2>1, <2>2, <2>3
    DEF StatePaused, StateError, FormatProposed, FormatCleared, ClearBuffers, HandleAddBuffer,
        HandleAddBufferFails, AddBufferRefused
<1>6. \A t \in Streams : Answered(t)' = Answered(t)
  BY <1>1 DEF Answered
<1> QED
  BY <1>1, <1>2, <1>3, <1>5, <1>6, Quiet DEF Refines

LEMMA RefinesQuietPresent ==
    ASSUME FrameInv,
           PresentBegin \/ PresentFails \/ ChannelEmpty \/ PresentEnd \/ ReceiveWakeMeUp
             \/ SendFails
    PROVE  Refines
<1> USE DEF shared, pwVars, streamVars, picomVars
<1>0. CycleInv
  BY DEF FrameInv
<1>1. UNCHANGED <<made, active, fences, outstanding, ready, bufs, free, toPw, pwPc, cur, oneshot,
                  state>>
  BY DEF PresentBegin, PresentFails, ChannelEmpty, PresentEnd, ReceiveWakeMeUp, SendFails
<1>2. \A t \in Streams : Wanted(t)' = Wanted(t)
  <2>1. CASE UNCHANGED fromPw
    BY <2>1 DEF Wanted
  <2>2. CASE Taken("WakeMeUp")
    BY <1>0, <2>2, TakeIds
  <2> QED
    BY <2>1, <2>2 DEF PresentBegin, PresentFails, ChannelEmpty, PresentEnd, ReceiveWakeMeUp, SendFails
<1>3. \A t \in Streams : Answered(t)' = Answered(t)
  BY <1>1 DEF Answered
<1> QED
  BY <1>1, <1>2, <1>3, Quiet DEF Refines, Clearing, Live

\* A step that moves the frame of s, but not to another buffer.
LEMMA FrameMoves ==
    ASSUME FrameInv, UNCHANGED <<made, outstanding, ready, bufs, free, pwPc, cur>>,
           pwPc = "add" /\ oneshot' = "sent" => oneshot = "sent",
           \A t \in Streams : Live(t) => Live(t)',
           NEW s \in Streams, Moves(s), InTheMaking(s)' \subseteq InTheMaking(s),
           \A t \in Streams : t # s =>
                /\ Wanted(t)' = Wanted(t) /\ ActiveOf(t)' = ActiveOf(t)
                /\ Answered(t)' = Answered(t) /\ FencesOf(t)' = FencesOf(t)
    PROVE  Refines
<1>1. ASSUME NEW t \in Streams, t # s
      PROVE  Still(t) /\ InTheMaking(t)' \subseteq InTheMaking(t)
  BY <1>1, QuietFrame DEF Still, Held
<1>2. ASSUME NEW t \in Streams PROVE Belongs(t)'
  <2>1. Belongs(t) /\ Known(t) \subseteq Known(t)'
    BY KnownGrows DEF FrameInv
  <2>2. ready'[t] => Live(t)'
    BY <2>1 DEF Belongs
  <2>3. InTheMaking(t)' \subseteq InTheMaking(t)
    BY <1>1
  <2> QED
    BY <2>1, <2>2, <2>3, BelongsKept DEF Clearing
<1> QED
  BY <1>1, <1>2, OneMoves DEF Refines

LEMMA RefinesAnswer ==
    ASSUME FrameInv, HandleNewFrame \/ HandleBufferError
    PROVE  Refines
<1> USE DEF shared, pwVars, streamVars, picomVars
<1>0. CycleInv /\ TypeOK
  BY DEF FrameInv, CycleInv, TypeInv
<1>1. PICK type \in {"NewFrame", "BufferError"} : Received(type)
  BY DEF HandleNewFrame, HandleBufferError
<1>a. PICK b \in BufIds : b = Head(toPw).id
  BY <1>0, <1>1, ReceivedType DEF CycleInv
<1>2. PICK s \in Streams : s = Owner(b)
  BY OwnerType
<1>3. /\ Answered(s) = {b} /\ Answered(s)' = {}
      /\ \A t \in Streams : t # s => Answered(t)' = Answered(t)
  BY <1>0, <1>1, <1>a, <1>2, ReceiveIds
<1>4. b \in IdsOf(s)
  BY <1>2 DEF BufIds, IdsOf, Owner
<1>5. /\ UNCHANGED <<made, active, outstanding, ready, bufs, free, pwPc, cur, oneshot>>
      /\ HandleNewFrame => UNCHANGED <<fromPw, state>>
      /\ HandleNewFrame => fences' = IF Live(s) THEN fences \cup {b} ELSE fences
      /\ HandleBufferError => fences' = fences /\ (SetError(s) \/ UNCHANGED <<state, fromPw>>)
  BY <1>a, <1>2 DEF HandleNewFrame, HandleBufferError
<1>6. ASSUME NEW t \in Streams PROVE Wanted(t)' = Wanted(t) /\ ActiveOf(t)' = ActiveOf(t)
  <2>1. CASE UNCHANGED fromPw
    BY <1>5, <2>1 DEF Wanted, ActiveOf
  <2>2. CASE SetError(s)
    BY <1>0, <1>5, <2>2, SetErrorIds DEF ActiveOf
  <2> QED
    BY <1>5, <2>1, <2>2
<1>7. Wanted(s) = {} /\ ActiveOf(s) = {} /\ FencesOf(s) = {} /\ InFlight(s)
  BY <1>0, <1>2, <1>3, Alone, EmptyIds
<1>8. ~ready[s] /\ ~ready'[s]
  BY <1>2, <1>5, <1>7, NotReady
<1>9. InTheMaking(s) = {b} /\ Stage(s) = "answered" /\ Target(s) = b
  BY <1>3, <1>7, Place
<1>10. \A t \in Streams : t # s => FencesOf(t)' = FencesOf(t)
  BY <1>4, <1>5 DEF FencesOf, IdsOf
<1>11. \A t \in Streams : Live(t) => Live(t)'
  BY <1>0, <1>5 DEF SetError, Live, TypeOK
<1>12. Held(s)' = Held(s)
  BY <1>5 DEF Held
<1>13. CASE FencesOf(s)' = {}
  <2>1. InTheMaking(s)' = {} /\ Stage(s)' = "rest" /\ Target(s)' = None
    BY <1>2, <1>3, <1>6, <1>7, <1>8, <1>13, PlaceNext
  <2> QED
    BY <1>2, <1>3, <1>5, <1>6, <1>9, <1>10, <1>11, <1>12, <2>1, FrameMoves DEF Moves
<1>14. CASE FencesOf(s)' = {b}
  <2>1. InTheMaking(s)' = {b} /\ Stage(s)' = "fenced" /\ Target(s)' = b
    BY <1>2, <1>3, <1>6, <1>7, <1>14, PlaceNext
  <2> QED
    BY <1>2, <1>3, <1>5, <1>6, <1>9, <1>10, <1>11, <1>12, <2>1, FrameMoves DEF Moves
<1>15. fences' = fences \/ fences' = fences \cup {b}
  BY <1>5
<1> QED
  BY <1>4, <1>7, <1>13, <1>14, <1>15 DEF FencesOf

LEMMA RefinesTake ==
    ASSUME FrameInv, ReceiveActivateBuffer
    PROVE  Refines
<1> USE DEF shared, pwVars, streamVars, picomVars
<1>0. CycleInv /\ TypeOK
  BY DEF FrameInv, CycleInv, TypeInv
<1>1. Taken("ActivateBuffer")
  BY DEF ReceiveActivateBuffer
<1>a. PICK b \in BufIds : b = Head(fromPw).id
  BY <1>0, <1>1, TakenType DEF CycleInv
<1>2. PICK s \in Streams : s = Owner(b)
  BY OwnerType
<1>3. b \in IdsOf(s) /\ \A t \in Streams : t # s => b \notin IdsOf(t)
  BY <1>2 DEF BufIds, IdsOf, Owner
<1>4. /\ Wanted(s) = {b} /\ Wanted(s)' = {}
      /\ \A t \in Streams : t # s => Wanted(t)' = Wanted(t)
  BY <1>0, <1>1, <1>a, <1>2, <1>3, TakeIds
<1>5. /\ UNCHANGED <<made, fences, outstanding, ready, bufs, free, pwPc, cur, oneshot, toPw, state>>
      /\ active' = active \cup {b}
  BY <1>a DEF ReceiveActivateBuffer
<1>6. ActiveOf(s) = {} /\ Answered(s) = {} /\ FencesOf(s) = {}
  BY <1>0, <1>2, <1>4, Alone
<1>7. InTheMaking(s) = {b} /\ Stage(s) = "wanted" /\ Target(s) = b
  BY <1>4, <1>6, Place
<1>8. ActiveOf(s)' = {b} /\ \A t \in Streams : t # s => ActiveOf(t)' = ActiveOf(t)
  BY <1>3, <1>5, <1>6 DEF ActiveOf
<1>9. \A t \in Streams : Answered(t)' = Answered(t) /\ FencesOf(t)' = FencesOf(t)
                         /\ Held(t)' = Held(t)
  BY <1>5 DEF Answered, FencesOf, Held
<1>10. InTheMaking(s)' = {b} /\ Stage(s)' = "taken" /\ Target(s)' = b
  BY <1>2, <1>4, <1>6, <1>8, <1>9, PlaceNext
<1>11. Moves(s)
  BY <1>2, <1>7, <1>9, <1>10 DEF Moves
<1> QED
  BY <1>2, <1>4, <1>5, <1>7, <1>8, <1>9, <1>10, <1>11, FrameMoves DEF Live
\* What a step leaves alone of a stream.
Elsewhere(t) ==
    /\ Wanted(t)' = Wanted(t) /\ ActiveOf(t)' = ActiveOf(t)
    /\ Answered(t)' = Answered(t) /\ FencesOf(t)' = FencesOf(t)
    /\ outstanding'[t] = outstanding[t] /\ ready'[t] = ready[t]
    /\ bufs'[t] = bufs[t] /\ free'[t] = free[t]
    /\ Known(t) \subseteq Known(t)'
    /\ Live(t) => Live(t)'
    /\ Clearing(t) => Clearing(t)'

LEMMA ElsewhereStill ==
    ASSUME FrameInv, NEW t \in Streams, Elsewhere(t)
    PROVE  Still(t) /\ Belongs(t)'
<1>1. Still(t) /\ InTheMaking(t)' = InTheMaking(t)
  BY QuietFrame DEF Elsewhere, Still, Held
<1>2. Belongs(t)
  BY DEF FrameInv
<1>3. ready'[t] => Live(t)'
  BY <1>2 DEF Elsewhere, Belongs
<1> QED
  BY <1>1, <1>2, <1>3, BelongsKept DEF Elsewhere

\* A step that concerns one stream.
LEMMA OneStream ==
    ASSUME FrameInv, NEW s \in Streams, Moves(s), Belongs(s)',
           \A t \in Streams : t # s => Elsewhere(t)
    PROVE  Refines
BY ElsewhereStill, OneMoves DEF Refines

LEMMA RefinesDiscard ==
    ASSUME FrameInv, ReceiveRemoveBuffers
    PROVE  Refines
<1> USE DEF shared, pwVars, streamVars, picomVars
<1>0. CycleInv /\ TypeOK
  BY DEF FrameInv, CycleInv, TypeInv
<1>1. Taken("RemoveBuffers")
  BY DEF ReceiveRemoveBuffers
<1>a. PICK b \in BufIds : b = Head(fromPw).id
  BY <1>0, <1>1, TakenType DEF CycleInv
<1>2. PICK s \in Streams : s = Owner(b)
  BY OwnerType
<1>3. \A t \in Streams : t # s => b \notin IdsOf(t)
  BY <1>2 DEF BufIds, IdsOf, Owner
<1>4. /\ UNCHANGED <<made, fences, outstanding, ready, bufs, free, pwPc, cur, oneshot, toPw, state>>
      /\ active' = active \ {b}
  BY <1>a DEF ReceiveRemoveBuffers, Discard
<1>5. \A t \in Streams : /\ Wanted(t)' = Wanted(t) /\ Answered(t)' = Answered(t)
                         /\ FencesOf(t)' = FencesOf(t) /\ Held(t)' = Held(t)
  <2>1. \A t \in Streams : Wanted(t)' = Wanted(t)
    BY <1>0, <1>1, TakeIds
  <2> QED
    BY <1>4, <2>1 DEF Answered, FencesOf, Held
<1>6. \A t \in Streams : t # s => ActiveOf(t)' = ActiveOf(t)
  BY <1>3, <1>4 DEF ActiveOf
<1>7. Moves(s) /\ InTheMaking(s)' \subseteq InTheMaking(s)
  <2>1. CASE ActiveOf(s)' = ActiveOf(s)
    BY <1>2, <1>4, <1>5, <2>1, QuietFrame DEF Moves
  <2>2. CASE ActiveOf(s)' # ActiveOf(s)
    <3>1. ActiveOf(s)' = {} /\ ActiveOf(s) = {b}
      BY <1>0, <1>2, <1>4, <2>2, Alone DEF ActiveOf, AtMostOne
    <3>2. Wanted(s) = {} /\ Answered(s) = {} /\ FencesOf(s) = {} /\ InFlight(s)
      BY <1>0, <1>2, <3>1, Alone, EmptyIds
    <3>3. ~ready[s] /\ ~ready'[s]
      BY <1>2, <1>4, <3>2, NotReady
    <3>4. InTheMaking(s) = {b} /\ Stage(s) = "taken"
      BY <3>1, <3>2, Place
    <3>5. InTheMaking(s)' = {} /\ Stage(s)' = "rest" /\ Target(s)' = None
      BY <1>2, <1>5, <3>1, <3>2, <3>3, PlaceNext
    <3> QED
      BY <1>2, <1>5, <3>4, <3>5 DEF Moves
  <2> QED
    BY <2>1, <2>2
<1> QED
  BY <1>2, <1>4, <1>5, <1>6, <1>7, FrameMoves DEF Live

LEMMA RefinesBlit ==
    ASSUME FrameInv, NEW b \in BufIds, Blit(b)
    PROVE  Refines
<1> USE DEF shared, pwVars, streamVars, picomVars
<1>0. CycleInv /\ TypeOK
  BY DEF FrameInv, CycleInv, TypeInv
<1>2. PICK s \in Streams : s = Owner(b)
  BY OwnerType
<1>3. b \in IdsOf(s) /\ \A t \in Streams : t # s => b \notin IdsOf(t)
  BY <1>2 DEF BufIds, IdsOf, Owner
<1>4. /\ UNCHANGED <<made, fences, outstanding, ready, bufs, free, pwPc, cur, oneshot, fromPw, state>>
      /\ b \in active /\ active' = active \ {b}
      /\ toPw' = toPw \/ \E m \in {NewFrame(b), BufferError(b)} : toPw' = Append(toPw, m)
  BY DEF Blit, GuardSend
<1>5. ActiveOf(s) = {b} /\ ActiveOf(s)' = {}
  BY <1>0, <1>2, <1>3, <1>4, Alone DEF ActiveOf, AtMostOne
<1>6. Wanted(s) = {} /\ Answered(s) = {} /\ FencesOf(s) = {} /\ InFlight(s)
  BY <1>0, <1>2, <1>5, Alone, EmptyIds
<1>7. ~ready[s] /\ ~ready'[s]
  BY <1>2, <1>4, <1>6, NotReady
<1>8. InTheMaking(s) = {b} /\ Stage(s) = "taken" /\ Target(s) = b
  BY <1>5, <1>6, Place
<1>9. \A t \in Streams : /\ Wanted(t)' = Wanted(t) /\ FencesOf(t)' = FencesOf(t)
                         /\ Held(t)' = Held(t)
                         /\ t # s => ActiveOf(t)' = ActiveOf(t)
  BY <1>3, <1>4 DEF Wanted, FencesOf, Held, ActiveOf
<1>10. /\ Answered(s)' \in {{}, {b}}
       /\ \A t \in Streams : t # s => Answered(t)' = Answered(t)
  <2>1. CASE toPw' = toPw
    BY <1>6, <2>1 DEF Answered
  <2>2. ASSUME NEW m \in {NewFrame(b), BufferError(b)}, toPw' = Append(toPw, m)
        PROVE  /\ Answered(s)' \in {{}, {b}}
               /\ \A t \in Streams : t # s => Answered(t)' = Answered(t)
    <3>1. m \in ToPipewire /\ m.id = b /\ toPw \in Seq(ToPipewire)
      <4>1. m \in ToPipewire
        BY MessageTypes
      <4>2. m.id = b
        BY DEF NewFrame, BufferError
      <4> QED
        BY <1>0, <4>1, <4>2 DEF TypeOK
    <3>2. m \in AnswersFor(s) /\ \A t \in Streams : t # s => m \notin AnswersFor(t)
      BY <1>3 DEF AnswersFor, NewFrame, BufferError
    <3> QED
      BY <1>6, <2>2, <3>1, <3>2, SentIds DEF Answered
  <2> QED
    BY <1>4, <2>1, <2>2
<1>11. Moves(s) /\ InTheMaking(s)' \subseteq InTheMaking(s)
  <2>1. CASE Answered(s)' = {}
    <3>1. InTheMaking(s)' = {} /\ Stage(s)' = "rest" /\ Target(s)' = None
      BY <1>2, <1>5, <1>6, <1>7, <1>9, <2>1, PlaceNext
    <3> QED
      BY <1>2, <1>8, <1>9, <3>1 DEF Moves
  <2>2. CASE Answered(s)' = {b}
    <3>1. InTheMaking(s)' = {b} /\ Stage(s)' = "answered" /\ Target(s)' = b
      BY <1>2, <1>5, <1>6, <1>9, <2>2, PlaceNext
    <3> QED
      BY <1>2, <1>8, <1>9, <3>1 DEF Moves
  <2> QED
    BY <1>10, <2>1, <2>2
<1> QED
  BY <1>2, <1>4, <1>9, <1>10, <1>11, FrameMoves DEF Live

LEMMA RefinesBail ==
    ASSUME FrameInv, ReceiveAddBufferFails
    PROVE  Refines
<1> USE DEF shared, pwVars, streamVars, picomVars
<1>0. CycleInv /\ TypeOK
  BY DEF FrameInv, CycleInv, TypeInv
<1>1. /\ UNCHANGED <<made, fences, outstanding, ready, bufs, free, pwPc, cur, toPw, state>>
      /\ active' = {} /\ oneshot' = "dropped" /\ Taken("AddBuffer")
  BY DEF ReceiveAddBufferFails
<1>2. ASSUME NEW s \in Streams
      PROVE  Abandons(s, "taken") /\ InTheMaking(s)' \subseteq InTheMaking(s)
  <2>1. /\ Wanted(s)' = Wanted(s) /\ Answered(s)' = Answered(s) /\ FencesOf(s)' = FencesOf(s)
        /\ Held(s)' = Held(s)
    <3>1. Wanted(s)' = Wanted(s)
      BY <1>0, <1>1, TakeIds
    <3> QED
      BY <1>1, <3>1 DEF Answered, FencesOf, Held
  <2>2. ActiveOf(s)' = {}
    BY <1>1 DEF ActiveOf
  <2>3. CASE ActiveOf(s) = {}
    <3>1. /\ Stage(s)' = Stage(s) /\ Target(s)' = Target(s)
          /\ InTheMaking(s)' = InTheMaking(s)
      BY <1>1, <2>1, <2>2, <2>3, QuietFrame
    <3>2. Stage(s) # "taken"
      BY <2>3, StageNow DEF StageOf
    <3> QED
      BY <2>1, <3>1, <3>2 DEF Abandons
  <2>4. CASE ActiveOf(s) # {}
    <3>1. PICK b : ActiveOf(s) = {b}
      BY <1>0, <2>4, Alone DEF AtMostOne
    <3>2. Wanted(s) = {} /\ Answered(s) = {} /\ FencesOf(s) = {} /\ InFlight(s)
      BY <1>0, <2>4, Alone, EmptyIds
    <3>3. ~ready[s] /\ ~ready'[s]
      BY <1>1, <3>2, NotReady
    <3>4. Stage(s) = "taken"
      BY <3>1, <3>2, Place
    <3>5. InTheMaking(s)' = {} /\ Stage(s)' = "rest" /\ Target(s)' = None
      BY <2>1, <2>2, <3>2, <3>3, PlaceNext
    <3> QED
      BY <2>1, <3>4, <3>5 DEF Abandons
  <2> QED
    BY <2>3, <2>4
<1>3. ASSUME NEW s \in Streams PROVE Belongs(s)'
  <2>1. Belongs(s) /\ Known(s) \subseteq Known(s)'
    BY <1>0, <1>1, KnownGrows DEF FrameInv
  <2>2. ready'[s] => Live(s)'
    BY <1>1, <2>1 DEF Belongs, Live
  <2> QED
    BY <1>1, <1>2, <2>1, <2>2, BelongsKept DEF Clearing
<1> QED
  BY <1>2, <1>3, AllAbandon DEF Refines

LEMMA RefinesUnload ==
    ASSUME FrameInv, Unload
    PROVE  Refines
<1> USE DEF shared, pwVars, streamVars, picomVars
<1>0. CycleInv /\ TypeOK
  BY DEF FrameInv, CycleInv, TypeInv
<1>1. /\ UNCHANGED <<made, active, fences, outstanding, ready, bufs, free, pwPc, cur, toPw, state>>
      /\ fromPw' = <<>> /\ oneshot' \in {"dropped", oneshot}
  BY DEF Unload
<1>2. ASSUME NEW s \in Streams
      PROVE  Abandons(s, "wanted") /\ InTheMaking(s)' \subseteq InTheMaking(s)
  <2>1. /\ ActiveOf(s)' = ActiveOf(s) /\ Answered(s)' = Answered(s) /\ FencesOf(s)' = FencesOf(s)
        /\ Held(s)' = Held(s)
    BY <1>1 DEF ActiveOf, Answered, FencesOf, Held
  <2>2. Wanted(s)' = {}
    BY <1>1 DEF Wanted, IdsIn, Positions
  <2>3. CASE Wanted(s) = {}
    <3>1. /\ Stage(s)' = Stage(s) /\ Target(s)' = Target(s)
          /\ InTheMaking(s)' = InTheMaking(s)
      BY <1>1, <2>1, <2>2, <2>3, QuietFrame
    <3>2. Stage(s) # "wanted"
      BY <2>3, StageNow DEF StageOf
    <3> QED
      BY <2>1, <3>1, <3>2 DEF Abandons
  <2>4. CASE Wanted(s) # {}
    <3>1. ActiveOf(s) = {} /\ Answered(s) = {} /\ FencesOf(s) = {} /\ InFlight(s)
      BY <1>0, <2>4, Alone, EmptyIds
    <3>2. ~ready[s] /\ ~ready'[s]
      BY <1>1, <3>1, NotReady
    <3>3. Stage(s) = "wanted"
      BY <2>4, StageNow DEF StageOf
    <3>4. InTheMaking(s)' = {} /\ Stage(s)' = "rest" /\ Target(s)' = None
      BY <2>1, <2>2, <3>1, <3>2, PlaceNext
    <3> QED
      BY <2>1, <3>3, <3>4 DEF Abandons
  <2> QED
    BY <2>3, <2>4
<1>3. ASSUME NEW s \in Streams PROVE Belongs(s)'
  <2>1. Belongs(s) /\ Known(s) \subseteq Known(s)'
    BY <1>0, <1>1, KnownGrows DEF FrameInv
  <2>2. ready'[s] => Live(s)'
    BY <1>1, <2>1 DEF Belongs, Live
  <2> QED
    BY <1>1, <1>2, <2>1, <2>2, BelongsKept DEF Clearing
<1> QED
  BY <1>2, <1>3, AllAbandon DEF Refines

LEMMA RefinesImport ==
    ASSUME FrameInv, ReceiveAddBuffer
    PROVE  Refines
<1> USE DEF shared, pwVars, streamVars, picomVars
<1>0. CycleInv /\ TypeInv /\ TypeOK
  BY DEF FrameInv, CycleInv, TypeInv
<1>1. PICK s \in Streams : s = Head(fromPw).stream /\ Adds(s) # {}
  BY <1>0, TakenType DEF ReceiveAddBuffer
<1>2. pwPc = "add" /\ cur = s /\ oneshot = "empty" /\ made[s] \in Nat
  BY <1>0, <1>1 DEF TypeInv, AddInProgress, TypeOK
<1>3. /\ UNCHANGED <<active, fences, outstanding, ready, bufs, free, pwPc, cur, toPw, state>>
      /\ made' = [made EXCEPT ![s] = made[s] + 1] /\ oneshot' = "sent" /\ Taken("AddBuffer")
  BY <1>1 DEF ReceiveAddBuffer, Import
<1>4. ASSUME NEW t \in Streams PROVE Known(t)' = Known(t)
  <2>1. CASE t = s
    <3>1. made'[s] - 1 = made[s]
      BY <1>0, <1>1, <1>2, <1>3 DEF TypeOK
    <3> QED
      BY <1>2, <1>3, <2>1, <3>1 DEF Known
  <2>2. CASE t # s
    BY <1>0, <1>2, <1>3, <2>2 DEF Known, TypeOK
  <2> QED
    BY <2>1, <2>2
<1>5. ASSUME NEW t \in Streams PROVE Elsewhere(t)
  <2>1. Wanted(t)' = Wanted(t)
    BY <1>0, <1>3, TakeIds
  <2> QED
    BY <1>3, <1>4, <2>1 DEF Elsewhere, ActiveOf, Answered, FencesOf, Live, Clearing
<1> QED
  BY <1>5, ElsewhereStill, StillStep DEF Refines

LEMMA RefinesDropped ==
    ASSUME FrameInv, StreamDropped
    PROVE  Refines
<1> USE DEF shared, pwVars, streamVars, picomVars
<1>0. CycleInv /\ TypeInv /\ TypeOK
  BY DEF FrameInv, CycleInv, TypeInv
<1>1. PICK s \in Streams : s = cur
  BY <1>0 DEF TypeOK, StreamDropped
<1>2. /\ UNCHANGED <<made, active, fences, bufs, free, toPw, fromPw, oneshot>>
      /\ bufs[s] = {} /\ pwPc' = "reap" /\ pwPc = "destroy"
      /\ state' = [state EXCEPT ![s] = "gone"]
      /\ outstanding' = [outstanding EXCEPT ![s] = None]
      /\ ready' = [ready EXCEPT ![s] = FALSE]
  BY <1>1 DEF StreamDropped
<1>3. \A t \in Streams : Known(t)' = Known(t)
  BY <1>2 DEF Known
<1>4. \A t \in Streams : /\ Wanted(t)' = Wanted(t) /\ Answered(t)' = Answered(t)
                         /\ FencesOf(t)' = FencesOf(t) /\ ActiveOf(t)' = ActiveOf(t)
  BY <1>2 DEF Wanted, Answered, FencesOf, ActiveOf
<1>5. \A t \in Streams : t # s => Elsewhere(t)
  BY <1>0, <1>1, <1>2, <1>3, <1>4 DEF Elsewhere, Live, Clearing, TypeOK
<1>6. outstanding'[s] = None /\ ready'[s] = FALSE /\ ready[s] \in BOOLEAN
  BY <1>0, <1>2 DEF TypeOK
<1>7. Belongs(s)'
  <2>1. Belongs(s)
    BY DEF FrameInv
  <2> QED
    BY <1>2, <1>3, <1>6, <2>1 DEF Belongs, Stale
<1>8. Held(s) = {} /\ Held(s)' = {}
  BY <1>2 DEF Held
<1>9. Moves(s)
  <2>1. CASE ready'[s] = ready[s] \/ InFlight(s)
    BY <1>4, <1>8, <2>1, QuietFrame DEF Moves
  <2>2. CASE ready[s] /\ ~InFlight(s)
    <3>1. Wanted(s) = {} /\ ActiveOf(s) = {} /\ Answered(s) = {} /\ FencesOf(s) = {}
      BY <2>2, EmptyIds DEF InFlight
    <3>2. Stage(s) = "ready"
      BY <2>2, <3>1, Place
    <3>3. Stage(s)' = "rest" /\ Target(s)' = None
      BY <1>4, <1>6, <3>1, PlaceNext
    <3> QED
      BY <1>8, <3>2, <3>3 DEF Moves
  <2> QED
    BY <1>6, <2>1, <2>2
<1> QED
  BY <1>5, <1>7, <1>9, OneStream

LEMMA RefinesRemove ==
    ASSUME FrameInv, NEW b \in BufIds, RemoveBuffer(b)
    PROVE  Refines
<1> USE DEF shared, pwVars, streamVars, picomVars
<1>0. CycleInv /\ TypeInv /\ TypeOK
  BY DEF FrameInv, CycleInv, TypeInv
<1>1. PICK s \in Streams : s = cur
  BY OwnerType DEF RemoveBuffer
<1>2. /\ UNCHANGED <<made, active, fences, outstanding, ready, state, pwPc, cur, toPw, oneshot>>
      /\ pwPc \in {"clear", "destroy"}
      /\ bufs' = [bufs EXCEPT ![s] = bufs[s] \ {b}]
      /\ free' = [free EXCEPT ![s] = free[s] \ {b}]
      /\ SendToPicom(RemoveBuffers(b))
  BY <1>1 DEF RemoveBuffer, TellRemoved
<1>3. /\ bufs'[s] = bufs[s] \ {b} /\ free'[s] = free[s] \ {b}
      /\ \A t \in Streams : t # s => bufs'[t] = bufs[t] /\ free'[t] = free[t]
  BY <1>0, <1>2 DEF TypeOK
<1>4. \A t \in Streams : Known(t)' = Known(t)
  BY <1>2 DEF Known
<1>5. ASSUME NEW t \in Streams
      PROVE  /\ Wanted(t)' = Wanted(t) /\ Answered(t)' = Answered(t)
             /\ FencesOf(t)' = FencesOf(t) /\ ActiveOf(t)' = ActiveOf(t)
  <2>1. RemoveBuffers(b) \in FromPipewire /\ RemoveBuffers(b).type # "ActivateBuffer"
    BY MessageTypes DEF RemoveBuffers
  <2>2. Wanted(t)' = Wanted(t)
    BY <1>0, <1>2, <2>1, SendIds
  <2> QED
    BY <1>2, <2>2 DEF Answered, FencesOf, ActiveOf
<1>6. \A t \in Streams : t # s => Elsewhere(t)
  BY <1>2, <1>3, <1>4, <1>5 DEF Elsewhere, Live, Clearing
<1>7. /\ Stage(s)' = Stage(s) /\ Target(s)' = Target(s) /\ InTheMaking(s)' = InTheMaking(s)
  BY <1>2, <1>5, QuietFrame
<1>8. Belongs(s)'
  <2>1. Belongs(s)
    BY DEF FrameInv
  <2> QED
    BY <1>1, <1>2, <1>3, <1>4, <1>7, <2>1 DEF Belongs, Stale, Clearing, Live
<1>9. Moves(s)
  BY <1>2, <1>3, <1>7 DEF Moves, Held
<1> QED
  BY <1>6, <1>8, <1>9, OneStream

LEMMA RefinesRecycle ==
    ASSUME FrameInv, NEW b \in BufIds, Recycle(b)
    PROVE  Refines
<1> USE DEF shared, pwVars, streamVars, picomVars
<1>0. CycleInv /\ TypeInv /\ TypeOK
  BY DEF FrameInv, CycleInv, TypeInv
<1>1. PICK s \in Streams : s = Owner(b)
  BY OwnerType
<1>2. /\ UNCHANGED <<made, active, fences, outstanding, ready, bufs, state, pwPc, cur, toPw, fromPw,
                     oneshot>>
      /\ b \in Held(s) /\ free' = [free EXCEPT ![s] = free[s] \cup {b}]
  BY <1>1 DEF Recycle
<1>3. /\ free'[s] = free[s] \cup {b}
      /\ \A t \in Streams : t # s => free'[t] = free[t]
  BY <1>0, <1>2 DEF TypeOK
<1>4. \A t \in Streams : Known(t)' = Known(t)
  BY <1>2 DEF Known
<1>5. \A t \in Streams : /\ Wanted(t)' = Wanted(t) /\ Answered(t)' = Answered(t)
                         /\ FencesOf(t)' = FencesOf(t) /\ ActiveOf(t)' = ActiveOf(t)
  BY <1>2 DEF Wanted, Answered, FencesOf, ActiveOf
<1>6. \A t \in Streams : t # s => Elsewhere(t)
  BY <1>2, <1>3, <1>4, <1>5 DEF Elsewhere, Live, Clearing
<1>7. /\ Stage(s)' = Stage(s) /\ Target(s)' = Target(s) /\ InTheMaking(s)' = InTheMaking(s)
  BY <1>2, <1>5, QuietFrame
<1>8. Belongs(s)'
  <2>1. Belongs(s)
    BY DEF FrameInv
  <2> QED
    BY <1>2, <1>3, <1>4, <1>7, <2>1 DEF Belongs, Stale, Clearing, Live, Held
<1>9. Moves(s)
  BY <1>2, <1>3, <1>7 DEF Moves, Held
<1> QED
  BY <1>6, <1>8, <1>9, OneStream

LEMMA RefinesReplied ==
    ASSUME FrameInv, AddBufferReplied
    PROVE  Refines
<1> USE DEF shared, pwVars, streamVars, picomVars
<1>0. CycleInv /\ TypeInv /\ TypeOK
  BY DEF FrameInv, CycleInv, TypeInv
<1>1. PICK s \in Streams : s = cur
  BY <1>0 DEF TypeOK, AddBufferReplied
<1>2. PICK n : n = <<s, made[s]>>
  OBVIOUS
<1>3. /\ UNCHANGED <<made, active, fences, outstanding, ready, toPw>>
      /\ pwPc = "add" /\ oneshot = "sent" /\ pwPc' = "idle"
      /\ bufs' = [bufs EXCEPT ![s] = bufs[s] \cup {n}]
      /\ free' = [free EXCEPT ![s] = free[s] \cup {n}]
      /\ UNCHANGED <<state, fromPw>> \/ SetError(s)
  BY <1>1, <1>2 DEF AddBufferReplied
<1>4. /\ bufs'[s] = bufs[s] \cup {n} /\ free'[s] = free[s] \cup {n}
      /\ \A t \in Streams : t # s => bufs'[t] = bufs[t] /\ free'[t] = free[t]
  BY <1>0, <1>3 DEF TypeOK
<1>5. n \notin Known(s) /\ Known(s)' = Known(s) \cup {n} /\ n # None
  <2>1. made[s] \in Nat \ {0} /\ made[s] \in 0..MaxBuffers /\ made'[s] = made[s]
    BY <1>0, <1>1, <1>3, MaxBuffersAssumption DEF TypeInv, AddAnswered, TypeOK
  <2>2. Known(s) = {s} \X (1..(made[s] - 1)) /\ Known(s)' = {s} \X (1..made[s])
    BY <1>1, <1>3 DEF Known
  <2>3. 1..made[s] = (1..(made[s] - 1)) \cup {made[s]} /\ made[s] \notin 1..(made[s] - 1)
    BY <2>1
  <2>4. n \in BufIds
    BY <1>2, <2>1, MaxBuffersAssumption DEF BufIds
  <2> QED
    BY <1>2, <2>2, <2>3, <2>4, NoneAssumption
<1>6. \A t \in Streams : t # s => Known(t)' = Known(t)
  BY <1>1, <1>3 DEF Known
<1>7. ASSUME NEW t \in Streams
      PROVE  /\ Wanted(t)' = Wanted(t) /\ Answered(t)' = Answered(t)
             /\ FencesOf(t)' = FencesOf(t) /\ ActiveOf(t)' = ActiveOf(t)
  <2>1. CASE UNCHANGED fromPw
    BY <1>3, <2>1 DEF Wanted, Answered, FencesOf, ActiveOf
  <2>2. CASE SetError(s)
    BY <1>0, <1>3, <2>2, SetErrorIds DEF Answered, FencesOf, ActiveOf
  <2> QED
    BY <1>3, <2>1, <2>2
<1>8. \A t \in Streams : Live(t) => Live(t)'
  BY <1>0, <1>3 DEF SetError, Live, TypeOK
<1>9. \A t \in Streams : t # s => Elsewhere(t)
  BY <1>3, <1>4, <1>6, <1>7, <1>8 DEF Elsewhere, Clearing
<1>10. /\ Stage(s)' = Stage(s) /\ Target(s)' = Target(s) /\ InTheMaking(s)' = InTheMaking(s)
  BY <1>3, <1>7, QuietFrame
<1>11. Belongs(s) /\ n \notin bufs[s] /\ n # outstanding[s] /\ outstanding'[s] = outstanding[s]
  BY <1>3, <1>5 DEF FrameInv, Belongs
<1>12. Belongs(s)'
  BY <1>3, <1>4, <1>5, <1>8, <1>10, <1>11 DEF Belongs, Stale, Clearing
<1>13. Moves(s)
  BY <1>4, <1>10, <1>11 DEF Moves, Held
<1> QED
  BY <1>9, <1>12, <1>13, OneStream
\* The activation of a buffer of s.
LEMMA Activates ==
    ASSUME FrameInv, NEW s \in Streams, NEW b \in IdsOf(s), SendToPicom(ActivateBuffer(b)),
           Wanted(s) = {}
    PROVE  /\ Wanted(s)' = {b} /\ b \in BufIds
           /\ \A t \in Streams : t # s => Wanted(t)' = Wanted(t)
<1>1. b \in BufIds /\ \A t \in Streams : t # s => b \notin IdsOf(t)
  BY DEF BufIds, IdsOf
<1>2. ActivateBuffer(b) \in FromPipewire /\ ActivateBuffer(b).id = b
  BY <1>1, MessageTypes DEF ActivateBuffer
<1>3. /\ ActivateBuffer(b) \in ActivationsFor(s)
      /\ \A t \in Streams : t # s => ActivateBuffer(b) \notin ActivationsFor(t)
  BY <1>1 DEF ActivationsFor, ActivateBuffer
<1>4. CycleInv
  BY DEF FrameInv
<1> QED
  BY <1>1, <1>2, <1>3, <1>4, SendIds

\* send_buffer, called when s has no outstanding buffer any more and no frame
\* under way: the next buffer is wanted, or there is none.
LEMMA NextWanted ==
    ASSUME FrameInv, NEW s \in Streams, SendBuffer(s, TRUE, None, free[s]),
           UNCHANGED <<made, bufs, active, toPw, pwPc, cur, oneshot>>,
           Wanted(s) = {}, ActiveOf(s)' = {}, Answered(s)' = {}, FencesOf(s)' = {},
           ready'[s] = FALSE, \A t \in Streams : Live(t) => Live(t)',
           \A t \in Streams : t # s => FencesOf(t)' = FencesOf(t) /\ ready'[t] = ready[t]
    PROVE  /\ Held(s)' = bufs[s] \ free[s]
           /\ \/ Stage(s)' = "rest" /\ Target(s)' = None
              \/ Stage(s)' = "wanted" /\ Target(s)' \in BufIds \ Held(s)'
           /\ Belongs(s)'
           /\ \A t \in Streams : t # s => Elsewhere(t)
<1>0. CycleInv /\ TypeOK
  BY DEF FrameInv, CycleInv, TypeInv
<1>1. /\ Belongs(s) /\ free[s] \subseteq bufs[s] /\ bufs[s] \subseteq IdsOf(s)
      /\ None \notin bufs[s]
  <2>1. Belongs(s) /\ bufs[s] \subseteq IdsOf(s)
    BY <1>0 DEF FrameInv, CycleInv, OwnIds
  <2>2. None \notin bufs[s]
    BY <1>0, NoneAssumption DEF TypeOK
  <2> QED
    BY <2>1, <2>2 DEF Belongs
<1>2. \A t \in Streams : Known(t)' = Known(t)
  BY DEF Known
<1>3. \A t \in Streams : ActiveOf(t)' = ActiveOf(t) /\ Answered(t)' = Answered(t)
  BY DEF ActiveOf, Answered
<1>4. CASE free[s] = {}
  <2>1. /\ outstanding' = [outstanding EXCEPT ![s] = None] /\ free' = [free EXCEPT ![s] = {}]
        /\ UNCHANGED fromPw
    BY <1>4 DEF SendBuffer
  <2>2. outstanding'[s] = None /\ free'[s] = {}
        /\ \A t \in Streams : t # s => outstanding'[t] = outstanding[t] /\ free'[t] = free[t]
    BY <1>0, <2>1 DEF TypeOK
  <2>3. \A t \in Streams : Wanted(t)' = Wanted(t)
    BY <2>1 DEF Wanted
  <2>4. InTheMaking(s)' = {} /\ Stage(s)' = "rest" /\ Target(s)' = None
    BY <2>3, PlaceNext
  <2>5. Held(s)' = bufs[s] \ free[s]
    BY <1>1, <1>4, <2>2 DEF Held
  <2>6. Belongs(s)'
    BY <1>1, <1>2, <2>2, <2>4 DEF Belongs, Stale
  <2>7. \A t \in Streams : t # s => Elsewhere(t)
    BY <1>2, <1>3, <2>2, <2>3 DEF Elsewhere, Clearing
  <2> QED
    BY <2>4, <2>5, <2>6, <2>7
<1>5. CASE free[s] # {}
  <2>1. PICK b \in free[s] :
           /\ outstanding' = [outstanding EXCEPT ![s] = b]
           /\ free' = [free EXCEPT ![s] = free[s] \ {b}]
           /\ SendToPicom(ActivateBuffer(b))
    BY <1>5 DEF SendBuffer
  <2>2. outstanding'[s] = b /\ free'[s] = free[s] \ {b}
        /\ \A t \in Streams : t # s => outstanding'[t] = outstanding[t] /\ free'[t] = free[t]
    BY <1>0, <2>1 DEF TypeOK
  <2>3. /\ b \in IdsOf(s) /\ Wanted(s)' = {b} /\ b \in BufIds
        /\ \A t \in Streams : t # s => Wanted(t)' = Wanted(t)
    BY <1>1, <2>1, Activates
  <2>4. InTheMaking(s)' = {b} /\ Stage(s)' = "wanted" /\ Target(s)' = b
    BY <2>3, PlaceNext
  <2>5. Held(s)' = bufs[s] \ free[s]
    BY <1>1, <2>1, <2>2 DEF Held
  <2>6. Belongs(s)'
    BY <1>1, <1>2, <2>1, <2>2, <2>4 DEF Belongs, Stale
  <2>7. \A t \in Streams : t # s => Elsewhere(t)
    BY <1>2, <1>3, <2>2, <2>3 DEF Elsewhere, Clearing
  <2> QED
    BY <2>1, <2>3, <2>4, <2>5, <2>6, <2>7
<1> QED
  BY <1>4, <1>5

LEMMA RefinesStreaming ==
    ASSUME FrameInv, NEW s \in Streams, StateStreaming(s)
    PROVE  Refines
<1> USE DEF shared, pwVars, streamVars, picomVars
<1>0. CycleInv /\ TypeOK
  BY DEF FrameInv, CycleInv, TypeInv
<1>1. /\ UNCHANGED <<made, bufs, active, fences, toPw, pwPc, cur, oneshot>>
      /\ pwPc = "idle" /\ state[s] = "paused" /\ Live(s)
      /\ state' = [state EXCEPT ![s] = "streaming"] /\ Resume(s)
  BY DEF StateStreaming, Live
<1>2. \A t \in Streams : Live(t) => Live(t)'
  BY <1>0, <1>1 DEF Live, TypeOK
<1>3. \A t \in Streams : Known(t)' = Known(t)
  BY <1>1 DEF Known
<1>4. \A t \in Streams : /\ ActiveOf(t)' = ActiveOf(t) /\ Answered(t)' = Answered(t)
                         /\ FencesOf(t)' = FencesOf(t)
  BY <1>1 DEF ActiveOf, Answered, FencesOf
<1>5. Belongs(s) /\ Flight(s) /\ ready[s] \in BOOLEAN
  BY <1>0 DEF FrameInv, CycleInv, TypeOK
<1>6. CASE ready[s]
  <2>1. outstanding[s] # None /\ ~InFlight(s)
    BY <1>1, <1>5, <1>6, NotReady DEF Flight
  <2>2. PICK b \in Deref(s) : SendToPicom(ActivateBuffer(b))
    BY <1>1, <1>6, <2>1 DEF Resume
  <2>3. /\ ready' = [ready EXCEPT ![s] = FALSE] /\ UNCHANGED <<outstanding, free>>
    BY <1>1, <1>6 DEF Resume
  <2>4. ready'[s] = FALSE /\ \A t \in Streams : t # s => ready'[t] = ready[t]
    BY <1>0, <2>3 DEF TypeOK
  <2>5. Wanted(s) = {} /\ ActiveOf(s) = {} /\ Answered(s) = {} /\ FencesOf(s) = {}
    BY <2>1, EmptyIds DEF InFlight
  <2>6. b \in IdsOf(s)
    BY <1>0, <2>1, <2>2 DEF Deref, CycleInv, OwnIds
  <2>7. /\ Wanted(s)' = {b} /\ b \in BufIds
        /\ \A t \in Streams : t # s => Wanted(t)' = Wanted(t)
    BY <2>2, <2>5, <2>6, Activates
  <2>8. Stage(s) = "ready" /\ Target(s) = None
    BY <1>6, <2>5, Place
  <2>9. InTheMaking(s)' = {b} /\ Stage(s)' = "wanted" /\ Target(s)' = b
    BY <1>4, <2>5, <2>7, PlaceNext
  <2>10. b \notin Held(s) /\ Held(s)' = Held(s)
    BY <1>1, <1>5, <2>1, <2>2, <2>3 DEF Held, Deref, Belongs, Stale, Clearing
  <2>11. Belongs(s)'
    BY <1>1, <1>3, <1>5, <2>2, <2>3, <2>4, <2>9 DEF Belongs, Stale, Clearing, Deref
  <2>12. \A t \in Streams : t # s => Elsewhere(t)
    BY <1>1, <1>2, <1>3, <1>4, <2>3, <2>4, <2>7 DEF Elsewhere, Clearing
  <2>13. Moves(s)
    BY <2>7, <2>8, <2>9, <2>10 DEF Moves
  <2> QED
    BY <2>11, <2>12, <2>13, OneStream
<1>7. CASE ~ready[s]
  <2>1. SendBuffer(s, TRUE, outstanding[s], free[s]) /\ UNCHANGED ready
    BY <1>1, <1>7 DEF Resume
  <2>2. CASE outstanding[s] = None
    <3>1. ~InFlight(s)
      BY <1>1, <1>5, <2>2 DEF Flight
    <3>2. Wanted(s) = {} /\ ActiveOf(s) = {} /\ Answered(s) = {} /\ FencesOf(s) = {}
      BY <3>1, EmptyIds DEF InFlight
    <3>3. Stage(s) = "rest" /\ Target(s) = None
      BY <1>7, <3>2, Place
    <3>4. /\ Held(s)' = bufs[s] \ free[s]
          /\ \/ Stage(s)' = "rest" /\ Target(s)' = None
             \/ Stage(s)' = "wanted" /\ Target(s)' \in BufIds \ Held(s)'
          /\ Belongs(s)'
          /\ \A t \in Streams : t # s => Elsewhere(t)
      BY <1>1, <1>2, <1>4, <1>5, <1>7, <2>1, <2>2, <3>2, NextWanted
    <3>5. Held(s) = bufs[s] \ free[s]
      BY <1>0, <2>2, NoneAssumption DEF Held, TypeOK
    <3> QED
      BY <3>3, <3>4, <3>5, OneStream DEF Moves
  <2>3. CASE outstanding[s] # None
    <3>1. UNCHANGED <<outstanding, free, fromPw>>
      BY <1>0, <2>1, <2>3 DEF SendBuffer, TypeOK
    <3>2. \A t \in Streams : Elsewhere(t)
      BY <1>1, <1>2, <1>3, <1>4, <2>1, <3>1 DEF Elsewhere, Clearing, Wanted
    <3> QED
      BY <3>2, ElsewhereStill, StillStep DEF Refines
  <2> QED
    BY <2>2, <2>3
<1> QED
  BY <1>5, <1>6, <1>7

LEMMA RefinesFence ==
    ASSUME FrameInv, NEW b \in BufIds, FenceFired(b)
    PROVE  Refines
<1> USE DEF shared, pwVars, streamVars, picomVars
<1>0. CycleInv /\ TypeOK
  BY DEF FrameInv, CycleInv, TypeInv
<1>1. PICK s \in Streams : s = Owner(b)
  BY OwnerType
<1>2. b \in IdsOf(s) /\ \A t \in Streams : t # s => b \notin IdsOf(t)
  BY <1>1 DEF BufIds, IdsOf, Owner
<1>3. /\ UNCHANGED <<made, bufs, active, toPw, pwPc, cur, oneshot>>
      /\ pwPc = "idle" /\ b \in fences /\ fences' = fences \ {b}
  BY DEF FenceFired
<1>4. FencesOf(s) = {b} /\ FencesOf(s)' = {}
  BY <1>0, <1>1, <1>2, <1>3, Alone DEF FencesOf, AtMostOne
<1>5. \A t \in Streams : t # s => FencesOf(t)' = FencesOf(t)
  BY <1>2, <1>3 DEF FencesOf
<1>6. Wanted(s) = {} /\ ActiveOf(s) = {} /\ Answered(s) = {} /\ InFlight(s)
  BY <1>0, <1>1, <1>4, Alone, EmptyIds
<1>7. \A t \in Streams : ActiveOf(t)' = ActiveOf(t) /\ Answered(t)' = Answered(t)
  BY <1>3 DEF ActiveOf, Answered
<1>8. InTheMaking(s) = {b} /\ Stage(s) = "fenced" /\ Target(s) = b /\ ~ready[s]
  BY <1>1, <1>4, <1>6, Place, NotReady
<1>9. Belongs(s) /\ ready[s] \in BOOLEAN /\ None \notin bufs[s]
  BY <1>0, NoneAssumption DEF FrameInv, TypeOK
<1>10. \A t \in Streams : Known(t)' = Known(t)
  BY <1>3 DEF Known
<1>11. CASE state[s] = "streaming" /\ Process(s) /\ UNCHANGED state
  <2>1. ready'[s] = FALSE /\ \A t \in Streams : t # s => ready'[t] = ready[t]
    BY <1>0, <1>11 DEF Process, TypeOK
  <2>2. /\ Held(s)' = bufs[s] \ free[s]
        /\ \/ Stage(s)' = "rest" /\ Target(s)' = None
           \/ Stage(s)' = "wanted" /\ Target(s)' \in BufIds \ Held(s)'
        /\ Belongs(s)'
        /\ \A t \in Streams : t # s => Elsewhere(t)
    <3>1. SendBuffer(s, TRUE, None, free[s]) /\ \A t \in Streams : Live(t) => Live(t)'
      BY <1>11 DEF Process, Live
    <3> QED
      BY <1>3, <1>4, <1>5, <1>6, <1>7, <2>1, <3>1, NextWanted
  <2>3. Held(s)' \in {Held(s), Held(s) \cup {b}}
    BY <1>8, <1>9, <2>2 DEF Held, Belongs
  <2> QED
    BY <1>8, <2>2, <2>3, OneStream DEF Moves
<1>12. CASE /\ UNCHANGED <<outstanding, free>>
            /\ ready' \in {[ready EXCEPT ![s] = TRUE], [ready EXCEPT ![s] = Live(s)]}
            /\ ready'[s] => Live(s)
            /\ SetError(s) \/ UNCHANGED <<state, fromPw>>
  <2>1. ready'[s] \in BOOLEAN /\ \A t \in Streams : t # s => ready'[t] = ready[t]
    BY <1>0, <1>12 DEF TypeOK, Live
  <2>2. \A t \in Streams : Wanted(t)' = Wanted(t) /\ (Live(t) => Live(t)')
    <3>1. CASE SetError(s)
      BY <1>0, <3>1, SetErrorIds DEF SetError, Live, TypeOK
    <3>2. CASE UNCHANGED <<state, fromPw>>
      BY <3>2 DEF Wanted, Live
    <3> QED
      BY <1>12, <3>1, <3>2
  <2>3. /\ InTheMaking(s)' = {} /\ Target(s)' = None
        /\ Stage(s)' \in {"ready", "rest"}
    BY <1>4, <1>6, <1>7, <2>1, <2>2, PlaceNext
  <2>4. Belongs(s)'
    BY <1>3, <1>9, <1>10, <1>12, <2>1, <2>2, <2>3 DEF Belongs, Stale, Clearing
  <2>5. Held(s)' = Held(s)
    BY <1>3, <1>12 DEF Held
  <2>6. \A t \in Streams : t # s => Elsewhere(t)
    BY <1>3, <1>5, <1>7, <1>10, <1>12, <2>1, <2>2 DEF Elsewhere, Clearing
  <2> QED
    BY <1>8, <2>3, <2>4, <2>5, <2>6, OneStream DEF Moves
<1> QED
  <2>1. CASE state[s] = "streaming" /\ ready' = [ready EXCEPT ![s] = TRUE] /\ SetError(s)
             /\ UNCHANGED <<outstanding, free>>
    <3>1. Live(s)
      BY <2>1 DEF Live
    <3> QED
      BY <1>12, <2>1, <3>1
  <2>2. CASE /\ state[s] # "streaming" /\ ready' = [ready EXCEPT ![s] = Live(s)]
             /\ UNCHANGED <<state, fromPw, outstanding, free>>
    <3>1. ready'[s] = Live(s)
      BY <1>0, <2>2 DEF TypeOK
    <3> QED
      BY <1>12, <2>2, <3>1
  <2> QED
    BY <1>1, <1>11, <2>1, <2>2 DEF FenceFired
-----------------------------------------------------------------------------
(* The refinement.                                                         *)

LEMMA FrameInit == Init => FrameInv
<1> SUFFICES ASSUME Init PROVE FrameInv
  OBVIOUS
<1>1. CycleInv
  BY CycleInit
<1>2. ASSUME NEW s \in Streams PROVE Belongs(s)
  BY DEF Init, Belongs, Stale
<1> QED
  BY <1>1, <1>2 DEF FrameInv

\* Every step is one of the cycle or none of its business, and keeps the
\* frames in their buffers.
LEMMA FrameRefines ==
    ASSUME FrameInv, [Next]_vars
    PROVE  Refines
<1>1. CASE UNCHANGED vars
  <2>1. \A s \in Streams : Elsewhere(s)
    BY <1>1
    DEF vars, shared, pwVars, streamVars, picomVars, Elsewhere, Wanted, Answered, ActiveOf,
        FencesOf, Known, Live, Clearing
  <2> QED
    BY <2>1, ElsewhereStill, StillStep DEF Refines
<1>2. CASE Server
  BY <1>2, RefinesServer
<1>3. CASE WakeUp \/ WakerCallback
  BY <1>3, RefinesQuietWaker, RefinesAnswer, RefinesDropped DEF WakerCallback
<1>4. CASE Removal \/ BuffersCleared
  BY <1>4, RefinesQuietWaker, RefinesRemove DEF Removal
<1>5. CASE AddBufferReplied
  BY <1>5, RefinesReplied
<1>6. CASE AddBufferRefused
  <2>1. cur \in Streams
    BY <1>6 DEF FrameInv, CycleInv, TypeInv, TypeOK, AddBufferRefused
  <2> QED
    BY <1>6, <2>1, RefinesQuietStream
<1>7. CASE Environment
  BY <1>7, RefinesQuietStream, RefinesStreaming, RefinesRecycle DEF Environment
<1>8. CASE \E b \in BufIds : FenceFired(b)
  BY <1>8, RefinesFence
<1>9. CASE PresentBegin \/ PresentFails \/ Present
  BY <1>9, RefinesQuietPresent, RefinesImport, RefinesBail, RefinesTake, RefinesDiscard,
     RefinesBlit
  DEF Present
<1>10. CASE Unload \/ SendFails
  BY <1>10, RefinesUnload, RefinesQuietPresent
<1> QED
  BY <1>1, <1>2, <1>3, <1>4, <1>5, <1>6, <1>7, <1>8, <1>9, <1>10 DEF Next, Callback

LEMMA FrameStep ==
    ASSUME FrameInv, [Next]_vars
    PROVE  FrameInv'
<1>1. CycleInv'
  BY CycleStep DEF FrameInv
<1> QED
  BY <1>1, FrameRefines DEF FrameInv, Refines

LEMMA FrameInvariant == Spec => []FrameInv
<1> QED
  BY FrameInit, FrameStep, PTL DEF Spec

\* The two threads keep what CaptureCycle promises the consumers: whatever
\* pauses, fails or is removed in between, they get a buffer only in the step
\* in which its fence is signalled, and no frame is made in one they have.
THEOREM ImplementsCaptureCycle == Spec => CyclesInOrder
<1>1. Init => Cycle!Init
  BY CycleStarts
<1>2. FrameInv /\ [Next]_vars => [Cycle!Next]_(Cycle!vars)
  BY FrameRefines DEF Refines, CycleStepTaken
<1> QED
  BY <1>1, <1>2, FrameInvariant, PTL DEF Spec, CyclesInOrder, Cycle!Spec

\* picom never draws into a buffer its consumer holds, from the activation of
\* the buffer until its fence is signalled.
THEOREM FramesNotOverwritten == Spec => [](Cycle!NotOverwritten)
<1> USE DEF Cycle!NotOverwritten, Cycle!Making
<1>1. Cycle!Init => Cycle!NotOverwritten
  BY DEF Cycle!Init
<1>2. ASSUME Cycle!NotOverwritten, [Cycle!Next]_(Cycle!vars)
      PROVE  Cycle!NotOverwritten'
  <2>1. CASE UNCHANGED Cycle!vars
    BY <1>2, <2>1 DEF Cycle!vars
  <2>2. ASSUME NEW s \in Streams, NEW b \in BufIds, Cycle!Want(s, b)
        PROVE  Cycle!NotOverwritten'
    BY <1>2, <2>2 DEF Cycle!Want, Cycle!Frame
  <2>3. ASSUME NEW s \in Streams, Cycle!Take(s) \/ Cycle!Answer(s) \/ Cycle!Wait(s)
        PROVE  Cycle!NotOverwritten'
    BY <1>2, <2>3 DEF Cycle!Take, Cycle!Answer, Cycle!Wait, Cycle!Frame
  <2>4. ASSUME NEW s \in Streams, Cycle!Deliver(s)
        PROVE  Cycle!NotOverwritten'
    BY <1>2, <2>4 DEF Cycle!Deliver, Cycle!Frame
  <2>5. ASSUME NEW s \in Streams, Cycle!Pause(s) \/ Cycle!Drop(s)
        PROVE  Cycle!NotOverwritten'
    BY <1>2, <2>5 DEF Cycle!Pause, Cycle!Drop, Cycle!Frame
  <2>6. ASSUME NEW s \in Streams, Cycle!Return(s)
        PROVE  Cycle!NotOverwritten'
    BY <1>2, <2>6 DEF Cycle!Return
  <2>7. ASSUME NEW where \in {"wanted", "taken"}, Cycle!Abandon(where)
        PROVE  Cycle!NotOverwritten'
    BY <1>2, <2>7 DEF Cycle!Abandon
  <2> QED
    BY <1>2, <2>1, <2>2, <2>3, <2>4, <2>5, <2>6, <2>7 DEF Cycle!Next
<1> QED
  BY <1>1, <1>2, ImplementsCaptureCycle, PTL DEF CyclesInOrder, Cycle!Spec
=============================================================================
