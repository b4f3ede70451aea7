---------------------------- MODULE ServerProofs ----------------------------
(***************************************************************************)
(* Theorems about the plugin's server, for every set of connections and    *)
(* every number of rectangles.                                             *)
(***************************************************************************)
EXTENDS Server, TLAPS

-----------------------------------------------------------------------------
(* The inductive invariant.                                                *)

\* Where a task is tells what it has read, asked for and answered.
TaskInv ==
    \A c \in Clients :
        /\ client[c] = "none" <=> task[c] = "none"
        /\ task[c] \in {"sending", "failing", "waiting"} =>
              request[c] # None /\ request[c].type \in {"CreateStream", "CloseStreams"}
        /\ task[c] = "waiting" => request[c].type = "CreateStream" /\ sent[c] = request[c].n
        /\ task[c] \in {"none", "reading"} => sent[c] = 0
        /\ task[c] = "failing" => pw = "gone"
        /\ sent[c] > 0 => request[c] # None /\ request[c].type = "CreateStream"
        /\ task[c] \notin {"done", "closed"} => inbox[c] = None /\ outbox[c] = None
        /\ inbox[c] # None \/ outbox[c] # None => request[c] # None
        /\ task[c] \in {"done", "closed"} /\ sent[c] > 0 =>
              inbox[c] # None \/ outbox[c] # None \/ client[c] = "left" \/ ~Running

\* A oneshot exists for what was asked for, is open only while the Rc<Pipewire>
\* is there, and is dropped only when the pipewire thread quits.
ReplyInv ==
    /\ \A s \in Streams :
        /\ reply[s] # "none" => s[2] \in 1..sent[s[1]]
        /\ reply[s] = "open" => pw # "gone"
        /\ reply[s] = "dropped" => ~Running
    /\ \A s \in streams : reply[s] # "none"
    /\ \A i \in DOMAIN toPw : toPw[i].type = "CreateStream" => reply[toPw[i].stream] # "none"
    /\ pw = "gone" => streams = {}

ServerInv ==
    TypeOK /\ TaskInv /\ ReplyInv /\ AnswersInOrder /\ NoMessageStranded /\ ReplyAwaited

-----------------------------------------------------------------------------
(* Lemmas about the operators.                                             *)

LEMMA StreamParts ==
    /\ \A s \in Streams : s[1] \in Clients /\ s[2] \in 1..MaxRects /\ s = <<s[1], s[2]>>
    /\ \A c \in Clients, i \in 1..MaxRects : <<c, i>> \in Streams
BY DEF Streams

\* A task has asked for the first streams of its client.
LEMMA AskedParts ==
    ASSUME TypeOK, NEW c \in Clients
    PROVE  /\ \A s \in Asked(c) : s \in Streams /\ s[1] = c
           /\ \A s \in Streams : s[1] = c /\ s[2] \in 1..sent[c] => s \in Asked(c)
<1>1. sent[c] \in 0..MaxRects /\ 1..sent[c] \subseteq 1..MaxRects
  BY MaxRectsNat DEF TypeOK
<1> QED
  BY <1>1 DEF Asked, Streams

LEMMA AnswerType ==
    ASSUME NEW c \in Clients, NEW n \in 0..MaxRects
    PROVE  [i \in 1..n |-> <<c, i>>] \in Answers
<1>1. [i \in 1..n |-> <<c, i>>] \in [1..n -> Streams]
  BY MaxRectsNat DEF Streams
<1> QED
  BY <1>1 DEF Answers

LEMMA RequestsTyped == TypeOK => Requests \subseteq ClientMessage
<1> SUFFICES ASSUME TypeOK PROVE Requests \subseteq ClientMessage
  OBVIOUS
<1>1. Told \subseteq Streams
  <2>1. \A a \in Answers : \A i \in DOMAIN a : a[i] \in Streams
    <3> SUFFICES ASSUME NEW n \in 0..MaxRects, NEW a \in [1..n -> Streams], NEW i \in DOMAIN a
                 PROVE  a[i] \in Streams
      BY DEF Answers
    <3> QED
      OBVIOUS
  <2>2. \A c \in Clients : inbox[c] # None => inbox[c] \in Answers
    BY DEF TypeOK
  <2> QED
    BY <2>1, <2>2 DEF Told
<1> QED
  BY <1>1 DEF Requests, ClientMessage, CreateStreams, CloseStreams, Malformed

LEMMA RequestParts ==
    \A m \in ClientMessage :
        /\ m.type = "CreateStream" => m.n \in 0..MaxRects
        /\ m.type = "CloseStreams" => m.ids \subseteq Streams
BY DEF ClientMessage, Malformed

LEMMA MessageParts ==
    \A m \in ToPipewire :
        /\ m.type = "CreateStream" => m.stream \in Streams
        /\ m.type = "CloseStreams" => m.ids \subseteq Streams
BY DEF ToPipewire

LEMMA Appended ==
    ASSUME NEW q \in Seq(ToPipewire), NEW m \in ToPipewire
    PROVE  /\ Append(q, m) \in Seq(ToPipewire)
           /\ \A i \in DOMAIN Append(q, m) : (i \in DOMAIN q /\ Append(q, m)[i] = q[i]) \/ Append(q, m)[i] = m
OBVIOUS

LEMMA Taken ==
    ASSUME NEW q \in Seq(ToPipewire), q # <<>>
    PROVE  /\ Tail(q) \in Seq(ToPipewire) /\ Head(q) \in ToPipewire
           /\ Head(q) = q[1] /\ 1 \in DOMAIN q
           /\ \A i \in DOMAIN Tail(q) : i + 1 \in DOMAIN q /\ Tail(q)[i] = q[i + 1]
OBVIOUS

-----------------------------------------------------------------------------
(* The initial state and the steps.                                        *)

LEMMA ServerInit == Init => ServerInv
<1> SUFFICES ASSUME Init PROVE ServerInv
  OBVIOUS
<1>1. <<>> \in Seq(ToPipewire) /\ DOMAIN <<>> = {} /\ 0 \in 0..MaxRects
  BY MaxRectsNat
<1>2. TypeOK
  BY <1>1 DEF Init, TypeOK
<1>3. TaskInv /\ ReplyInv
  BY <1>1, StreamParts DEF Init, TaskInv, ReplyInv
<1>4. AnswersInOrder /\ NoMessageStranded /\ ReplyAwaited
  BY DEF Init, AnswersInOrder, NoMessageStranded, ReplyAwaited
<1> QED
  BY <1>2, <1>3, <1>4 DEF ServerInv

\* Steps of a client.
LEMMA ClientStep ==
    ASSUME ServerInv, NEW c \in Clients,
           Accept(c) \/ Leave(c) \/ \E m \in Requests : Request(c, m)
    PROVE  ServerInv'
<1> USE StreamParts DEF ServerInv
<1>1. CASE Accept(c) \/ Leave(c)
  <2>1. TypeOK'
    BY <1>1 DEF Accept, Leave, TypeOK, Go, taskVars, pwVars
  <2>2. TaskInv'
    BY <1>1 DEF Running, Accept, Leave, TypeOK, TaskInv, Go, taskVars, pwVars
  <2>3. ReplyInv'
    BY <1>1 DEF Running, Accept, Leave, ReplyInv, taskVars, pwVars
  <2>4. AnswersInOrder' /\ NoMessageStranded'
    BY <1>1 DEF Accept, Leave, AnswersInOrder, NoMessageStranded, taskVars, pwVars
  <2>5. ReplyAwaited'
    BY <1>1 DEF Accept, Leave, TypeOK, TaskInv, ReplyInv, ReplyAwaited, Go, taskVars
  <2> QED
    BY <2>1, <2>2, <2>3, <2>4, <2>5
<1>2. ASSUME NEW m \in Requests, Request(c, m) PROVE ServerInv'
  <2>1. m \in ClientMessage
    BY RequestsTyped
  <2>2. TypeOK'
    BY <1>2, <2>1 DEF Request, TypeOK, taskVars, pwVars
  <2>3. TaskInv'
    BY <1>2 DEF Running, Request, TypeOK, TaskInv, taskVars, pwVars
  <2>4. ReplyInv' /\ ReplyAwaited' /\ NoMessageStranded'
    BY <1>2 DEF Running, Request, ReplyInv, ReplyAwaited, NoMessageStranded, taskVars, pwVars
  <2>5. AnswersInOrder'
    BY <1>2 DEF Request, TypeOK, TaskInv, AnswersInOrder, taskVars
  <2> QED
    BY <2>2, <2>3, <2>4, <2>5
<1> QED
  BY <1>1, <1>2

\* Steps of a task that neither send nor answer.
LEMMA QuietServeStep ==
    ASSUME ServerInv, NEW c \in Clients,
           NoRequest(c) \/ WrongCookie(c) \/ StartSend(c) \/ StreamCreationFails(c) \/ Disconnect(c)
    PROVE  ServerInv'
<1> USE StreamParts DEF ServerInv
<1>1. TypeOK'
  BY DEF NoRequest, WrongCookie, StartSend, StreamCreationFails, Disconnect, TypeOK, Go, clientVars, pwVars
<1>2. TaskInv'
  <2>1. CASE NoRequest(c) \/ WrongCookie(c)
    BY <2>1 DEF Running, NoRequest, WrongCookie, TypeOK, TaskInv, Go, clientVars, pwVars
  <2>3. CASE StartSend(c)
    BY <2>3 DEF Running, StartSend, TypeOK, TaskInv, Go, clientVars, pwVars
  <2>4. CASE Disconnect(c)
    BY <2>4 DEF Running, Disconnect, TypeOK, TaskInv, Go, clientVars, pwVars
  <2>2. CASE StreamCreationFails(c)
    <3>1. ~Running
      BY <2>2, AskedParts DEF StreamCreationFails, ReplyInv
    <3> QED
      BY <2>2, <3>1 DEF Running, StreamCreationFails, Collected, TypeOK, TaskInv, Go, clientVars, pwVars
  <2> QED
    BY <2>1, <2>2, <2>3, <2>4
<1>3. ReplyInv' /\ AnswersInOrder' /\ NoMessageStranded'
  BY DEF Running, NoRequest, WrongCookie, StartSend, StreamCreationFails, Disconnect,
         ReplyInv, AnswersInOrder, NoMessageStranded, clientVars, pwVars
<1>4. ReplyAwaited'
  <2>1. CASE NoRequest(c) \/ WrongCookie(c) \/ StartSend(c) \/ Disconnect(c)
    BY <2>1 DEF NoRequest, WrongCookie, StartSend, Disconnect, TypeOK, ReplyAwaited, Go
  <2>2. CASE StreamCreationFails(c)
    <3>1. \A s \in Streams : reply[s] = "open" => s[1] # c
      BY <2>2, AskedParts DEF StreamCreationFails, Collected, ReplyInv
    <3> QED
      BY <2>2, <3>1 DEF StreamCreationFails, TypeOK, ReplyAwaited, Go
  <2> QED
    BY <2>1, <2>2
<1> QED
  BY <1>1, <1>2, <1>3, <1>4

LEMMA SendCreateStreamStep ==
    ASSUME ServerInv, NEW c \in Clients, SendCreateStream(c)
    PROVE  ServerInv'
<1> USE StreamParts DEF ServerInv
<1> DEFINE s == <<c, sent[c] + 1>>
<1>1. request[c] \in ClientMessage /\ request[c].n \in 0..MaxRects
      /\ sent[c] \in 0..MaxRects /\ sent[c] + 1 \in 1..request[c].n /\ sent[c] + 1 \in 1..MaxRects
  BY RequestParts, MaxRectsNat DEF SendCreateStream, TypeOK, TaskInv
<1>2. s \in Streams /\ s[1] = c /\ s[2] = sent[c] + 1 /\ CreateStream(s) \in ToPipewire
  BY <1>1 DEF CreateStream, ToPipewire
<1>3. CASE RxClosed
  <2>1. TypeOK'
    BY <1>3 DEF SendCreateStream, TypeOK, Go, clientVars, pwVars
  <2>2. TaskInv'
    BY <1>3 DEF Running, SendCreateStream, RxClosed, TypeOK, TaskInv, Go, clientVars, pwVars
  <2>3. ReplyInv' /\ AnswersInOrder'
    BY <1>3 DEF Running, SendCreateStream, ReplyInv, AnswersInOrder, clientVars, pwVars
  <2>4. NoMessageStranded' /\ ReplyAwaited'
    BY <1>3 DEF SendCreateStream, RxClosed, ReplyInv, NoMessageStranded, ReplyAwaited, pwVars
  <2> QED
    BY <2>1, <2>2, <2>3, <2>4
<1>4. CASE ~RxClosed
  <2>1. /\ armed' = [armed EXCEPT ![c] = TRUE]
        /\ sent' = [sent EXCEPT ![c] = sent[c] + 1]
        /\ toPw' = Append(toPw, CreateStream(s))
        /\ reply' = [reply EXCEPT ![s] = "open"]
        /\ UNCHANGED <<task, clientVars, outbox, wake, pwVars>>
        /\ pw # "gone"
    BY <1>4 DEF SendCreateStream, RxClosed
  <2>2. /\ toPw' \in Seq(ToPipewire)
        /\ \A i \in DOMAIN toPw' : (i \in DOMAIN toPw /\ toPw'[i] = toPw[i]) \/ toPw'[i] = CreateStream(s)
    BY <1>2, <2>1, Appended DEF TypeOK
  <2>3. TypeOK'
    BY <1>1, <1>2, <2>1, <2>2 DEF TypeOK, clientVars, pwVars
  <2>4. TaskInv'
    BY <1>1, <2>1 DEF Running, SendCreateStream, TypeOK, TaskInv, clientVars, pwVars
  <2>5. ReplyInv'
    <3>1. /\ \A r \in Streams : reply'[r] = IF r = s THEN "open" ELSE reply[r]
          /\ \A r \in Streams : sent'[r[1]] = IF r[1] = c THEN sent[c] + 1 ELSE sent[r[1]]
          /\ \A d \in Clients : sent[d] \in Nat
      BY <1>2, <2>1, MaxRectsNat DEF TypeOK
    <3>2. \A r \in Streams : reply'[r] # "none" => r[2] \in 1..sent'[r[1]]
      BY <1>1, <1>2, <3>1 DEF ReplyInv
    <3>3. \A i \in DOMAIN toPw' : toPw'[i].type = "CreateStream" => reply'[toPw'[i].stream] # "none"
      <4>1. CreateStream(s).stream = s
        BY DEF CreateStream
      <4>2. \A i \in DOMAIN toPw : toPw[i] \in ToPipewire
        BY DEF TypeOK
      <4> QED
        BY <1>2, <2>2, <3>1, <4>1, <4>2, MessageParts DEF ReplyInv
    <3>4. \A r \in streams' : reply'[r] # "none"
      BY <2>1, <3>1 DEF ReplyInv, TypeOK, pwVars
    <3>5. /\ \A r \in Streams : reply'[r] = "open" => pw' # "gone"
          /\ \A r \in Streams : reply'[r] = "dropped" => ~Running'
          /\ pw' = "gone" => streams' = {}
      BY <2>1, <3>1 DEF Running, ReplyInv, pwVars
    <3> QED
      BY <3>2, <3>3, <3>4, <3>5 DEF ReplyInv
  <2>6. AnswersInOrder' /\ NoMessageStranded'
    BY <2>1 DEF AnswersInOrder, NoMessageStranded, TypeOK, clientVars, pwVars
  <2>7. ReplyAwaited'
    BY <1>2, <2>1 DEF SendCreateStream, ReplyAwaited, TypeOK
  <2> QED
    BY <2>3, <2>4, <2>5, <2>6, <2>7
<1> QED
  BY <1>3, <1>4

LEMMA SendCloseStreamsStep ==
    ASSUME ServerInv, NEW c \in Clients, SendCloseStreams(c)
    PROVE  ServerInv'
<1> USE DEF ServerInv
<1> DEFINE m == CloseStreams(request[c].ids)
<1>1. m \in ToPipewire /\ m.type = "CloseStreams"
  <2>1. request[c] \in ClientMessage
    BY DEF SendCloseStreams, TypeOK, TaskInv
  <2> QED
    BY <2>1, RequestParts DEF SendCloseStreams, CloseStreams, ToPipewire
<1>3. CASE RxClosed
  <2>1. TypeOK'
    BY <1>3 DEF SendCloseStreams, TypeOK, Go, clientVars, pwVars
  <2>2. TaskInv'
    BY <1>3 DEF Running, SendCloseStreams, RxClosed, TypeOK, TaskInv, Go, clientVars, pwVars
  <2>3. ReplyInv' /\ AnswersInOrder'
    BY <1>3 DEF Running, SendCloseStreams, ReplyInv, AnswersInOrder, clientVars, pwVars
  <2>4. NoMessageStranded' /\ ReplyAwaited'
    BY <1>3 DEF SendCloseStreams, RxClosed, ReplyInv, NoMessageStranded, ReplyAwaited, pwVars
  <2> QED
    BY <2>1, <2>2, <2>3, <2>4
<1>4. CASE ~RxClosed
  <2>1. /\ armed' = [armed EXCEPT ![c] = TRUE]
        /\ toPw' = Append(toPw, m)
        /\ UNCHANGED <<task, clientVars, sent, outbox, wake, pwVars, reply>>
    BY <1>4 DEF SendCloseStreams
  <2>2. /\ toPw' \in Seq(ToPipewire)
        /\ \A i \in DOMAIN toPw' : (i \in DOMAIN toPw /\ toPw'[i] = toPw[i]) \/ toPw'[i] = m
    BY <1>1, <2>1, Appended DEF TypeOK
  <2>3. TypeOK'
    BY <2>1, <2>2 DEF TypeOK, clientVars, pwVars
  <2>4. TaskInv' /\ ReplyInv' /\ AnswersInOrder' /\ ReplyAwaited'
    BY <1>1, <2>1, <2>2 DEF Running, TaskInv, ReplyInv, AnswersInOrder, ReplyAwaited, clientVars, pwVars
  <2>5. NoMessageStranded'
    BY <2>1 DEF NoMessageStranded, TypeOK
  <2> QED
    BY <2>3, <2>4, <2>5
<1> QED
  BY <1>3, <1>4

\* The message a guard stands for is in the channel until its wake-up is.
LEMMA DropGuardStep ==
    ASSUME ServerInv, NEW c \in Clients, DropGuard(c)
    PROVE  ServerInv'
<1> USE DEF ServerInv
<1>1. TypeOK'
  BY DEF DropGuard, TypeOK, Go, clientVars, pwVars
<1>2. TaskInv'
  <2>1. CASE task[c] = "failing"
    BY <2>1 DEF Running, DropGuard, TypeOK, TaskInv, Go, clientVars, pwVars
  <2>2. CASE task[c] = "sending" /\ request[c].type = "CreateStream"
    BY <2>2 DEF Running, DropGuard, AllSent, TypeOK, TaskInv, Go, clientVars, pwVars
  <2>3. CASE task[c] = "sending" /\ request[c].type # "CreateStream"
    BY <2>3 DEF Running, DropGuard, TypeOK, TaskInv, Go, clientVars, pwVars
  <2> QED
    BY <2>1, <2>2, <2>3 DEF DropGuard
<1>3. ReplyInv' /\ AnswersInOrder'
  BY DEF Running, DropGuard, ReplyInv, AnswersInOrder, clientVars, pwVars
<1>4. NoMessageStranded'
  BY DEF DropGuard, RxClosed, NoMessageStranded, TypeOK, pwVars
<1>5. ReplyAwaited'
  <2>1. task[c] = "sending" /\ request[c].type # "CreateStream" => sent[c] = 0
    BY MaxRectsNat DEF TaskInv, TypeOK
  <2>2. task[c] = "failing" => \A s \in Streams : reply[s] # "open"
    BY DEF TaskInv, ReplyInv
  <2>3. sent[c] = 0 => \A s \in Streams : s[1] = c => reply[s] # "open"
    BY DEF ReplyInv
  <2> QED
    BY <2>1, <2>2, <2>3, StreamParts DEF DropGuard, ReplyAwaited, TypeOK, Go
<1> QED
  BY <1>1, <1>2, <1>3, <1>4, <1>5

LEMMA AnswerStep ==
    ASSUME ServerInv, NEW c \in Clients, StreamCreated(c) \/ Write(c)
    PROVE  ServerInv'
<1> USE DEF ServerInv
<1>1. CASE StreamCreated(c)
  <2> DEFINE ids == [i \in 1..sent[c] |-> <<c, i>>]
  <2>1. /\ outbox' = [outbox EXCEPT ![c] = ids] /\ task' = [task EXCEPT ![c] = "done"]
        /\ UNCHANGED <<clientVars, sent, armed, toPw, wake, pwVars, reply>>
        /\ task[c] = "waiting" /\ sent[c] = request[c].n
        /\ request[c] # None /\ request[c].type = "CreateStream"
    BY <1>1 DEF StreamCreated, Collected, Tell, Go, TaskInv
  <2>2. ids \in Answers
    BY AnswerType DEF TypeOK
  <2>3. TypeOK'
    BY <2>1, <2>2 DEF TypeOK, clientVars, pwVars
  <2>4. ids # None
    BY <2>2, NoneNothing
  <2>5. ReplyInv' /\ NoMessageStranded'
    BY <2>1 DEF Running, ReplyInv, NoMessageStranded, pwVars
  <2>6. AnswersInOrder'
    BY <2>1 DEF AnswersInOrder, TypeOK, clientVars
  <2>7. ReplyAwaited'
    <3>1. \A s \in Streams : reply[s] = "open" => s[1] # c
      BY <1>1, AskedParts DEF StreamCreated, Collected, ReplyInv
    <3> QED
      BY <2>1, <3>1, StreamParts DEF ReplyAwaited, TypeOK
  <2>8. TaskInv'
    BY <2>1, <2>4 DEF Running, TypeOK, TaskInv, clientVars, pwVars
  <2> QED
    BY <2>3, <2>5, <2>6, <2>7, <2>8
<1>2. CASE Write(c)
  <2>1. /\ outbox[c] # None /\ outbox' = [outbox EXCEPT ![c] = None]
        /\ inbox' = [inbox EXCEPT ![c] = IF client[c] = "connected" THEN outbox[c] ELSE None]
        /\ UNCHANGED <<client, request, task, sent, armed, toPw, wake, pwVars, reply>>
    BY <1>2 DEF Write
  <2>2. TypeOK'
    BY <2>1 DEF TypeOK, pwVars
  <2>3. TaskInv'
    BY <2>1 DEF Running, TypeOK, TaskInv, pwVars
  <2>4. ReplyInv' /\ NoMessageStranded' /\ ReplyAwaited'
    BY <2>1 DEF Running, ReplyInv, NoMessageStranded, ReplyAwaited, pwVars
  <2>5. AnswersInOrder'
    BY <2>1 DEF AnswersInOrder, TypeOK
  <2> QED
    BY <2>2, <2>3, <2>4, <2>5
<1> QED
  BY <1>1, <1>2

LEMMA PipewireStep ==
    ASSUME ServerInv, WakerCallback \/ PicomWakes \/ \E s \in Streams : Paused(s) \/ Breaks(s)
    PROVE  ServerInv'
<1> USE DEF ServerInv
<1>1. CASE WakeUp
  <2>1. TypeOK'
    BY <1>1 DEF WakeUp, TypeOK, clientVars, taskVars
  <2>2. TaskInv' /\ ReplyInv'
    BY <1>1 DEF Running, WakeUp, TaskInv, ReplyInv, clientVars, taskVars
  <2>3. AnswersInOrder' /\ NoMessageStranded' /\ ReplyAwaited'
    BY <1>1 DEF WakeUp, AnswersInOrder, NoMessageStranded, ReplyAwaited, clientVars, taskVars
  <2> QED
    BY <2>1, <2>2, <2>3
<1>2. ASSUME NEW type \in {"CreateStream", "CloseStreams"}, Received(type)
      PROVE  /\ pw = "draining" /\ toPw # <<>> /\ toPw' \in Seq(ToPipewire)
             /\ Head(toPw) \in ToPipewire /\ Head(toPw).type = type
             /\ type = "CreateStream" => Head(toPw).stream \in Streams /\ reply[Head(toPw).stream] # "none"
             /\ \A i \in DOMAIN toPw' : toPw'[i].type = "CreateStream" =>
                    toPw'[i].stream \in Streams /\ reply[toPw'[i].stream] # "none"
  <2>1. /\ toPw' \in Seq(ToPipewire) /\ Head(toPw) \in ToPipewire /\ Head(toPw) = toPw[1] /\ 1 \in DOMAIN toPw
        /\ \A i \in DOMAIN toPw' : i + 1 \in DOMAIN toPw /\ toPw'[i] = toPw[i + 1]
    BY <1>2, Taken DEF Received, TypeOK
  <2>2. \A i \in DOMAIN toPw : toPw[i] \in ToPipewire
    BY DEF TypeOK
  <2> QED
    BY <1>2, <2>1, <2>2, MessageParts DEF Received, ReplyInv
<1>3. CASE HandleCreateStream
  <2> DEFINE s == Head(toPw).stream
  <2>1. /\ streams' = streams \cup {s} /\ s \in Streams /\ reply[s] # "none" /\ pw = "draining"
        /\ toPw' \in Seq(ToPipewire)
        /\ \A i \in DOMAIN toPw' : toPw'[i].type = "CreateStream" => reply[toPw'[i].stream] # "none"
        /\ UNCHANGED <<clientVars, taskVars, wake, pw, nodes, failed, broken, reply>>
    BY <1>2, <1>3 DEF HandleCreateStream
  <2>2. TypeOK'
    BY <2>1 DEF TypeOK, clientVars, taskVars
  <2>3. TaskInv' /\ ReplyInv'
    BY <2>1 DEF Running, TaskInv, ReplyInv, clientVars, taskVars
  <2>4. AnswersInOrder' /\ NoMessageStranded' /\ ReplyAwaited'
    BY <2>1 DEF AnswersInOrder, NoMessageStranded, ReplyAwaited, clientVars, taskVars
  <2> QED
    BY <2>2, <2>3, <2>4
<1>4. CASE HandleCreateStreamFails
  <2> DEFINE s == Head(toPw).stream
  <2>1. /\ s \in Streams /\ reply[s] # "none" /\ pw = "draining" /\ pw' = "quit"
        /\ reply' = [reply EXCEPT ![s] = "dropped"]
        /\ toPw' \in Seq(ToPipewire)
        /\ \A i \in DOMAIN toPw' : toPw'[i].type = "CreateStream" =>
              toPw'[i].stream \in Streams /\ reply[toPw'[i].stream] # "none"
        /\ UNCHANGED <<clientVars, taskVars, wake, streams, nodes, failed, broken>>
    BY <1>2, <1>4 DEF HandleCreateStreamFails
  <2>2. \A r \in Streams : reply'[r] = IF r = s THEN "dropped" ELSE reply[r]
    BY <2>1 DEF TypeOK
  <2>3. TypeOK'
    BY <2>1 DEF TypeOK, clientVars, taskVars
  <2>4. TaskInv'
    BY <2>1 DEF Running, TaskInv, clientVars, taskVars
  <2>5. ReplyInv'
    BY <2>1, <2>2 DEF Running, TypeOK, ReplyInv, clientVars, taskVars
  <2>6. AnswersInOrder' /\ NoMessageStranded' /\ ReplyAwaited'
    BY <2>1, <2>2 DEF AnswersInOrder, NoMessageStranded, ReplyAwaited, clientVars, taskVars
  <2> QED
    BY <2>3, <2>4, <2>5, <2>6
<1>5. CASE HandleCloseStreams
  <2>1. /\ failed' = failed \cup (Head(toPw).ids \cap nodes) /\ pw = "draining"
        /\ toPw' \in Seq(ToPipewire)
        /\ \A i \in DOMAIN toPw' : toPw'[i].type = "CreateStream" => reply[toPw'[i].stream] # "none"
        /\ UNCHANGED <<clientVars, taskVars, wake, pw, streams, nodes, broken, reply>>
    BY <1>2, <1>5 DEF HandleCloseStreams
  <2>2. TypeOK'
    BY <2>1 DEF TypeOK, clientVars, taskVars
  <2>3. TaskInv' /\ ReplyInv'
    BY <2>1 DEF Running, TaskInv, ReplyInv, clientVars, taskVars
  <2>4. AnswersInOrder' /\ NoMessageStranded' /\ ReplyAwaited'
    BY <2>1 DEF AnswersInOrder, NoMessageStranded, ReplyAwaited, clientVars, taskVars
  <2> QED
    BY <2>2, <2>3, <2>4
<1>6. CASE Reap
  <2>1. TypeOK'
    BY <1>6 DEF Reap, TypeOK, clientVars, taskVars
  <2>2. TaskInv' /\ ReplyInv'
    BY <1>6 DEF Running, Reap, TaskInv, ReplyInv, clientVars, taskVars
  <2>3. AnswersInOrder' /\ NoMessageStranded' /\ ReplyAwaited'
    BY <1>6 DEF Reap, AnswersInOrder, NoMessageStranded, ReplyAwaited, clientVars, taskVars
  <2> QED
    BY <2>1, <2>2, <2>3
<1>10. CASE PipewireLeaks
  <2>1. TypeOK'
    BY <1>10 DEF PipewireLeaks, TypeOK, clientVars, taskVars
  <2>2. TaskInv' /\ ReplyInv'
    BY <1>10 DEF PipewireLeaks, Running, TaskInv, ReplyInv, clientVars, taskVars
  <2>3. AnswersInOrder' /\ NoMessageStranded' /\ ReplyAwaited'
    BY <1>10 DEF PipewireLeaks, AnswersInOrder, NoMessageStranded, ReplyAwaited, clientVars, taskVars
  <2> QED
    BY <2>1, <2>2, <2>3
<1>7. CASE PipewireEnds
  <2>1. \A s \in Streams : reply'[s] = IF reply[s] = "open" THEN "dropped" ELSE reply[s]
    BY <1>7 DEF PipewireEnds
  <2>2. <<>> \in Seq(ToPipewire) /\ DOMAIN <<>> = {}
    OBVIOUS
  <2>3. TypeOK'
    BY <1>7, <2>1, <2>2 DEF PipewireEnds, TypeOK, clientVars, taskVars
  <2>4. TaskInv'
    BY <1>7 DEF Running, PipewireEnds, TaskInv, clientVars, taskVars
  <2>5. ReplyInv'
    BY <1>7, <2>1, <2>2 DEF Running, PipewireEnds, ReplyInv, clientVars, taskVars
  <2>6. AnswersInOrder' /\ NoMessageStranded' /\ ReplyAwaited'
    BY <1>7, <2>1 DEF PipewireEnds, AnswersInOrder, NoMessageStranded, ReplyAwaited, clientVars, taskVars
  <2> QED
    BY <2>3, <2>4, <2>5, <2>6
<1>8. ASSUME NEW s \in Streams, Paused(s) PROVE ServerInv'
  <2>1. /\ pw = "idle" /\ s \in streams /\ nodes' = nodes \cup {s}
        /\ reply' = [reply EXCEPT ![s] = "ok"]
        /\ UNCHANGED <<clientVars, taskVars, toPw, wake, pw, streams, failed, broken>>
    BY <1>8 DEF Paused
  <2>2. \A r \in Streams : reply'[r] = IF r = s THEN "ok" ELSE reply[r]
    BY <2>1 DEF TypeOK
  <2>3. TypeOK'
    BY <2>1 DEF TypeOK, clientVars, taskVars
  <2>4. TaskInv'
    BY <2>1 DEF Running, TaskInv, clientVars, taskVars
  <2>5. \A i \in DOMAIN toPw : toPw[i].type = "CreateStream" => toPw[i].stream \in Streams
    BY MessageParts DEF TypeOK
  <2>6. ReplyInv'
    BY <2>1, <2>2, <2>5 DEF Running, ReplyInv, TypeOK, clientVars, taskVars
  <2>7. AnswersInOrder' /\ NoMessageStranded' /\ ReplyAwaited'
    BY <2>1, <2>2 DEF AnswersInOrder, NoMessageStranded, ReplyAwaited, clientVars, taskVars
  <2> QED
    BY <2>3, <2>4, <2>6, <2>7
<1>9. ASSUME PicomWakes \/ \E s \in Streams : Breaks(s) PROVE ServerInv'
  <2>1. /\ failed' \subseteq nodes /\ broken' \subseteq Streams /\ wake' \in BOOLEAN
        /\ wake => wake'
        /\ UNCHANGED <<clientVars, taskVars, toPw, pw, streams, nodes, reply>>
    BY <1>9 DEF PicomWakes, Breaks, TypeOK, pwVars
  <2>2. TypeOK'
    BY <2>1 DEF TypeOK, clientVars, taskVars
  <2>3. TaskInv' /\ ReplyInv'
    BY <2>1 DEF Running, TaskInv, ReplyInv, clientVars, taskVars
  <2>4. AnswersInOrder' /\ NoMessageStranded' /\ ReplyAwaited'
    BY <2>1 DEF AnswersInOrder, NoMessageStranded, ReplyAwaited, clientVars, taskVars
  <2> QED
    BY <2>2, <2>3, <2>4
<1> QED
  BY <1>1, <1>3, <1>4, <1>5, <1>6, <1>7, <1>8, <1>9, <1>10 DEF WakerCallback

LEMMA ServerStep == ServerInv /\ [Next]_vars => ServerInv'
<1>1. ASSUME ServerInv, NEW c \in Clients,
             Accept(c) \/ Leave(c) \/ Serve(c) \/ \E m \in Requests : Request(c, m)
      PROVE  ServerInv'
  BY <1>1, ClientStep, QuietServeStep, SendCreateStreamStep, SendCloseStreamsStep, DropGuardStep, AnswerStep
     DEF Serve
<1>2. ServerInv /\ UNCHANGED vars => ServerInv'
  BY DEF Running, vars, clientVars, taskVars, pwVars, ServerInv, TypeOK, TaskInv, ReplyInv,
         AnswersInOrder, NoMessageStranded, ReplyAwaited
<1> QED
  BY <1>1, <1>2, PipewireStep DEF Next

-----------------------------------------------------------------------------
(* The theorems.                                                           *)

\* The inductive invariant holds.
LEMMA ServerInvariant == Spec => []ServerInv
<1> QED
  BY ServerInit, ServerStep, PTL DEF Spec

\* A StreamCreated names the client's streams, all of them, in the order of the
\* rectangles (client_task_inner), in whatever order PipeWire paused them.
THEOREM AnswersOrdered == Spec => []AnswersInOrder
<1>1. ServerInv => AnswersInOrder
  BY DEF ServerInv
<1> QED
  BY ServerInvariant, <1>1, PTL

\* No message stays in the channel of a pipewire thread nobody will wake
\* (PipewireSendGuard), however the guards of the connections interleave.
THEOREM MessagesGetThrough == Spec => []NoMessageStranded
<1>1. ServerInv => NoMessageStranded
  BY DEF ServerInv
<1> QED
  BY ServerInvariant, <1>1, PTL

\* The unwrap of reply.send in state_changed always finds a receiver.
THEOREM RepliesHeard == Spec => []ReplyAwaited
<1>1. ServerInv => ReplyAwaited
  BY DEF ServerInv
<1> QED
  BY ServerInvariant, <1>1, PTL

\* While the pipewire thread runs, a task that is over leaves no stream behind
\* but of a client that was told its id or went away.
THEOREM StreamsOwned == Spec => []NoOrphans
<1>1. ServerInv => NoOrphans
  <2> SUFFICES ASSUME ServerInv, NEW s \in streams, task[s[1]] \in {"done", "closed"}, Running
               PROVE  inbox[s[1]] # None \/ outbox[s[1]] # None \/ client[s[1]] = "left"
    BY DEF NoOrphans
  <2>1. s \in Streams /\ s[1] \in Clients /\ s[2] \in 1..sent[s[1]]
    BY StreamParts DEF ServerInv, TypeOK, ReplyInv
  <2>2. sent[s[1]] > 0
    BY <2>1, MaxRectsNat DEF ServerInv, TypeOK
  <2> QED
    BY <2>1, <2>2 DEF ServerInv, TaskInv
<1> QED
  BY ServerInvariant, <1>1, PTL

\* The state of clients, tasks, channel and pipewire thread has its type.
THEOREM TypeCorrect == Spec => []TypeOK
<1>1. ServerInv => TypeOK
  BY DEF ServerInv
<1> QED
  BY ServerInvariant, <1>1, PTL


-----------------------------------------------------------------------------
(* The refinement of StreamService.                                        *)

\* A task goes on only for a request it accepted; who is answered was granted,
\* and only streams of granted requests are named.
GrantInv ==
    /\ \A c \in Clients :
        /\ Over(c) /\ request[c] = None => client[c] = "left"
        /\ task[c] \in {"sending", "failing", "waiting"} /\ request[c].type = "CreateStream" =>
              request[c].cookie
        /\ task[c] = "failing" /\ request[c].type = "CreateStream" => sent[c] < request[c].n
        /\ inbox[c] # None \/ outbox[c] # None => Granted(c)
    /\ \A s \in Named : s \in Streams /\ Granted(s[1]) /\ s[2] \in 1..sent[s[1]]

\* A stream's oneshot is used exactly when its node id is known, and a stream
\* is made of a message once.
StreamInv ==
    /\ \A s \in nodes : reply[s] = "ok"
    /\ \A s \in streams \ nodes : reply[s] = "open"
    /\ \A i \in DOMAIN toPw : toPw[i].type = "CreateStream" =>
        /\ reply[toPw[i].stream] = "open" /\ toPw[i].stream \notin streams
        /\ \A j \in DOMAIN toPw :
            toPw[j].type = "CreateStream" /\ toPw[j].stream = toPw[i].stream => j = i

\* Only what somebody named or what broke is closed.
CloseInv ==
    /\ failed \subseteq Named \cup broken
    /\ \A i \in DOMAIN toPw : toPw[i].type = "CloseStreams" => toPw[i].ids \subseteq Named
    /\ \A s \in Streams : reply[s] = "ok" /\ s \notin Named \cup broken => s \in nodes

ServiceInv == GrantInv /\ StreamInv /\ CloseInv

\* A step that keeps the invariant and is one of StreamService.
Implements == ServiceInv' /\ [Service!Next]_(Service!svars)

LEMMA GrantedParts ==
    ASSUME ServerInv, NEW c \in Clients, Granted(c)
    PROVE  /\ request[c] # None /\ request[c].type = "CreateStream" /\ request[c].n \in 0..MaxRects
           /\ task[c] \in {"done", "closed"} /\ sent[c] = request[c].n /\ Wanted[c] = sent[c]
           /\ \A s \in Streams : s[1] = c /\ s[2] \in 1..sent[c] => reply[s] = "ok"
<1>1. request[c] # None /\ request[c].type = "CreateStream" /\ request[c] \in ClientMessage
  BY DEF Granted, Wants, Asks, ServerInv, TypeOK
<1>2. request[c].n \in 0..MaxRects
  BY <1>1, RequestParts
<1>3. sent[c] = request[c].n /\ task[c] \in {"done", "closed"}
  BY DEF Granted, Over
<1>4. \A s \in Streams : s[1] = c /\ s[2] \in 1..sent[c] => reply[s] = "ok"
  BY AskedParts DEF ServerInv, Granted
<1> QED
  BY <1>1, <1>2, <1>3, <1>4 DEF Wanted, Granted

LEMMA GrantedKept ==
    ASSUME NEW c \in Clients, request'[c] = request[c], sent'[c] = sent[c], Over(c)' <=> Over(c),
           \A s \in Asked(c) : reply'[s] = "ok" <=> reply[s] = "ok"
    PROVE  Granted(c)' <=> Granted(c)
BY DEF Granted, Wants, Asks, Asked

\* Nothing of what a client was asked, told or granted changes.
LEMMA ViewKept ==
    ASSUME request' = request, \A c \in Clients : Over(c)' <=> Over(c),
           \A c \in Clients : Granted(c)' <=> Granted(c)
    PROVE  Wanted' = Wanted /\ Answered' = Answered /\ Named' = Named
<1>1. Wanted' = Wanted /\ Named' = Named
  BY DEF Wanted, Wants, Asks, Named
<1>2. Answered' = Answered
  BY DEF Answered
<1> QED
  BY <1>1, <1>2

\* A task ends without an answer.
LEMMA ViewEnds ==
    ASSUME NEW c \in Clients, request' = request, sent' = sent, reply' = reply,
           \A d \in Clients \ {c} : Over(d)' <=> Over(d),
           ~Over(c), Over(c)', ~Granted(c)'
    PROVE  /\ Wanted' = Wanted /\ Named' = Named
           /\ \A d \in Clients : Granted(d)' <=> Granted(d)
           /\ Answered[c] = "none" /\ Answered' = [Answered EXCEPT ![c] = "ended"]
<1>1. Wanted' = Wanted /\ Named' = Named
  BY DEF Wanted, Wants, Asks, Named
<1>2. \A d \in Clients : Granted(d)' <=> Granted(d)
  <2>1. ASSUME NEW d \in Clients, d # c
        PROVE  Granted(d)' <=> Granted(d)
    BY <2>1, GrantedKept
  <2>2. ~Granted(c)
    BY DEF Granted
  <2> QED
    BY <2>1, <2>2
<1>3. Answered[c] = "none"
  BY <1>2 DEF Answered
<1>4. Answered' = [Answered EXCEPT ![c] = "ended"]
  BY <1>2 DEF Answered
<1> QED
  BY <1>1, <1>2, <1>3, <1>4

\* The ids clients were told are ids of granted requests.
LEMMA ToldGranted ==
    ASSUME ServerInv, GrantInv, NEW s \in Told
    PROVE  s \in Streams /\ Granted(s[1]) /\ s[2] \in 1..sent[s[1]]
<1>1. PICK c \in Clients : inbox[c] # None /\ \E i \in DOMAIN inbox[c] : s = inbox[c][i]
  BY DEF Told
<1>2. inbox[c] = [i \in 1..request[c].n |-> <<c, i>>] /\ Granted(c)
  BY <1>1 DEF ServerInv, AnswersInOrder, GrantInv
<1>3. PICK i \in 1..request[c].n : s = <<c, i>>
  BY <1>1, <1>2
<1>4. request[c].n \in 0..MaxRects /\ sent[c] = request[c].n
  BY <1>2, GrantedParts
<1>5. i \in 1..MaxRects
  BY <1>3, <1>4, MaxRectsNat
<1> QED
  BY <1>2, <1>3, <1>4, <1>5 DEF Streams
LEMMA ServiceStarts == Init => ServiceInv /\ Service!Init
<1> SUFFICES ASSUME Init PROVE ServiceInv /\ Service!Init
  OBVIOUS
<1>1. /\ \A c \in Clients : request[c] = None /\ ~Over(c) /\ ~Granted(c) /\ ~Wants(c)
      /\ Named = {} /\ DOMAIN toPw = {}
  BY DEF Init, Over, Granted, Wants, Asks, Named
<1>2. GrantInv
  BY <1>1 DEF Init, GrantInv
<1>3. StreamInv /\ CloseInv
  BY <1>1 DEF Init, StreamInv, CloseInv
<1>4. Service!Init
  BY <1>1 DEF Init, Service!Init, Wanted, Answered, Live, ServiceState, Running
<1> QED
  BY <1>2, <1>3, <1>4 DEF ServiceInv

\* Steps of a client and its task that the service does not show.
LEMMA UnseenStep ==
    ASSUME ServerInv, ServiceInv, NEW c \in Clients,
           \/ Accept(c) \/ Leave(c) \/ StartSend(c) \/ Write(c) \/ Disconnect(c)
           \/ DropGuard(c) /\ task[c] = "sending" /\ request[c].type = "CreateStream"
    PROVE  Implements
<1> DEFINE goes(d) ==
             \/ task'[d] = task[d]
             \/ task[d] = "none" /\ task'[d] = "reading"
             \/ /\ task[d] = "reading" /\ task'[d] = "sending"
                /\ request[d].type = "CreateStream" => request[d].cookie
             \/ task[d] = "sending" /\ task'[d] = "waiting"
             \/ task[d] = "done" /\ task'[d] = "closed"
           tells(d) ==
             /\ client'[d] = client[d] \/ client[d] # "left"
             /\ inbox'[d] # None \/ outbox'[d] # None => inbox[d] # None \/ outbox[d] # None
<1>0. /\ UNCHANGED <<request, sent, toPw, pwVars, reply>>
      /\ \A d \in Clients : goes(d) /\ tells(d)
  <2> USE DEF ServerInv, TypeOK, Go, clientVars, taskVars, pwVars
  <2>1. CASE Accept(c)
    BY <2>1 DEF Accept, TaskInv
  <2>2. CASE Leave(c)
    BY <2>2 DEF Leave
  <2>3. CASE StartSend(c)
    BY <2>3 DEF StartSend
  <2>4. CASE Write(c)
    BY <2>4 DEF Write
  <2>5. CASE Disconnect(c)
    BY <2>5 DEF Disconnect
  <2>6. CASE DropGuard(c) /\ task[c] = "sending" /\ request[c].type = "CreateStream"
    BY <2>6 DEF DropGuard
  <2> QED
    BY <2>1, <2>2, <2>3, <2>4, <2>5, <2>6
<1>1. /\ UNCHANGED <<request, sent, toPw, pwVars, reply>>
      /\ \A d \in Clients : Over(d)' <=> Over(d)
  BY <1>0 DEF Over
<1>2. \A d \in Clients : Granted(d)' <=> Granted(d)
  BY <1>1, GrantedKept
<1>3. Wanted' = Wanted /\ Answered' = Answered /\ Named' = Named
  BY <1>1, <1>2, ViewKept
<1>4. Live' = Live /\ ServiceState' = ServiceState /\ broken' = broken
  <2>1. \A s \in streams : s[1] \in Clients
    BY StreamParts DEF ServerInv, TypeOK
  <2> QED
    BY <1>1, <1>2, <2>1 DEF Live, ServiceState, Running, pwVars
<1>5. GrantInv'
  <2> USE DEF ServerInv, ServiceInv, GrantInv
  <2>1. \A d \in Clients : Over(d)' /\ request'[d] = None => client'[d] = "left"
    BY <1>0, <1>1
  <2>2. \A d \in Clients :
            /\ task'[d] \in {"sending", "failing", "waiting"} /\ request'[d].type = "CreateStream" =>
                request'[d].cookie
            /\ task'[d] = "failing" /\ request'[d].type = "CreateStream" => sent'[d] < request'[d].n
    BY <1>0
  <2>4. \A d \in Clients : inbox'[d] # None \/ outbox'[d] # None => Granted(d)'
    BY <1>0, <1>2
  <2>5. \A s \in Named' : s \in Streams /\ Granted(s[1])' /\ s[2] \in 1..sent'[s[1]]
    BY <1>1, <1>2, <1>3, StreamParts
  <2> QED
    BY <2>1, <2>2, <2>4, <2>5
<1>6. StreamInv' /\ CloseInv'
  BY <1>1, <1>3 DEF ServiceInv, StreamInv, CloseInv, pwVars
<1> QED
  BY <1>3, <1>4, <1>5, <1>6 DEF Implements, ServiceInv, Service!svars

\* A client asks for streams, or names some.
LEMMA RequestStep ==
    ASSUME ServerInv, ServiceInv, NEW c \in Clients, NEW m \in Requests, Request(c, m)
    PROVE  Implements
<1>1. /\ client[c] = "connected" /\ request[c] = None /\ request' = [request EXCEPT ![c] = m]
      /\ UNCHANGED <<client, inbox, taskVars, toPw, wake, pwVars, reply>>
  BY DEF Request
<1>2. m \in ClientMessage /\ m # None
  BY RequestsTyped, NoneNothing DEF ServerInv
<1>3. \A d \in Clients : request'[d] = IF d = c THEN m ELSE request[d]
  BY <1>1 DEF ServerInv, TypeOK
<1>4. \A d \in Clients : Over(d)' <=> Over(d)
  BY <1>1 DEF Over, taskVars
<1>5. ~Over(c) /\ ~Over(c)' /\ ~Wants(c) /\ sent[c] = 0
  <2>1. ~Over(c) /\ ~Wants(c)
    BY <1>1 DEF ServiceInv, GrantInv, Wants, Asks
  <2>2. sent[c] = 0
    BY <1>1, MaxRectsNat DEF ServerInv, TypeOK, TaskInv
  <2> QED
    BY <2>1, <2>2, <1>4
<1>6. \A d \in Clients : Granted(d)' <=> Granted(d)
  <2>1. ASSUME NEW d \in Clients, d # c
        PROVE  Granted(d)' <=> Granted(d)
    BY <1>1, <1>3, <1>4, <2>1, GrantedKept DEF taskVars
  <2>2. ~Granted(c) /\ ~Granted(c)'
    BY <1>5 DEF Granted
  <2> QED
    BY <2>1, <2>2
<1>7. Answered' = Answered /\ Answered[c] = "none"
  BY <1>4, <1>5, <1>6 DEF Answered, Granted
<1>8. Live' = Live /\ ServiceState' = ServiceState /\ broken' = broken
  <2>1. \A s \in streams : s[1] \in Clients
    BY StreamParts DEF ServerInv, TypeOK
  <2> QED
    BY <1>1, <1>6, <2>1 DEF Live, ServiceState, Running, pwVars
<1>9. Named' = Named \cup (IF m.type = "CloseStreams" THEN m.ids ELSE {})
  <2>1. \A d \in Clients : Asks(d, "CloseStreams")' <=>
            (IF d = c THEN m.type = "CloseStreams" ELSE Asks(d, "CloseStreams"))
    BY <1>2, <1>3 DEF Asks
  <2>2. ~Asks(c, "CloseStreams")
    BY <1>1 DEF Asks
  <2> QED
    BY <1>3, <2>1, <2>2 DEF Named
<1>10. Wanted[c] = None /\ Wanted' = [Wanted EXCEPT ![c] =
            IF m.type = "CreateStream" /\ m.cookie THEN m.n ELSE None]
  <2>1. \A d \in Clients : Wants(d)' <=>
            (IF d = c THEN m.type = "CreateStream" /\ m.cookie ELSE Wants(d))
    BY <1>2, <1>3 DEF Wants, Asks
  <2> QED
    BY <1>3, <1>5, <2>1 DEF Wanted
<1>11. m.type = "CloseStreams" => m.ids \subseteq Told
  BY DEF Requests, CreateStreams, CloseStreams, Malformed
<1>12. \A s \in Named' : s \in Streams /\ Granted(s[1]) /\ s[2] \in 1..sent[s[1]]
  BY <1>9, <1>11, ToldGranted DEF ServiceInv, GrantInv
<1>13. ServiceInv'
  <2>1. GrantInv'
    <3> USE DEF ServiceInv, GrantInv
    <3>1. \A d \in Clients : Over(d)' /\ request'[d] = None => client'[d] = "left"
      BY <1>1, <1>2, <1>3, <1>4
    <3>2. task[c] \notin {"sending", "failing", "waiting"}
      BY <1>1 DEF ServerInv, TaskInv
    <3>3. \A d \in Clients :
            /\ task'[d] \in {"sending", "failing", "waiting"} /\ request'[d].type = "CreateStream" =>
                request'[d].cookie
            /\ task'[d] = "failing" /\ request'[d].type = "CreateStream" => sent'[d] < request'[d].n
      BY <1>1, <1>3, <3>2 DEF taskVars
    <3>4. \A d \in Clients : inbox'[d] # None \/ outbox'[d] # None => Granted(d)'
      BY <1>1, <1>6 DEF taskVars
    <3>5. \A s \in Named' : s \in Streams /\ Granted(s[1])' /\ s[2] \in 1..sent'[s[1]]
      BY <1>1, <1>6, <1>12, StreamParts DEF taskVars
    <3> QED
      BY <3>1, <3>3, <3>4, <3>5
  <2>2. StreamInv'
    BY <1>1 DEF ServiceInv, StreamInv, pwVars
  <2>3. CloseInv'
    BY <1>1, <1>9 DEF ServiceInv, CloseInv, pwVars
  <2> QED
    BY <2>1, <2>2, <2>3 DEF ServiceInv
<1>14. CASE m.type = "CreateStream" /\ m.cookie
  <2>1. m.n \in 0..MaxRects
    BY <1>2, <1>14, RequestParts
  <2>2. Service!Ask(c, m.n)
    BY <1>7, <1>8, <1>9, <1>10, <1>14 DEF Service!Ask
  <2> QED
    BY <1>13, <2>1, <2>2 DEF Implements, Service!Next
<1>15. CASE m.type = "CloseStreams"
  <2>1. Wanted' = Wanted
    BY <1>10, <1>15 DEF Wanted
  <2>2. m.ids \subseteq UNION {Service!IdsOf(d) : d \in Service!Granted}
    <3> SUFFICES ASSUME NEW s \in m.ids
                 PROVE  \E d \in Service!Granted : s \in Service!IdsOf(d)
      OBVIOUS
    <3>1. s \in Streams /\ Granted(s[1]) /\ s[2] \in 1..sent[s[1]] /\ s[1] \in Clients
      BY <1>11, <1>15, ToldGranted, StreamParts DEF ServiceInv
    <3>2. Wanted[s[1]] = sent[s[1]] /\ Answered[s[1]] = "ids"
      BY <3>1, GrantedParts DEF Answered
    <3> QED
      BY <3>1, <3>2, StreamParts DEF Service!Granted, Service!IdsOf
  <2>3. Service!Name(m.ids)
    BY <1>7, <1>8, <1>9, <1>15, <2>1, <2>2 DEF Service!Name
  <2>4. m.ids \in SUBSET Service!Streams
    BY <1>2, <1>15, RequestParts DEF Streams, Service!Streams
  <2> QED
    BY <1>13, <2>3, <2>4 DEF Implements, Service!Next
<1>16. CASE m.type # "CloseStreams" /\ ~(m.type = "CreateStream" /\ m.cookie)
  <2>1. Wanted' = Wanted /\ Named' = Named
    BY <1>9, <1>10, <1>16 DEF Wanted
  <2> QED
    BY <1>7, <1>8, <1>13, <2>1 DEF Implements, Service!svars
<1> QED
  BY <1>14, <1>15, <1>16
LEMMA AppendedLast ==
    ASSUME NEW q \in Seq(ToPipewire), NEW m \in ToPipewire
    PROVE  \A i \in DOMAIN Append(q, m) :
               (i \in DOMAIN q /\ Append(q, m)[i] = q[i]) \/ (i = Len(q) + 1 /\ Append(q, m)[i] = m)
OBVIOUS

\* A task sends its messages; nothing is granted yet.
LEMMA AskPipewire ==
    ASSUME ServerInv, ServiceInv, NEW c \in Clients, SendCreateStream(c)
    PROVE  Implements
<1> DEFINE s == <<c, sent[c] + 1>>
           refused == task' = [task EXCEPT ![c] = "failing"] /\ UNCHANGED <<sent, toPw, reply>>
           asked == /\ sent' = [sent EXCEPT ![c] = sent[c] + 1]
                    /\ toPw' = Append(toPw, CreateStream(s))
                    /\ reply' = [reply EXCEPT ![s] = "open"] /\ task' = task
<1>1. /\ task[c] = "sending" /\ request[c].type = "CreateStream" /\ sent[c] < request[c].n
      /\ request[c].cookie /\ UNCHANGED <<clientVars, outbox, wake, pwVars>>
      /\ refused \/ asked
  <2>1. refused \/ asked
    BY DEF SendCreateStream, Go
  <2>2. task[c] = "sending" /\ request[c].type = "CreateStream" => request[c].cookie
    BY DEF ServiceInv, GrantInv
  <2> QED
    BY <2>1, <2>2 DEF SendCreateStream
<1>2. s \in Streams /\ s[1] = c /\ s[2] = sent[c] + 1 /\ reply[s] = "none"
  <2>1. request[c] \in ClientMessage /\ sent[c] \in 0..MaxRects
    BY <1>1 DEF ServerInv, TaskInv, TypeOK
  <2>2. request[c].n \in 0..MaxRects
    BY <1>1, <2>1, RequestParts
  <2>3. s \in Streams
    BY <1>1, <2>1, <2>2, MaxRectsNat DEF Streams
  <2>4. ~(s[2] \in 1..sent[c])
    BY <2>1, MaxRectsNat
  <2>5. s[1] = c /\ s[2] = sent[c] + 1
    OBVIOUS
  <2> QED
    BY <2>3, <2>4, <2>5 DEF ServerInv, ReplyInv
<1>3. /\ \A d \in Clients : task'[d] = task[d] \/ (d = c /\ task'[d] = "failing")
      /\ \A d \in Clients : sent'[d] = sent[d] \/ (d = c /\ task'[d] = "sending" /\ sent'[d] = sent[d] + 1)
      /\ \A r \in Streams : reply'[r] = reply[r] \/ (r = s /\ reply'[r] = "open")
  BY <1>1, <1>2 DEF ServerInv, TypeOK
<1> HIDE DEF s
<1>4. \A d \in Clients : Over(d)' <=> Over(d)
  BY <1>1, <1>3 DEF Over
<1>5. \A d \in Clients : Granted(d)' <=> Granted(d)
  <2>1. ASSUME NEW d \in Clients, d # c
        PROVE  Granted(d)' <=> Granted(d)
    <3>1. \A r \in Asked(d) : reply'[r] = reply[r]
      BY <1>2, <1>3, <2>1, AskedParts DEF ServerInv
    <3> QED
      BY <1>1, <1>3, <1>4, <2>1, <3>1, GrantedKept DEF clientVars
  <2>2. ~Granted(c) /\ ~Granted(c)'
    BY <1>1, <1>4 DEF Granted, Over
  <2> QED
    BY <2>1, <2>2
<1>6. Wanted' = Wanted /\ Answered' = Answered /\ Named' = Named
  BY <1>1, <1>4, <1>5, ViewKept DEF clientVars
<1>7. Live' = Live /\ ServiceState' = ServiceState /\ broken' = broken
  <2>1. \A r \in streams : r[1] \in Clients
    BY StreamParts DEF ServerInv, TypeOK
  <2> QED
    BY <1>1, <1>5, <2>1 DEF Live, ServiceState, Running, pwVars
<1>8. GrantInv'
  <2> USE DEF ServiceInv, GrantInv
  <2>1. \A d \in Clients :
            /\ Over(d)' /\ request'[d] = None => client'[d] = "left"
            /\ inbox'[d] # None \/ outbox'[d] # None => Granted(d)'
    BY <1>1, <1>4, <1>5 DEF clientVars
  <2>2. \A d \in Clients :
            /\ task'[d] \in {"sending", "failing", "waiting"} /\ request'[d].type = "CreateStream" =>
                request'[d].cookie
            /\ task'[d] = "failing" /\ request'[d].type = "CreateStream" => sent'[d] < request'[d].n
    BY <1>1, <1>3 DEF clientVars
  <2>3. \A r \in Named' : r \in Streams /\ Granted(r[1])' /\ r[2] \in 1..sent'[r[1]]
    <3>1. ~Granted(c)
      BY <1>1 DEF Granted, Over
    <3> QED
      BY <1>3, <1>5, <1>6, <3>1, StreamParts
  <2> QED
    BY <2>1, <2>2, <2>3
<1>9. StreamInv'
  <2> USE DEF ServiceInv, StreamInv
  <2>1. s \notin streams
    BY <1>2 DEF ServerInv, ReplyInv
  <2>2. /\ \A r \in nodes' : reply'[r] = "ok"
        /\ \A r \in streams' \ nodes' : reply'[r] = "open"
    BY <1>1, <1>3, <2>1 DEF ServerInv, TypeOK, pwVars
  <2>3. CASE refused
    BY <1>1, <2>2, <2>3 DEF pwVars
  <2>4. CASE asked
    <3>1. CreateStream(s) \in ToPipewire /\ CreateStream(s).type = "CreateStream" /\ CreateStream(s).stream = s
      BY <1>2 DEF CreateStream, ToPipewire
    <3>2. \A i \in DOMAIN toPw' :
              \/ i \in DOMAIN toPw /\ toPw'[i] = toPw[i]
              \/ i = Len(toPw) + 1 /\ toPw'[i] = CreateStream(s)
      BY <2>4, <3>1, AppendedLast DEF ServerInv, TypeOK
    <3>3. \A i \in DOMAIN toPw : toPw[i].type = "CreateStream" =>
              toPw[i].stream \in Streams /\ toPw[i].stream # s /\ reply'[toPw[i].stream] = "open"
      <4>1. \A i \in DOMAIN toPw : toPw[i].type = "CreateStream" => toPw[i].stream \in Streams
        BY MessageParts DEF ServerInv, TypeOK
      <4> QED
        BY <1>2, <1>3, <4>1
    <3>4. reply'[s] = "open"
      BY <1>2, <2>4 DEF ServerInv, TypeOK
    <3> QED
      BY <1>1, <2>1, <2>2, <3>1, <3>2, <3>3, <3>4 DEF pwVars
  <2> QED
    BY <1>1, <2>3, <2>4
<1>10. CloseInv'
  <2> USE DEF ServiceInv, CloseInv
  <2>1. /\ failed' \subseteq Named' \cup broken'
        /\ \A r \in Streams : reply'[r] = "ok" /\ r \notin Named' \cup broken' => r \in nodes'
    BY <1>1, <1>3, <1>6 DEF pwVars
  <2>2. \A i \in DOMAIN toPw' : toPw'[i].type = "CloseStreams" => toPw'[i].ids \subseteq Named'
    <3>1. CASE refused
      BY <1>6, <3>1
    <3>2. CASE asked
      <4>1. CreateStream(s) \in ToPipewire /\ CreateStream(s).type = "CreateStream"
        BY <1>2 DEF CreateStream, ToPipewire
      <4>2. \A i \in DOMAIN toPw' :
                (i \in DOMAIN toPw /\ toPw'[i] = toPw[i]) \/ toPw'[i] = CreateStream(s)
        BY <3>2, <4>1, Appended DEF ServerInv, TypeOK
      <4> QED
        BY <1>6, <4>1, <4>2
    <3> QED
      BY <1>1, <3>1, <3>2
  <2> QED
    BY <2>1, <2>2
<1> QED
  BY <1>6, <1>7, <1>8, <1>9, <1>10 DEF Implements, ServiceInv, Service!svars

LEMMA AskToClose ==
    ASSUME ServerInv, ServiceInv, NEW c \in Clients, SendCloseStreams(c)
    PROVE  Implements
<1> DEFINE m == CloseStreams(request[c].ids)
<1>1. /\ task[c] = "sending" /\ request[c].type = "CloseStreams" /\ request[c] # None
      /\ request[c] \in ClientMessage /\ UNCHANGED <<clientVars, sent, outbox, pwVars, reply>>
      /\ \A d \in Clients : task'[d] = task[d] \/ (d = c /\ task'[d] = "failing")
      /\ toPw' \in {toPw, Append(toPw, m)}
  BY DEF SendCloseStreams, Go, ServerInv, TypeOK, TaskInv
<1>2. \A d \in Clients : Over(d)' <=> Over(d)
  BY <1>1 DEF Over
<1>3. \A d \in Clients : Granted(d)' <=> Granted(d)
  BY <1>1, <1>2, GrantedKept DEF clientVars
<1>4. Wanted' = Wanted /\ Answered' = Answered /\ Named' = Named
  BY <1>1, <1>2, <1>3, ViewKept DEF clientVars
<1>5. Live' = Live /\ ServiceState' = ServiceState /\ broken' = broken
  <2>1. \A r \in streams : r[1] \in Clients
    BY StreamParts DEF ServerInv, TypeOK
  <2> QED
    BY <1>1, <1>3, <2>1 DEF Live, ServiceState, Running, pwVars
<1>6. /\ m \in ToPipewire /\ m.type = "CloseStreams" /\ m.ids = request[c].ids
      /\ \A i \in DOMAIN toPw' :
            (i \in DOMAIN toPw /\ toPw'[i] = toPw[i]) \/ (i = Len(toPw) + 1 /\ toPw'[i] = m)
  <2>1. m \in ToPipewire /\ m.type = "CloseStreams" /\ m.ids = request[c].ids
    BY <1>1, RequestParts DEF CloseStreams, ToPipewire
  <2>2. toPw \in Seq(ToPipewire)
    BY DEF ServerInv, TypeOK
  <2> HIDE DEF m
  <2>3. \A i \in DOMAIN Append(toPw, m) :
            \/ i \in DOMAIN toPw /\ Append(toPw, m)[i] = toPw[i]
            \/ i = Len(toPw) + 1 /\ Append(toPw, m)[i] = m
    BY <2>1, <2>2, AppendedLast
  <2> QED
    BY <1>1, <2>1, <2>3
<1>7. request[c].ids \subseteq Named
  BY <1>1 DEF Named, Asks
<1> HIDE DEF m
<1>8. GrantInv'
  <2> USE DEF ServiceInv, GrantInv
  <2>1. \A d \in Clients :
            /\ Over(d)' /\ request'[d] = None => client'[d] = "left"
            /\ inbox'[d] # None \/ outbox'[d] # None => Granted(d)'
            /\ task'[d] \in {"sending", "failing", "waiting"} /\ request'[d].type = "CreateStream" =>
                request'[d].cookie
            /\ task'[d] = "failing" /\ request'[d].type = "CreateStream" => sent'[d] < request'[d].n
    BY <1>1, <1>2, <1>3 DEF clientVars
  <2>2. \A r \in Named' : r \in Streams /\ Granted(r[1])' /\ r[2] \in 1..sent'[r[1]]
    BY <1>1, <1>3, <1>4, StreamParts
  <2> QED
    BY <2>1, <2>2
<1>9. StreamInv' /\ CloseInv'
  BY <1>1, <1>4, <1>6, <1>7 DEF ServiceInv, StreamInv, CloseInv, pwVars
<1> QED
  BY <1>4, <1>5, <1>8, <1>9 DEF Implements, ServiceInv, Service!svars
\* A task is over before it asked for anything, or without an answer, or with all.
LEMMA EndStep ==
    ASSUME ServerInv, ServiceInv, NEW c \in Clients,
           \/ NoRequest(c) \/ WrongCookie(c) \/ StreamCreationFails(c)
           \/ DropGuard(c) /\ ~(task[c] = "sending" /\ request[c].type = "CreateStream")
    PROVE  Implements
<1>1. /\ task' = [task EXCEPT ![c] = "done"] /\ task[c] \in {"reading", "sending", "failing", "waiting"}
      /\ UNCHANGED <<clientVars, sent, outbox, toPw, pwVars, reply>>
  BY DEF NoRequest, WrongCookie, StreamCreationFails, Collected, DropGuard, Go
<1>2. /\ \A d \in Clients : task'[d] = IF d = c THEN "done" ELSE task[d]
      /\ \A d \in Clients \ {c} : Over(d)' <=> Over(d)
      /\ ~Over(c) /\ Over(c)'
  BY <1>1 DEF ServerInv, TypeOK, Over
<1>3. /\ ~Granted(c)' /\ (Wanted[c] = None \/ ServiceState # "up")
      /\ request[c] = None => client[c] = "left"
  <2> USE DEF ServerInv, ServiceInv
  <2>1. CASE NoRequest(c)
    BY <1>1, <2>1 DEF NoRequest, Granted, Wants, Asks, Wanted, clientVars
  <2>2. CASE WrongCookie(c)
    BY <1>1, <2>2 DEF WrongCookie, Granted, Wants, Asks, Wanted, clientVars
  <2>3. CASE StreamCreationFails(c)
    <3>1. PICK s \in Asked(c) : reply[s] = "dropped"
      BY <2>3 DEF StreamCreationFails
    <3>2. s \in Streams
      BY <3>1, AskedParts
    <3>3. ~Running
      BY <3>1, <3>2 DEF ReplyInv
    <3>4. ~Granted(c)'
      BY <1>1, <3>1 DEF Granted, Asked
    <3>5. request[c] # None
      BY <2>3 DEF StreamCreationFails, Collected, TaskInv
    <3> QED
      BY <3>3, <3>4, <3>5 DEF ServiceState, Running
  <2>4. CASE DropGuard(c) /\ task[c] = "failing"
    <3>1. /\ pw = "gone" /\ request[c] # None
          /\ request[c].type = "CreateStream" => sent[c] < request[c].n
      BY <2>4 DEF TaskInv, GrantInv
    <3>2. request[c].type = "CreateStream" => request[c].n \in Nat /\ sent[c] \in Nat
      BY <3>1, RequestParts, MaxRectsNat DEF TypeOK
    <3>3. ~Granted(c)'
      BY <1>1, <3>1, <3>2 DEF Granted, Wants, Asks, clientVars
    <3> QED
      BY <3>1, <3>3 DEF ServiceState, Running
  <2>5. CASE DropGuard(c) /\ task[c] = "sending" /\ request[c].type # "CreateStream"
    <3>1. request[c] # None
      BY <2>5 DEF TaskInv
    <3> QED
      BY <1>1, <2>5, <3>1 DEF Granted, Wants, Asks, Wanted, clientVars
  <2> QED
    BY <2>1, <2>2, <2>3, <2>4, <2>5 DEF DropGuard
<1>4. /\ Wanted' = Wanted /\ Named' = Named
      /\ \A d \in Clients : Granted(d)' <=> Granted(d)
      /\ Answered[c] = "none" /\ Answered' = [Answered EXCEPT ![c] = "ended"]
  BY <1>1, <1>2, <1>3, ViewEnds DEF clientVars
<1>5. Live' = Live /\ ServiceState' = ServiceState /\ broken' = broken
  <2>1. \A r \in streams : r[1] \in Clients
    BY StreamParts DEF ServerInv, TypeOK
  <2> QED
    BY <1>1, <1>4, <2>1 DEF Live, ServiceState, Running, pwVars
<1>6. Service!End(c)
  BY <1>3, <1>4, <1>5 DEF Service!End
<1>7. GrantInv'
  <2> USE DEF ServiceInv, GrantInv
  <2>1. \A d \in Clients :
            /\ Over(d)' /\ request'[d] = None => client'[d] = "left"
            /\ inbox'[d] # None \/ outbox'[d] # None => Granted(d)'
            /\ task'[d] \in {"sending", "failing", "waiting"} /\ request'[d].type = "CreateStream" =>
                request'[d].cookie
            /\ task'[d] = "failing" /\ request'[d].type = "CreateStream" => sent'[d] < request'[d].n
    BY <1>1, <1>2, <1>3, <1>4 DEF clientVars
  <2>2. \A r \in Named' : r \in Streams /\ Granted(r[1])' /\ r[2] \in 1..sent'[r[1]]
    BY <1>1, <1>4, StreamParts
  <2> QED
    BY <2>1, <2>2
<1>8. StreamInv' /\ CloseInv'
  BY <1>1, <1>4 DEF ServiceInv, StreamInv, CloseInv, pwVars
<1> QED
  BY <1>6, <1>7, <1>8 DEF Implements, ServiceInv, Service!Next

\* The answer grants all streams: they have been paused, and so are there.
LEMMA GrantStep ==
    ASSUME ServerInv, ServiceInv, NEW c \in Clients, StreamCreated(c)
    PROVE  Implements
<1>1. /\ task' = [task EXCEPT ![c] = "done"] /\ task[c] = "waiting"
      /\ UNCHANGED <<clientVars, sent, toPw, pwVars, reply>>
      /\ \A d \in Clients \ {c} : outbox'[d] = outbox[d]
      /\ request[c] # None /\ request[c].type = "CreateStream" /\ request[c].cookie
      /\ sent[c] = request[c].n /\ sent[c] \in Nat /\ \A s \in Asked(c) : reply[s] = "ok"
  BY MaxRectsNat DEF StreamCreated, Collected, Tell, Go, ServerInv, TypeOK, TaskInv, ServiceInv, GrantInv
<1>2. /\ \A d \in Clients : task'[d] = IF d = c THEN "done" ELSE task[d]
      /\ \A d \in Clients \ {c} : Over(d)' <=> Over(d)
      /\ ~Over(c) /\ Over(c)'
  BY <1>1 DEF ServerInv, TypeOK, Over
<1>3. \A d \in Clients : Granted(d)' <=> d = c \/ Granted(d)
  <2>1. ASSUME NEW d \in Clients, d # c
        PROVE  Granted(d)' <=> Granted(d)
    BY <1>1, <1>2, <2>1, GrantedKept DEF clientVars
  <2>2. Granted(c)'
    BY <1>1, <1>2 DEF Granted, Wants, Asks, Asked, clientVars
  <2> QED
    BY <2>1, <2>2
<1>4. Wanted' = Wanted /\ Named' = Named /\ ServiceState' = ServiceState /\ broken' = broken
  BY <1>1 DEF Wanted, Named, Wants, Asks, ServiceState, Running, clientVars, pwVars
<1>5. Answered[c] = "none" /\ Answered' = [Answered EXCEPT ![c] = "ids"]
  <2>1. ~Granted(c)
    BY <1>2 DEF Granted
  <2> QED
    BY <1>2, <1>3, <2>1 DEF Answered
<1>6. Wanted[c] = sent[c] /\ Wanted[c] # None
  BY <1>1, NoneNothing DEF Wanted, Wants, Asks
<1>7. \E lost \in SUBSET (Service!IdsOf(c) \cap broken) :
          Live' = Live \cup (Service!IdsOf(c) \ lost)
  <2>1. \A s \in streams : s \in Streams /\ s[1] \in Clients
    BY StreamParts DEF ServerInv, TypeOK
  <2>2. Live' = Live \cup {s \in streams : s[1] = c}
    BY <1>1, <1>3, <2>1 DEF Live, pwVars
  <2>3. Service!IdsOf(c) = Asked(c)
    BY <1>6 DEF Service!IdsOf, Asked
  <2>4. \A s \in streams : s[1] = c => s \in Asked(c)
    BY <2>1, AskedParts DEF ServerInv, ReplyInv
  <2>5. \A s \in Asked(c) : s[1] = c /\ (s \in streams \/ s \in broken)
    <3> SUFFICES ASSUME NEW s \in Asked(c)
                 PROVE  s[1] = c /\ (s \in streams \/ s \in broken)
      OBVIOUS
    <3>1. s \in Streams /\ s[1] = c
      BY AskedParts DEF ServerInv
    <3>2. s \notin Named
      BY <1>2, <3>1 DEF ServiceInv, GrantInv, Granted
    <3> QED
      BY <1>1, <3>1, <3>2 DEF ServiceInv, CloseInv, ServerInv, TypeOK
  <2> DEFINE lost == Asked(c) \ streams
  <2>6. lost \in SUBSET (Service!IdsOf(c) \cap broken)
    BY <2>3, <2>5
  <2>7. {s \in streams : s[1] = c} = Service!IdsOf(c) \ lost
    BY <2>3, <2>4, <2>5
  <2> QED
    BY <2>2, <2>6, <2>7
<1>8. Service!Grant(c)
  BY <1>4, <1>5, <1>6, <1>7 DEF Service!Grant
<1>9. GrantInv'
  <2> USE DEF ServiceInv, GrantInv
  <2>1. \A d \in Clients :
            /\ Over(d)' /\ request'[d] = None => client'[d] = "left"
            /\ inbox'[d] # None \/ outbox'[d] # None => Granted(d)'
            /\ task'[d] \in {"sending", "failing", "waiting"} /\ request'[d].type = "CreateStream" =>
                request'[d].cookie
            /\ task'[d] = "failing" /\ request'[d].type = "CreateStream" => sent'[d] < request'[d].n
    BY <1>1, <1>2, <1>3 DEF clientVars
  <2>2. \A r \in Named' : r \in Streams /\ Granted(r[1])' /\ r[2] \in 1..sent'[r[1]]
    BY <1>1, <1>3, <1>4, StreamParts
  <2> QED
    BY <2>1, <2>2
<1>10. StreamInv' /\ CloseInv'
  BY <1>1, <1>4 DEF ServiceInv, StreamInv, CloseInv, pwVars
<1> QED
  BY <1>8, <1>9, <1>10 DEF Implements, ServiceInv, Service!Next
LEMMA TakenNext ==
    ASSUME ServerInv, NEW type \in {"CreateStream", "CloseStreams"}, Received(type)
    PROVE  /\ pw = "draining" /\ 1 \in DOMAIN toPw /\ Head(toPw) = toPw[1] /\ toPw[1].type = type
           /\ \A i \in DOMAIN toPw' : i + 1 \in DOMAIN toPw /\ i + 1 # 1 /\ toPw'[i] = toPw[i + 1]
           /\ \A i, j \in DOMAIN toPw' : i + 1 = j + 1 => i = j
           /\ \A i \in DOMAIN toPw : toPw[i].type = "CreateStream" => toPw[i].stream \in Streams
<1>1. toPw \in Seq(ToPipewire) /\ toPw # <<>> /\ toPw' = Tail(toPw) /\ Head(toPw).type = type /\ pw = "draining"
  BY DEF Received, ServerInv, TypeOK
<1>2. /\ 1 \in DOMAIN toPw /\ Head(toPw) = toPw[1]
      /\ \A i \in DOMAIN toPw' : i + 1 \in DOMAIN toPw /\ toPw'[i] = toPw[i + 1]
  BY <1>1, Taken
<1>3. \A i, j \in DOMAIN toPw' : i + 1 # 1 /\ (i + 1 = j + 1 => i = j)
  <2>1. DOMAIN toPw' \subseteq Nat \ {0}
    BY <1>1
  <2> QED
    BY <2>1
<1>4. \A i \in DOMAIN toPw : toPw[i].type = "CreateStream" => toPw[i].stream \in Streams
  BY <1>1, MessageParts
<1> QED
  BY <1>1, <1>2, <1>3, <1>4

\* A step of the pipewire thread that ends no oneshot anybody was granted by.
LEMMA PipewireView ==
    ASSUME ServerInv, UNCHANGED <<clientVars, taskVars>>,
           \A s \in Streams : Granted(s[1]) \/ reply[s] = "ok" =>
               (reply'[s] = "ok" <=> reply[s] = "ok"),
           \A s \in Streams : reply'[s] = "ok" /\ reply[s] # "ok" => ~Over(s[1])
    PROVE  /\ Wanted' = Wanted /\ Answered' = Answered /\ Named' = Named
           /\ \A c \in Clients : Granted(c)' <=> Granted(c)
<1>1. \A c \in Clients : Over(c)' <=> Over(c)
  BY DEF Over, taskVars
<1>2. ASSUME NEW c \in Clients
      PROVE  Granted(c)' <=> Granted(c)
  <2>1. CASE Over(c)
    <3>1. \A s \in Asked(c) : reply'[s] = "ok" <=> reply[s] = "ok"
      BY <2>1, AskedParts DEF ServerInv
    <3> QED
      BY <1>1, <3>1, GrantedKept DEF clientVars, taskVars
  <2>2. CASE ~Over(c)
    BY <1>1, <2>2 DEF Granted
  <2> QED
    BY <2>1, <2>2
<1> QED
  BY <1>1, <1>2, ViewKept DEF clientVars

\* Of GrantInv, a step of the pipewire thread changes nothing.
LEMMA PipewireGrants ==
    ASSUME ServerInv, GrantInv, UNCHANGED <<clientVars, taskVars>>, Named' = Named,
           \A c \in Clients : Granted(c)' <=> Granted(c)
    PROVE  GrantInv'
<1>1. \A c \in Clients : Over(c)' <=> Over(c)
  BY DEF Over, taskVars
<1>2. \A r \in Named' : r \in Streams /\ Granted(r[1])' /\ r[2] \in 1..sent'[r[1]]
  BY StreamParts DEF GrantInv, taskVars
<1> QED
  BY <1>1, <1>2 DEF GrantInv, clientVars, taskVars

\* The first message makes a stream, or fails to and ends the thread.
LEMMA CreateStep ==
    ASSUME ServerInv, ServiceInv, HandleCreateStream \/ HandleCreateStreamFails
    PROVE  Implements
<1> DEFINE s == toPw[1].stream
<1>1. Received("CreateStream")
  BY DEF HandleCreateStream, HandleCreateStreamFails
<1>2. /\ pw = "draining" /\ 1 \in DOMAIN toPw /\ Head(toPw) = toPw[1] /\ toPw[1].type = "CreateStream"
      /\ \A i \in DOMAIN toPw' : i + 1 \in DOMAIN toPw /\ i + 1 # 1 /\ toPw'[i] = toPw[i + 1]
      /\ \A i, j \in DOMAIN toPw' : i + 1 = j + 1 => i = j
      /\ \A i \in DOMAIN toPw : toPw[i].type = "CreateStream" => toPw[i].stream \in Streams
  BY <1>1, TakenNext
<1>3. s \in Streams /\ s[1] \in Clients /\ reply[s] = "open" /\ s \notin streams
  BY <1>2, StreamParts DEF ServiceInv, StreamInv
<1>4. \A i \in DOMAIN toPw' : toPw'[i].type = "CreateStream" =>
        /\ toPw'[i].stream \in Streams /\ toPw'[i].stream # s /\ reply[toPw'[i].stream] = "open"
        /\ toPw'[i].stream \notin streams
        /\ \A j \in DOMAIN toPw' :
            toPw'[j].type = "CreateStream" /\ toPw'[j].stream = toPw'[i].stream => j = i
  BY <1>2 DEF ServiceInv, StreamInv
<1>5. \A i \in DOMAIN toPw' : toPw'[i].type = "CloseStreams" => toPw'[i].ids \subseteq Named
  BY <1>2 DEF ServiceInv, CloseInv
<1>6. ~Granted(s[1])
  BY <1>3, GrantedParts DEF ServerInv, ReplyInv
<1> HIDE DEF s
<1>7. CASE HandleCreateStream
  <2>1. streams' = streams \cup {s} /\ UNCHANGED <<clientVars, taskVars, wake, pw, nodes, failed, broken, reply>>
    BY <1>2, <1>7 DEF HandleCreateStream, s
  <2>2. /\ Wanted' = Wanted /\ Answered' = Answered /\ Named' = Named
        /\ \A c \in Clients : Granted(c)' <=> Granted(c)
    BY <2>1, PipewireView
  <2>3. Live' = Live /\ ServiceState' = ServiceState
    <3>1. \A r \in streams : r[1] \in Clients
      BY StreamParts DEF ServerInv, TypeOK
    <3> QED
      BY <1>3, <1>6, <2>1, <2>2, <3>1 DEF Live, ServiceState, Running
  <2>4. GrantInv'
    BY <2>1, <2>2, PipewireGrants DEF ServiceInv
  <2>5. StreamInv'
    BY <1>3, <1>4, <2>1 DEF ServiceInv, StreamInv
  <2>6. CloseInv'
    BY <1>5, <2>1, <2>2 DEF ServiceInv, CloseInv
  <2> QED
    BY <2>1, <2>2, <2>3, <2>4, <2>5, <2>6 DEF Implements, ServiceInv, Service!svars
<1>8. CASE HandleCreateStreamFails
  <2>1. /\ reply' = [reply EXCEPT ![s] = "dropped"] /\ pw' = "quit" /\ MayFail
        /\ UNCHANGED <<clientVars, taskVars, wake, streams, nodes, failed, broken>>
    BY <1>2, <1>8 DEF HandleCreateStreamFails, s
  <2>2. \A r \in Streams : reply'[r] = IF r = s THEN "dropped" ELSE reply[r]
    BY <2>1 DEF ServerInv, TypeOK
  <2>3. /\ Wanted' = Wanted /\ Answered' = Answered /\ Named' = Named
        /\ \A c \in Clients : Granted(c)' <=> Granted(c)
    BY <1>3, <2>1, <2>2, PipewireView
  <2>4. Live' = Live
    <3>1. \A r \in streams : r[1] \in Clients
      BY StreamParts DEF ServerInv, TypeOK
    <3> QED
      BY <2>1, <2>3, <3>1 DEF Live
  <2>5. Service!Fail
    BY <1>2, <2>1, <2>3, <2>4 DEF Service!Fail, ServiceState, Running
  <2>6. GrantInv'
    BY <2>1, <2>3, PipewireGrants DEF ServiceInv
  <2>7. StreamInv'
    BY <1>3, <1>4, <2>1, <2>2 DEF ServiceInv, StreamInv, ServerInv, TypeOK
  <2>8. CloseInv'
    BY <1>2, <1>5, <2>1, <2>2, <2>3 DEF ServiceInv, CloseInv
  <2> QED
    BY <2>5, <2>6, <2>7, <2>8 DEF Implements, ServiceInv, Service!Next
<1> QED
  BY <1>7, <1>8

\* The thread wakes up, or marks streams that somebody named.
LEMMA MarkStep ==
    ASSUME ServerInv, ServiceInv, WakeUp \/ HandleCloseStreams
    PROVE  Implements
<1>1. /\ UNCHANGED <<clientVars, taskVars, streams, nodes, broken, reply>>
      /\ pw \in {"idle", "draining"} /\ pw' \in {"idle", "draining"}
  BY DEF WakeUp, HandleCloseStreams, Received
<1>2. /\ Wanted' = Wanted /\ Answered' = Answered /\ Named' = Named
      /\ \A c \in Clients : Granted(c)' <=> Granted(c)
  BY <1>1, PipewireView
<1>3. Live' = Live /\ ServiceState' = ServiceState
  <2>1. \A r \in streams : r[1] \in Clients
    BY StreamParts DEF ServerInv, TypeOK
  <2> QED
    BY <1>1, <1>2, <2>1 DEF Live, ServiceState, Running
<1>4. GrantInv'
  BY <1>1, <1>2, PipewireGrants DEF ServiceInv
<1>5. CASE WakeUp
  <2>1. UNCHANGED <<toPw, failed>>
    BY <1>5 DEF WakeUp
  <2>2. StreamInv' /\ CloseInv'
    BY <1>1, <1>2, <2>1 DEF ServiceInv, StreamInv, CloseInv
  <2> QED
    BY <1>1, <1>2, <1>3, <1>4, <2>2 DEF Implements, ServiceInv, Service!svars
<1>6. CASE HandleCloseStreams
  <2>1. /\ 1 \in DOMAIN toPw /\ Head(toPw) = toPw[1] /\ toPw[1].type = "CloseStreams"
        /\ \A i \in DOMAIN toPw' : i + 1 \in DOMAIN toPw /\ i + 1 # 1 /\ toPw'[i] = toPw[i + 1]
        /\ \A i, j \in DOMAIN toPw' : i + 1 = j + 1 => i = j
    BY <1>6, TakenNext DEF HandleCloseStreams
  <2>2. failed' \subseteq Named' \cup broken'
    BY <1>2, <1>6, <2>1 DEF HandleCloseStreams, ServiceInv, CloseInv
  <2>3. StreamInv'
    BY <1>1, <2>1 DEF ServiceInv, StreamInv
  <2>4. CloseInv'
    BY <1>1, <1>2, <2>1, <2>2 DEF ServiceInv, CloseInv
  <2> QED
    BY <1>1, <1>2, <1>3, <1>4, <2>3, <2>4 DEF Implements, ServiceInv, Service!svars
<1> QED
  BY <1>5, <1>6

\* Only named or broken streams are removed.
LEMMA CloseStep ==
    ASSUME ServerInv, ServiceInv, Reap
    PROVE  Implements
<1>1. /\ UNCHANGED <<clientVars, taskVars, toPw, broken, reply>> /\ toPw = <<>>
      /\ streams' = streams \ failed /\ nodes' = nodes \ failed /\ failed' = {}
      /\ pw = "draining" /\ pw' = "idle"
  BY DEF Reap
<1>2. /\ Wanted' = Wanted /\ Answered' = Answered /\ Named' = Named
      /\ \A c \in Clients : Granted(c)' <=> Granted(c)
  BY <1>1, PipewireView
<1>3. Live' = Live \ (failed \cap Live) /\ ServiceState' = ServiceState
  <2>1. \A r \in streams : r[1] \in Clients
    BY StreamParts DEF ServerInv, TypeOK
  <2> QED
    BY <1>1, <1>2, <2>1 DEF Live, ServiceState, Running
<1>4. failed \subseteq Named \cup broken /\ failed \subseteq Streams
  BY DEF ServiceInv, CloseInv, ServerInv, TypeOK
<1>5. Service!Close(failed \cap Live)
  BY <1>1, <1>2, <1>3, <1>4 DEF Service!Close, ServiceState, Running
<1>6. failed \cap Live \in SUBSET Service!Streams
  BY <1>4 DEF Streams, Service!Streams
<1>7. GrantInv'
  BY <1>1, <1>2, PipewireGrants DEF ServiceInv
<1>8. DOMAIN toPw' = {}
  BY <1>1
<1>9. StreamInv' /\ CloseInv'
  BY <1>1, <1>2, <1>4, <1>8 DEF ServiceInv, StreamInv, CloseInv
<1> QED
  BY <1>5, <1>6, <1>7, <1>9 DEF Implements, ServiceInv, Service!Next

\* The thread ends: its streams stay where they are, or there are none.
LEMMA StopStep ==
    ASSUME ServerInv, ServiceInv, PipewireLeaks \/ PipewireEnds
    PROVE  Implements
<1>1. /\ UNCHANGED <<clientVars, taskVars, broken, streams, nodes, failed>>
      /\ pw = "quit" /\ pw' \in {"leaked", "gone"}
      /\ \A r \in Streams : reply'[r] = "ok" <=> reply[r] = "ok"
  BY DEF PipewireLeaks, PipewireEnds
<1>2. /\ Wanted' = Wanted /\ Answered' = Answered /\ Named' = Named
      /\ \A c \in Clients : Granted(c)' <=> Granted(c)
  BY <1>1, PipewireView
<1>3. Service!Stop
  <2>1. Live' = Live
    <3>1. \A r \in streams : r[1] \in Clients
      BY StreamParts DEF ServerInv, TypeOK
    <3> QED
      BY <1>1, <1>2, <3>1 DEF Live
  <2> QED
    BY <1>1, <1>2, <2>1 DEF Service!Stop, ServiceState, Running
<1>4. GrantInv'
  BY <1>1, <1>2, PipewireGrants DEF ServiceInv
<1>5. CASE PipewireLeaks
  <2>1. UNCHANGED <<toPw, reply>>
    BY <1>5 DEF PipewireLeaks
  <2> QED
    BY <1>1, <1>2, <1>3, <1>4, <2>1 DEF Implements, ServiceInv, StreamInv, CloseInv, Service!Next
<1>6. CASE PipewireEnds
  <2>1. streams = {} /\ nodes = {} /\ DOMAIN toPw' = {}
    BY <1>6 DEF PipewireEnds, ServerInv, TypeOK
  <2>2. StreamInv' /\ CloseInv'
    BY <1>1, <1>2, <2>1 DEF ServiceInv, StreamInv, CloseInv
  <2> QED
    BY <1>3, <1>4, <2>2 DEF Implements, ServiceInv, Service!Next
<1> QED
  BY <1>5, <1>6

\* A stream is paused; its task still waits for it and has granted nothing.
LEMMA PausedStep ==
    ASSUME ServerInv, ServiceInv, NEW s \in Streams, Paused(s)
    PROVE  Implements
<1>1. /\ s \in streams \ nodes /\ nodes' = nodes \cup {s} /\ reply' = [reply EXCEPT ![s] = "ok"]
      /\ UNCHANGED <<clientVars, taskVars, toPw, wake, pw, streams, failed, broken>>
  BY DEF Paused
<1>2. reply[s] = "open" /\ ~Over(s[1])
  BY <1>1 DEF ServiceInv, StreamInv, ServerInv, ReplyAwaited, Over
<1>3. \A r \in Streams : reply'[r] = IF r = s THEN "ok" ELSE reply[r]
  BY <1>1 DEF ServerInv, TypeOK
<1>4. /\ Wanted' = Wanted /\ Answered' = Answered /\ Named' = Named
      /\ \A c \in Clients : Granted(c)' <=> Granted(c)
  <2>1. ~Granted(s[1])
    BY <1>2 DEF Granted
  <2> QED
    BY <1>1, <1>2, <1>3, <2>1, PipewireView
<1>5. Live' = Live /\ ServiceState' = ServiceState /\ broken' = broken
  <2>1. \A r \in streams : r[1] \in Clients
    BY StreamParts DEF ServerInv, TypeOK
  <2> QED
    BY <1>1, <1>4, <2>1 DEF Live, ServiceState, Running
<1>6. GrantInv'
  BY <1>1, <1>4, PipewireGrants DEF ServiceInv
<1>7. \A i \in DOMAIN toPw : toPw[i].type = "CreateStream" => toPw[i].stream \in Streams \ {s}
  BY <1>1, MessageParts DEF ServerInv, TypeOK, ServiceInv, StreamInv
<1>8. StreamInv'
  BY <1>1, <1>3, <1>7 DEF ServiceInv, StreamInv, ServerInv, TypeOK
<1>9. CloseInv'
  BY <1>1, <1>3, <1>4 DEF ServiceInv, CloseInv
<1> QED
  BY <1>4, <1>5, <1>6, <1>8, <1>9 DEF Implements, ServiceInv, Service!svars
\* A stream breaks, or picom wakes the thread.
LEMMA BreakStep ==
    ASSUME ServerInv, ServiceInv, PicomWakes \/ \E s \in Streams : Breaks(s)
    PROVE  Implements
<1>1. /\ UNCHANGED <<clientVars, taskVars, toPw, pw, streams, nodes, reply>>
      /\ \/ UNCHANGED <<failed, broken>>
         \/ Running /\ \E s \in Streams : failed' = failed \cup {s} /\ broken' = broken \cup {s}
  BY DEF PicomWakes, Breaks, pwVars
<1>2. /\ Wanted' = Wanted /\ Answered' = Answered /\ Named' = Named
      /\ \A c \in Clients : Granted(c)' <=> Granted(c)
  BY <1>1, PipewireView
<1>3. Live' = Live /\ ServiceState' = ServiceState
  <2>1. \A r \in streams : r[1] \in Clients
    BY StreamParts DEF ServerInv, TypeOK
  <2> QED
    BY <1>1, <1>2, <2>1 DEF Live, ServiceState, Running
<1>4. GrantInv'
  BY <1>1, <1>2, PipewireGrants DEF ServiceInv
<1>5. StreamInv'
  BY <1>1 DEF ServiceInv, StreamInv
<1>6. CloseInv'
  BY <1>1, <1>2 DEF ServiceInv, CloseInv
<1>7. broken' = broken \/ \E s \in Service!Streams : Service!Break(s)
  BY <1>1, <1>2, <1>3 DEF Service!Break, ServiceState, Streams, Service!Streams
<1> QED
  BY <1>2, <1>3, <1>4, <1>5, <1>6, <1>7 DEF Implements, ServiceInv, Service!Next, Service!svars

LEMMA ServiceStep == ServerInv /\ ServiceInv /\ [Next]_vars => Implements
<1> SUFFICES ASSUME ServerInv, ServiceInv, [Next]_vars PROVE Implements
  OBVIOUS
<1>1. ASSUME NEW c \in Clients, Accept(c) \/ Leave(c) \/ Serve(c) \/ \E m \in Requests : Request(c, m)
      PROVE  Implements
  BY <1>1, UnseenStep, RequestStep, AskPipewire, AskToClose, EndStep, GrantStep DEF Serve
<1>2. ASSUME WakerCallback \/ PicomWakes \/ \E s \in Streams : Paused(s) \/ Breaks(s)
      PROVE  Implements
  BY <1>2, CreateStep, MarkStep, CloseStep, StopStep, PausedStep, BreakStep DEF WakerCallback
<1>3. CASE UNCHANGED vars
  <2>1. UNCHANGED <<clientVars, taskVars, toPw, pw, streams, nodes, failed, broken, reply>>
    BY <1>3 DEF vars, pwVars
  <2>2. /\ Wanted' = Wanted /\ Answered' = Answered /\ Named' = Named
        /\ \A c \in Clients : Granted(c)' <=> Granted(c)
    BY <2>1, PipewireView
  <2>3. Live' = Live /\ ServiceState' = ServiceState
    <3>1. \A r \in streams : r[1] \in Clients
      BY StreamParts DEF ServerInv, TypeOK
    <3> QED
      BY <2>1, <2>2, <3>1 DEF Live, ServiceState, Running
  <2>4. GrantInv'
    BY <2>1, <2>2, PipewireGrants DEF ServiceInv
  <2>5. StreamInv' /\ CloseInv'
    BY <2>1, <2>2 DEF ServiceInv, StreamInv, CloseInv
  <2> QED
    BY <2>1, <2>2, <2>3, <2>4, <2>5 DEF Implements, ServiceInv, Service!svars
<1> QED
  BY <1>1, <1>2, <1>3 DEF Next

LEMMA ServiceInvariant == Spec => []ServiceInv
<1>1. Init => ServiceInv
  BY ServiceStarts
<1>2. ServerInv /\ ServiceInv /\ [Next]_vars => ServiceInv'
  BY ServiceStep DEF Implements
<1> QED
  BY <1>1, <1>2, ServerInvariant, PTL DEF Spec

\* The server keeps what StreamService promises: requests of any clients, mixed
\* in the channel, are granted whole or, once the pipewire thread gives up, not
\* at all, and what was granted goes only when it is named or breaks.
THEOREM ServerImplementsService == Spec => StreamsServed
<1>1. Init => Service!Init
  BY ServiceStarts
<1>2. ServerInv /\ ServiceInv /\ [Next]_vars => [Service!Next]_(Service!svars)
  BY ServiceStep DEF Implements
<1> QED
  BY <1>1, <1>2, ServerInvariant, ServiceInvariant, PTL DEF Spec, StreamsServed, Service!Spec

\* A stream whose node id a client has been or is being told is in the pipewire
\* thread's map until a client names it or it breaks, also after that thread's end.
THEOREM GrantsLast == Spec => []Service!NamedOrLive
<1>1. ServerInv /\ ServiceInv => Service!NamedOrLive
  <2> SUFFICES ASSUME ServerInv, ServiceInv,
                      NEW c \in Service!Granted, NEW s \in Service!IdsOf(c), s \notin Named \cup broken
               PROVE  s \in Live
    BY DEF Service!NamedOrLive
  <2>1. c \in Clients /\ Granted(c)
    BY DEF Service!Granted, Answered
  <2>2. Wanted[c] = sent[c] /\ sent[c] \in 0..MaxRects
    BY <2>1, GrantedParts DEF ServerInv, TypeOK
  <2>3. s \in Asked(c)
    BY <2>2 DEF Service!IdsOf, Asked
  <2>4. s \in Streams /\ s[1] = c /\ reply[s] = "ok"
    BY <2>1, <2>3, AskedParts DEF ServerInv, Granted
  <2>5. s \in streams
    BY <2>4 DEF ServiceInv, CloseInv, ServerInv, TypeOK
  <2> QED
    BY <2>1, <2>4, <2>5 DEF Live
<1> QED
  BY <1>1, ServerInvariant, ServiceInvariant, PTL
=============================================================================
