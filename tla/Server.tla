------------------------------- MODULE Server -------------------------------
(***************************************************************************)
(* The plugin's server (plugin/src/server.rs): one task per connection,    *)
(* which reads one request, passes it on to the pipewire thread, waits for *)
(* the node ids of all streams asked for and answers.  Connections run     *)
(* concurrently; clients may leave at any time; the pipewire thread may    *)
(* quit.  Of that thread the module keeps what the server can tell: when   *)
(* it is woken, the order of messages, when a stream has its node id.      *)
(***************************************************************************)
EXTENDS Naturals, Sequences, FiniteSets

CONSTANTS
    Clients,    \* connections; each sends one request
    MaxRects,   \* bound: rectangles of a request
    MaxBroken,  \* bound: streams that break
    MayFail,    \* whether PipeWire can fail to create a stream
    None        \* nothing there

ASSUME MaxRectsNat == MaxRects \in Nat
ASSUME MayFailBoolean == MayFail \in BOOLEAN

\* The stream made for the i-th rectangle of a client; it stands for its node
\* id too, which PipeWire never gives to another.
Streams == Clients \X (1..MaxRects)

CreateStreams(cookie, n) == [type |-> "CreateStream", cookie |-> cookie, n |-> n]
CloseStreams(ids) == [type |-> "CloseStreams", ids |-> ids]
Malformed == [type |-> "Malformed"]

ClientMessage ==
    [type : {"CreateStream"}, cookie : BOOLEAN, n : 0..MaxRects]
        \cup [type : {"CloseStreams"}, ids : SUBSET Streams]
        \cup {Malformed}

\* The node ids of a StreamCreated.
Answers == UNION {[1..n -> Streams] : n \in 0..MaxRects}

ASSUME NoneNothing == None \notin ClientMessage \cup Answers \cup Nat

CreateStream(s) == [type |-> "CreateStream", stream |-> s]

ToPipewire ==
    [type : {"CreateStream"}, stream : Streams]
        \cup [type : {"CloseStreams"}, ids : SUBSET Streams]

VARIABLES
    client,   \* per connection: what its client does
    request,  \* the request it has sent
    inbox,    \* the answer it has received
    task,     \* what the connection's task is doing
    sent,     \* how many streams it has asked for
    armed,    \* its PipewireSendGuard will wake when dropped
    outbox,   \* the answer its write side has not written
    toPw,     \* the channel MessagesToPipewire
    wake,     \* the waker channel holds something
    pw,       \* what the pipewire thread is doing: "leaked" and "gone" after its end
    streams,  \* the streams it has
    nodes,    \* those that were paused: node_id_to_stream
    failed,   \* those in state Error
    broken,   \* history: those that got there by themselves
    reply     \* per stream: its oneshot

clientVars == <<client, request, inbox>>
taskVars == <<task, sent, armed, outbox>>
pwVars == <<pw, streams, nodes, failed, broken>>
vars == <<clientVars, taskVars, toPw, wake, pwVars, reply>>

Init ==
    /\ client = [c \in Clients |-> "none"]
    /\ request = [c \in Clients |-> None] /\ inbox = [c \in Clients |-> None]
    /\ task = [c \in Clients |-> "none"] /\ sent = [c \in Clients |-> 0]
    /\ armed = [c \in Clients |-> FALSE] /\ outbox = [c \in Clients |-> None]
    /\ toPw = <<>> /\ wake = FALSE
    /\ pw = "idle" /\ streams = {} /\ nodes = {} /\ failed = {} /\ broken = {}
    /\ reply = [s \in Streams |-> "none"]

\* The receiver is dropped with the Rc<Pipewire>, and that lives on as long as
\* a stream does: Pipewire holds the stream's listener and that holds Pipewire.
RxClosed == pw = "gone"
Running == pw \in {"idle", "draining"}

Asked(c) == {c} \X (1..sent[c])

Go(c, step) == task' = [task EXCEPT ![c] = step]

-----------------------------------------------------------------------------
(* Clients.                                                                *)

\* The node ids somebody was told.
Told == UNION {{inbox[c][i] : i \in DOMAIN inbox[c]} : c \in {d \in Clients : inbox[d] # None}}

\* run accepts the connection and spawns its task.
Accept(c) ==
    /\ client[c] = "none"
    /\ client' = [client EXCEPT ![c] = "connected"]
    /\ Go(c, "reading")
    /\ UNCHANGED <<request, inbox, sent, armed, outbox, toPw, wake, pwVars, reply>>

Request(c, m) ==
    /\ client[c] = "connected" /\ request[c] = None
    /\ request' = [request EXCEPT ![c] = m]
    /\ UNCHANGED <<client, inbox, taskVars, toPw, wake, pwVars, reply>>

\* The client closes its end; what it has sent can still be read.
Leave(c) ==
    /\ client[c] = "connected"
    /\ client' = [client EXCEPT ![c] = "left"]
    /\ UNCHANGED <<request, inbox, taskVars, toPw, wake, pwVars, reply>>

-----------------------------------------------------------------------------
(* The task of a connection.                                               *)

\* The stream ends before there was a request, or the request is an error.
NoRequest(c) ==
    /\ task[c] = "reading"
    /\ \/ request[c] = None /\ client[c] = "left"
       \/ request[c] # None /\ request[c].type = "Malformed"
    /\ Go(c, "done")
    /\ UNCHANGED <<clientVars, sent, armed, outbox, toPw, wake, pwVars, reply>>

WrongCookie(c) ==
    /\ task[c] = "reading" /\ request[c] # None
    /\ request[c].type = "CreateStream" /\ ~request[c].cookie
    /\ Go(c, "done")
    /\ UNCHANGED <<clientVars, sent, armed, outbox, toPw, wake, pwVars, reply>>

\* start_send
StartSend(c) ==
    /\ task[c] = "reading" /\ request[c] # None
    /\ \/ request[c].type = "CloseStreams"
       \/ request[c].type = "CreateStream" /\ request[c].cookie
    /\ Go(c, "sending")
    /\ UNCHANGED <<clientVars, sent, armed, outbox, toPw, wake, pwVars, reply>>

\* One message of the guard; every send arms it.
SendCreateStream(c) ==
    /\ task[c] = "sending" /\ request[c].type = "CreateStream" /\ sent[c] < request[c].n
    /\ armed' = [armed EXCEPT ![c] = TRUE]
    /\ IF RxClosed
       THEN Go(c, "failing") /\ UNCHANGED <<sent, toPw, reply>>
       ELSE /\ sent' = [sent EXCEPT ![c] = @ + 1]
            /\ toPw' = Append(toPw, CreateStream(<<c, sent[c] + 1>>))
            /\ reply' = [reply EXCEPT ![<<c, sent[c] + 1>>] = "open"]
            /\ UNCHANGED task
    /\ UNCHANGED <<clientVars, outbox, wake, pwVars>>

SendCloseStreams(c) ==
    /\ task[c] = "sending" /\ request[c].type = "CloseStreams" /\ ~armed[c]
    /\ armed' = [armed EXCEPT ![c] = TRUE]
    /\ IF RxClosed
       THEN Go(c, "failing") /\ UNCHANGED toPw
       ELSE toPw' = Append(toPw, CloseStreams(request[c].ids)) /\ UNCHANGED task
    /\ UNCHANGED <<clientVars, sent, outbox, wake, pwVars, reply>>

AllSent(c) ==
    IF request[c].type = "CreateStream" THEN sent[c] = request[c].n ELSE armed[c]

\* Mutant of DropGuard: a guard that is dropped without a reply to wait for
\* does not wake.
DropGuardQuiet(c) ==
    /\ task[c] = "failing" \/ (task[c] = "sending" /\ AllSent(c))
    /\ wake' = (wake \/ (armed[c] /\ request[c].type = "CreateStream"))
    /\ armed' = [armed EXCEPT ![c] = FALSE]
    /\ Go(c, IF task[c] = "sending" /\ request[c].type = "CreateStream" THEN "waiting" ELSE "done")
    /\ UNCHANGED <<clientVars, sent, outbox, toPw, pwVars, reply>>

\* The guard is dropped at the end of the closure, or when a send failed: it
\* wakes the pipewire thread if anything was sent.
DropGuard(c) ==
    /\ task[c] = "failing" \/ (task[c] = "sending" /\ AllSent(c))
    /\ wake' = (wake \/ (armed[c] /\ ~RxClosed))
    /\ armed' = [armed EXCEPT ![c] = FALSE]
    /\ Go(c, IF task[c] = "sending" /\ request[c].type = "CreateStream" THEN "waiting" ELSE "done")
    /\ UNCHANGED <<clientVars, sent, outbox, toPw, pwVars, reply>>

Tell(c, ids) ==
    /\ outbox' = [outbox EXCEPT ![c] = ids]
    /\ Go(c, "done")
    /\ UNCHANGED <<clientVars, sent, armed, toPw, wake, pwVars, reply>>

\* Mutant of Collected: the first sender dropped ends it.
CollectedShort(c) ==
    /\ task[c] = "waiting"
    /\ \/ \A s \in Asked(c) : reply[s] = "ok"
       \/ \E s \in Asked(c) : reply[s] = "dropped"

\* collect waits for all replies, also when one of them is an error.
Collected(c) ==
    /\ task[c] = "waiting"
    /\ \A s \in Asked(c) : reply[s] \in {"ok", "dropped"}

\* Mutant of StreamCreated: FuturesUnordered, the ids come as they are known.
StreamCreatedUnordered(c) ==
    /\ Collected(c) /\ \A s \in Asked(c) : reply[s] = "ok"
    /\ \E ids \in [1..sent[c] -> Asked(c)] :
        /\ \A i, j \in 1..sent[c] : ids[i] = ids[j] => i = j
        /\ Tell(c, ids)

\* rxs yields the ids in the order of the rectangles, whichever was first.
StreamCreated(c) ==
    /\ Collected(c) /\ \A s \in Asked(c) : reply[s] = "ok"
    /\ Tell(c, [i \in 1..sent[c] |-> <<c, i>>])

\* A sender was dropped: the task ends without an answer.
StreamCreationFails(c) ==
    /\ Collected(c) /\ \E s \in Asked(c) : reply[s] = "dropped"
    /\ Go(c, "done")
    /\ UNCHANGED <<clientVars, sent, armed, outbox, toPw, wake, pwVars, reply>>

\* The write side; it is a task of its own and outlives the client's.
Write(c) ==
    /\ outbox[c] # None
    /\ outbox' = [outbox EXCEPT ![c] = None]
    /\ inbox' = [inbox EXCEPT ![c] = IF client[c] = "connected" THEN outbox[c] ELSE None]
    /\ UNCHANGED <<client, request, task, sent, armed, toPw, wake, pwVars, reply>>

\* Mutant of Disconnect: the write task is not detached but dropped with the
\* client, and cancelled.
DisconnectCancelled(c) ==
    /\ task[c] = "done"
    /\ outbox' = [outbox EXCEPT ![c] = None]
    /\ Go(c, "closed")
    /\ UNCHANGED <<clientVars, sent, armed, toPw, wake, pwVars, reply>>

\* Both halves are dropped: the client reads the end of the stream.
Disconnect(c) ==
    /\ task[c] = "done" /\ outbox[c] = None
    /\ Go(c, "closed")
    /\ UNCHANGED <<clientVars, sent, armed, outbox, toPw, wake, pwVars, reply>>

-----------------------------------------------------------------------------
(* The pipewire thread.                                                    *)

WakeUp ==
    /\ pw = "idle" /\ wake
    /\ wake' = FALSE
    /\ pw' = "draining"
    /\ UNCHANGED <<clientVars, taskVars, toPw, streams, nodes, failed, broken, reply>>

\* The wake-ups of picom's present hook, for messages of its own or because
\* stream_set_error asked for one; those that find nothing to do are left out.
PicomWakes ==
    /\ ~wake /\ Running /\ (toPw # <<>> \/ failed # {})
    /\ wake' = TRUE
    /\ UNCHANGED <<clientVars, taskVars, toPw, pwVars, reply>>

Received(type) == pw = "draining" /\ toPw # <<>> /\ Head(toPw).type = type /\ toPw' = Tail(toPw)

HandleCreateStream ==
    /\ Received("CreateStream")
    /\ streams' = streams \cup {Head(toPw).stream}
    /\ UNCHANGED <<clientVars, taskVars, wake, pw, nodes, failed, broken, reply>>

\* new_stream fails: its reply is dropped, the main loop quits.
HandleCreateStreamFails ==
    /\ MayFail /\ Received("CreateStream")
    /\ reply' = [reply EXCEPT ![Head(toPw).stream] = "dropped"]
    /\ pw' = "quit"
    /\ UNCHANGED <<clientVars, taskVars, wake, streams, nodes, failed, broken>>

\* Mutant of HandleCloseStreams: the other streams of the client end as well.
HandleCloseClients ==
    /\ Received("CloseStreams")
    /\ failed' = failed \cup {s \in nodes : \E t \in Head(toPw).ids : s[1] = t[1]}
    /\ UNCHANGED <<clientVars, taskVars, wake, pw, streams, nodes, broken, reply>>

\* Ids that are not in the map, because their streams are gone, are skipped.
HandleCloseStreams ==
    /\ Received("CloseStreams")
    /\ failed' = failed \cup (Head(toPw).ids \cap nodes)
    /\ UNCHANGED <<clientVars, taskVars, wake, pw, streams, nodes, broken, reply>>

\* The channel is empty: streams in state Error are removed.
Reap ==
    /\ pw = "draining" /\ toPw = <<>>
    /\ streams' = streams \ failed
    /\ nodes' = nodes \ failed
    /\ failed' = {}
    /\ pw' = "idle"
    /\ UNCHANGED <<clientVars, taskVars, toPw, wake, broken, reply>>

\* A new stream is paused for the first time: its node id is known.
Paused(s) ==
    /\ pw = "idle" /\ s \in streams \ nodes
    /\ nodes' = nodes \cup {s}
    /\ reply' = [reply EXCEPT ![s] = "ok"]
    /\ UNCHANGED <<clientVars, taskVars, toPw, wake, pw, streams, failed, broken>>

\* A stream that has a node id gets into state Error: one of its buffers or its
\* format is of no use, or PipeWire says so.
Breaks(s) ==
    /\ Running /\ s \in nodes \ failed
    /\ Cardinality(broken) < MaxBroken
    /\ failed' = failed \cup {s} /\ broken' = broken \cup {s}
    /\ UNCHANGED <<clientVars, taskVars, toPw, wake, pw, streams, nodes, reply>>

\* pipewire_main returns, but the Rc<Pipewire> lives on, in the listeners of the
\* streams or in a wait for the fence of one that was recorded before it went.
\* What it holds is never dropped: streams, channel and the oneshots in both.
PipewireLeaks ==
    /\ pw = "quit" /\ (streams # {} \/ \E s \in Streams : reply[s] = "ok")
    /\ pw' = "leaked"
    /\ UNCHANGED <<clientVars, taskVars, toPw, wake, streams, nodes, failed, broken, reply>>

\* Mutant of PipewireEnds: the receiver is kept, with what it holds.
PipewireEndsKept ==
    /\ pw = "quit" /\ streams = {}
    /\ pw' = "gone"
    /\ UNCHANGED <<clientVars, taskVars, toPw, wake, streams, nodes, failed, broken, reply>>

\* pipewire_main returns and nothing else holds Pipewire: the channel is dropped
\* with the oneshots in it.
PipewireEnds ==
    /\ pw = "quit" /\ streams = {}
    /\ pw' = "gone"
    /\ toPw' = <<>>
    /\ reply' = [s \in Streams |-> IF reply[s] = "open" THEN "dropped" ELSE reply[s]]
    /\ UNCHANGED <<clientVars, taskVars, wake, streams, nodes, failed, broken>>

-----------------------------------------------------------------------------
\* The steps of a connection's tasks.
Serve(c) ==
    \/ NoRequest(c) \/ WrongCookie(c)
    \/ StartSend(c) \/ SendCreateStream(c) \/ SendCloseStreams(c) \/ DropGuard(c)
    \/ StreamCreated(c) \/ StreamCreationFails(c) \/ Write(c) \/ Disconnect(c)

WakerCallback ==
    \/ WakeUp \/ HandleCreateStream \/ HandleCreateStreamFails \/ HandleCloseStreams
    \/ Reap \/ PipewireLeaks \/ PipewireEnds

Requests ==
    {CreateStreams(cookie, n) : cookie \in BOOLEAN, n \in 0..MaxRects}
        \cup {CloseStreams(ids) : ids \in SUBSET Told \ {{}}} \cup {Malformed}

Next ==
    \/ \E c \in Clients :
        \/ Accept(c) \/ Leave(c) \/ Serve(c)
        \/ \E m \in Requests : Request(c, m)
    \/ WakerCallback \/ PicomWakes
    \/ \E s \in Streams : Paused(s) \/ Breaks(s)

Spec == Init /\ [][Next]_vars

\* The executor runs tasks that can go on, the pipewire thread its callback,
\* and PipeWire pauses a stream that was connected.
Fairness ==
    /\ \A c \in Clients : WF_vars(Serve(c))
    /\ WF_vars(WakerCallback)
    /\ \A s \in Streams : WF_vars(Paused(s))

FairSpec == Spec /\ Fairness

-----------------------------------------------------------------------------
(* Properties.                                                             *)

\* Type correctness of the server's and the pipewire thread's state.
TypeOK ==
    /\ client \in [Clients -> {"none", "connected", "left"}]
    /\ request \in [Clients -> ClientMessage \cup {None}]
    /\ inbox \in [Clients -> Answers \cup {None}] /\ outbox \in [Clients -> Answers \cup {None}]
    /\ task \in [Clients -> {"none", "reading", "sending", "failing", "waiting", "done", "closed"}]
    /\ sent \in [Clients -> 0..MaxRects] /\ armed \in [Clients -> BOOLEAN]
    /\ toPw \in Seq(ToPipewire) /\ wake \in BOOLEAN
    /\ pw \in {"idle", "draining", "quit", "leaked", "gone"}
    /\ streams \subseteq Streams /\ nodes \subseteq streams /\ failed \subseteq nodes /\ broken \subseteq Streams
    /\ reply \in [Streams -> {"none", "open", "ok", "dropped"}]

\* StreamCreated names all streams of the request, of this client only, in the
\* order of its rectangles: the portal zips the ids with them.
AnswersInOrder ==
    \A c \in Clients : \A ids \in {inbox[c], outbox[c]} :
        ids # None => ids = [i \in 1..request[c].n |-> <<c, i>>]

\* A message in the channel is never left there by a thread that sleeps: it is
\* awake, will be woken, or the guard that sent the message still will.
NoMessageStranded ==
    toPw # <<>> /\ pw = "idle" => wake \/ \E c \in Clients : armed[c]

\* Somebody waits for every node id to come: `reply.send(..).unwrap()` in
\* state_changed relies on it.
ReplyAwaited ==
    \A s \in Streams : reply[s] = "open" => task[s[1]] \in {"sending", "waiting"}

\* While the pipewire thread runs no stream is left that nobody can close: when a
\* task is over, the ids of its streams have been or will be told to the client,
\* unless that left early.
NoOrphans ==
    \A s \in streams : LET c == s[1] IN
        task[c] \in {"done", "closed"} /\ Running =>
            inbox[c] # None \/ outbox[c] # None \/ client[c] = "left"

\* What the server has done for a client and the clients for each other, as
\* StreamService sees it: the end of its task is the answer, and what counts are
\* the streams of requests that were granted.
Asks(c, type) == request[c] # None /\ request[c].type = type
Wants(c) == Asks(c, "CreateStream") /\ request[c].cookie
Over(c) == task[c] \in {"done", "closed"}
Granted(c) ==
    /\ Over(c) /\ Wants(c)
    /\ sent[c] = request[c].n /\ \A s \in Asked(c) : reply[s] = "ok"
Named == UNION {request[c].ids : c \in {d \in Clients : Asks(d, "CloseStreams")}}

Wanted == [c \in Clients |-> IF Wants(c) THEN request[c].n ELSE None]
Answered ==
    [c \in Clients |-> IF Granted(c) THEN "ids" ELSE IF Over(c) THEN "ended" ELSE "none"]
Live == {s \in streams : Granted(s[1])}
ServiceState == IF Running THEN "up" ELSE IF pw = "quit" THEN "failing" ELSE "gone"

Service == INSTANCE StreamService WITH
    wanted <- Wanted, answer <- Answered, named <- Named, broken <- broken,
    live <- Live, service <- ServiceState

\* The server implements StreamService: streams are granted all or none, however
\* requests of several clients mix in the channel and streams are paused in any
\* order, and closed only when named; the end of the pipewire thread closes none.
StreamsServed == Service!Spec

\* A request with the cookie is answered, unless the client leaves or the
\* pipewire thread quits.
ClientAnswered ==
    \A c \in Clients :
        (request[c] # None /\ request[c].type = "CreateStream" /\ request[c].cookie)
            ~> (inbox[c] # None \/ client[c] = "left" \/ ~Running)

\* Every connection that made a request is closed in the end, also when the
\* pipewire thread has quit under it; unless that thread leaked the senders the
\* task waits for.
ConnectionEnds ==
    \A c \in Clients :
        request[c] # None ~> (task[c] = "closed" \/ (task[c] = "waiting" /\ pw = "leaked"))

\* Closing takes effect: a stream named in a CloseStreams is dropped, unless the
\* pipewire thread quits.
CloseTakesEffect ==
    \A c \in Clients, s \in Streams :
        (request[c] # None /\ request[c].type = "CloseStreams" /\ s \in request[c].ids)
            ~> (s \notin streams \/ ~Running)
=============================================================================
