------------------------------- MODULE Framing ------------------------------
(***************************************************************************)
(* One connection between portal and plugin, byte by byte: `Picom', the    *)
(* sink and stream of the portal (portal/src/main.rs), and the read and    *)
(* write sides of a `Client' of the plugin (plugin/src/server.rs).         *)
(* Messages are JSON behind a length of four bytes; the socket takes and   *)
(* gives as many bytes at a time as it likes.  Either end may go away at   *)
(* any moment.                                                             *)
(***************************************************************************)
EXTENDS Naturals, Sequences

CONSTANTS
    Message,   \* requests and answers alike
    Size,      \* how many bytes the JSON of a message has
    MaxSends,  \* bound: requests on the connection (today's portal sends one)
    Room,      \* bound: bytes the socket holds in each direction
    MayCrash,  \* whether picom may die
    None       \* the None of Option

ASSUME SizeAssumption == Size \in [Message -> Nat \ {0}]
ASSUME BoundsAssumption == MaxSends \in Nat /\ Room \in Nat \ {0}
ASSUME MayCrashBoolean == MayCrash \in BOOLEAN
ASSUME NoneNoLength == None \notin Nat

VARIABLES
    \* the portal
    portal,    \* "open", "polling" next(), "spinning" in poll_next, "closed"
    outBuf,    \* Picom::out_buf
    outPos,    \* Picom::out_pos
    inLen,     \* Picom::len
    inBuf,     \* Picom::buf up to `pos'
    asked,     \* the messages start_send has taken
    answers,   \* the messages poll_next has yielded
    \* the socket
    up, down,  \* bytes on their way to the plugin, and to the portal
    \* the plugin
    reader,    \* read_side: "open", or how it ended
    rdLen,     \* the length it has read
    rdBuf,     \* the part of the header or message it has read
    requests,  \* the messages it has passed on to the client's task
    client,    \* the task has its Client: "open", "dropped"
    writer,    \* write_side: "open", "ended"
    queue,     \* its channel
    rest,      \* what write_all has not written yet
    answered,  \* the messages the task has sent
    crashed    \* picom has died

portalVars == <<portal, outBuf, outPos, inLen, inBuf, asked, answers>>
readVars == <<reader, rdLen, rdBuf, requests>>
writeVars == <<writer, queue, rest>>
vars == <<portalVars, up, down, readVars, writeVars, client, answered, crashed>>

-----------------------------------------------------------------------------
(* Bytes: the i-th of a length, and the i-th of a message's JSON.          *)

LengthBytes(n) == [i \in 1..4 |-> <<"length", n, i>>]
Json(m) == [i \in 1..Size[m] |-> <<"json", m, i>>]

\* u32::from_be_bytes; what is not a length reads as some number, say 0.
FromBytes(b) == IF \E m \in Message : b = LengthBytes(Size[m]) THEN b[1][2] ELSE 0

\* serde_json::from_slice: the messages a byte string is the JSON of.
Parse(b) == {m \in Message : b = Json(m)}

Byte == ({"length"} \X Nat \X (1..4)) \cup ({"json"} \X Message \X Nat)

Init ==
    /\ portal = "open" /\ outBuf = <<>> /\ outPos = 0
    /\ inLen = None /\ inBuf = <<>> /\ asked = <<>> /\ answers = <<>>
    /\ up = <<>> /\ down = <<>>
    /\ reader = "open" /\ rdLen = None /\ rdBuf = <<>> /\ requests = <<>>
    /\ client = "open" /\ writer = "open" /\ queue = <<>> /\ rest = <<>>
    /\ answered = <<>> /\ crashed = FALSE

\* The plugin's end is closed when both halves of its stream are dropped.
PluginClosed == reader # "open" /\ writer = "ended"

\* How many bytes one write can pass on, how many one read can get.
Writable(n, socket) == 1..(IF n < Room - Len(socket) THEN n ELSE Room - Len(socket))
Readable(n, socket) == 1..(IF n < Len(socket) THEN n ELSE Len(socket))

Wanted(len) == IF len = None THEN 4 ELSE len

-----------------------------------------------------------------------------
(* The portal's end.                                                       *)

\* start_send, once poll_ready has said that the last message was written.  The
\* portal has no use for a second request before the first is answered.
StartSend(m) ==
    /\ portal = "open" /\ Len(asked) < MaxSends /\ outBuf = <<>>
    /\ Len(answers) = Len(asked)
    /\ outBuf' = LengthBytes(Size[m]) \o Json(m)
    /\ asked' = Append(asked, m)
    /\ UNCHANGED <<portal, outPos, inLen, inBuf, answers, up, down, readVars,
                   writeVars, client, answered, crashed>>

\* Mutant of Written: the buffer is not cleared.
WrittenKeepsBuffer(pos) ==
    outPos' = (IF pos < Len(outBuf) THEN pos ELSE 0) /\ UNCHANGED outBuf

\* When all is written, the buffer is cleared.
Written(pos) ==
    IF pos < Len(outBuf) THEN outPos' = pos /\ UNCHANGED outBuf
                         ELSE outPos' = 0 /\ outBuf' = <<>>

\* A write of poll_ready.
PollReady ==
    /\ portal = "open" /\ ~PluginClosed
    /\ \E n \in Writable(Len(outBuf) - outPos, up) :
        /\ up' = up \o SubSeq(outBuf, outPos + 1, outPos + n)
        /\ Written(outPos + n)
    /\ UNCHANGED <<portal, inLen, inBuf, asked, answers, down, readVars,
                   writeVars, client, answered, crashed>>

\* Writing to a plugin that is gone fails, which makes start fail.
PollReadyFails ==
    /\ portal = "open" /\ outBuf # <<>> /\ PluginClosed
    /\ portal' = "closed"
    /\ UNCHANGED <<outBuf, outPos, inLen, inBuf, asked, answers, up, down,
                   readVars, writeVars, client, answered, crashed>>

\* start awaits next() when its request is flushed.
Await ==
    /\ portal = "open" /\ outBuf = <<>> /\ Len(answers) < Len(asked)
    /\ portal' = "polling"
    /\ UNCHANGED <<outBuf, outPos, inLen, inBuf, asked, answers, up, down,
                   readVars, writeVars, client, answered, crashed>>

\* Mutant of Yield: the length is kept for the next message.
YieldKeepsLength(m) ==
    /\ answers' = Append(answers, m)
    /\ inBuf' = <<>> /\ UNCHANGED inLen
    /\ portal' = "open"

Yield(m) ==
    /\ answers' = Append(answers, m)
    /\ inLen' = None /\ inBuf' = <<>>
    /\ portal' = "open"

\* A read of poll_next that is not empty.  A message that cannot be parsed
\* makes start fail, which drops the connection.
PollNext ==
    /\ portal = "polling"
    /\ \E n \in Readable(Wanted(inLen) - Len(inBuf), down) :
        LET buf == inBuf \o SubSeq(down, 1, n) IN
        /\ down' = SubSeq(down, n + 1, Len(down))
        /\ \/ /\ Len(buf) < Wanted(inLen)
              /\ inBuf' = buf
              /\ UNCHANGED <<portal, inLen, answers>>
           \/ /\ Len(buf) = Wanted(inLen) /\ inLen = None
              /\ inLen' = FromBytes(buf) /\ inBuf' = <<>>
              /\ UNCHANGED <<portal, answers>>
           \/ /\ Len(buf) = Wanted(inLen) /\ inLen # None
              /\ \E m \in Parse(buf) : Yield(m)
           \/ /\ Len(buf) = Wanted(inLen) /\ inLen # None /\ Parse(buf) = {}
              /\ inBuf' = buf /\ portal' = "closed"
              /\ UNCHANGED <<inLen, answers>>
    /\ UNCHANGED <<outBuf, outPos, asked, up, readVars, writeVars, client,
                   answered, crashed>>

\* At the end of the stream a read gives 0 bytes, which poll_next takes for a
\* short read: it reads again, and never returns.  Only if the plugin has left
\* something unread may the read be an error.
PollNextAtEnd ==
    /\ portal = "polling" /\ down = <<>> /\ PluginClosed
    /\ portal' \in IF up = <<>> THEN {"spinning"} ELSE {"spinning", "closed"}
    /\ UNCHANGED <<outBuf, outPos, inLen, inBuf, asked, answers, up, down,
                   readVars, writeVars, client, answered, crashed>>

\* The method that owns the connection returns, or the portal ends.
DropPicom ==
    /\ portal \in {"open", "polling"}
    /\ portal' = "closed"
    /\ UNCHANGED <<outBuf, outPos, inLen, inBuf, asked, answers, up, down,
                   readVars, writeVars, client, answered, crashed>>

-----------------------------------------------------------------------------
(* The plugin's end.                                                       *)

\* A read of read_exact, for the length or for the message; a message that was
\* read is passed on, one that cannot be parsed is an error.
ReadSide ==
    /\ reader = "open"
    /\ \E n \in Readable(Wanted(rdLen) - Len(rdBuf), up) :
        LET buf == rdBuf \o SubSeq(up, 1, n) IN
        /\ up' = SubSeq(up, n + 1, Len(up))
        /\ \/ /\ Len(buf) < Wanted(rdLen)
              /\ rdBuf' = buf
              /\ UNCHANGED <<reader, rdLen, requests>>
           \/ /\ Len(buf) = Wanted(rdLen) /\ rdLen = None
              /\ rdLen' = FromBytes(buf) /\ rdBuf' = <<>>
              /\ UNCHANGED <<reader, requests>>
           \/ /\ Len(buf) = Wanted(rdLen) /\ rdLen # None
              /\ \E m \in Parse(buf) : requests' = Append(requests, m)
              /\ rdLen' = None /\ rdBuf' = <<>>
              /\ UNCHANGED reader
           \/ /\ Len(buf) = Wanted(rdLen) /\ rdLen # None /\ Parse(buf) = {}
              /\ reader' = "error"
              /\ UNCHANGED <<rdLen, rdBuf, requests>>
    /\ UNCHANGED <<portalVars, down, writeVars, client, answered, crashed>>

\* The portal's end is closed and read to its end: that is quiet where a length
\* is expected, an error within a message, and may be one in any case if the
\* portal has left something unread.
ReadSideEnds ==
    /\ reader = "open" /\ up = <<>> /\ portal = "closed"
    /\ \/ rdLen = None /\ reader' = "ended"
       \/ (rdLen # None \/ down # <<>>) /\ reader' = "error"
    /\ UNCHANGED <<portalVars, up, down, rdLen, rdBuf, requests, writeVars,
                   client, answered, crashed>>

\* The task answers a request.
Answer(m) ==
    /\ client = "open" /\ writer = "open" /\ Len(answered) < Len(requests)
    /\ queue' = Append(queue, m)
    /\ answered' = Append(answered, m)
    /\ UNCHANGED <<portalVars, up, down, readVars, writer, rest, client, crashed>>

\* Mutant of DropClient: the write side is a task of the Client, too.
DropClientCancels ==
    /\ client = "open"
    /\ client' = "dropped"
    /\ reader' = IF reader = "open" THEN "cancelled" ELSE reader
    /\ writer' = "ended" /\ queue' = <<>> /\ rest' = <<>>
    /\ UNCHANGED <<portalVars, up, down, rdLen, rdBuf, requests, answered, crashed>>

\* The task returns, whether or not it has answered: the read side is
\* cancelled, the write side loses its sender but goes on.
DropClient ==
    /\ client = "open"
    /\ client' = "dropped"
    /\ reader' = IF reader = "open" THEN "cancelled" ELSE reader
    /\ UNCHANGED <<portalVars, up, down, rdLen, rdBuf, requests, writeVars,
                   answered, crashed>>

\* Mutant of NextAnswer: the message stays in the channel.
NextAnswerKept ==
    /\ writer = "open" /\ rest = <<>> /\ queue # <<>>
    /\ rest' = LengthBytes(Size[Head(queue)]) \o Json(Head(queue))
    /\ UNCHANGED <<portalVars, up, down, readVars, writer, queue, client, answered, crashed>>

\* write_side takes a message: its length is written, then its JSON.
NextAnswer ==
    /\ writer = "open" /\ rest = <<>> /\ queue # <<>>
    /\ rest' = LengthBytes(Size[Head(queue)]) \o Json(Head(queue))
    /\ queue' = Tail(queue)
    /\ UNCHANGED <<portalVars, up, down, readVars, writer, client, answered, crashed>>

\* A write of write_all.
WriteAll ==
    /\ writer = "open" /\ portal # "closed"
    /\ \E n \in Writable(Len(rest), down) :
        /\ down' = down \o SubSeq(rest, 1, n)
        /\ rest' = SubSeq(rest, n + 1, Len(rest))
    /\ UNCHANGED <<portalVars, up, readVars, writer, queue, client, answered, crashed>>

\* The channel is closed and empty, or the portal is gone.
WriteSideEnds ==
    /\ writer = "open"
    /\ \/ rest = <<>> /\ queue = <<>> /\ client = "dropped"
       \/ rest # <<>> /\ portal = "closed"
    /\ writer' = "ended" /\ queue' = <<>> /\ rest' = <<>>
    /\ UNCHANGED <<portalVars, up, down, readVars, client, answered, crashed>>

\* picom dies; what it has written can still be read.
Crash ==
    /\ MayCrash /\ ~crashed
    /\ crashed' = TRUE
    /\ client' = "dropped"
    /\ reader' = IF reader = "open" THEN "cancelled" ELSE reader
    /\ writer' = "ended" /\ queue' = <<>> /\ rest' = <<>>
    /\ UNCHANGED <<portalVars, up, down, rdLen, rdBuf, requests, answered>>

-----------------------------------------------------------------------------
Portal == PollReady \/ PollReadyFails \/ Await \/ PollNext \/ PollNextAtEnd
ReadTask == ReadSide \/ ReadSideEnds
WriteTask == NextAnswer \/ WriteAll \/ WriteSideEnds

Next ==
    \/ \E m \in Message : StartSend(m) \/ Answer(m)
    \/ Portal \/ DropPicom
    \/ ReadTask \/ WriteTask \/ DropClient \/ Crash

Spec == Init /\ [][Next]_vars

\* The portal goes on with its method, the plugin with its tasks.
Fairness == WF_vars(Portal) /\ WF_vars(ReadTask) /\ WF_vars(WriteTask)

FairSpec == Spec /\ Fairness

-----------------------------------------------------------------------------
(* Properties.                                                             *)

\* Type correctness of both ends and the socket; the sink's position stays in
\* its buffer.
TypeOK ==
    /\ portal \in {"open", "polling", "spinning", "closed"}
    /\ outBuf \in Seq(Byte) /\ outPos \in 0..Len(outBuf)
    /\ inLen \in Nat \cup {None} /\ inBuf \in Seq(Byte)
    /\ asked \in Seq(Message) /\ answers \in Seq(Message)
    /\ up \in Seq(Byte) /\ down \in Seq(Byte)
    /\ reader \in {"open", "ended", "error", "cancelled"}
    /\ rdLen \in Nat \cup {None} /\ rdBuf \in Seq(Byte) /\ requests \in Seq(Message)
    /\ client \in {"open", "dropped"} /\ writer \in {"open", "ended"}
    /\ queue \in Seq(Message) /\ rest \in Seq(Byte) /\ answered \in Seq(Message)
    /\ crashed \in BOOLEAN

Requests == INSTANCE MessageQueue WITH sent <- asked, received <- requests
Answers == INSTANCE MessageQueue WITH sent <- answered, received <- answers

\* However writes and reads cut the bytes, the plugin's read side passes on the
\* messages the portal's sink took, whole and in order.
RequestsArriveInOrder == Requests!Spec

\* poll_next yields the messages the plugin's task sent, whole and in order.
AnswersArriveInOrder == Answers!Spec

\* Neither end takes what it reads for something else than was sent: the read
\* side fails only at the end of the stream, and poll_next on no byte it got.
NothingMisread ==
    [][/\ reader = "open" /\ reader' = "error" => up = <<>>
       /\ portal = "polling" /\ portal' = "closed" => UNCHANGED down]_vars

\* Nothing is lost on the way but with an end of the connection: a request
\* arrives while the task is there, an answer even after the task has returned.
MessagesArrive ==
    \A i \in 1..MaxSends :
        /\ Len(asked) = i ~> Len(requests) >= i \/ portal = "closed" \/ client = "dropped"
        /\ Len(answered) = i ~> Len(answers) >= i \/ portal = "closed" \/ crashed
=============================================================================
