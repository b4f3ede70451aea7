---------------------------- MODULE FramingProofs ---------------------------
(***************************************************************************)
(* Theorems about a connection between portal and plugin, for messages of  *)
(* every length, sockets of every size and every number of requests:       *)
(* however writes and reads cut the bytes, either direction implements     *)
(* MessageQueue.                                                           *)
(***************************************************************************)
EXTENDS Framing, SequenceTheorems, TLAPS

-----------------------------------------------------------------------------
(* The inductive invariant.                                                *)

\* What is written for a message.
Encoded(m) == LengthBytes(Size[m]) \o Json(m)

\* The bytes of q are those of b behind the first k.
Part(q, b, k) == k + Len(q) <= Len(b) /\ \A i \in 1..Len(q) : q[i] = b[k + i]

\* How many bytes of its message a reader is done with.
Past(len) == IF len = None THEN 0 ELSE 4

\* A reader that has nothing of a message.
Fresh(len, buf) == len = None /\ buf = <<>>

\* A reader and its socket hold the first bytes of m, and the reader does what
\* it should with those it has.
Reading(m, len, buf, socket) ==
    /\ len \in {None, Size[m]} /\ Len(buf) < Wanted(len)
    /\ Part(buf, Encoded(m), Past(len))
    /\ Part(socket, Encoded(m), Past(len) + Len(buf))

\* How many bytes of its message are with the reader and in its socket.
Passed(len, buf, socket) == Past(len) + Len(buf) + Len(socket)

\* The receiver has the sender's messages, or all but the last.
InStep(sent, received) ==
    /\ Len(received) \in {Len(sent), Len(sent) - 1}
    /\ \A i \in 1..Len(received) : received[i] = sent[i]

\* A request that has not been passed on is in outBuf from outPos on, in the
\* socket and with the read side, in this order and nothing else is.
RequestInv ==
    /\ InStep(asked, requests)
    /\ outBuf = <<>> => outPos = 0
    /\ IF Len(requests) = Len(asked)
       THEN Fresh(rdLen, rdBuf) /\ up = <<>> /\ outBuf = <<>>
       ELSE LET m == asked[Len(asked)] IN
            /\ Reading(m, rdLen, rdBuf, up)
            /\ \/ outBuf = <<>> /\ Passed(rdLen, rdBuf, up) = Len(Encoded(m))
               \/ /\ outBuf = Encoded(m) /\ outPos < Len(outBuf)
                  /\ outPos = Passed(rdLen, rdBuf, up)

\* The same for an answer, from the channel of the write side to poll_next; what
\* the write side had is lost when it ends.
AnswerInv ==
    /\ InStep(answered, answers)
    /\ writer = "ended" => queue = <<>> /\ rest = <<>>
    /\ IF Len(answers) = Len(answered)
       THEN Fresh(inLen, inBuf) /\ down = <<>> /\ queue = <<>> /\ rest = <<>>
       ELSE LET m == answered[Len(answered)] IN
            /\ Reading(m, inLen, inBuf, down)
            /\ \/ queue = <<m>> /\ rest = <<>> /\ Fresh(inLen, inBuf) /\ down = <<>>
               \/ /\ queue = <<>> /\ Part(rest, Encoded(m), Passed(inLen, inBuf, down))
                  /\ writer = "open" =>
                        Passed(inLen, inBuf, down) + Len(rest) = Len(Encoded(m))

\* A request is made when the last was answered, an answer when there is a
\* request: so either direction has one message at a time.
OneAtATime == Len(answered) <= Len(requests) /\ Len(asked) <= Len(answers) + 1

FramingInv == RequestInv /\ AnswerInv /\ OneAtATime
-----------------------------------------------------------------------------
(* Byte strings.                                                           *)

LEMMA SizeNat == \A m \in Message : Size[m] \in Nat /\ Size[m] > 0
BY SizeAssumption

\* A byte string cut behind its first n bytes.
LEMMA Cut ==
    ASSUME NEW q \in Seq(Byte), NEW n \in 0..Len(q)
    PROVE  /\ SubSeq(q, 1, n) \in Seq(Byte) /\ Len(SubSeq(q, 1, n)) = n
           /\ \A i \in 1..n : SubSeq(q, 1, n)[i] = q[i]
           /\ SubSeq(q, n + 1, Len(q)) \in Seq(Byte)
           /\ Len(SubSeq(q, n + 1, Len(q))) = Len(q) - n
           /\ \A i \in 1..(Len(q) - n) : SubSeq(q, n + 1, Len(q))[i] = q[n + i]
OBVIOUS

\* The n bytes of a byte string behind the first k.
LEMMA Piece ==
    ASSUME NEW q \in Seq(Byte), NEW k \in Nat, NEW n \in 0..(Len(q) - k)
    PROVE  /\ SubSeq(q, k + 1, k + n) \in Seq(Byte) /\ Len(SubSeq(q, k + 1, k + n)) = n
           /\ \A i \in 1..n : SubSeq(q, k + 1, k + n)[i] = q[k + i]
OBVIOUS

LEMMA Joined ==
    ASSUME NEW p \in Seq(Byte), NEW q \in Seq(Byte)
    PROVE  /\ p \o q \in Seq(Byte) /\ Len(p \o q) = Len(p) + Len(q)
           /\ \A i \in 1..Len(p) : (p \o q)[i] = p[i]
           /\ \A i \in 1..Len(q) : (p \o q)[Len(p) + i] = q[i]
OBVIOUS

LEMMA LengthBytesSeq ==
    ASSUME NEW n \in Nat
    PROVE  /\ LengthBytes(n) \in Seq(Byte) /\ Len(LengthBytes(n)) = 4
           /\ \A i \in 1..4 : LengthBytes(n)[i] = <<"length", n, i>>
<1>1. \A i \in 1..4 : <<"length", n, i>> \in Byte
  BY DEF Byte
<1> QED
  BY <1>1, IsASeq DEF LengthBytes

LEMMA JsonSeq ==
    ASSUME NEW m \in Message
    PROVE  /\ Json(m) \in Seq(Byte) /\ Len(Json(m)) = Size[m]
           /\ \A i \in 1..Size[m] : Json(m)[i] = <<"json", m, i>>
<1>1. \A i \in 1..Size[m] : <<"json", m, i>> \in Byte
  BY SizeNat DEF Byte
<1> QED
  BY <1>1, SizeNat, IsASeq DEF Json

LEMMA EncodedSeq ==
    ASSUME NEW m \in Message
    PROVE  /\ Encoded(m) \in Seq(Byte) /\ Len(Encoded(m)) = 4 + Size[m]
           /\ \A i \in 1..4 : Encoded(m)[i] = <<"length", Size[m], i>>
           /\ \A i \in 1..Size[m] : Encoded(m)[4 + i] = <<"json", m, i>>
<1> DEFINE h == LengthBytes(Size[m])
           j == Json(m)
<1>1. Size[m] \in Nat
  BY SizeNat
<1>2. h \in Seq(Byte) /\ Len(h) = 4 /\ \A i \in 1..4 : h[i] = <<"length", Size[m], i>>
  BY <1>1, LengthBytesSeq
<1>3. j \in Seq(Byte) /\ Len(j) = Size[m] /\ \A i \in 1..Size[m] : j[i] = <<"json", m, i>>
  BY JsonSeq
<1>4. Encoded(m) = h \o j
  BY DEF Encoded
<1> HIDE DEF h, j
<1>5. /\ h \o j \in Seq(Byte) /\ Len(h \o j) = Len(h) + Len(j)
      /\ \A i \in 1..Len(h) : (h \o j)[i] = h[i]
      /\ \A i \in 1..Len(j) : (h \o j)[Len(h) + i] = j[i]
  BY <1>2, <1>3, Joined
<1> QED
  BY <1>2, <1>3, <1>4, <1>5

LEMMA LengthIsNat == \A b : FromBytes(b) \in Nat
<1> SUFFICES ASSUME NEW b, NEW m \in Message, b = LengthBytes(Size[m])
             PROVE  b[1][2] \in Nat
  BY DEF FromBytes
<1>1. Size[m] \in Nat
  BY SizeNat
<1> QED
  BY <1>1 DEF LengthBytes

\* The first four bytes of a message read as its length.
LEMMA LengthRead ==
    ASSUME NEW m \in Message, NEW b \in Seq(Byte),
           Len(b) = 4, Part(b, Encoded(m), 0)
    PROVE  FromBytes(b) = Size[m]
<1>1. Size[m] \in Nat
  BY SizeNat
<1>2. \A i \in 1..4 : b[i] = <<"length", Size[m], i>>
  BY EncodedSeq DEF Part
<1>3. b = LengthBytes(Size[m])
  <2> DEFINE h == LengthBytes(Size[m])
  <2>1. h \in Seq(Byte) /\ Len(h) = 4 /\ \A i \in 1..4 : h[i] = <<"length", Size[m], i>>
    BY <1>1, LengthBytesSeq
  <2> HIDE DEF h
  <2>2. b = h
    BY <1>2, <2>1, SeqEqual
  <2> QED
    BY <2>2 DEF h
<1>4. b[1][2] = Size[m]
  BY <1>2
<1> QED
  BY <1>3, <1>4 DEF FromBytes

\* The bytes behind it parse as the message and as no other.
LEMMA MessageRead ==
    ASSUME NEW m \in Message, NEW b \in Seq(Byte),
           Len(b) = Size[m], Part(b, Encoded(m), 4)
    PROVE  Parse(b) = {m}
<1>1. \A i \in 1..Size[m] : b[i] = <<"json", m, i>>
  BY EncodedSeq, SizeNat DEF Part
<1>2. b = Json(m)
  BY <1>1, JsonSeq, SeqEqual
<1>3. \A o \in Message : b = Json(o) => o = m
  BY <1>1, JsonSeq, SizeNat
<1> QED
  BY <1>2, <1>3 DEF Parse

-----------------------------------------------------------------------------
(* One read, and one write.                                                *)

\* A read of n bytes: the reader gets on with its message, comes to the end of
\* the length, or has the message, and then nothing is left in the socket.
LEMMA OneRead ==
    ASSUME NEW m \in Message, NEW len, NEW buf \in Seq(Byte), NEW socket \in Seq(Byte),
           NEW n \in Readable(Wanted(len) - Len(buf), socket),
           Reading(m, len, buf, socket)
    PROVE  LET got == buf \o SubSeq(socket, 1, n)
               left == SubSeq(socket, n + 1, Len(socket))
           IN  /\ got \in Seq(Byte) /\ left \in Seq(Byte)
               /\ Len(got) <= Wanted(len)
               /\ Len(got) < Wanted(len) =>
                    /\ Reading(m, len, got, left)
                    /\ Passed(len, got, left) = Passed(len, buf, socket)
               /\ Len(got) = Wanted(len) /\ len = None =>
                    /\ FromBytes(got) = Size[m] /\ Reading(m, Size[m], <<>>, left)
                    /\ Passed(Size[m], <<>>, left) = Passed(len, buf, socket)
               /\ Len(got) = Wanted(len) /\ len # None =>
                    /\ Parse(got) = {m} /\ left = <<>>
                    /\ Passed(len, buf, socket) = Len(Encoded(m))
<1> DEFINE read == SubSeq(socket, 1, n)
           got == buf \o read
           left == SubSeq(socket, n + 1, Len(socket))
           b == Encoded(m)
<1>1. Size[m] \in Nat \ {0} /\ None \notin Nat
  BY SizeNat, NoneNoLength
<1>2. Wanted(len) \in Nat /\ Past(len) \in {0, 4} /\ (Past(len) = 0 <=> len = None)
  BY <1>1 DEF Reading, Wanted, Past
<1>3. n \in 1..Len(socket) /\ n <= Wanted(len) - Len(buf)
  BY <1>2 DEF Readable
<1>4. /\ read \in Seq(Byte) /\ Len(read) = n /\ \A i \in 1..n : read[i] = socket[i]
      /\ left \in Seq(Byte) /\ Len(left) = Len(socket) - n
      /\ \A i \in 1..(Len(socket) - n) : left[i] = socket[n + i]
  BY <1>3, Cut
<1> HIDE DEF read, left
<1>5. /\ got \in Seq(Byte) /\ Len(got) = Len(buf) + n
      /\ \A i \in 1..Len(buf) : got[i] = buf[i]
      /\ \A i \in 1..n : got[Len(buf) + i] = read[i]
  BY <1>4, Joined
<1> HIDE DEF got
<1>6. b \in Seq(Byte) /\ Len(b) = 4 + Size[m]
  BY EncodedSeq
<1> HIDE DEF b
<1>7. /\ Past(len) + Len(buf) + Len(socket) <= Len(b)
      /\ \A i \in 1..Len(buf) : buf[i] = b[Past(len) + i]
      /\ \A i \in 1..Len(socket) : socket[i] = b[Past(len) + Len(buf) + i]
  BY <1>2 DEF Reading, Part, b
<1>8. Part(got, b, Past(len))
  <2>1. \A i \in 1..Len(got) : got[i] = b[Past(len) + i]
    <3> TAKE i \in 1..Len(got)
    <3>1. CASE i <= Len(buf)
      BY <1>5, <1>7, <3>1
    <3>2. CASE i > Len(buf)
      <4>1. i - Len(buf) \in 1..n /\ i = Len(buf) + (i - Len(buf))
        BY <1>3, <1>5, <3>2
      <4> DEFINE k == i - Len(buf)
      <4>2. got[i] = read[k] /\ read[k] = socket[k]
        BY <1>4, <1>5, <4>1
      <4>3. socket[k] = b[Past(len) + Len(buf) + k]
        BY <1>3, <1>7, <4>1
      <4> QED
        BY <1>2, <4>1, <4>2, <4>3
    <3> QED
      BY <3>1, <3>2
  <2> QED
    BY <1>2, <1>3, <1>5, <1>7, <2>1 DEF Part
<1>9. Part(left, b, Past(len) + Len(got))
  <2>1. \A i \in 1..Len(left) : left[i] = b[Past(len) + Len(got) + i]
    <3> TAKE i \in 1..Len(left)
    <3>1. n + i \in 1..Len(socket)
      BY <1>3, <1>4
    <3>2. left[i] = socket[n + i] /\ socket[n + i] = b[Past(len) + Len(buf) + (n + i)]
      BY <1>4, <1>7, <3>1
    <3> QED
      BY <1>2, <1>3, <1>5, <3>2
  <2> QED
    BY <1>2, <1>3, <1>4, <1>5, <1>7, <2>1 DEF Part
<1>10. Past(len) + Len(got) + Len(left) = Passed(len, buf, socket)
  <2>1. Past(len) \in Nat /\ Len(buf) \in Nat /\ Len(socket) \in Nat /\ n \in Nat
    BY <1>2, <1>3
  <2>2. Len(got) = Len(buf) + n /\ Len(left) = Len(socket) - n
    BY <1>4, <1>5
  <2> QED
    BY <2>1, <2>2 DEF Passed
<1>11. ASSUME Len(got) < Wanted(len)
       PROVE  Reading(m, len, got, left) /\ Passed(len, got, left) = Passed(len, buf, socket)
  <2>1. len \in {None, Size[m]}
    BY DEF Reading
  <2> QED
    BY <2>1, <1>8, <1>9, <1>11, <1>10 DEF Reading, Passed, b
<1>12. ASSUME Len(got) = Wanted(len), len = None
       PROVE  /\ FromBytes(got) = Size[m] /\ Reading(m, Size[m], <<>>, left)
              /\ Passed(Size[m], <<>>, left) = Passed(len, buf, socket)
  <2>1. Len(got) = 4 /\ Past(len) = 0 /\ Past(Size[m]) = 4
    BY <1>1, <1>12 DEF Wanted, Past
  <2>2. FromBytes(got) = Size[m]
    BY <1>5, <1>8, <2>1, LengthRead DEF b
  <2>3. Reading(m, Size[m], <<>>, left)
    BY <1>1, <1>6, <1>9, <2>1 DEF Reading, Wanted, Part, b
  <2>4. Passed(Size[m], <<>>, left) = Passed(len, buf, socket)
    BY <1>10, <1>4, <2>1 DEF Passed
  <2> QED
    BY <2>2, <2>3, <2>4
<1>13. ASSUME Len(got) = Wanted(len), len # None
       PROVE  /\ Parse(got) = {m} /\ left = <<>>
              /\ Passed(len, buf, socket) = Len(Encoded(m))
  <2>1. Len(got) = Size[m] /\ Past(len) = 4
    BY <1>13 DEF Wanted, Past, Reading
  <2>2. Parse(got) = {m}
    BY <1>5, <1>8, <2>1, MessageRead DEF b
  <2>3. 4 + Size[m] + Len(left) <= 4 + Size[m]
    BY <1>6, <1>9, <2>1 DEF Part
  <2>4. Len(left) = 0 /\ Passed(len, buf, socket) = Len(b)
    BY <1>1, <1>4, <1>6, <1>10, <2>1, <2>3
  <2> QED
    BY <1>4, <2>2, <2>4 DEF b
<1>14. Len(got) <= Wanted(len)
  BY <1>2, <1>3, <1>5
<1> QED
  BY <1>4, <1>5, <1>11, <1>12, <1>13, <1>14 DEF got, left, read

\* A write of the bytes that come next continues what is in the socket.
LEMMA OneWrite ==
    ASSUME NEW b \in Seq(Byte), NEW k \in Nat, NEW socket \in Seq(Byte), NEW bytes \in Seq(Byte),
           Part(socket, b, k), Part(bytes, b, k + Len(socket))
    PROVE  /\ socket \o bytes \in Seq(Byte)
           /\ Len(socket \o bytes) = Len(socket) + Len(bytes)
           /\ Part(socket \o bytes, b, k)
<1> DEFINE q == socket \o bytes
<1>1. /\ q \in Seq(Byte) /\ Len(q) = Len(socket) + Len(bytes)
      /\ \A i \in 1..Len(socket) : q[i] = socket[i]
      /\ \A i \in 1..Len(bytes) : q[Len(socket) + i] = bytes[i]
  BY Joined
<1> HIDE DEF q
<1>2. \A i \in 1..Len(q) : q[i] = b[k + i]
  <2> TAKE i \in 1..Len(q)
  <2>1. CASE i <= Len(socket)
    BY <1>1, <2>1 DEF Part
  <2>2. CASE i > Len(socket)
    <3> DEFINE j == i - Len(socket)
    <3>1. j \in 1..Len(bytes) /\ i = Len(socket) + j
      BY <1>1, <2>2
    <3>2. q[i] = bytes[j] /\ bytes[j] = b[k + Len(socket) + j]
      BY <1>1, <3>1 DEF Part
    <3> QED
      BY <3>1, <3>2
  <2> QED
    BY <2>1, <2>2
<1> QED
  BY <1>1, <1>2 DEF Part, q

-----------------------------------------------------------------------------
(* Types.                                                                  *)

LEMMA Empty == \A S : <<>> \in Seq(S) /\ Len(<<>>) = 0
OBVIOUS

LEMMA TypeInit == Init => TypeOK
<1> SUFFICES ASSUME Init PROVE TypeOK
  OBVIOUS
<1>1. outBuf \in Seq(Byte) /\ outPos \in 0..Len(outBuf)
  BY Empty DEF Init
<1>2. /\ inBuf \in Seq(Byte) /\ up \in Seq(Byte) /\ down \in Seq(Byte)
      /\ rdBuf \in Seq(Byte) /\ rest \in Seq(Byte)
  BY Empty DEF Init
<1>3. /\ asked \in Seq(Message) /\ answers \in Seq(Message) /\ requests \in Seq(Message)
      /\ queue \in Seq(Message) /\ answered \in Seq(Message)
  BY Empty DEF Init
<1> QED
  BY <1>1, <1>2, <1>3 DEF Init, TypeOK

LEMMA TypeStep == TypeOK /\ [Next]_vars => TypeOK'
<1> SUFFICES ASSUME TypeOK, [Next]_vars
             PROVE  TypeOK'
  OBVIOUS
<1> USE DEF TypeOK
<1>1. ASSUME NEW m \in Message, StartSend(m)
      PROVE  TypeOK'
  <2>1. Encoded(m) \in Seq(Byte)
    BY EncodedSeq
  <2>2. outBuf' \in Seq(Byte) /\ outPos' \in 0..Len(outBuf')
    <3>1. outBuf' = Encoded(m) /\ outPos' = outPos /\ outPos = 0
      BY <1>1 DEF StartSend, Encoded
    <3>2. Len(Encoded(m)) \in Nat
      BY <2>1
    <3> QED
      BY <2>1, <3>1, <3>2
  <2> QED
    BY <1>1, <2>2 DEF StartSend, readVars, writeVars
<1>2. ASSUME PollReady
      PROVE  TypeOK'
  <2>1. PICK n \in Writable(Len(outBuf) - outPos, up) :
            /\ up' = up \o SubSeq(outBuf, outPos + 1, outPos + n)
            /\ Written(outPos + n)
    BY <1>2 DEF PollReady
  <2>2. n \in 0..(Len(outBuf) - outPos)
    BY <2>1, BoundsAssumption DEF Writable
  <2>3. SubSeq(outBuf, outPos + 1, outPos + n) \in Seq(Byte)
    BY <2>2, Piece
  <2>4. up' \in Seq(Byte)
    BY <2>1, <2>3, Joined
  <2>5. outBuf' \in Seq(Byte) /\ outPos' \in 0..Len(outBuf')
    <3>1. CASE outPos + n < Len(outBuf)
      BY <2>1, <2>2, <3>1 DEF Written
    <3>2. CASE ~(outPos + n < Len(outBuf))
      BY <2>1, <3>2, Empty DEF Written
    <3> QED
      BY <3>1, <3>2
  <2> QED
    BY <1>2, <2>4, <2>5 DEF PollReady, readVars, writeVars
<1>3. ASSUME PollNext
      PROVE  TypeOK'
  <2>1. PICK n \in Readable(Wanted(inLen) - Len(inBuf), down) :
            /\ down' = SubSeq(down, n + 1, Len(down))
            /\ \/ inBuf' = inBuf \o SubSeq(down, 1, n) /\ UNCHANGED <<portal, inLen, answers>>
               \/ /\ inLen' = FromBytes(inBuf \o SubSeq(down, 1, n)) /\ inBuf' = <<>>
                  /\ UNCHANGED <<portal, answers>>
               \/ \E m \in Parse(inBuf \o SubSeq(down, 1, n)) : Yield(m)
               \/ /\ inBuf' = inBuf \o SubSeq(down, 1, n) /\ portal' = "closed"
                  /\ UNCHANGED <<inLen, answers>>
    BY <1>3 DEF PollNext
  <2>2. n \in 0..Len(down)
    BY <2>1, NoneNoLength DEF Readable, Wanted
  <2>3. SubSeq(down, 1, n) \in Seq(Byte) /\ down' \in Seq(Byte)
    BY <2>1, <2>2, Cut
  <2>4. inBuf \o SubSeq(down, 1, n) \in Seq(Byte)
    BY <2>3, Joined
  <2>5. FromBytes(inBuf \o SubSeq(down, 1, n)) \in Nat
    BY LengthIsNat
  <2>6. Parse(inBuf \o SubSeq(down, 1, n)) \subseteq Message
    BY DEF Parse
  <2>7. /\ portal' \in {"open", "polling", "spinning", "closed"}
        /\ inLen' \in Nat \cup {None} /\ inBuf' \in Seq(Byte) /\ answers' \in Seq(Message)
    <3>1. CASE \E m \in Parse(inBuf \o SubSeq(down, 1, n)) : Yield(m)
      BY <3>1, <2>6, Empty DEF Yield
    <3>2. CASE /\ inLen' = FromBytes(inBuf \o SubSeq(down, 1, n)) /\ inBuf' = <<>>
               /\ UNCHANGED <<portal, answers>>
      BY <3>2, <2>5, Empty
    <3> QED
      BY <2>1, <2>4, <3>1, <3>2
  <2> QED
    BY <1>3, <2>3, <2>7 DEF PollNext, readVars, writeVars
<1>4. ASSUME ReadSide
      PROVE  TypeOK'
  <2>1. PICK n \in Readable(Wanted(rdLen) - Len(rdBuf), up) :
            /\ up' = SubSeq(up, n + 1, Len(up))
            /\ \/ rdBuf' = rdBuf \o SubSeq(up, 1, n) /\ UNCHANGED <<reader, rdLen, requests>>
               \/ /\ rdLen' = FromBytes(rdBuf \o SubSeq(up, 1, n)) /\ rdBuf' = <<>>
                  /\ UNCHANGED <<reader, requests>>
               \/ /\ \E m \in Parse(rdBuf \o SubSeq(up, 1, n)) : requests' = Append(requests, m)
                  /\ rdLen' = None /\ rdBuf' = <<>> /\ UNCHANGED reader
               \/ reader' = "error" /\ UNCHANGED <<rdLen, rdBuf, requests>>
    BY <1>4 DEF ReadSide
  <2>2. n \in 0..Len(up)
    BY <2>1, NoneNoLength DEF Readable, Wanted
  <2>3. SubSeq(up, 1, n) \in Seq(Byte) /\ up' \in Seq(Byte)
    BY <2>1, <2>2, Cut
  <2>4. rdBuf \o SubSeq(up, 1, n) \in Seq(Byte)
    BY <2>3, Joined
  <2>5. FromBytes(rdBuf \o SubSeq(up, 1, n)) \in Nat
    BY LengthIsNat
  <2>6. Parse(rdBuf \o SubSeq(up, 1, n)) \subseteq Message
    BY DEF Parse
  <2>7. /\ reader' \in {"open", "ended", "error", "cancelled"}
        /\ rdLen' \in Nat \cup {None} /\ rdBuf' \in Seq(Byte) /\ requests' \in Seq(Message)
    <3>1. CASE /\ \E m \in Parse(rdBuf \o SubSeq(up, 1, n)) : requests' = Append(requests, m)
               /\ rdLen' = None /\ rdBuf' = <<>> /\ UNCHANGED reader
      BY <3>1, <2>6, Empty
    <3>2. CASE /\ rdLen' = FromBytes(rdBuf \o SubSeq(up, 1, n)) /\ rdBuf' = <<>>
               /\ UNCHANGED <<reader, requests>>
      BY <3>2, <2>5, Empty
    <3> QED
      BY <2>1, <2>4, <3>1, <3>2
  <2> QED
    BY <1>4, <2>3, <2>7 DEF ReadSide, portalVars, writeVars
<1>5. ASSUME NEW m \in Message, Answer(m)
      PROVE  TypeOK'
  BY <1>5 DEF Answer, portalVars, readVars
<1>6. ASSUME NextAnswer
      PROVE  TypeOK'
  <2>1. Head(queue) \in Message /\ queue' \in Seq(Message)
    BY <1>6 DEF NextAnswer
  <2>2. rest' \in Seq(Byte)
    BY <1>6, <2>1, EncodedSeq DEF NextAnswer, Encoded
  <2> QED
    BY <1>6, <2>1, <2>2 DEF NextAnswer, portalVars, readVars
<1>7. ASSUME WriteAll
      PROVE  TypeOK'
  <2>1. PICK n \in Writable(Len(rest), down) :
            down' = down \o SubSeq(rest, 1, n) /\ rest' = SubSeq(rest, n + 1, Len(rest))
    BY <1>7 DEF WriteAll
  <2>2. n \in 0..Len(rest)
    BY <2>1, BoundsAssumption DEF Writable
  <2>3. SubSeq(rest, 1, n) \in Seq(Byte) /\ rest' \in Seq(Byte)
    BY <2>1, <2>2, Cut
  <2>4. down' \in Seq(Byte)
    BY <2>1, <2>3, Joined
  <2> QED
    BY <1>7, <2>3, <2>4 DEF WriteAll, portalVars, readVars
<1>8. CASE PollReadyFails \/ Await \/ PollNextAtEnd \/ DropPicom
  BY <1>8 DEF PollReadyFails, Await, PollNextAtEnd, DropPicom, readVars, writeVars
<1>9. CASE ReadSideEnds \/ WriteSideEnds \/ DropClient \/ Crash
  BY <1>9, Empty DEF ReadSideEnds, WriteSideEnds, DropClient, Crash, portalVars, readVars, writeVars
<1>10. CASE UNCHANGED vars
  BY <1>10 DEF vars, portalVars, readVars, writeVars
<1> QED
  BY <1>1, <1>2, <1>3, <1>4, <1>5, <1>6, <1>7, <1>8, <1>9, <1>10
  DEF Next, Portal, ReadTask, WriteTask

\* Type correctness of a connection, however reads and writes fall: what a
\* reader takes for a length is a number, and the sink stays in its buffer.
THEOREM TypeCorrect == Spec => []TypeOK
BY TypeInit, TypeStep, PTL DEF Spec

-----------------------------------------------------------------------------
(* Messages in step.                                                       *)

\* One more message is sent when all others have come.
LEMMA OneMoreSent ==
    ASSUME NEW sent \in Seq(Message), NEW received \in Seq(Message), NEW m \in Message,
           InStep(sent, received), Len(received) = Len(sent)
    PROVE  /\ InStep(Append(sent, m), received)
           /\ Len(Append(sent, m)) = Len(received) + 1
           /\ Append(sent, m)[Len(Append(sent, m))] = m
BY DEF InStep

\* The one that is missing is received.
LEMMA LastReceived ==
    ASSUME NEW sent \in Seq(Message), NEW received \in Seq(Message),
           InStep(sent, received), Len(received) # Len(sent)
    PROVE  /\ sent[Len(sent)] \in Message /\ Len(sent) = Len(received) + 1
           /\ InStep(sent, Append(received, sent[Len(sent)]))
           /\ Len(Append(received, sent[Len(sent)])) = Len(sent)
BY DEF InStep

\* Then all have come, and all came in order.
LEMMA InStepLens ==
    ASSUME NEW sent \in Seq(Message), NEW received \in Seq(Message), InStep(sent, received)
    PROVE  Len(received) <= Len(sent) /\ Len(sent) <= Len(received) + 1
BY DEF InStep

-----------------------------------------------------------------------------
(* Requests.                                                               *)

RequestVars == <<asked, requests, outBuf, outPos, up, rdLen, rdBuf>>

LEMMA RequestKept ==
    ASSUME RequestInv, UNCHANGED RequestVars
    PROVE  RequestInv'
BY DEF RequestInv, RequestVars

\* A request is made when the last has arrived.
LEMMA RequestSent ==
    ASSUME TypeOK, FramingInv, NEW m \in Message, StartSend(m)
    PROVE  RequestInv'
<1>1. /\ asked' = Append(asked, m) /\ outBuf' = Encoded(m) /\ Len(answers) = Len(asked)
      /\ UNCHANGED <<outPos, requests, rdLen, rdBuf, up>> /\ outBuf = <<>>
  BY DEF StartSend, Encoded, readVars
<1>2. InStep(asked, requests) /\ Len(requests) = Len(asked)
  BY <1>1, InStepLens DEF TypeOK, FramingInv, RequestInv, AnswerInv, OneAtATime
<1>3. Fresh(rdLen, rdBuf) /\ up = <<>> /\ outPos = 0
  BY <1>1, <1>2 DEF FramingInv, RequestInv
<1>4. /\ InStep(asked', requests) /\ Len(asked') = Len(requests) + 1
      /\ asked'[Len(asked')] = m
  BY <1>1, <1>2, OneMoreSent DEF TypeOK
<1>5. Encoded(m) \in Seq(Byte) /\ Len(Encoded(m)) \in Nat /\ Len(Encoded(m)) > 0
  BY EncodedSeq, SizeNat
<1>6. Reading(m, rdLen, rdBuf, up) /\ Passed(rdLen, rdBuf, up) = 0
  BY <1>3, <1>5, Empty DEF Reading, Fresh, Part, Past, Passed, Wanted
<1>7. outBuf' # <<>>
  BY <1>1, <1>5, Empty
<1>8. Len(requests) # Len(asked')
  BY <1>4 DEF TypeOK
<1> QED
  BY <1>1, <1>3, <1>4, <1>5, <1>6, <1>7, <1>8 DEF RequestInv

\* A write of poll_ready moves bytes from outBuf to the socket.
LEMMA RequestWritten ==
    ASSUME TypeOK, FramingInv, PollReady
    PROVE  RequestInv'
<1> DEFINE m == asked[Len(asked)]
           b == Encoded(m)
           k == Past(rdLen) + Len(rdBuf)
<1>1. PICK n \in Writable(Len(outBuf) - outPos, up) :
          /\ up' = up \o SubSeq(outBuf, outPos + 1, outPos + n)
          /\ Written(outPos + n)
  BY DEF PollReady
<1>2. UNCHANGED <<asked, requests, rdLen, rdBuf>>
  BY DEF PollReady, readVars
<1>3. n \in 1..(Len(outBuf) - outPos)
  BY <1>1, BoundsAssumption DEF Writable, TypeOK
<1>4. Len(outBuf) > 0
  BY <1>3 DEF TypeOK
<1>5. outBuf # <<>>
  BY <1>4, Empty
<1>6. Len(requests) # Len(asked)
  BY <1>5 DEF FramingInv, RequestInv
<1>7. /\ Reading(m, rdLen, rdBuf, up) /\ InStep(asked, requests)
      /\ outBuf = b /\ outPos < Len(outBuf) /\ outPos = Passed(rdLen, rdBuf, up)
  BY <1>5, <1>6 DEF FramingInv, RequestInv
<1>8. m \in Message
  BY <1>6, <1>7, LastReceived DEF TypeOK
<1>9. b \in Seq(Byte)
  BY <1>8, EncodedSeq
<1>10. k \in Nat /\ outPos = k + Len(up)
  BY <1>7 DEF TypeOK, Past, Passed
<1> DEFINE bytes == SubSeq(outBuf, outPos + 1, outPos + n)
<1> HIDE DEF m, k
<1>11. bytes \in Seq(Byte) /\ Len(bytes) = n /\ \A i \in 1..n : bytes[i] = outBuf[outPos + i]
  <2>1. outBuf \in Seq(Byte) /\ outPos \in Nat /\ n \in 0..(Len(outBuf) - outPos)
    BY <1>3 DEF TypeOK
  <2> QED
    BY <2>1, Piece
<1> HIDE DEF b, bytes
<1>12. Part(bytes, b, k + Len(up))
  BY <1>3, <1>7, <1>10, <1>11 DEF Part, TypeOK
<1>13. Part(up, b, k)
  BY <1>7 DEF Reading, k, b
<1>14. up' \in Seq(Byte) /\ Len(up') = Len(up) + n /\ Part(up', b, k)
  <2>1. up' = up \o bytes /\ up \in Seq(Byte)
    BY <1>1 DEF TypeOK, bytes
  <2> QED
    BY <2>1, <1>9, <1>10, <1>11, <1>12, <1>13, OneWrite
<1>15. Reading(m, rdLen, rdBuf, up')
  BY <1>7, <1>14 DEF Reading, b, k
<1>16. Passed(rdLen, rdBuf, up') = outPos + n
  BY <1>3, <1>10, <1>14 DEF Passed, k, TypeOK
<1>17. \/ outBuf' = <<>> /\ outPos' = 0 /\ outPos + n = Len(b)
       \/ outBuf' = b /\ outBuf' # <<>> /\ outPos' < Len(outBuf') /\ outPos' = outPos + n
  <2>1. CASE outPos + n < Len(outBuf)
    BY <1>1, <1>5, <1>7, <2>1 DEF Written
  <2>2. CASE ~(outPos + n < Len(outBuf))
    <3>1. outBuf' = <<>> /\ outPos' = 0
      BY <1>1, <2>2 DEF Written
    <3>2. outPos + n = Len(outBuf)
      BY <1>3, <2>2 DEF TypeOK
    <3> QED
      BY <1>7, <3>1, <3>2
  <2> QED
    BY <2>1, <2>2
<1> QED
  BY <1>2, <1>6, <1>7, <1>15, <1>16, <1>17 DEF RequestInv, m, b

\* A read of the read side.
LEMMA RequestRead ==
    ASSUME TypeOK, FramingInv, ReadSide
    PROVE  /\ RequestInv'
           /\ requests' \in {requests, Append(requests, asked[Len(asked)])}
           /\ requests' # requests => Len(requests) # Len(asked)
           /\ UNCHANGED <<asked, reader>>
<1> DEFINE m == asked[Len(asked)]
<1>1. PICK n \in Readable(Wanted(rdLen) - Len(rdBuf), up) :
          LET buf == rdBuf \o SubSeq(up, 1, n) IN
          /\ up' = SubSeq(up, n + 1, Len(up))
          /\ \/ /\ Len(buf) < Wanted(rdLen)
                /\ rdBuf' = buf
                /\ UNCHANGED <<reader, rdLen, requests>>
             \/ /\ Len(buf) = Wanted(rdLen) /\ rdLen = None
                /\ rdLen' = FromBytes(buf) /\ rdBuf' = <<>>
                /\ UNCHANGED <<reader, requests>>
             \/ /\ Len(buf) = Wanted(rdLen) /\ rdLen # None
                /\ \E o \in Parse(buf) : requests' = Append(requests, o)
                /\ rdLen' = None /\ rdBuf' = <<>>
                /\ UNCHANGED reader
             \/ /\ Len(buf) = Wanted(rdLen) /\ rdLen # None /\ Parse(buf) = {}
                /\ reader' = "error"
                /\ UNCHANGED <<rdLen, rdBuf, requests>>
  BY DEF ReadSide
<1>2. UNCHANGED <<asked, outBuf, outPos>>
  BY DEF ReadSide, portalVars
<1>3. up # <<>>
  BY <1>1, Empty, NoneNoLength DEF Readable, Wanted, TypeOK
<1>4. /\ Len(requests) # Len(asked) /\ InStep(asked, requests)
      /\ Reading(m, rdLen, rdBuf, up)
      /\ \/ outBuf = <<>> /\ Passed(rdLen, rdBuf, up) = Len(Encoded(m))
         \/ outBuf = Encoded(m) /\ outPos < Len(outBuf) /\ outPos = Passed(rdLen, rdBuf, up)
      /\ outBuf = <<>> => outPos = 0
  BY <1>3 DEF FramingInv, RequestInv
<1>5. m \in Message
  BY <1>4, LastReceived DEF TypeOK
<1> DEFINE got == rdBuf \o SubSeq(up, 1, n)
           left == SubSeq(up, n + 1, Len(up))
<1> HIDE DEF m
<1>6. /\ got \in Seq(Byte) /\ left \in Seq(Byte)
      /\ Len(got) <= Wanted(rdLen)
      /\ Len(got) < Wanted(rdLen) =>
           /\ Reading(m, rdLen, got, left)
           /\ Passed(rdLen, got, left) = Passed(rdLen, rdBuf, up)
      /\ Len(got) = Wanted(rdLen) /\ rdLen = None =>
           /\ FromBytes(got) = Size[m] /\ Reading(m, Size[m], <<>>, left)
           /\ Passed(Size[m], <<>>, left) = Passed(rdLen, rdBuf, up)
      /\ Len(got) = Wanted(rdLen) /\ rdLen # None =>
           /\ Parse(got) = {m} /\ left = <<>>
           /\ Passed(rdLen, rdBuf, up) = Len(Encoded(m))
  BY <1>4, <1>5, OneRead DEF TypeOK
<1> HIDE DEF got, left
<1>7. up' = left
  BY <1>1 DEF left
<1>8. \/ /\ Len(got) < Wanted(rdLen) /\ rdBuf' = got
         /\ UNCHANGED <<reader, rdLen, requests>>
      \/ /\ Len(got) = Wanted(rdLen) /\ rdLen = None
         /\ rdLen' = Size[m] /\ rdBuf' = <<>>
         /\ UNCHANGED <<reader, requests>>
      \/ /\ Len(got) = Wanted(rdLen) /\ rdLen # None
         /\ requests' = Append(requests, m)
         /\ rdLen' = None /\ rdBuf' = <<>>
         /\ UNCHANGED reader
  BY <1>1, <1>6 DEF got
<1>9. CASE Len(got) < Wanted(rdLen) /\ rdBuf' = got /\ UNCHANGED <<reader, rdLen, requests>>
  BY <1>2, <1>4, <1>6, <1>7, <1>9 DEF RequestInv, m
<1>10. CASE /\ Len(got) = Wanted(rdLen) /\ rdLen = None
            /\ rdLen' = Size[m] /\ rdBuf' = <<>>
            /\ UNCHANGED <<reader, requests>>
  BY <1>2, <1>4, <1>6, <1>7, <1>10 DEF RequestInv, m
<1>11. CASE /\ Len(got) = Wanted(rdLen) /\ rdLen # None
            /\ requests' = Append(requests, m)
            /\ rdLen' = None /\ rdBuf' = <<>>
            /\ UNCHANGED reader
  <2>1. InStep(asked, requests') /\ Len(requests') = Len(asked)
    BY <1>4, <1>11, LastReceived DEF TypeOK, m
  <2>2. Passed(rdLen, rdBuf, up) = Len(Encoded(m)) /\ up' = <<>>
    BY <1>6, <1>7, <1>11
  <2>3. outBuf = <<>>
    BY <1>4, <2>2 DEF TypeOK
  <2> QED
    BY <1>2, <1>4, <1>11, <2>1, <2>2, <2>3 DEF RequestInv, Fresh, m
<1> QED
  BY <1>8, <1>9, <1>10, <1>11

-----------------------------------------------------------------------------
(* Answers.                                                                *)

AnswerVars == <<answered, answers, writer, queue, rest, down, inLen, inBuf>>

LEMMA AnswerKept ==
    ASSUME AnswerInv, UNCHANGED AnswerVars
    PROVE  AnswerInv'
BY DEF AnswerInv, AnswerVars

\* There is no answer under way when the next request is answered.
LEMMA AnswerSent ==
    ASSUME TypeOK, FramingInv, NEW m \in Message, Answer(m)
    PROVE  AnswerInv' /\ Len(answered') = Len(answered) + 1
<1>1. /\ answered' = Append(answered, m) /\ queue' = Append(queue, m)
      /\ UNCHANGED <<answers, writer, rest, down, inLen, inBuf>>
      /\ Len(answered) < Len(requests) /\ writer = "open"
  BY DEF Answer, portalVars
<1>2. InStep(answered, answers) /\ Len(answers) = Len(answered)
  <2>1. Len(requests) <= Len(asked)
    BY InStepLens DEF TypeOK, FramingInv, RequestInv
  <2>2. InStep(answered, answers) /\ Len(answers) <= Len(answered)
    BY InStepLens DEF TypeOK, FramingInv, AnswerInv
  <2> QED
    BY <1>1, <2>1, <2>2 DEF TypeOK, FramingInv, OneAtATime
<1>3. Fresh(inLen, inBuf) /\ down = <<>> /\ queue = <<>> /\ rest = <<>>
  BY <1>2 DEF FramingInv, AnswerInv
<1>4. /\ InStep(answered', answers) /\ Len(answered') = Len(answers) + 1
      /\ answered'[Len(answered')] = m
  BY <1>1, <1>2, OneMoreSent DEF TypeOK
<1>5. Encoded(m) \in Seq(Byte) /\ Len(Encoded(m)) \in Nat
  BY EncodedSeq
<1>6. Reading(m, inLen, inBuf, down)
  BY <1>3, <1>5, Empty DEF Reading, Fresh, Part, Past, Wanted
<1>7. queue' = <<m>>
  BY <1>1, <1>3
<1>8. Len(answers) # Len(answered') /\ Len(answered') = Len(answered) + 1
  BY <1>2, <1>4 DEF TypeOK
<1> QED
  BY <1>1, <1>3, <1>4, <1>6, <1>7, <1>8 DEF AnswerInv

\* The write side has the whole message before it.
LEMMA AnswerTaken ==
    ASSUME TypeOK, FramingInv, NextAnswer
    PROVE  AnswerInv'
<1> DEFINE m == answered[Len(answered)]
           b == Encoded(m)
<1>1. /\ queue # <<>> /\ writer = "open"
      /\ rest' = Encoded(Head(queue)) /\ queue' = Tail(queue)
      /\ UNCHANGED <<answered, answers, writer, down, inLen, inBuf>>
  BY DEF NextAnswer, portalVars, Encoded
<1>2. /\ Len(answers) # Len(answered) /\ InStep(answered, answers)
      /\ Reading(m, inLen, inBuf, down)
      /\ queue = <<m>> /\ Fresh(inLen, inBuf) /\ down = <<>>
  BY <1>1 DEF FramingInv, AnswerInv
<1>3. m \in Message
  BY <1>2, LastReceived DEF TypeOK
<1>4. b \in Seq(Byte) /\ Len(b) \in Nat
  BY <1>3, EncodedSeq
<1> HIDE DEF m
<1>5. rest' = b /\ queue' = <<>>
  BY <1>1, <1>2
<1> HIDE DEF b
<1>6. Passed(inLen, inBuf, down) = 0
  BY <1>2, Empty DEF Passed, Past, Fresh
<1>7. Part(b, b, 0) /\ 0 + Len(b) = Len(b)
  BY <1>4 DEF Part
<1> QED
  BY <1>1, <1>2, <1>5, <1>6, <1>7 DEF AnswerInv, m, b

\* A write of write_all.
LEMMA AnswerWritten ==
    ASSUME TypeOK, FramingInv, WriteAll
    PROVE  AnswerInv'
<1> DEFINE m == answered[Len(answered)]
           b == Encoded(m)
           k == Past(inLen) + Len(inBuf)
<1>1. PICK n \in Writable(Len(rest), down) :
          down' = down \o SubSeq(rest, 1, n) /\ rest' = SubSeq(rest, n + 1, Len(rest))
  BY DEF WriteAll
<1>2. writer = "open" /\ UNCHANGED <<answered, answers, writer, queue, inLen, inBuf>>
  BY DEF WriteAll, portalVars
<1>3. n \in 1..Len(rest)
  BY <1>1, BoundsAssumption DEF Writable, TypeOK
<1>4. rest # <<>>
  BY <1>3, Empty DEF TypeOK
<1>5. /\ Len(answers) # Len(answered) /\ InStep(answered, answers)
      /\ Reading(m, inLen, inBuf, down)
      /\ queue = <<>> /\ Part(rest, b, Passed(inLen, inBuf, down))
      /\ Passed(inLen, inBuf, down) + Len(rest) = Len(b)
  BY <1>2, <1>4 DEF FramingInv, AnswerInv
<1>6. m \in Message
  BY <1>5, LastReceived DEF TypeOK
<1>7. b \in Seq(Byte)
  BY <1>6, EncodedSeq
<1>8. k \in Nat /\ Passed(inLen, inBuf, down) = k + Len(down)
  BY DEF TypeOK, Past, Passed
<1> DEFINE bytes == SubSeq(rest, 1, n)
<1> HIDE DEF m, k
<1>9. /\ bytes \in Seq(Byte) /\ Len(bytes) = n /\ \A i \in 1..n : bytes[i] = rest[i]
      /\ rest' \in Seq(Byte) /\ Len(rest') = Len(rest) - n
      /\ \A i \in 1..(Len(rest) - n) : rest'[i] = rest[n + i]
  <2>1. rest \in Seq(Byte) /\ n \in 0..Len(rest)
    BY <1>3 DEF TypeOK
  <2> QED
    BY <1>1, <2>1, Cut
<1> HIDE DEF b, bytes
<1>10. /\ k + Len(down) \in Nat /\ Len(rest) \in Nat /\ k + Len(down) + Len(rest) = Len(b)
       /\ \A i \in 1..Len(rest) : rest[i] = b[k + Len(down) + i]
  BY <1>5, <1>8 DEF Part, TypeOK, b
<1>11. Part(bytes, b, k + Len(down))
  <2>1. k + Len(down) + Len(bytes) <= Len(b)
    BY <1>3, <1>9, <1>10
  <2>2. ASSUME NEW i \in 1..Len(bytes)
        PROVE  bytes[i] = b[k + Len(down) + i]
    <3>1. i \in 1..n /\ bytes[i] = rest[i]
      BY <1>9
    <3>2. i \in 1..Len(rest)
      BY <3>1, <1>3, <1>10
    <3> QED
      BY <3>1, <3>2, <1>10
  <2> QED
    BY <2>1, <2>2 DEF Part
<1>12. Part(down, b, k)
  BY <1>5 DEF Reading, k, b
<1>13. down' \in Seq(Byte) /\ Len(down') = Len(down) + n /\ Part(down', b, k)
  <2>1. down' = down \o bytes /\ down \in Seq(Byte)
    BY <1>1 DEF TypeOK, bytes
  <2>2. /\ down \o bytes \in Seq(Byte) /\ Len(down \o bytes) = Len(down) + Len(bytes)
        /\ Part(down \o bytes, b, k)
    <3>1. bytes \in Seq(Byte) /\ k \in Nat
      BY <1>8, <1>9
    <3> QED
      BY <2>1, <3>1, <1>7, <1>11, <1>12, OneWrite
  <2> QED
    BY <2>1, <2>2, <1>9
<1>14. Reading(m, inLen, inBuf, down')
  BY <1>5, <1>13 DEF Reading, b, k
<1>15. Passed(inLen, inBuf, down') = k + Len(down) + n
  BY <1>3, <1>8, <1>13 DEF Passed, k, TypeOK
<1>16. \A i \in 1..(Len(rest) - n) : rest'[i] = b[k + Len(down) + n + i]
  <2> TAKE i \in 1..(Len(rest) - n)
  <2>1. n + i \in 1..Len(rest)
    BY <1>3, <1>10
  <2>2. rest'[i] = rest[n + i] /\ rest[n + i] = b[k + Len(down) + (n + i)]
    BY <1>9, <1>10, <2>1
  <2> QED
    BY <1>3, <1>10, <2>2
<1>17. /\ Part(rest', b, Passed(inLen, inBuf, down'))
       /\ Passed(inLen, inBuf, down') + Len(rest') = Len(b)
  BY <1>3, <1>9, <1>10, <1>15, <1>16 DEF Part
<1> QED
  BY <1>2, <1>5, <1>14, <1>17 DEF AnswerInv, m, b

\* The write side ends with what it has, when the portal or picom is gone.
LEMMA WriterEnds ==
    ASSUME TypeOK, FramingInv, writer' = "ended", queue' = <<>>, rest' = <<>>,
           UNCHANGED <<answered, answers, down, inLen, inBuf>>
    PROVE  AnswerInv'
<1>1. CASE Len(answers) = Len(answered)
  BY <1>1 DEF FramingInv, AnswerInv
<1>2. CASE Len(answers) # Len(answered)
  <2> DEFINE m == answered[Len(answered)]
  <2>1. /\ InStep(answered, answers) /\ Reading(m, inLen, inBuf, down)
        /\ m \in Message
    BY <1>2, LastReceived DEF FramingInv, AnswerInv, TypeOK
  <2>2. Part(rest', Encoded(m), Passed(inLen, inBuf, down))
    <3>1. Encoded(m) \in Seq(Byte)
      BY <2>1, EncodedSeq
    <3>2. Passed(inLen, inBuf, down) <= Len(Encoded(m)) /\ Passed(inLen, inBuf, down) \in Nat
      BY <2>1 DEF Reading, Part, Passed, Past, TypeOK
    <3> QED
      BY <3>1, <3>2, Empty DEF Part
  <2> QED
    BY <1>2, <2>1, <2>2 DEF AnswerInv
<1> QED
  BY <1>1, <1>2

\* A read of poll_next.
LEMMA AnswerRead ==
    ASSUME TypeOK, FramingInv, PollNext
    PROVE  /\ AnswerInv'
           /\ answers' \in {answers, Append(answers, answered[Len(answered)])}
           /\ answers' # answers => Len(answers) # Len(answered)
           /\ UNCHANGED answered /\ portal' \in {"polling", "open"}
<1> DEFINE m == answered[Len(answered)]
<1>1. PICK n \in Readable(Wanted(inLen) - Len(inBuf), down) :
          LET buf == inBuf \o SubSeq(down, 1, n) IN
          /\ down' = SubSeq(down, n + 1, Len(down))
          /\ \/ /\ Len(buf) < Wanted(inLen)
                /\ inBuf' = buf
                /\ UNCHANGED <<portal, inLen, answers>>
             \/ /\ Len(buf) = Wanted(inLen) /\ inLen = None
                /\ inLen' = FromBytes(buf) /\ inBuf' = <<>>
                /\ UNCHANGED <<portal, answers>>
             \/ /\ Len(buf) = Wanted(inLen) /\ inLen # None
                /\ \E o \in Parse(buf) : Yield(o)
             \/ /\ Len(buf) = Wanted(inLen) /\ inLen # None /\ Parse(buf) = {}
                /\ inBuf' = buf /\ portal' = "closed"
                /\ UNCHANGED <<inLen, answers>>
  BY DEF PollNext
<1>2. UNCHANGED <<answered, writer, queue, rest>> /\ portal = "polling"
  BY DEF PollNext, writeVars
<1>3. down # <<>>
  BY <1>1, Empty, NoneNoLength DEF Readable, Wanted, TypeOK
<1>4. /\ Len(answers) # Len(answered) /\ InStep(answered, answers)
      /\ Reading(m, inLen, inBuf, down)
      /\ queue = <<>> /\ Part(rest, Encoded(m), Passed(inLen, inBuf, down))
      /\ writer = "open" => Passed(inLen, inBuf, down) + Len(rest) = Len(Encoded(m))
      /\ writer = "ended" => rest = <<>>
  BY <1>3 DEF FramingInv, AnswerInv
<1>5. m \in Message
  BY <1>4, LastReceived DEF TypeOK
<1> DEFINE got == inBuf \o SubSeq(down, 1, n)
           left == SubSeq(down, n + 1, Len(down))
<1> HIDE DEF m
<1>6. /\ got \in Seq(Byte) /\ left \in Seq(Byte)
      /\ Len(got) <= Wanted(inLen)
      /\ Len(got) < Wanted(inLen) =>
           /\ Reading(m, inLen, got, left)
           /\ Passed(inLen, got, left) = Passed(inLen, inBuf, down)
      /\ Len(got) = Wanted(inLen) /\ inLen = None =>
           /\ FromBytes(got) = Size[m] /\ Reading(m, Size[m], <<>>, left)
           /\ Passed(Size[m], <<>>, left) = Passed(inLen, inBuf, down)
      /\ Len(got) = Wanted(inLen) /\ inLen # None =>
           /\ Parse(got) = {m} /\ left = <<>>
           /\ Passed(inLen, inBuf, down) = Len(Encoded(m))
  BY <1>4, <1>5, OneRead DEF TypeOK
<1> HIDE DEF got, left
<1>7. down' = left
  BY <1>1 DEF left
<1>8. \/ /\ Len(got) < Wanted(inLen) /\ inBuf' = got
         /\ UNCHANGED <<portal, inLen, answers>>
      \/ /\ Len(got) = Wanted(inLen) /\ inLen = None
         /\ inLen' = Size[m] /\ inBuf' = <<>>
         /\ UNCHANGED <<portal, answers>>
      \/ /\ Len(got) = Wanted(inLen) /\ inLen # None /\ Yield(m)
  BY <1>1, <1>6 DEF got
<1>9. CASE Len(got) < Wanted(inLen) /\ inBuf' = got /\ UNCHANGED <<portal, inLen, answers>>
  BY <1>2, <1>4, <1>6, <1>7, <1>9 DEF AnswerInv, m
<1>10. CASE /\ Len(got) = Wanted(inLen) /\ inLen = None
            /\ inLen' = Size[m] /\ inBuf' = <<>>
            /\ UNCHANGED <<portal, answers>>
  BY <1>2, <1>4, <1>6, <1>7, <1>10 DEF AnswerInv, m
<1>11. CASE Len(got) = Wanted(inLen) /\ inLen # None /\ Yield(m)
  <2>1. InStep(answered, answers') /\ Len(answers') = Len(answered)
    BY <1>4, <1>11, LastReceived DEF TypeOK, Yield, m
  <2>2. Passed(inLen, inBuf, down) = Len(Encoded(m)) /\ down' = <<>>
    BY <1>6, <1>7, <1>11
  <2>3. rest = <<>>
    <3>1. Encoded(m) \in Seq(Byte) /\ rest \in Seq(Byte)
      BY <1>5, EncodedSeq DEF TypeOK
    <3>2. Len(rest) = 0
      BY <1>4, <2>2, <3>1 DEF Part
    <3> QED
      BY <3>1, <3>2
  <2> QED
    BY <1>2, <1>4, <1>11, <2>1, <2>2, <2>3 DEF AnswerInv, Fresh, Yield, m
<1> QED
  BY <1>8, <1>9, <1>10, <1>11

-----------------------------------------------------------------------------
(* The invariant is kept.                                                  *)

LEMMA FramingInit == Init => FramingInv
BY Empty DEF Init, FramingInv, RequestInv, AnswerInv, OneAtATime, InStep, Fresh

LEMMA FramingStep == TypeOK /\ FramingInv /\ [Next]_vars => FramingInv'
<1> SUFFICES ASSUME TypeOK, FramingInv, [Next]_vars
             PROVE  FramingInv'
  OBVIOUS
<1>1. RequestInv /\ AnswerInv /\ OneAtATime
  BY DEF FramingInv
<1>2. /\ Len(answers) \in Nat /\ Len(asked) \in Nat /\ Len(requests) \in Nat /\ Len(answered) \in Nat
      /\ Len(requests) <= Len(asked) /\ Len(answers) <= Len(answered)
  BY <1>1, InStepLens DEF TypeOK, RequestInv, AnswerInv
<1>3. ASSUME NEW m \in Message, StartSend(m)
      PROVE  FramingInv'
  <2>1. AnswerInv'
    BY <1>1, <1>3, AnswerKept DEF StartSend, AnswerVars, writeVars
  <2>2. OneAtATime'
    BY <1>1, <1>2, <1>3 DEF StartSend, OneAtATime, readVars, TypeOK
  <2> QED
    BY <1>3, <2>1, <2>2, RequestSent DEF FramingInv
<1>4. ASSUME PollReady
      PROVE  FramingInv'
  <2>1. AnswerInv' /\ OneAtATime'
    BY <1>1, <1>4, AnswerKept DEF PollReady, AnswerVars, OneAtATime, readVars, writeVars
  <2> QED
    BY <1>4, <2>1, RequestWritten DEF FramingInv
<1>5. ASSUME ReadSide
      PROVE  FramingInv'
  <2>1. AnswerInv'
    BY <1>1, <1>5, AnswerKept DEF ReadSide, AnswerVars, portalVars, writeVars
  <2>2. RequestInv' /\ Len(requests) <= Len(requests')
    BY <1>5, RequestRead DEF TypeOK
  <2>3. TypeOK'
    BY TypeStep
  <2>4. OneAtATime'
    BY <1>1, <1>2, <1>5, <2>2, <2>3 DEF ReadSide, OneAtATime, portalVars, TypeOK
  <2> QED
    BY <2>1, <2>2, <2>4 DEF FramingInv
<1>6. ASSUME PollNext
      PROVE  FramingInv'
  <2>1. RequestInv'
    BY <1>1, <1>6, RequestKept DEF PollNext, RequestVars, readVars
  <2>2. AnswerInv' /\ Len(answers) <= Len(answers')
    BY <1>6, AnswerRead DEF TypeOK
  <2>3. TypeOK'
    BY TypeStep
  <2>4. OneAtATime'
    BY <1>1, <1>2, <1>6, <2>2, <2>3 DEF PollNext, OneAtATime, readVars, TypeOK
  <2> QED
    BY <2>1, <2>2, <2>4 DEF FramingInv
<1>7. ASSUME NEW m \in Message, Answer(m)
      PROVE  FramingInv'
  <2>1. RequestInv'
    BY <1>1, <1>7, RequestKept DEF Answer, RequestVars, portalVars, readVars
  <2>2. AnswerInv' /\ Len(answered') = Len(answered) + 1
    BY <1>7, AnswerSent
  <2>3. OneAtATime'
    BY <1>1, <1>2, <1>7, <2>2 DEF Answer, OneAtATime, portalVars, readVars
  <2> QED
    BY <2>1, <2>2, <2>3 DEF FramingInv
<1>8. ASSUME NextAnswer \/ WriteAll
      PROVE  FramingInv'
  <2>1. RequestInv' /\ OneAtATime'
    BY <1>1, <1>8, RequestKept
    DEF NextAnswer, WriteAll, RequestVars, OneAtATime, portalVars, readVars
  <2> QED
    BY <1>8, <2>1, AnswerTaken, AnswerWritten DEF FramingInv
<1>9. ASSUME WriteSideEnds \/ Crash
      PROVE  FramingInv'
  <2>1. RequestInv' /\ OneAtATime'
    BY <1>1, <1>9, RequestKept
    DEF WriteSideEnds, Crash, RequestVars, OneAtATime, portalVars, readVars
  <2>2. AnswerInv'
    BY <1>9, WriterEnds DEF WriteSideEnds, Crash, portalVars
  <2> QED
    BY <2>1, <2>2 DEF FramingInv
<1>10. CASE PollReadyFails \/ Await \/ PollNextAtEnd \/ DropPicom \/ ReadSideEnds \/ DropClient
  <2>1. UNCHANGED RequestVars /\ UNCHANGED AnswerVars
    BY <1>10 DEF PollReadyFails, Await, PollNextAtEnd, DropPicom, ReadSideEnds, DropClient,
                 RequestVars, AnswerVars, portalVars, readVars, writeVars
  <2> QED
    BY <1>1, <2>1, RequestKept, AnswerKept
    DEF FramingInv, OneAtATime, RequestVars, AnswerVars
<1>11. CASE UNCHANGED vars
  BY <1>1, <1>11, RequestKept, AnswerKept
  DEF vars, FramingInv, OneAtATime, RequestVars, AnswerVars, portalVars, readVars, writeVars
<1> QED
  BY <1>3, <1>4, <1>5, <1>6, <1>7, <1>8, <1>9, <1>10, <1>11
  DEF Next, Portal, ReadTask, WriteTask

LEMMA FramingInvariant == Spec => [](TypeOK /\ FramingInv)
<1>1. Init => TypeOK /\ FramingInv
  BY TypeInit, FramingInit
<1>2. TypeOK /\ FramingInv /\ [Next]_vars => (TypeOK /\ FramingInv)'
  BY TypeStep, FramingStep
<1> QED
  BY <1>1, <1>2, PTL DEF Spec

-----------------------------------------------------------------------------
(* What either direction promises.                                         *)

LEMMA RequestsStep ==
    ASSUME TypeOK, FramingInv, [Next]_vars
    PROVE  [Requests!Next]_<<asked, requests>>
<1> USE DEF Requests!Next, Requests!Send, Requests!Receive
<1>1. ASSUME NEW m \in Message, StartSend(m)
      PROVE  Requests!Next
  BY <1>1 DEF StartSend, readVars
<1>2. ASSUME ReadSide
      PROVE  Requests!Next \/ UNCHANGED <<asked, requests>>
  <2>1. /\ requests' \in {requests, Append(requests, asked[Len(asked)])}
        /\ requests' # requests => Len(requests) # Len(asked)
        /\ UNCHANGED asked
    BY <1>2, RequestRead
  <2>2. InStep(asked, requests)
    BY DEF FramingInv, RequestInv
  <2>3. Len(requests) # Len(asked) => Len(asked) = Len(requests) + 1
    BY <2>2, LastReceived DEF TypeOK
  <2> QED
    BY <2>1, <2>3 DEF TypeOK
<1>3. CASE \/ Portal \/ DropPicom \/ ReadSideEnds \/ WriteTask \/ DropClient \/ Crash
           \/ \E m \in Message : Answer(m)
  BY <1>3 DEF Portal, PollReady, PollReadyFails, Await, PollNext, PollNextAtEnd, DropPicom,
              ReadSideEnds, WriteTask, NextAnswer, WriteAll, WriteSideEnds, DropClient, Crash,
              Answer, portalVars, readVars
<1>4. CASE UNCHANGED vars
  BY <1>4 DEF vars, portalVars, readVars
<1> QED
  BY <1>1, <1>2, <1>3, <1>4 DEF Next, ReadTask

LEMMA AnswersStep ==
    ASSUME TypeOK, FramingInv, [Next]_vars
    PROVE  [Answers!Next]_<<answered, answers>>
<1> USE DEF Answers!Next, Answers!Send, Answers!Receive
<1>1. ASSUME NEW m \in Message, Answer(m)
      PROVE  Answers!Next
  BY <1>1 DEF Answer, portalVars
<1>2. ASSUME PollNext
      PROVE  Answers!Next \/ UNCHANGED <<answered, answers>>
  <2>1. /\ answers' \in {answers, Append(answers, answered[Len(answered)])}
        /\ answers' # answers => Len(answers) # Len(answered)
        /\ UNCHANGED answered
    BY <1>2, AnswerRead
  <2>2. InStep(answered, answers)
    BY DEF FramingInv, AnswerInv
  <2>3. Len(answers) # Len(answered) => Len(answered) = Len(answers) + 1
    BY <2>2, LastReceived DEF TypeOK
  <2> QED
    BY <2>1, <2>3 DEF TypeOK
<1>3. CASE \/ PollReady \/ PollReadyFails \/ Await \/ PollNextAtEnd
           \/ DropPicom \/ ReadTask \/ WriteTask \/ DropClient \/ Crash
           \/ \E m \in Message : StartSend(m)
  BY <1>3 DEF PollReady, PollReadyFails, Await, PollNextAtEnd, DropPicom, ReadTask, ReadSide,
              ReadSideEnds, WriteTask, NextAnswer, WriteAll, WriteSideEnds, DropClient, Crash,
              StartSend, portalVars
<1>4. CASE UNCHANGED vars
  BY <1>4 DEF vars, portalVars
<1> QED
  BY <1>1, <1>2, <1>3, <1>4 DEF Next, Portal

\* From start_send to read_side, a connection is a queue of requests: for
\* messages of any length and any cut of the bytes between poll_ready, socket
\* and read_exact, the task gets what the portal sent, whole, once, in order.
THEOREM RequestsImplementQueue == Spec => RequestsArriveInOrder
<1>1. Init => Requests!Init
  BY DEF Init, Requests!Init
<1> QED
  BY <1>1, RequestsStep, FramingInvariant, PTL
  DEF Spec, RequestsArriveInOrder, Requests!Spec

\* And so it is for answers, from the channel of write_side to poll_next, which
\* keeps its place in pos and len from one call to the next.
THEOREM AnswersImplementQueue == Spec => AnswersArriveInOrder
<1>1. Init => Answers!Init
  BY DEF Init, Answers!Init
<1> QED
  BY <1>1, AnswersStep, FramingInvariant, PTL
  DEF Spec, AnswersArriveInOrder, Answers!Spec

\* No end fails on bytes it has read: read_side's error is the end of a message
\* that was cut off, and poll_next never meets JSON that does not parse.
THEOREM NothingIsMisread == Spec => NothingMisread
<1> DEFINE ReadWell == /\ reader = "open" /\ reader' = "error" => up = <<>>
                       /\ portal = "polling" /\ portal' = "closed" => UNCHANGED down
<1>1. TypeOK /\ FramingInv /\ [Next]_vars => ReadWell
  <2> SUFFICES ASSUME TypeOK, FramingInv, [Next]_vars
               PROVE  ReadWell
    OBVIOUS
  <2>1. CASE ReadSide
    BY <2>1, RequestRead DEF ReadSide, portalVars
  <2>2. CASE PollNext
    BY <2>2, AnswerRead DEF PollNext, readVars
  <2>3. CASE \/ PollReady \/ PollReadyFails \/ Await \/ PollNextAtEnd \/ DropPicom
             \/ \E m \in Message : StartSend(m)
    BY <2>3 DEF PollReady, PollReadyFails, Await, PollNextAtEnd, DropPicom, StartSend, readVars
  <2>4. CASE \/ ReadSideEnds \/ WriteTask \/ DropClient \/ Crash
             \/ \E m \in Message : Answer(m)
    BY <2>4 DEF ReadSideEnds, WriteTask, NextAnswer, WriteAll, WriteSideEnds, DropClient,
                Crash, Answer, portalVars, readVars
  <2>5. CASE UNCHANGED vars
    BY <2>5 DEF vars, portalVars, readVars
  <2> QED
    BY <2>1, <2>2, <2>3, <2>4, <2>5 DEF Next, Portal, ReadTask
<1> QED
  BY <1>1, FramingInvariant, PTL DEF Spec, NothingMisread
=============================================================================
