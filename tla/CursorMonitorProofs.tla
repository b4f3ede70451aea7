------------------------- MODULE CursorMonitorProofs -------------------------
(***************************************************************************)
(* Theorems about the cursor monitor, for every set of cursors and every   *)
(* number of changes.                                                      *)
(***************************************************************************)
EXTENDS CursorMonitor, TLAPS

USE NoneNoSerial DEF CursorMessage, NewCursor, ChangeCursor

-----------------------------------------------------------------------------
(* The inductive invariant.                                                *)

HasImage(s) == cursors[s] # None

\* A serial the thread knows is one picom has an image for, or will have when
\* it has emptied the channel.
KnownSent ==
    picomPc # "gone" => \A s \in serials : HasImage(s) \/ Announced(s, Len(chan))

\* While notifications wait, the last of them names what the pointer shows;
\* when none waits, the image about to be sent or the last message sent does.
Handled ==
    /\ pc = "start" => events = <<>> /\ chan = <<>> /\ current = None
    /\ pc \in {"wait", "fetch", "load"} /\ events # <<>> => events[Len(events)] = display
    /\ pc = "load" /\ events = <<>> => image = display
    /\ UpToDate

CursorInv == TypeOK /\ CurrentKnown /\ KnownSent /\ ImagesTrue /\ Handled

-----------------------------------------------------------------------------
(* Sequences.                                                              *)

\* An element appended is the last, the others stay where they are.
LEMMA Appended ==
    ASSUME NEW S, NEW q \in Seq(S), NEW x \in S
    PROVE  /\ Append(q, x) \in Seq(S) /\ Append(q, x) # <<>>
           /\ Len(Append(q, x)) = Len(q) + 1
           /\ Append(q, x)[Len(q) + 1] = x
           /\ \A i \in 1..Len(q) : Append(q, x)[i] = q[i]
           /\ DOMAIN q = 1..Len(q) /\ Len(q) \in Nat
           /\ DOMAIN Append(q, x) = 1..(Len(q) + 1)
OBVIOUS

\* When the head is taken, the others move one place ahead.
LEMMA Taken ==
    ASSUME NEW S, NEW q \in Seq(S), q # <<>>
    PROVE  /\ Tail(q) \in Seq(S) /\ Head(q) \in S /\ Head(q) = q[1]
           /\ Len(q) \in Nat \ {0} /\ Len(Tail(q)) = Len(q) - 1
           /\ DOMAIN q = 1..Len(q) /\ DOMAIN Tail(q) = 1..(Len(q) - 1)
           /\ \A i \in 1..(Len(q) - 1) : Tail(q)[i] = q[i + 1]
           /\ Tail(q) = <<>> <=> Len(q) = 1
<1>1. /\ Tail(q) \in Seq(S) /\ Head(q) \in S /\ Head(q) = q[1]
      /\ Len(q) \in Nat \ {0} /\ Len(Tail(q)) = Len(q) - 1
      /\ DOMAIN q = 1..Len(q) /\ DOMAIN Tail(q) = 1..(Len(q) - 1)
      /\ \A i \in 1..(Len(q) - 1) : Tail(q)[i] = q[i + 1]
  OBVIOUS
<1>2. \A t \in Seq(S) : t = <<>> <=> Len(t) = 0
  OBVIOUS
<1> QED
  BY <1>1, <1>2

-----------------------------------------------------------------------------
(* What sending and receiving do to the channel's part of the invariant.   *)

ChanInv ==
    /\ chan \in Seq(CursorMessage)
    /\ cursors \in [Serials -> Serials \cup {None}] /\ current \in Serials \cup {None}
    /\ CurrentKnown /\ KnownSent /\ ImagesTrue

\* Every message names a cursor, and a new one carries an image.
LEMMA MessageParts ==
    \A m \in CursorMessage :
        /\ m.serial \in Serials /\ m.type \in {"NewCursor", "ChangeCursor"}
        /\ m.type = "NewCursor" => m.image \in Serials
OBVIOUS

\* A true image may be sent, and from then on its serial counts as known.
LEMMA SendNewCursor ==
    ASSUME ChanInv, NEW s \in Serials, chan' = Append(chan, NewCursor(s, s)),
           serials' = serials \cup {s}, serials \subseteq Serials, UNCHANGED picomVars
    PROVE  ChanInv'
<1>1. /\ chan' \in Seq(CursorMessage) /\ Len(chan') = Len(chan) + 1
      /\ chan'[Len(chan) + 1] = NewCursor(s, s)
      /\ \A i \in 1..Len(chan) : chan'[i] = chan[i]
      /\ DOMAIN chan = 1..Len(chan) /\ Len(chan) \in Nat
      /\ DOMAIN chan' = 1..(Len(chan) + 1)
  BY Appended DEF ChanInv
<1>2. Announced(s, Len(chan))'
  BY <1>1 DEF Announced
<1>3. \A r, n : Announced(r, n) /\ n \in 1..Len(chan) => Announced(r, n)'
  BY <1>1 DEF Announced
<1>4. \A r : Announced(r, Len(chan)) => \E j \in 1..Len(chan') :
            chan'[j].type = "NewCursor" /\ chan'[j].serial = r
  BY <1>1 DEF Announced
<1> QED
  BY <1>1, <1>2, <1>3, <1>4 DEF ChanInv, CurrentKnown, KnownSent, ImagesTrue, Announced, HasImage, picomVars

\* A change to a cursor that counts as known may be sent while picom is there.
LEMMA SendChangeCursor ==
    ASSUME ChanInv, NEW s \in serials, chan' = Append(chan, ChangeCursor(s)), RxOpen,
           serials \subseteq Serials, UNCHANGED <<serials, picomVars>>
    PROVE  ChanInv'
<1>1. /\ chan' \in Seq(CursorMessage) /\ Len(chan') = Len(chan) + 1
      /\ chan'[Len(chan) + 1] = ChangeCursor(s)
      /\ \A i \in 1..Len(chan) : chan'[i] = chan[i]
      /\ DOMAIN chan = 1..Len(chan) /\ Len(chan) \in Nat
      /\ DOMAIN chan' = 1..(Len(chan) + 1)
  BY Appended DEF ChanInv
<1>2. \A r : Announced(r, Len(chan)) => Announced(r, Len(chan))'
  BY <1>1 DEF Announced
<1>3. \A r, n : Announced(r, n) /\ n \in 1..Len(chan) => Announced(r, n)'
  BY <1>1 DEF Announced
<1>4. HasImage(s) \/ Announced(s, Len(chan))'
  BY <1>2 DEF KnownSent, ChanInv, RxOpen
<1> QED
  BY <1>1, <1>2, <1>3, <1>4 DEF ChanInv, CurrentKnown, KnownSent, ImagesTrue, HasImage, picomVars

\* What was announced is announced one place earlier, or has just arrived.
LEMMA AnnouncedTail ==
    ASSUME ChanInv, chan # <<>>, chan' = Tail(chan), NEW r, NEW n \in 1..Len(chan), Announced(r, n)
    PROVE  (\E j \in 1..(n - 1) : j \in DOMAIN chan' /\ chan'[j].type = "NewCursor" /\ chan'[j].serial = r)
           \/ (Head(chan).type = "NewCursor" /\ Head(chan).serial = r)
<1>1. PICK j \in 1..n : j \in DOMAIN chan /\ chan[j].type = "NewCursor" /\ chan[j].serial = r
  BY DEF Announced
<1>2. /\ Head(chan) = chan[1] /\ Len(chan) \in Nat
      /\ DOMAIN chan = 1..Len(chan) /\ DOMAIN chan' = 1..(Len(chan) - 1)
      /\ \A i \in 1..(Len(chan) - 1) : chan'[i] = chan[i + 1]
  BY Taken DEF ChanInv
<1>3. CASE j = 1
  BY <1>1, <1>2, <1>3
<1>4. CASE j # 1
  <2>1. j - 1 \in 1..(n - 1) /\ j - 1 \in DOMAIN chan' /\ chan'[j - 1] = chan[j]
    BY <1>1, <1>2, <1>4
  <2> QED
    BY <1>1, <2>1
<1> QED
  BY <1>3, <1>4

\* Receiving either message keeps the channel's part of the invariant.
LEMMA Receive ==
    ASSUME ChanInv, serials \subseteq Serials, chan # <<>>, chan' = Tail(chan),
           UNCHANGED <<serials, picomPc>>,
           current' = Head(chan).serial,
           \/ /\ Head(chan).type = "NewCursor"
              /\ cursors' = [cursors EXCEPT ![Head(chan).serial] = Head(chan).image]
           \/ Head(chan).type = "ChangeCursor" /\ UNCHANGED cursors
    PROVE  ChanInv'
<1>1. /\ chan' \in Seq(CursorMessage) /\ Head(chan) \in CursorMessage /\ Head(chan) = chan[1]
      /\ Len(chan) \in Nat \ {0} /\ Len(chan') = Len(chan) - 1
      /\ DOMAIN chan = 1..Len(chan) /\ DOMAIN chan' = 1..(Len(chan) - 1)
      /\ \A i \in 1..(Len(chan) - 1) : chan'[i] = chan[i + 1] /\ chan[i + 1] \in CursorMessage
  BY Taken DEF ChanInv
<1>1b. /\ Head(chan).serial \in Serials
      /\ Head(chan).type = "NewCursor" => Head(chan).image \in Serials
      /\ \A i \in 1..(Len(chan) - 1) : chan[i + 1].serial \in Serials
  BY <1>1, MessageParts
<1>2. \A r \in Serials : HasImage(r) => HasImage(r)'
  BY <1>1, <1>1b DEF ChanInv, HasImage
<1>3. Head(chan).type = "NewCursor" => cursors'[Head(chan).serial] # None
  BY <1>1b DEF ChanInv, HasImage
<1>4. Head(chan).type = "ChangeCursor" => HasImage(Head(chan).serial)
  BY <1>1 DEF ChanInv, CurrentKnown, Announced, HasImage
<1>5. cursors' \in [Serials -> Serials \cup {None}] /\ current' \in Serials
  BY <1>1 DEF ChanInv
<1>6a. \A r, n : n \in 1..Len(chan) /\ Announced(r, n) =>
         (\E j \in 1..(n - 1) : j \in DOMAIN chan' /\ chan'[j].type = "NewCursor" /\ chan'[j].serial = r)
         \/ (Head(chan).type = "NewCursor" /\ Head(chan).serial = r)
  BY AnnouncedTail
<1>6. CurrentKnown'
  <2>1. cursors'[current'] # None
    BY <1>1b, <1>2, <1>3, <1>4 DEF HasImage
  <2>2. ASSUME NEW i \in DOMAIN chan', chan'[i].type = "ChangeCursor"
        PROVE  cursors'[chan'[i].serial] # None
               \/ \E j \in 1..i : j \in DOMAIN chan' /\ chan'[j].type = "NewCursor" /\ chan'[j].serial = chan'[i].serial
    <3>1. i + 1 \in 1..Len(chan) /\ chan'[i] = chan[i + 1] /\ chan[i + 1].serial \in Serials
      BY <1>1, <1>1b
    <3>2. HasImage(chan[i + 1].serial) \/ Announced(chan[i + 1].serial, i + 1)
      BY <1>1, <2>2, <3>1 DEF ChanInv, CurrentKnown, HasImage
    <3>3. HasImage(chan[i + 1].serial) => cursors'[chan[i + 1].serial] # None
      BY <1>2, <3>1 DEF HasImage
    <3>4. (i + 1) - 1 = i
      BY <1>1
    <3>5. CASE Announced(chan[i + 1].serial, i + 1)
      <4>1. \/ \E j \in 1..((i + 1) - 1) : /\ j \in DOMAIN chan' /\ chan'[j].type = "NewCursor"
                                          /\ chan'[j].serial = chan[i + 1].serial
            \/ Head(chan).type = "NewCursor" /\ Head(chan).serial = chan[i + 1].serial
        BY <1>6a, <3>1, <3>5
      <4> QED
        BY <1>3, <3>1, <3>4, <4>1
    <3> QED
      BY <3>1, <3>2, <3>3, <3>5
  <2> QED
    BY <2>1, <2>2 DEF CurrentKnown, Announced
<1>7. KnownSent'
  <2> SUFFICES ASSUME picomPc # "gone", NEW s \in serials
               PROVE  cursors'[s] # None
                      \/ \E j \in 1..Len(chan') : j \in DOMAIN chan' /\ chan'[j].type = "NewCursor" /\ chan'[j].serial = s
    BY DEF KnownSent, HasImage, Announced
  <2>1. HasImage(s) \/ Announced(s, Len(chan))
    BY DEF ChanInv, KnownSent
  <2> QED
    BY <1>1, <1>2, <1>3, <1>6a, <2>1 DEF HasImage
<1>8. ImagesTrue'
  BY <1>1 DEF ChanInv, ImagesTrue
<1> QED
  BY <1>1, <1>5, <1>6, <1>7, <1>8 DEF ChanInv

\* A step that leaves the channel and what its ends remember alone keeps it too.
LEMMA ChanQuiet ==
    ASSUME ChanInv, UNCHANGED <<chan, serials, cursors, current>>, picomPc = "gone" => picomPc' = "gone"
    PROVE  ChanInv'
BY DEF ChanInv, CurrentKnown, KnownSent, ImagesTrue, Announced, HasImage

\* Nobody looks at serials the thread adds once picom is gone.
LEMMA ChanGone ==
    ASSUME ChanInv, UNCHANGED <<chan, cursors, current>>, picomPc = "gone", picomPc' = "gone"
    PROVE  ChanInv'
BY DEF ChanInv, CurrentKnown, KnownSent, ImagesTrue, Announced, HasImage

-----------------------------------------------------------------------------
(* The invariant holds initially and every step keeps it.                  *)

LEMMA CursorInit == Init => CursorInv
<1> SUFFICES ASSUME Init PROVE CursorInv
  OBVIOUS
<1>1. <<>> \in Seq(Serials) /\ <<>> \in Seq(CursorMessage) /\ DOMAIN <<>> = {}
  OBVIOUS
<1>2. TypeOK
  BY <1>1 DEF Init, TypeOK
<1>3. CurrentKnown /\ ImagesTrue
  BY <1>1 DEF Init, CurrentKnown, ImagesTrue
<1>4. KnownSent /\ Handled
  BY DEF Init, KnownSent, Handled, UpToDate
<1> QED
  BY <1>2, <1>3, <1>4 DEF CursorInv

LEMMA CursorInvParts == CursorInv <=> TypeOK /\ ChanInv /\ Handled
BY DEF CursorInv, ChanInv, TypeOK

LEMMA LatestType == ASSUME TypeOK PROVE Latest \in Serials \cup {None}
<1>1. chan # <<>> => Len(chan) \in DOMAIN chan /\ chan[Len(chan)] \in CursorMessage
  BY DEF TypeOK
<1> QED
  BY <1>1, MessageParts DEF TypeOK, Latest

\* What was said last stays so when picom receives it.
LEMMA LatestReceived ==
    ASSUME TypeOK, chan # <<>>, chan' = Tail(chan), current' = Head(chan).serial
    PROVE  Latest' = Latest
<1>1. /\ Head(chan) = chan[1] /\ Len(chan) \in Nat \ {0} /\ Len(chan') = Len(chan) - 1
      /\ \A i \in 1..(Len(chan) - 1) : chan'[i] = chan[i + 1]
      /\ chan' = <<>> <=> Len(chan) = 1
  BY Taken DEF TypeOK
<1>2. CASE Len(chan) = 1
  BY <1>1, <1>2 DEF Latest
<1>3. CASE Len(chan) # 1
  <2>1. Len(chan) - 1 \in 1..(Len(chan) - 1) /\ (Len(chan) - 1) + 1 = Len(chan)
    BY <1>1, <1>3
  <2> QED
    BY <1>1, <1>3, <2>1 DEF Latest
<1> QED
  BY <1>2, <1>3

\* What is sent is said last.
LEMMA LatestSent ==
    ASSUME TypeOK, NEW m \in CursorMessage, chan' = Append(chan, m)
    PROVE  Latest' = m.serial /\ chan' \in Seq(CursorMessage)
BY Appended DEF TypeOK, Latest

\* Once the next notification is taken, the rest still ends with the display;
\* when it was the last, it named the display.
LEMMA EventTaken ==
    ASSUME TypeOK, Handled, pc = "wait", events # <<>>, events' = Tail(events), UNCHANGED display
    PROVE  /\ events' \in Seq(Serials) /\ Head(events) \in Serials
           /\ events' # <<>> => events'[Len(events')] = display'
           /\ events' = <<>> => Head(events) = display
<1>1. /\ events' \in Seq(Serials) /\ Head(events) \in Serials /\ Head(events) = events[1]
      /\ Len(events) \in Nat \ {0} /\ Len(events') = Len(events) - 1
      /\ \A i \in 1..(Len(events) - 1) : events'[i] = events[i + 1]
      /\ events' = <<>> <=> Len(events) = 1
  BY Taken DEF TypeOK
<1>2. events[Len(events)] = display
  BY DEF Handled
<1>3. CASE Len(events) = 1
  BY <1>1, <1>2, <1>3
<1>4. CASE Len(events) # 1
  <2>1. Len(events) - 1 \in 1..(Len(events) - 1) /\ (Len(events) - 1) + 1 = Len(events)
    BY <1>1, <1>4
  <2> QED
    BY <1>1, <1>2, <1>4, <2>1
<1> QED
  BY <1>3, <1>4

\* Steps of the X server and the monitor thread.
LEMMA CursorMonitorStep ==
    ASSUME CursorInv,
           (\E s \in Serials : DisplayCursor(s)) \/ Monitor \/ MakeCurrentFails \/ MonitorFails
    PROVE  CursorInv'
<1> TypeOK /\ ChanInv /\ Handled
  BY CursorInvParts
<1>1. ASSUME NEW s \in Serials, DisplayCursor(s) PROVE CursorInv'
  <2>1. ChanInv'
    BY <1>1, ChanQuiet DEF DisplayCursor, monitorVars, picomVars
  <2>2. /\ Append(events, s) \in Seq(Serials) /\ Append(events, s) # <<>>
        /\ Append(events, s)[Len(Append(events, s))] = s
    BY Appended DEF TypeOK
  <2>3. TypeOK'
    BY <1>1, <2>2 DEF DisplayCursor, TypeOK, monitorVars, picomVars
  <2>4. Handled'
    BY <1>1, <2>2 DEF DisplayCursor, Handled, UpToDate, Latest, monitorVars, picomVars
  <2> QED
    BY <2>1, <2>3, <2>4 DEF CursorInv, ChanInv
<1>2. ASSUME SelectInput \/ MakeCurrentFails \/ MonitorFails \/ DeleteTextures \/ ThreadEnds
      PROVE  CursorInv'
  <2>1. ChanInv'
    BY <1>2, ChanQuiet
       DEF SelectInput, MakeCurrentFails, MonitorFails, DeleteTextures, ThreadEnds, picomVars
  <2>2. TypeOK'
    BY <1>2 DEF SelectInput, MakeCurrentFails, MonitorFails, DeleteTextures, ThreadEnds, TypeOK, picomVars
  <2>3. Handled'
    BY <1>2 DEF SelectInput, MakeCurrentFails, MonitorFails, DeleteTextures, ThreadEnds,
                Handled, UpToDate, Latest, picomVars
  <2> QED
    BY <2>1, <2>2, <2>3 DEF CursorInv, ChanInv
<1>3. ASSUME KnownCursor PROVE CursorInv'
  <2> DEFINE s == Head(events)
  <2>1. /\ events' \in Seq(Serials) /\ s \in Serials
        /\ events' # <<>> => events'[Len(events')] = display'
        /\ events' = <<>> => s = display
    BY <1>3, EventTaken DEF KnownCursor
  <2>2. CASE RxOpen
    <3>1. /\ chan' = Append(chan, ChangeCursor(s)) /\ pc' = "wait"
          /\ ChangeCursor(s) \in CursorMessage
      BY <1>3, <2>1, <2>2 DEF KnownCursor, Send
    <3>2. Latest' = s /\ chan' \in Seq(CursorMessage)
      BY <3>1, LatestSent
    <3>3. ChanInv'
      BY <1>3, <2>2, <3>1, SendChangeCursor DEF KnownCursor, TypeOK
    <3>4. TypeOK'
      BY <1>3, <2>1, <3>1, <3>2 DEF KnownCursor, TypeOK, picomVars
    <3>5. Handled'
      BY <1>3, <2>1, <3>1, <3>2 DEF KnownCursor, Handled, UpToDate
    <3> QED
      BY <3>3, <3>4, <3>5 DEF CursorInv, ChanInv
  <2>3. CASE ~RxOpen
    <3>1. UNCHANGED chan /\ pc' = "exit"
      BY <1>3, <2>3 DEF KnownCursor, Send
    <3>2. ChanInv'
      BY <1>3, <3>1, ChanQuiet DEF KnownCursor, picomVars
    <3>3. TypeOK'
      BY <1>3, <2>1, <3>1 DEF KnownCursor, TypeOK, picomVars
    <3>4. Handled'
      BY <3>1 DEF Handled, UpToDate
    <3> QED
      BY <3>2, <3>3, <3>4 DEF CursorInv, ChanInv
  <2> QED
    BY <2>2, <2>3
<1>4. ASSUME UnknownCursor PROVE CursorInv'
  <2>1. /\ events' \in Seq(Serials) /\ Head(events) \in Serials
        /\ events' # <<>> => events'[Len(events')] = display'
    BY <1>4, EventTaken DEF UnknownCursor
  <2>2. ChanInv'
    BY <1>4, ChanQuiet DEF UnknownCursor, picomVars
  <2>3. TypeOK'
    BY <1>4, <2>1 DEF UnknownCursor, TypeOK, picomVars
  <2>4. Handled'
    BY <1>4, <2>1 DEF UnknownCursor, Handled, UpToDate
  <2> QED
    BY <2>2, <2>3, <2>4 DEF CursorInv, ChanInv
<1>5. ASSUME GetCursorImage PROVE CursorInv'
  <2>1. ChanInv'
    BY <1>5, ChanQuiet DEF GetCursorImage, picomVars
  <2>2. TypeOK'
    BY <1>5 DEF GetCursorImage, TypeOK, picomVars
  <2>3. Handled'
    BY <1>5 DEF GetCursorImage, Handled, UpToDate
  <2> QED
    BY <2>1, <2>2, <2>3 DEF CursorInv, ChanInv
<1>6. ASSUME LoadCursor PROVE CursorInv'
  <2>1. image \in Serials /\ UNCHANGED picomVars /\ serials' = serials \cup {image}
    BY <1>6 DEF LoadCursor, TypeOK
  <2>2. CASE RxOpen
    <3>1. /\ chan' = Append(chan, NewCursor(image, image)) /\ pc' = "wait"
          /\ NewCursor(image, image) \in CursorMessage
      BY <1>6, <2>1, <2>2 DEF LoadCursor, Send
    <3>2. Latest' = image /\ chan' \in Seq(CursorMessage)
      BY <3>1, LatestSent
    <3>3. ChanInv'
      BY <2>1, <3>1, SendNewCursor DEF TypeOK
    <3>4. TypeOK'
      BY <1>6, <2>1, <3>1, <3>2 DEF LoadCursor, TypeOK, picomVars
    <3>5. Handled'
      BY <1>6, <3>1, <3>2 DEF LoadCursor, Handled, UpToDate
    <3> QED
      BY <3>3, <3>4, <3>5 DEF CursorInv, ChanInv
  <2>3. CASE ~RxOpen
    <3>1. UNCHANGED chan /\ pc' = "exit"
      BY <1>6, <2>3 DEF LoadCursor, Send
    <3>2. ChanInv'
      BY <2>1, <2>3, <3>1, ChanGone DEF RxOpen, picomVars
    <3>3. TypeOK'
      BY <1>6, <2>1, <3>1 DEF LoadCursor, TypeOK, picomVars
    <3>4. Handled'
      BY <3>1 DEF Handled, UpToDate
    <3> QED
      BY <3>2, <3>3, <3>4 DEF CursorInv, ChanInv
  <2> QED
    BY <2>2, <2>3
<1> QED
  BY <1>1, <1>2, <1>3, <1>4, <1>5, <1>6 DEF Monitor

\* Steps of picom.
LEMMA CursorPicomStep ==
    ASSUME CursorInv, CurrentCursor \/ PresentFails \/ Deinit
    PROVE  CursorInv'
<1> TypeOK /\ ChanInv /\ Handled
  BY CursorInvParts
<1>1. ASSUME PresentBegin \/ ChannelEmpty \/ ChannelClosed \/ PresentEnd \/ PresentFails \/ Deinit
      PROVE  CursorInv'
  <2>1. ChanInv'
    BY <1>1, ChanQuiet
       DEF PresentBegin, ChannelEmpty, ChannelClosed, PresentEnd, PresentFails, Deinit, monitorVars
  <2>2. TypeOK'
    BY <1>1 DEF PresentBegin, ChannelEmpty, ChannelClosed, PresentEnd, PresentFails, Deinit, monitorVars, TypeOK
  <2>3. Handled'
    BY <1>1 DEF PresentBegin, ChannelEmpty, ChannelClosed, PresentEnd, PresentFails, Deinit, monitorVars,
                Handled, UpToDate, Latest
  <2> QED
    BY <2>1, <2>2, <2>3 DEF CursorInv, ChanInv
<1>2. ASSUME ReceiveNewCursor \/ ReceiveChangeCursor PROVE CursorInv'
  <2>1. /\ chan # <<>> /\ chan' = Tail(chan) /\ current' = Head(chan).serial
        /\ UNCHANGED <<display, changes, events, monitorVars, picomPc, bailed>>
        /\ picomPc # "gone"
        /\ \/ /\ Head(chan).type = "NewCursor"
              /\ cursors' = [cursors EXCEPT ![Head(chan).serial] = Head(chan).image]
           \/ Head(chan).type = "ChangeCursor" /\ UNCHANGED cursors
    BY <1>2 DEF ReceiveNewCursor, ReceiveChangeCursor
  <2>2. ChanInv'
    BY <2>1, Receive DEF TypeOK, monitorVars
  <2>3. Latest' = Latest
    BY <2>1, LatestReceived
  <2>4. TypeOK'
    BY <2>1, <2>2 DEF TypeOK, ChanInv, monitorVars
  <2>5. Handled'
    BY <2>1, <2>3 DEF Handled, UpToDate, monitorVars
  <2> QED
    BY <2>2, <2>4, <2>5 DEF CursorInv, ChanInv
<1> QED
  BY <1>1, <1>2 DEF CurrentCursor

LEMMA CursorStep == CursorInv /\ [Next]_vars => CursorInv'
<1>1. CursorInv /\ Next => CursorInv'
  BY CursorMonitorStep, CursorPicomStep DEF Next
<1>2. CursorInv /\ UNCHANGED vars => CursorInv'
  BY DEF vars, monitorVars, picomVars, CursorInv, TypeOK, CurrentKnown, KnownSent, ImagesTrue,
         Handled, UpToDate, Latest, Announced, HasImage
<1> QED
  BY <1>1, <1>2

-----------------------------------------------------------------------------
(* The theorems.                                                           *)

\* The inductive invariant holds.
LEMMA CursorInvariant == Spec => []CursorInv
<1> QED
  BY CursorInit, CursorStep, PTL DEF Spec

\* picom has an image for every cursor the thread tells it to draw
\* (current_cursor), although notification and image are read apart.
THEOREM DrawnCursorKnown == Spec => []CurrentKnown
<1>1. CursorInv => CurrentKnown
  BY DEF CursorInv
<1> QED
  BY CursorInvariant, <1>1, PTL

\* Images are filed under their own serials.
THEOREM ImagesFiledTrue == Spec => []ImagesTrue
<1>1. CursorInv => ImagesTrue
  BY DEF CursorInv
<1> QED
  BY CursorInvariant, <1>1, PTL

\* The state of the thread, of picom and of the channel between them has its type.
THEOREM TypeCorrect == Spec => []TypeOK
<1>1. CursorInv => TypeOK
  BY DEF CursorInv
<1> QED
  BY CursorInvariant, <1>1, PTL

\* A thread that has handled all its notifications has said last what the
\* pointer shows.
THEOREM LastSaidIsShown == Spec => []UpToDate
<1>1. CursorInv => UpToDate
  BY DEF CursorInv, Handled
<1> QED
  BY CursorInvariant, <1>1, PTL

-----------------------------------------------------------------------------
(* Textures outlive the presents that draw with them.                      *)

\* Until the thread ends it keeps the texture of every image picom has or is
\* sent; if nothing fails it ends after the plugin only.
AliveInv ==
    /\ pc \in {"exit", "deleted", "gone"} => picomPc = "gone" \/ MayFail
    /\ picomPc # "gone" /\ pc \notin {"deleted", "gone"} =>
        /\ \A s \in Serials : cursors[s] # None => cursors[s] \in textures
        /\ \A i \in DOMAIN chan : chan[i].type = "NewCursor" => chan[i].image \in textures

LEMMA AliveInit == Init => AliveInv
BY DEF Init, AliveInv

LEMMA AliveStep ==
    ASSUME CursorInv, AliveInv, [Next]_vars
    PROVE  AliveInv'
<1>0. TypeOK
  BY DEF CursorInv
<1>1. ASSUME NEW s \in Serials, DisplayCursor(s) PROVE AliveInv'
  BY <1>1 DEF DisplayCursor, AliveInv, monitorVars, picomVars
<1>2. CASE SelectInput \/ UnknownCursor \/ GetCursorImage
  BY <1>2 DEF SelectInput, UnknownCursor, GetCursorImage, AliveInv, picomVars
<1>3. CASE DeleteTextures \/ ThreadEnds
  BY <1>3 DEF DeleteTextures, ThreadEnds, AliveInv, picomVars
<1>4. CASE MakeCurrentFails \/ MonitorFails \/ PresentFails
  BY <1>4 DEF MakeCurrentFails, MonitorFails, PresentFails, AliveInv, monitorVars, picomVars
<1>5. CASE KnownCursor
  <2>1. CASE RxOpen
    <3>1. /\ chan' = Append(chan, ChangeCursor(Head(events))) /\ pc' = "wait"
          /\ Head(events) \in Serials
      BY <1>0, <1>5, <2>1, Taken DEF KnownCursor, Send, TypeOK
    <3>2. \A i \in DOMAIN chan' : chan'[i].type = "NewCursor" => i \in DOMAIN chan /\ chan'[i] = chan[i]
      BY <1>0, <3>1, Appended DEF TypeOK
    <3> QED
      BY <1>5, <3>1, <3>2 DEF KnownCursor, AliveInv, picomVars
  <2>2. CASE ~RxOpen
    BY <1>5, <2>2 DEF KnownCursor, Send, RxOpen, AliveInv, picomVars
  <2> QED
    BY <2>1, <2>2
<1>6. CASE LoadCursor
  <2>1. CASE RxOpen
    <3>1. /\ chan' = Append(chan, NewCursor(image, image)) /\ pc' = "wait"
          /\ image \in Serials
      BY <1>0, <1>6, <2>1 DEF LoadCursor, Send, TypeOK
    <3>2. \A i \in DOMAIN chan' : (i \in DOMAIN chan /\ chan'[i] = chan[i]) \/ chan'[i].image = image
      BY <1>0, <3>1, Appended DEF TypeOK
    <3> QED
      BY <1>6, <3>1, <3>2 DEF LoadCursor, AliveInv, picomVars
  <2>2. CASE ~RxOpen
    BY <1>6, <2>2 DEF LoadCursor, Send, RxOpen, AliveInv, picomVars
  <2> QED
    BY <2>1, <2>2
<1>7. CASE PresentBegin \/ ChannelEmpty \/ ChannelClosed \/ PresentEnd \/ Deinit
  BY <1>7 DEF PresentBegin, ChannelEmpty, ChannelClosed, PresentEnd, Deinit, AliveInv, monitorVars
<1>8. CASE ReceiveNewCursor \/ ReceiveChangeCursor
  <2>1. /\ chan # <<>> /\ chan' = Tail(chan) /\ UNCHANGED <<monitorVars, picomPc>> /\ picomPc # "gone"
        /\ \/ /\ Head(chan).type = "NewCursor"
              /\ cursors' = [cursors EXCEPT ![Head(chan).serial] = Head(chan).image]
           \/ UNCHANGED cursors
    BY <1>8 DEF ReceiveNewCursor, ReceiveChangeCursor
  <2>2. /\ Len(chan) \in Nat \ {0} /\ Head(chan) = chan[1] /\ 1 \in DOMAIN chan
        /\ \A i \in DOMAIN chan' : i + 1 \in DOMAIN chan /\ chan'[i] = chan[i + 1]
        /\ Head(chan).serial \in Serials
    BY <1>0, <2>1, Taken, MessageParts DEF TypeOK
  <2>3. pc \notin {"deleted", "gone"} /\ Head(chan).type = "NewCursor" => Head(chan).image \in textures
    BY <2>1, <2>2 DEF AliveInv
  <2>4. pc \notin {"deleted", "gone"} => \A s \in Serials : cursors'[s] # None => cursors'[s] \in textures
    BY <1>0, <2>1, <2>2, <2>3 DEF AliveInv, TypeOK
  <2> QED
    BY <2>1, <2>2, <2>4 DEF AliveInv, monitorVars
<1>9. CASE UNCHANGED vars
  BY <1>9 DEF vars, monitorVars, picomVars, AliveInv
<1> QED
  BY <1>1, <1>2, <1>3, <1>4, <1>5, <1>6, <1>7, <1>8, <1>9 DEF Next, Monitor, CurrentCursor

\* picom never draws with a texture that was deleted, except one of a thread that
\* has ended over a failed request.
THEOREM DrawnTexturesAlive == Spec => []TexturesAlive
<1>1. CursorInv /\ AliveInv => TexturesAlive
  BY DEF CursorInv, TypeOK, CurrentKnown, AliveInv, TexturesAlive
<1>2. CursorInv /\ AliveInv /\ [Next]_vars => AliveInv'
  BY AliveStep
<1> QED
  BY AliveInit, CursorInvariant, <1>1, <1>2, PTL DEF Spec
=============================================================================
