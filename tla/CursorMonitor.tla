---------------------------- MODULE CursorMonitor ----------------------------
(***************************************************************************)
(* The cursor monitor of the plugin (plugin/src/cursor.rs).  A thread of   *)
(* its own waits for the X server to announce that the pointer has another *)
(* image, loads images it does not know yet into textures, and tells picom *)
(* over a channel which cursor to draw.  picom empties the channel at the  *)
(* beginning of every present.                                             *)
(*                                                                         *)
(* The image is fetched in a request of its own, after the notification:   *)
(* by then the pointer may show yet another cursor.                        *)
(***************************************************************************)
EXTENDS Naturals, Sequences

CONSTANTS
    Serials,     \* serial numbers of cursors; a serial stands for its image
    MaxChanges,  \* bound: how often the pointer changes its cursor
    MayFail,     \* whether requests to X, EGL or GL can fail
    None         \* the None of Option

ASSUME NoneNoSerial == None \notin Serials
ASSUME MayFailBoolean == MayFail \in BOOLEAN

NewCursor(s, image) == [type |-> "NewCursor", serial |-> s, image |-> image]
ChangeCursor(s) == [type |-> "ChangeCursor", serial |-> s]

CursorMessage ==
    [type : {"NewCursor"}, serial : Serials, image : Serials]
        \cup [type : {"ChangeCursor"}, serial : Serials]

VARIABLES
    display,  \* the cursor the pointer shows
    changes,  \* how often it has changed
    events,   \* serials of the notifications not yet received
    chan,     \* messages picom has not received
    pc,       \* what the monitor thread is doing
    notify,   \* the serial of the notification it handles
    image,    \* the image it got from X last
    serials,  \* cursor_serials
    textures, \* images in `textures', empty once they are deleted
    picomPc,  \* what picom is doing
    cursors,  \* per serial: the image picom has for it
    current,  \* current_cursor
    bailed    \* picom does not ask for the cursor any more

monitorVars == <<pc, notify, image, serials, textures>>
picomVars == <<picomPc, cursors, current, bailed>>
vars == <<display, changes, events, chan, monitorVars, picomVars>>

Init ==
    /\ display \in Serials /\ changes = 0
    /\ events = <<>> /\ chan = <<>>
    /\ pc = "start" /\ notify = None /\ image = None /\ serials = {} /\ textures = {}
    /\ picomPc = "idle" /\ cursors = [s \in Serials |-> None]
    /\ current = None /\ bailed = FALSE

\* The receiver lives as long as the plugin's context.
RxOpen == picomPc # "gone"

-----------------------------------------------------------------------------
(* The X server.                                                           *)

\* Another cursor is shown.  The thread is told from when it selected the
\* notifications until its connection is closed.
DisplayCursor(s) ==
    /\ s # display /\ changes < MaxChanges
    /\ display' = s
    /\ changes' = changes + 1
    /\ events' = IF pc \in {"start", "gone"} THEN events ELSE Append(events, s)
    /\ UNCHANGED <<chan, monitorVars, picomVars>>

-----------------------------------------------------------------------------
(* The monitor thread.                                                     *)

\* Sending fails when the receiver is gone, which ends the loop.
Send(m) ==
    IF RxOpen
    THEN chan' = Append(chan, m) /\ pc' = "wait"
    ELSE pc' = "exit" /\ UNCHANGED chan

SelectInput ==
    /\ pc = "start"
    /\ pc' = "wait"
    /\ UNCHANGED <<display, changes, events, chan, notify, image, serials, textures, picomVars>>

\* The context cannot be made current: the thread ends, its sender with it.
MakeCurrentFails ==
    /\ MayFail /\ pc = "start"
    /\ pc' = "gone"
    /\ UNCHANGED <<display, changes, events, chan, notify, image, serials, textures, picomVars>>

\* Mutant of KnownCursor: picom is not told of a change back.
KnownCursorIgnored ==
    /\ pc = "wait" /\ events # <<>> /\ Head(events) \in serials
    /\ events' = Tail(events)
    /\ UNCHANGED <<display, changes, chan, pc, notify, image, serials, textures, picomVars>>

KnownCursor ==
    /\ pc = "wait" /\ events # <<>> /\ Head(events) \in serials
    /\ events' = Tail(events)
    /\ Send(ChangeCursor(Head(events)))
    /\ UNCHANGED <<display, changes, notify, image, serials, textures, picomVars>>

UnknownCursor ==
    /\ pc = "wait" /\ events # <<>> /\ Head(events) \notin serials
    /\ events' = Tail(events)
    /\ notify' = Head(events)
    /\ pc' = "fetch"
    /\ UNCHANGED <<display, changes, chan, image, serials, textures, picomVars>>

\* xfixes_get_cursor_image is answered: with what the pointer shows now.
GetCursorImage ==
    /\ pc = "fetch"
    /\ image' = display
    /\ pc' = "load"
    /\ UNCHANGED <<display, changes, events, chan, notify, serials, textures, picomVars>>

\* Mutant of LoadCursor: the image goes by the serial of the notification.
LoadCursorNotified ==
    /\ pc = "load"
    /\ textures' = textures \cup {image}
    /\ serials' = serials \cup {notify}
    /\ Send(NewCursor(notify, image))
    /\ UNCHANGED <<display, changes, events, notify, image, picomVars>>

\* Mutant of LoadCursor: picom is not told of it.
LoadCursorUnsent ==
    /\ pc = "load"
    /\ textures' = textures \cup {image}
    /\ serials' = serials \cup {image}
    /\ pc' = "wait"
    /\ UNCHANGED <<display, changes, events, chan, notify, image, picomVars>>

\* Mutant of LoadCursor: the texture before it is deleted.
LoadCursorReplaced ==
    /\ pc = "load"
    /\ textures' = {image}
    /\ serials' = serials \cup {image}
    /\ Send(NewCursor(image, image))
    /\ UNCHANGED <<display, changes, events, notify, image, picomVars>>

\* The image becomes a texture; it may be one that was loaded before.
LoadCursor ==
    /\ pc = "load"
    /\ textures' = textures \cup {image}
    /\ serials' = serials \cup {image}
    /\ Send(NewCursor(image, image))
    /\ UNCHANGED <<display, changes, events, notify, image, picomVars>>

\* A request to X fails.
MonitorFails ==
    /\ MayFail /\ pc \in {"start", "wait", "fetch"}
    /\ pc' = "exit"
    /\ UNCHANGED <<display, changes, events, chan, notify, image, serials, textures, picomVars>>

\* The end of run: textures and context are deleted, the sender is still there.
DeleteTextures ==
    /\ pc = "exit"
    /\ textures' = {}
    /\ pc' = "deleted"
    /\ UNCHANGED <<display, changes, events, chan, notify, image, serials, picomVars>>

ThreadEnds ==
    /\ pc = "deleted"
    /\ pc' = "gone"
    /\ UNCHANGED <<display, changes, events, chan, notify, image, serials, textures, picomVars>>

-----------------------------------------------------------------------------
(* picom: current_cursor in a present.                                     *)

PresentBegin ==
    /\ picomPc = "idle" /\ ~bailed
    /\ picomPc' = "drain"
    /\ UNCHANGED <<display, changes, events, chan, monitorVars, cursors, current, bailed>>

ReceiveNewCursor ==
    /\ picomPc = "drain" /\ chan # <<>> /\ Head(chan).type = "NewCursor"
    /\ cursors' = [cursors EXCEPT ![Head(chan).serial] = Head(chan).image]
    /\ current' = Head(chan).serial
    /\ chan' = Tail(chan)
    /\ UNCHANGED <<display, changes, events, monitorVars, picomPc, bailed>>

ReceiveChangeCursor ==
    /\ picomPc = "drain" /\ chan # <<>> /\ Head(chan).type = "ChangeCursor"
    /\ current' = Head(chan).serial
    /\ chan' = Tail(chan)
    /\ UNCHANGED <<display, changes, events, monitorVars, picomPc, cursors, bailed>>

\* try_recv says Empty: the present goes on with the cursor it has.
ChannelEmpty ==
    /\ picomPc = "drain" /\ chan = <<>> /\ pc # "gone"
    /\ picomPc' = "draw"
    /\ UNCHANGED <<display, changes, events, chan, monitorVars, cursors, current, bailed>>

\* try_recv says Disconnected: the present fails, the plugin gives up.
ChannelClosed ==
    /\ picomPc = "drain" /\ chan = <<>> /\ pc = "gone"
    /\ bailed' = TRUE
    /\ picomPc' = "idle"
    /\ UNCHANGED <<display, changes, events, chan, monitorVars, cursors, current>>

\* Something else in copy_back_buffer fails, before the cursor is asked for or
\* after: it is not asked for again.
PresentFails ==
    /\ MayFail /\ ~bailed /\ picomPc \in {"idle", "draw"}
    /\ bailed' = TRUE
    /\ picomPc' = "idle"
    /\ UNCHANGED <<display, changes, events, chan, monitorVars, cursors, current>>

PresentEnd ==
    /\ picomPc = "draw"
    /\ picomPc' = "idle"
    /\ UNCHANGED <<display, changes, events, chan, monitorVars, cursors, current, bailed>>

\* The plugin's context is dropped, with the receiver.
Deinit ==
    /\ picomPc = "idle"
    /\ picomPc' = "gone"
    /\ UNCHANGED <<display, changes, events, chan, monitorVars, cursors, current, bailed>>

-----------------------------------------------------------------------------
\* What the thread does next, left to itself.
Monitor ==
    \/ SelectInput \/ KnownCursor \/ UnknownCursor \/ GetCursorImage \/ LoadCursor
    \/ DeleteTextures \/ ThreadEnds

CurrentCursor ==
    \/ PresentBegin \/ ReceiveNewCursor \/ ReceiveChangeCursor
    \/ ChannelEmpty \/ ChannelClosed \/ PresentEnd

Next ==
    \/ \E s \in Serials : DisplayCursor(s)
    \/ Monitor \/ MakeCurrentFails \/ MonitorFails
    \/ CurrentCursor \/ PresentFails \/ Deinit

Spec == Init /\ [][Next]_vars

\* The thread runs, and picom keeps presenting.
FairSpec == Spec /\ WF_vars(Monitor) /\ WF_vars(CurrentCursor)

-----------------------------------------------------------------------------
(* Properties.                                                             *)

\* Type correctness of the monitor thread, the channel and picom's part.
TypeOK ==
    /\ display \in Serials /\ changes \in Nat
    /\ events \in Seq(Serials) /\ chan \in Seq(CursorMessage)
    /\ pc \in {"start", "wait", "fetch", "load", "exit", "deleted", "gone"}
    /\ notify \in Serials \cup {None} /\ (pc \in {"fetch", "load"} => notify # None)
    /\ image \in Serials \cup {None} /\ (pc = "load" => image # None)
    /\ serials \subseteq Serials /\ textures \subseteq Serials
    /\ picomPc \in {"idle", "drain", "draw", "gone"} /\ bailed \in BOOLEAN
    /\ cursors \in [Serials -> Serials \cup {None}]
    /\ current \in Serials \cup {None}

Announced(s, n) == \E j \in 1..n : j \in DOMAIN chan /\ chan[j].type = "NewCursor" /\ chan[j].serial = s

\* picom has an image for the cursor it is told to draw: the serial the thread
\* remembers as known is one it has sent, whatever the pointer did between the
\* notification and the fetch, and no ChangeCursor overtakes the NewCursor.
CurrentKnown ==
    /\ current # None => cursors[current] # None
    /\ \A i \in DOMAIN chan : chan[i].type = "ChangeCursor" =>
            cursors[chan[i].serial] # None \/ Announced(chan[i].serial, i)

\* An image is filed under its own serial, so that a later ChangeCursor shows
\* the cursor it names, although notification and image are read apart.
ImagesTrue ==
    /\ \A s \in Serials : cursors[s] \in {None, s}
    /\ \A i \in DOMAIN chan : chan[i].type = "NewCursor" => chan[i].image = chan[i].serial

Latest == IF chan = <<>> THEN current ELSE chan[Len(chan)].serial

\* When the thread has handled every notification, the last cursor it told
\* picom of is the one the pointer shows.
UpToDate == pc = "wait" /\ events = <<>> => Latest \in {None, display}

\* What picom draws with is a texture the thread has not deleted; only a thread
\* that ends because something failed takes its textures from a present.
TexturesAlive ==
    picomPc = "draw" /\ current # None =>
        cursors[current] \in textures \/ (MayFail /\ pc \in {"deleted", "gone"})

Ended == pc \in {"exit", "deleted", "gone"} \/ bailed \/ picomPc = "gone"

\* picom gets to the cursor the pointer shows, unless that changes again.
CursorFollows ==
    \A s \in Serials :
        (events # <<>> /\ display = s) ~> (display # s \/ current = s \/ Ended)
=============================================================================
