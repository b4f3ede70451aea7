---------------------------- MODULE PortalSession ---------------------------
(***************************************************************************)
(* The portal's sessions (portal/src/main.rs): objects the desktop portal  *)
(* creates, configures, starts and closes with D-Bus calls.  Every call is *)
(* a task; the tasks share one thread and change places where they await.  *)
(* Start and Close talk to picom over a connection of their own, of which  *)
(* module Framing has the bytes and module Server the other end.           *)
(* A session keeps the node ids of its streams, behind a lock that Start   *)
(* and SelectSources take for writing and Close for reading.               *)
(***************************************************************************)
EXTENDS Naturals, Sequences, FiniteSets

CONSTANTS
    Sessions,  \* the handles of sessions; the desktop portal uses each once
    Calls,     \* calls of SelectSources, Start and Close
    Monitors,  \* names of monitors
    Options,   \* what SelectSources may be asked for
    MayFail,   \* whether X requests fail and picom cannot create a stream
    MayCrash,  \* whether picom dies and comes back
    None       \* the None of Option

SourceTypes == {"Monitor", "Virtual"}

\* A dictionary with some of the options; `types' is what is left of that option
\* in AVAILABLE_SOURCE_TYPE, `restore' the monitor in the portal's own data.
ASSUME OptionsAssumption ==
    \A o \in Options :
        /\ "types" \in DOMAIN o => o.types \subseteq SourceTypes
        /\ "multiple" \in DOMAIN o => o.multiple \in BOOLEAN
        /\ "restore" \in DOMAIN o => o.restore \in Monitors
ASSUME MonitorsFinite == IsFiniteSet(Monitors) /\ Monitors # {}
ASSUME NoneNothing == None \notin Calls \cup Sessions \cup Monitors
ASSUME RootNoMonitor == "root" \notin Monitors
ASSUME NoneNoRequest == None \notin Seq(Monitors \cup {"root"})
ASSUME MayBoolean == MayFail \in BOOLEAN /\ MayCrash \in BOOLEAN

\* What a stream shows: a monitor, or the whole screen.
Sources == Monitors \cup {"root"}

\* The stream made for the i-th rectangle of a Start; it stands for its node
\* id too, which PipeWire never gives to another.
Streams == Calls \X (1..Cardinality(Monitors) + 1)

VARIABLES
    \* the object server and the Session objects
    session,   \* "none", "open", "closed"
    types,     \* Session::source_type
    multiple,  \* Session::allow_multiple
    restore,   \* Session::restore_data
    nodeIds,   \* Session::node_ids
    writer,    \* the call that has the lock for writing, or waits for readers
    defaultMonitor,
    \* the tasks
    method, target,  \* what is called, and on which session
    step,      \* where the task is
    names,     \* output_monitor_names of a Start
    reported,  \* the streams in its answer
    portal,    \* "running", or "hung" in Picom::poll_next
    \* picom
    up,        \* a compositor with the plugin owns the selection
    stalled,   \* its pipewire thread has ended, and streams keep the channel open
    connected, \* calls with a connection to it
    creating,  \* per call: the rectangles of its CreateStream
    answer,    \* per call: "ids" when they are sent, "ended" if none will be
    closing,   \* node ids of CloseStreams picom has not handled
    streams    \* the streams there are of requests that were answered

sessionVars == <<session, types, multiple, restore, nodeIds, defaultMonitor>>
taskVars == <<method, target, step, names, reported, portal>>
picomVars == <<up, stalled, connected, creating, answer, closing, streams>>
vars == <<sessionVars, writer, taskVars, picomVars>>

Init ==
    /\ session = [h \in Sessions |-> "none"]
    /\ types = [h \in Sessions |-> {"Monitor"}]
    /\ multiple = [h \in Sessions |-> FALSE]
    /\ restore = [h \in Sessions |-> None]
    /\ nodeIds = [h \in Sessions |-> {}]
    /\ writer = [h \in Sessions |-> None]
    /\ defaultMonitor = 0
    /\ method = [t \in Calls |-> "none"] /\ target = [t \in Calls |-> None]
    /\ step = [t \in Calls |-> "none"]
    /\ names = [t \in Calls |-> <<>>] /\ reported = [t \in Calls |-> {}]
    /\ portal = "running"
    /\ up = TRUE /\ stalled = FALSE /\ connected = {} /\ streams = {} /\ closing = [t \in Calls |-> {}]
    /\ creating = [t \in Calls |-> None] /\ answer = [t \in Calls |-> "none"]

At(t, type, where) == portal = "running" /\ method[t] = type /\ step[t] = where

Go(t, where) == step' = [step EXCEPT ![t] = where]

Ended == {"done", "failed", "panicked"}

\* Close calls that have the lock for reading.
Readers(h) == {t \in Calls : target[t] = h /\ method[t] = "Close"
                             /\ step[t] \in {"connecting", "asking", "removing"}}

\* Mutant of Unlocked: the lock of a session that is no longer open is kept.
UnlockedIfOpen(t) ==
    [h \in Sessions |-> IF writer[h] = t /\ session[h] = "open" THEN None ELSE writer[h]]

Unlocked(t) == [h \in Sessions |-> IF writer[h] = t THEN None ELSE writer[h]]

-----------------------------------------------------------------------------
(* Sessions and calls.                                                     *)

CreateSession(h) ==
    /\ portal = "running" /\ session[h] = "none"
    /\ session' = [session EXCEPT ![h] = "open"]
    /\ UNCHANGED <<types, multiple, restore, nodeIds, defaultMonitor, writer, taskVars, picomVars>>

\* A call finds its session: at once, while Start takes the lock only when it
\* is connected.  On any other session it fails.
Call(t, type, h) ==
    /\ portal = "running" /\ step[t] = "none" /\ session[h] = "open"
    /\ method' = [method EXCEPT ![t] = type]
    /\ target' = [target EXCEPT ![t] = h]
    /\ Go(t, IF type = "Start" THEN "connecting" ELSE "locking")
    /\ UNCHANGED <<sessionVars, writer, names, reported, portal, picomVars>>

\* session.get_mut(): a writer keeps new readers out while it waits for those
\* that are there.
LockForWriting(t) ==
    /\ At(t, "Start", "locking") \/ At(t, "SelectSources", "locking")
    /\ writer[target[t]] = None
    /\ writer' = [writer EXCEPT ![target[t]] = t]
    /\ Go(t, "locked")
    /\ UNCHANGED <<sessionVars, method, target, names, reported, portal, picomVars>>

LockForReading(t) ==
    /\ At(t, "Close", "locking") /\ writer[target[t]] = None
    /\ Go(t, "connecting")
    /\ UNCHANGED <<sessionVars, writer, method, target, names, reported, portal, picomVars>>

\* Mutant of Writing: readers are not waited for.
WritingAtOnce(t, type) == At(t, type, "locked")

Writing(t, type) == At(t, type, "locked") /\ Readers(target[t]) = {}

\* Picom::new
Connect(t) ==
    /\ At(t, "Start", "connecting") \/ At(t, "Close", "connecting")
    /\ up
    /\ connected' = connected \cup {t}
    /\ Go(t, IF method[t] = "Start" THEN "locking" ELSE "asking")
    /\ UNCHANGED <<sessionVars, writer, method, target, names, reported, portal,
                   up, stalled, creating, answer, closing, streams>>

\* There is no compositor, it has gone since, or an X request fails.  The call
\* returns an error and its lock.
Fail(t) ==
    /\ portal = "running" /\ method[t] \in {"Start", "Close"}
    /\ \/ step[t] = "connecting" /\ (~up \/ MayFail)
       \/ step[t] = "asking" /\ (t \notin connected \/ MayFail)
       \/ MayFail /\ Writing(t, "Start")
    /\ Go(t, "failed")
    /\ writer' = Unlocked(t)
    /\ UNCHANGED <<sessionVars, method, target, names, reported, portal, picomVars>>

-----------------------------------------------------------------------------
(* SelectSources.                                                          *)

Given(o, key, default) == IF key \in DOMAIN o THEN o[key] ELSE default

\* Sources the portal does not offer are an error, found when the session has
\* them already; the other options are then left alone.
SelectSources(t, o) ==
    /\ Writing(t, "SelectSources")
    /\ LET h == target[t] IN
        /\ types' = [types EXCEPT ![h] = Given(o, "types", @)]
        /\ IF "types" \in DOMAIN o /\ o.types = {}
           THEN Go(t, "failed") /\ UNCHANGED <<multiple, restore>>
           ELSE /\ multiple' = [multiple EXCEPT ![h] = Given(o, "multiple", @)]
                /\ restore' = [restore EXCEPT ![h] = Given(o, "restore", None)]
                /\ Go(t, "done")
    /\ writer' = Unlocked(t)
    /\ UNCHANGED <<session, nodeIds, defaultMonitor, method, target, names, reported,
                   portal, picomVars>>

-----------------------------------------------------------------------------
(* Start.                                                                  *)

\* The lists of monitors RandR may give; monitors come and go at any time.
MonitorLists ==
    {ms \in UNION {[1..n -> Monitors] : n \in 0..Cardinality(Monitors)} :
        \A i, j \in DOMAIN ms : ms[i] = ms[j] => i = j}

\* Without allow_multiple the first of the types is taken.
StartTypes(h) ==
    CASE multiple[h] -> types[h]
      [] ~multiple[h] /\ types[h] = {"Virtual"} -> {"Virtual"}
      [] OTHER -> {"Monitor"}

\* Mutant of DefaultIndex: not checked against the monitors there are now.
DefaultIndexUnchecked(ms) == defaultMonitor + 1

\* The position in ms of the monitor to take when nothing is to be restored.
DefaultIndex(ms) == IF defaultMonitor >= Len(ms) THEN 1 ELSE defaultMonitor + 1

Restorable(h, ms) == \E i \in DOMAIN ms : ms[i] = restore[h]

\* The positions in ms of the monitors to take.  (Position i is index i - 1.)
Picked(h, ms) ==
    CASE "Monitor" \notin StartTypes(h) -> <<>>
      [] "Monitor" \in StartTypes(h) /\ multiple[h] -> [i \in DOMAIN ms |-> i]
      [] OTHER -> <<IF Restorable(h, ms) THEN CHOOSE i \in DOMAIN ms : ms[i] = restore[h]
                                         ELSE DefaultIndex(ms)>>

TakesDefault(h, ms) ==
    "Monitor" \in StartTypes(h) /\ ~multiple[h] /\ ~Restorable(h, ms)

\* The whole screen follows the monitors, or takes their place.
WithScreen(h, ms) ==
    IF "Virtual" \in StartTypes(h) /\ (multiple[h] \/ ms = <<>>) THEN Append(ms, "root") ELSE ms

\* The request is sent; that fails if picom has gone since.
Ask(t, ms) ==
    /\ Writing(t, "Start")
    /\ LET h == target[t]
           picked == Picked(h, ms)
       IN  /\ \A i \in DOMAIN picked : picked[i] \in DOMAIN ms
           /\ names' = [names EXCEPT ![t] = [i \in DOMAIN picked |-> ms[picked[i]]]]
           /\ defaultMonitor' = IF TakesDefault(h, ms) THEN picked[1] ELSE defaultMonitor
           /\ \/ /\ t \in connected /\ Go(t, "waiting")
                 /\ creating' = [creating EXCEPT ![t] = WithScreen(h, names'[t])]
                 /\ UNCHANGED writer
              \/ /\ t \notin connected /\ Go(t, "failed")
                 /\ writer' = Unlocked(t)
                 /\ UNCHANGED creating
    /\ UNCHANGED <<session, types, multiple, restore, nodeIds, method, target,
                   reported, portal, up, stalled, connected, answer, closing, streams>>

\* With no monitor there is nothing at the index: the task panics.
AskPanics(t, ms) ==
    /\ Writing(t, "Start")
    /\ LET picked == Picked(target[t], ms) IN
        /\ \E i \in DOMAIN picked : picked[i] \notin DOMAIN ms
        /\ defaultMonitor' = IF TakesDefault(target[t], ms) THEN picked[1] ELSE defaultMonitor
    /\ Go(t, "panicked")
    /\ writer' = Unlocked(t)
    /\ UNCHANGED <<session, types, multiple, restore, nodeIds, method, target, names,
                   reported, portal, picomVars>>

IdsOf(t) == {t} \X DOMAIN creating[t]

\* Mutant of Recorded: the ids of an earlier Start are forgotten.
RecordedOnly(t) == nodeIds' = [nodeIds EXCEPT ![target[t]] = IdsOf(t)]

Recorded(t) == nodeIds' = [nodeIds EXCEPT ![target[t]] = @ \cup IdsOf(t)]

\* The ids have come.  izip! pairs them with rectangles and names, and stops
\* with the shortest.
Started(t) ==
    /\ At(t, "Start", "waiting") /\ answer[t] = "ids"
    /\ Recorded(t)
    /\ reported' = [reported EXCEPT ![t] = {s \in IdsOf(t) : s[2] \in DOMAIN names[t]}]
    /\ Go(t, "done")
    /\ writer' = Unlocked(t)
    /\ UNCHANGED <<session, types, multiple, restore, defaultMonitor, method, target, names,
                   portal, picomVars>>

\* The connection ends without an answer: poll_next never returns, and the
\* thread of all tasks is stuck in it.
Hang(t) ==
    /\ At(t, "Start", "waiting") /\ answer[t] = "ended"
    /\ portal' = "hung"
    /\ UNCHANGED <<sessionVars, writer, method, target, step, names, reported, picomVars>>

-----------------------------------------------------------------------------
(* Close.                                                                  *)

AskClose(t) ==
    /\ At(t, "Close", "asking") /\ t \in connected
    /\ closing' = [closing EXCEPT ![t] = nodeIds[target[t]]]
    /\ Go(t, "removing")
    /\ UNCHANGED <<sessionVars, writer, method, target, names, reported, portal,
                   up, stalled, connected, creating, answer, streams>>

\* Mutant of Removable: removed under the lock for writing.
RemovableExclusively(t) == At(t, "Close", "removing") /\ Readers(target[t]) = {}

Removable(t) == At(t, "Close", "removing")

\* The object is removed; an object that is not there fails an unwrap.
Remove(t) ==
    /\ Removable(t)
    /\ session' = [session EXCEPT ![target[t]] = "closed"]
    /\ Go(t, IF session[target[t]] = "open" THEN "done" ELSE "panicked")
    /\ UNCHANGED <<types, multiple, restore, nodeIds, defaultMonitor, writer, method, target,
                   names, reported, portal, picomVars>>

-----------------------------------------------------------------------------
(* Picom, as the portal sees it.                                           *)

Creates(t) ==
    /\ ~stalled /\ creating[t] # None /\ answer[t] = "none"
    /\ streams' = streams \cup IdsOf(t)
    /\ answer' = [answer EXCEPT ![t] = "ids"]
    /\ UNCHANGED <<sessionVars, writer, taskVars, up, stalled, connected, creating, closing>>

\* A stream cannot be created: the connection is closed without an answer.
Refuses(t) ==
    /\ MayFail /\ ~stalled /\ creating[t] # None /\ answer[t] = "none"
    /\ answer' = [answer EXCEPT ![t] = "ended"]
    /\ UNCHANGED <<sessionVars, writer, taskVars, up, stalled, connected, creating, closing, streams>>

Closes(t) ==
    /\ ~stalled /\ closing[t] # {}
    /\ streams' = streams \ closing[t]
    /\ closing' = [closing EXCEPT ![t] = {}]
    /\ UNCHANGED <<sessionVars, writer, taskVars, up, stalled, connected, creating, answer>>

\* The error ends picom's pipewire thread, while streams are alive: what picom has
\* not answered or closed by now it never will.
Stall ==
    /\ MayFail /\ up /\ ~stalled
    /\ stalled' = TRUE
    /\ UNCHANGED <<sessionVars, writer, taskVars, up, connected, creating, answer, closing, streams>>

\* An answer that was sent can still be read.
Crash ==
    /\ MayCrash /\ up
    /\ up' = FALSE /\ stalled' = FALSE /\ connected' = {} /\ streams' = {}
    /\ closing' = [t \in Calls |-> {}]
    /\ answer' = [t \in Calls |-> IF creating[t] # None /\ answer[t] = "none"
                                  THEN "ended" ELSE answer[t]]
    /\ UNCHANGED <<sessionVars, writer, taskVars, creating>>

Restart ==
    /\ ~up
    /\ up' = TRUE
    /\ UNCHANGED <<sessionVars, writer, taskVars, stalled, connected, creating, answer, closing,
                   streams>>

-----------------------------------------------------------------------------
\* A task goes on until the next await.
Run(t) ==
    \/ LockForWriting(t) \/ LockForReading(t) \/ Connect(t) \/ Fail(t)
    \/ \E o \in Options : SelectSources(t, o)
    \/ \E ms \in MonitorLists : Ask(t, ms) \/ AskPanics(t, ms)
    \/ Started(t) \/ Hang(t) \/ AskClose(t) \/ Remove(t)

Serve(t) == Creates(t) \/ Refuses(t) \/ Closes(t)

Next ==
    \/ \E h \in Sessions : CreateSession(h)
    \/ \E t \in Calls :
        \/ \E type \in {"SelectSources", "Start", "Close"}, h \in Sessions : Call(t, type, h)
        \/ Run(t) \/ Serve(t)
    \/ Stall \/ Crash \/ Restart

Spec == Init /\ [][Next]_vars

\* zbus runs the tasks that can go on; picom handles what it is sent, until it
\* stalls.
Fairness == \A t \in Calls : WF_vars(Run(t)) /\ WF_vars(Serve(t))

FairSpec == Spec /\ Fairness

-----------------------------------------------------------------------------
(* Properties.                                                             *)

\* Type correctness; the default monitor is at most one past the last there is.
TypeOK ==
    /\ session \in [Sessions -> {"none", "open", "closed"}]
    /\ types \in [Sessions -> SUBSET SourceTypes] /\ multiple \in [Sessions -> BOOLEAN]
    /\ restore \in [Sessions -> Monitors \cup {None}]
    /\ nodeIds \in [Sessions -> SUBSET Streams]
    /\ writer \in [Sessions -> Calls \cup {None}]
    /\ defaultMonitor \in 0..Cardinality(Monitors)
    /\ method \in [Calls -> {"none", "SelectSources", "Start", "Close"}]
    /\ target \in [Calls -> Sessions \cup {None}]
    /\ step \in [Calls -> {"none", "connecting", "locking", "locked", "waiting", "asking",
                           "removing"} \cup Ended]
    /\ names \in [Calls -> Seq(Monitors)]
    /\ reported \in [Calls -> SUBSET Streams]
    /\ portal \in {"running", "hung"}
    /\ up \in BOOLEAN /\ stalled \in BOOLEAN /\ connected \subseteq Calls /\ streams \subseteq Streams
    /\ creating \in [Calls -> Seq(Sources) \cup {None}]
    /\ answer \in [Calls -> {"none", "ids", "ended"}]
    /\ closing \in [Calls -> SUBSET Streams]

\* No stream whose id picom has sent is lost from sight: the id is in the session
\* of the Start that asked for it, or on its way to that Start, whichever other
\* calls run on the session.
StreamsRecorded ==
    \A s \in streams :
        \/ \E h \in Sessions : s \in nodeIds[h]
        \/ step[s[1]] = "waiting" /\ answer[s[1]] = "ids"

\* When a session object is removed, the end of all its streams has been asked
\* for: no Start has added one since the Close read the ids.
RemovalClosesStreams ==
    [][\A h \in Sessions : session[h] = "open" /\ session'[h] = "closed" =>
            nodeIds[h] \cap streams \subseteq UNION {closing[t] : t \in Calls}]_vars

\* A call that does not wait for another one: what it needs to go on is there,
\* or picom's answer.
CanGoOn(t) ==
    \/ step[t] \in {"connecting", "asking"}
    \/ step[t] = "locking" /\ writer[target[t]] = None
    \/ \E type \in {"SelectSources", "Start"} : Writing(t, type)
    \/ step[t] = "waiting" /\ creating[t] # None
    \/ Removable(t)

\* The calls of a session never wait for each other in a circle: readers for a
\* writer that waits for them, a call for a lock that an ended one has kept, or
\* two that each have what the other needs.  While one has not ended, one of
\* them can go on.
NoDeadlock ==
    portal = "running" =>
        \A t \in Calls : step[t] \notin {"none"} \cup Ended =>
            \E u \in Calls : target[u] = target[t] /\ CanGoOn(u)

\* A stalled picom leaves a Start without an answer, and that has the lock.
Unanswered(h) ==
    stalled /\ \E u \in Calls : target[u] = h /\ step[u] = "waiting" /\ answer[u] = "none"

\* Every call ends, with an answer, an error or a panic of its task, however
\* calls wait for each other's locks; unless picom leaves one without answer.
CallsEnd ==
    \A t \in Calls :
        step[t] # "none" ~> step[t] \in Ended \/ portal = "hung" \/ Unanswered(target[t])

\* What the portal offers (AVAILABLE_SOURCE_TYPE) it delivers: all streams a
\* Start has made are in its answer.
AllReported ==
    \A t \in Calls : method[t] = "Start" /\ step[t] = "done" => reported[t] = IdsOf(t)
=============================================================================
