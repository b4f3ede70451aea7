------------------------ MODULE PortalSessionProofs -------------------------
(***************************************************************************)
(* Theorems about the portal's sessions, for any number of sessions, calls *)
(* and monitors, with every failure.                                       *)
(***************************************************************************)
EXTENDS PortalSession, FiniteSetTheorems, TLAPS

-----------------------------------------------------------------------------
(* The inductive invariant.                                                *)

\* A call that runs has a session; a Start asks picom once, for a stream per
\* monitor and one of the screen at most.
CallInv ==
    \A t \in Calls :
        /\ step[t] # "none" => target[t] \in Sessions
        /\ creating[t] # None => Len(creating[t]) <= Cardinality(Monitors) + 1
        /\ step[t] \notin {"waiting", "done"} => creating[t] = None
        /\ answer[t] # "none" => creating[t] # None

\* A Start waits while it is not answered; a Close asks picom once.
AskInv ==
    \A t \in Calls :
        /\ creating[t] # None /\ answer[t] = "none" => step[t] = "waiting"
        /\ step[t] \notin {"removing", "done", "panicked"} => closing[t] = {}

\* A stream is one of those its Start asked for; a recorded id is one of a
\* Start that is done.
IdInv ==
    /\ \A s \in streams : creating[s[1]] # None /\ s \in IdsOf(s[1])
    /\ \A h \in Sessions : \A s \in nodeIds[h] : step[s[1]] = "done"

\* The lock is with the call that writes; while it waits there is no reader.
LockInv ==
    \A t \in Calls :
        /\ step[t] \in {"locked", "waiting"} => writer[target[t]] = t
        /\ step[t] = "waiting" => Readers(target[t]) = {}
        /\ step[t] \in {"asking", "removing"} => method[t] = "Close"

\* A Close that has read the ids has asked for the end of all there are.
CloseInv ==
    \A t \in Calls : step[t] = "removing" =>
        nodeIds[target[t]] \cap streams \subseteq UNION {closing[u] : u \in Calls}

-----------------------------------------------------------------------------
(* Types.                                                                  *)

LEMMA MonitorCount == Cardinality(Monitors) \in Nat /\ Cardinality(Monitors) >= 1
<1>1. Cardinality(Monitors) \in Nat
  BY MonitorsFinite, FS_CardinalityType
<1>2. Cardinality(Monitors) # 0
  BY MonitorsFinite, FS_EmptySet
<1> QED
  BY <1>1, <1>2

\* A list RandR gives is no longer than there are monitors.
LEMMA ListType ==
    ASSUME NEW ms \in MonitorLists
    PROVE  ms \in Seq(Monitors) /\ Len(ms) \in Nat /\ Len(ms) <= Cardinality(Monitors)
                /\ DOMAIN ms = 1..Len(ms)
<1>1. PICK n \in 0..Cardinality(Monitors) : ms \in [1..n -> Monitors]
  BY DEF MonitorLists
<1> QED
  BY <1>1, MonitorCount

\* What Start picks of a list it finds there or panics.
LEMMA PickedType ==
    ASSUME TypeOK, NEW h \in Sessions, NEW ms \in MonitorLists
    PROVE  /\ Picked(h, ms) \in Seq(Nat) /\ Len(Picked(h, ms)) <= Cardinality(Monitors)
           /\ TakesDefault(h, ms) => Picked(h, ms)[1] \in 0..Cardinality(Monitors)
<1>1. /\ ms \in Seq(Monitors) /\ Len(ms) \in Nat /\ Len(ms) <= Cardinality(Monitors)
      /\ DOMAIN ms = 1..Len(ms)
  BY ListType
<1>2. Cardinality(Monitors) \in Nat /\ Cardinality(Monitors) >= 1
  BY MonitorCount
<1>3. DefaultIndex(ms) \in Nat /\ DefaultIndex(ms) <= Cardinality(Monitors)
  BY <1>1, <1>2 DEF TypeOK, DefaultIndex
<1>4. Restorable(h, ms) => (CHOOSE i \in DOMAIN ms : ms[i] = restore[h]) \in DOMAIN ms
  BY DEF Restorable
<1>5. CASE "Monitor" \notin StartTypes(h)
  <2>1. Picked(h, ms) = <<>>
    BY <1>5 DEF Picked
  <2> QED
    BY <1>2, <1>5, <2>1 DEF TakesDefault
<1>6. CASE "Monitor" \in StartTypes(h) /\ multiple[h]
  <2>1. Picked(h, ms) = [i \in DOMAIN ms |-> i]
    BY <1>6 DEF Picked
  <2>2. Picked(h, ms) \in Seq(Nat) /\ Len(Picked(h, ms)) = Len(ms)
    BY <1>1, <2>1
  <2> QED
    BY <1>1, <1>6, <2>2 DEF TakesDefault
<1>7. CASE "Monitor" \in StartTypes(h) /\ ~multiple[h] /\ Restorable(h, ms)
  <2> DEFINE i == CHOOSE i \in DOMAIN ms : ms[i] = restore[h]
  <2>1. Picked(h, ms) = <<i>>
    BY <1>7 DEF Picked
  <2>2. i \in Nat
    BY <1>1, <1>4, <1>7
  <2> HIDE DEF i
  <2> QED
    BY <1>2, <1>7, <2>1, <2>2 DEF TakesDefault
<1>8. CASE "Monitor" \in StartTypes(h) /\ ~multiple[h] /\ ~Restorable(h, ms)
  <2>1. Picked(h, ms) = <<DefaultIndex(ms)>>
    BY <1>8 DEF Picked
  <2> QED
    BY <1>2, <1>3, <2>1
<1> QED
  BY <1>5, <1>6, <1>7, <1>8

\* The rectangles a Start asks for.
LEMMA AskedType ==
    ASSUME TypeOK, NEW h \in Sessions, NEW ms \in MonitorLists,
           \A i \in DOMAIN Picked(h, ms) : Picked(h, ms)[i] \in DOMAIN ms,
           NEW ns, ns = [i \in DOMAIN Picked(h, ms) |-> ms[Picked(h, ms)[i]]]
    PROVE  /\ ns \in Seq(Monitors)
           /\ WithScreen(h, ns) \in Seq(Sources)
           /\ Len(WithScreen(h, ns)) <= Cardinality(Monitors) + 1
<1>1. ms \in Seq(Monitors)
  BY ListType
<1>2. Picked(h, ms) \in Seq(Nat) /\ Len(Picked(h, ms)) <= Cardinality(Monitors)
  BY PickedType
<1>3. DOMAIN Picked(h, ms) = 1..Len(Picked(h, ms)) /\ Len(Picked(h, ms)) \in Nat
  BY <1>2
<1>4. \A i \in DOMAIN Picked(h, ms) : ms[Picked(h, ms)[i]] \in Monitors
  BY <1>1
<1>5. ns \in Seq(Monitors) /\ Len(ns) = Len(Picked(h, ms))
  BY <1>3, <1>4
<1>6. Monitors \subseteq Sources /\ "root" \in Sources
  BY DEF Sources
<1>7. ns \in Seq(Sources)
  BY <1>5, <1>6
<1>8. Append(ns, "root") \in Seq(Sources) /\ Len(Append(ns, "root")) = Len(ns) + 1
  BY <1>6, <1>7
<1> QED
  BY <1>2, <1>3, <1>5, <1>7, <1>8, MonitorCount DEF WithScreen

\* The ids of a Start are streams.
LEMMA IdsType ==
    ASSUME TypeOK, CallInv, NEW t \in Calls, creating[t] # None
    PROVE  IdsOf(t) \subseteq Streams
<1>1. creating[t] \in Seq(Sources)
  BY DEF TypeOK
<1>2. DOMAIN creating[t] = 1..Len(creating[t]) /\ Len(creating[t]) \in Nat
  BY <1>1
<1>3. DOMAIN creating[t] \subseteq 1..Cardinality(Monitors) + 1
  BY <1>2, MonitorCount DEF CallInv
<1> QED
  BY <1>3 DEF IdsOf, Streams

TypeInv == TypeOK /\ CallInv

LEMMA UnlockedType == TypeOK => \A t \in Calls : Unlocked(t) \in [Sessions -> Calls \cup {None}]
BY DEF TypeOK, Unlocked

LEMMA TypeInit == Init => TypeInv
<1> SUFFICES ASSUME Init PROVE TypeInv
  OBVIOUS
<1>1. \A t \in Calls : names[t] \in Seq(Monitors)
  BY DEF Init
<1>2. /\ session \in [Sessions -> {"none", "open", "closed"}]
      /\ types \in [Sessions -> SUBSET SourceTypes] /\ multiple \in [Sessions -> BOOLEAN]
      /\ restore \in [Sessions -> Monitors \cup {None}]
      /\ nodeIds \in [Sessions -> SUBSET Streams]
      /\ writer \in [Sessions -> Calls \cup {None}]
  BY DEF Init, SourceTypes
<1>3. names \in [Calls -> Seq(Monitors)]
  BY <1>1 DEF Init
<1>4. creating \in [Calls -> Seq(Sources) \cup {None}]
  BY DEF Init
<1>5. /\ up \in BOOLEAN /\ stalled \in BOOLEAN /\ connected \subseteq Calls /\ streams \subseteq Streams
      /\ answer \in [Calls -> {"none", "ids", "ended"}]
      /\ closing \in [Calls -> SUBSET Streams]
  BY DEF Init
<1>6. /\ method \in [Calls -> {"none", "SelectSources", "Start", "Close"}]
      /\ target \in [Calls -> Sessions \cup {None}]
      /\ step \in [Calls -> {"none", "connecting", "locking", "locked", "waiting", "asking",
                             "removing"} \cup Ended]
      /\ reported \in [Calls -> SUBSET Streams]
      /\ portal \in {"running", "hung"}
  BY DEF Init
<1>7. defaultMonitor \in 0..Cardinality(Monitors)
  BY MonitorCount DEF Init
<1>8. TypeOK
  BY <1>2, <1>3, <1>4, <1>5, <1>6, <1>7 DEF TypeOK
<1>9. CallInv
  BY <1>1, MonitorCount DEF Init, CallInv
<1> QED
  BY <1>8, <1>9 DEF TypeInv

LEMMA TypeStep == TypeInv /\ [Next]_vars => TypeInv'
<1> SUFFICES ASSUME TypeOK, CallInv, [Next]_vars PROVE TypeInv'
  BY DEF TypeInv
<1> USE DEF sessionVars, taskVars, picomVars, Go, At
<1>1. ASSUME NEW h \in Sessions, CreateSession(h) PROVE TypeInv'
  BY <1>1 DEF CreateSession, TypeInv, TypeOK, CallInv
<1>2. ASSUME NEW t \in Calls, NEW type \in {"SelectSources", "Start", "Close"},
             NEW h \in Sessions, Call(t, type, h)
      PROVE  TypeInv'
  BY <1>2 DEF Call, TypeInv, TypeOK, CallInv
<1>3. ASSUME NEW t \in Calls, LockForWriting(t) PROVE TypeInv'
  BY <1>3 DEF LockForWriting, TypeInv, TypeOK, CallInv
<1>4. ASSUME NEW t \in Calls, LockForReading(t) PROVE TypeInv'
  BY <1>4 DEF LockForReading, TypeInv, TypeOK, CallInv
<1>5. ASSUME NEW t \in Calls, Connect(t) PROVE TypeInv'
  BY <1>5 DEF Connect, TypeInv, TypeOK, CallInv
<1>6. ASSUME NEW t \in Calls, Fail(t) PROVE TypeInv'
  BY <1>6, UnlockedType DEF Fail, Writing, Ended, TypeInv, TypeOK, CallInv
<1>7. ASSUME NEW t \in Calls, NEW o \in Options, SelectSources(t, o) PROVE TypeInv'
  <2>1. target[t] \in Sessions
    BY <1>7 DEF SelectSources, Writing, CallInv
  <2>2. Given(o, "types", types[target[t]]) \in SUBSET SourceTypes
    BY <2>1, OptionsAssumption DEF Given, TypeOK
  <2>3. Given(o, "multiple", multiple[target[t]]) \in BOOLEAN
    BY <2>1, OptionsAssumption DEF Given, TypeOK
  <2>4. Given(o, "restore", None) \in Monitors \cup {None}
    BY OptionsAssumption DEF Given
  <2>5. /\ types' = [types EXCEPT ![target[t]] = Given(o, "types", types[target[t]])]
        /\ \/ multiple' = [multiple EXCEPT ![target[t]] = Given(o, "multiple", multiple[target[t]])]
           \/ multiple' = multiple
        /\ \/ restore' = [restore EXCEPT ![target[t]] = Given(o, "restore", None)]
           \/ restore' = restore
        /\ step' = [step EXCEPT ![t] = "failed"] \/ step' = [step EXCEPT ![t] = "done"]
        /\ writer' = Unlocked(t)
        /\ UNCHANGED <<session, nodeIds, defaultMonitor, method, target, names, reported,
                       portal, picomVars>>
    BY <1>7 DEF SelectSources
  <2>6. types' \in [Sessions -> SUBSET SourceTypes]
    BY <2>2, <2>5 DEF TypeOK
  <2>7. multiple' \in [Sessions -> BOOLEAN]
    BY <2>3, <2>5 DEF TypeOK
  <2>8. restore' \in [Sessions -> Monitors \cup {None}]
    BY <2>4, <2>5 DEF TypeOK
  <2>9. writer' \in [Sessions -> Calls \cup {None}]
    BY <2>5, UnlockedType
  <2> QED
    BY <1>7, <2>1, <2>5, <2>6, <2>7, <2>8, <2>9
       DEF SelectSources, Writing, TypeInv, TypeOK, CallInv, Ended
<1>8. ASSUME NEW t \in Calls, NEW ms \in MonitorLists, Ask(t, ms) PROVE TypeInv'
  <2>1. target[t] \in Sessions
    BY <1>8 DEF Ask, Writing, CallInv
  <2> DEFINE picked == Picked(target[t], ms)
             ns == [i \in DOMAIN picked |-> ms[picked[i]]]
  <2>2. /\ \A i \in DOMAIN picked : picked[i] \in DOMAIN ms
        /\ names' = [names EXCEPT ![t] = ns]
        /\ defaultMonitor' = IF TakesDefault(target[t], ms) THEN picked[1] ELSE defaultMonitor
        /\ \/ /\ step' = [step EXCEPT ![t] = "waiting"]
              /\ creating' = [creating EXCEPT ![t] = WithScreen(target[t], names'[t])]
              /\ UNCHANGED writer
           \/ /\ step' = [step EXCEPT ![t] = "failed"]
              /\ writer' = Unlocked(t)
              /\ UNCHANGED creating
        /\ UNCHANGED <<session, types, multiple, restore, nodeIds, method, target,
                       reported, portal, up, stalled, connected, answer, closing, streams>>
    BY <1>8 DEF Ask
  <2>3. defaultMonitor' \in 0..Cardinality(Monitors)
    BY <2>1, <2>2, PickedType DEF TypeOK
  <2>4. /\ ns \in Seq(Monitors)
        /\ WithScreen(target[t], ns) \in Seq(Sources)
        /\ Len(WithScreen(target[t], ns)) <= Cardinality(Monitors) + 1
    BY <2>1, <2>2, AskedType
  <2> HIDE DEF picked, ns
  <2>5. names' \in [Calls -> Seq(Monitors)] /\ names'[t] = ns
    BY <2>2, <2>4 DEF TypeOK
  <2>6. /\ creating' \in [Calls -> Seq(Sources) \cup {None}]
        /\ \A u \in Calls : creating'[u] # None
                                => Len(creating'[u]) <= Cardinality(Monitors) + 1
    <3> DEFINE asked == WithScreen(target[t], ns)
    <3>1. creating' = creating \/ creating' = [creating EXCEPT ![t] = asked]
      BY <2>2, <2>5
    <3>2. asked \in Seq(Sources) /\ Len(asked) <= Cardinality(Monitors) + 1
      BY <2>4
    <3> HIDE DEF asked
    <3>3. creating' \in [Calls -> Seq(Sources) \cup {None}]
      BY <3>1, <3>2 DEF TypeOK
    <3>4. ASSUME NEW u \in Calls, creating'[u] # None
          PROVE  Len(creating'[u]) <= Cardinality(Monitors) + 1
      <4>1. creating'[u] = creating[u] \/ creating'[u] = asked
        BY <3>1 DEF TypeOK
      <4> QED
        BY <3>2, <3>4, <4>1 DEF CallInv
    <3> QED
      BY <3>3, <3>4
  <2>7. writer' \in [Sessions -> Calls \cup {None}]
    BY <2>2, UnlockedType DEF TypeOK
  <2>8. TypeOK'
    BY <2>2, <2>3, <2>5, <2>6, <2>7 DEF TypeOK, Ended
  <2>9. step[t] = "locked" /\ answer[t] = "none"
    BY <1>8 DEF Ask, Writing, CallInv
  <2>10. ASSUME NEW u \in Calls
         PROVE  /\ step'[u] # "none" => target'[u] \in Sessions
                /\ step'[u] \notin {"waiting", "done"} => creating'[u] = None
                /\ answer'[u] # "none" => creating'[u] # None
    <3>1. CASE u = t
      BY <2>1, <2>2, <2>9, <3>1 DEF TypeOK, CallInv
    <3>2. CASE u # t
      BY <2>2, <3>2 DEF TypeOK, CallInv
    <3> QED
      BY <3>1, <3>2
  <2> QED
    BY <2>6, <2>8, <2>10 DEF TypeInv, CallInv
<1>9. ASSUME NEW t \in Calls, NEW ms \in MonitorLists, AskPanics(t, ms) PROVE TypeInv'
  <2>1. target[t] \in Sessions
    BY <1>9 DEF AskPanics, Writing, CallInv
  <2>2. defaultMonitor' \in 0..Cardinality(Monitors)
    BY <1>9, <2>1, PickedType DEF TypeOK, AskPanics
  <2>3. writer' \in [Sessions -> Calls \cup {None}]
    BY <1>9, UnlockedType DEF AskPanics
  <2> QED
    BY <1>9, <2>1, <2>2, <2>3 DEF AskPanics, Writing, TypeInv, TypeOK, CallInv, Ended
<1>10. ASSUME NEW t \in Calls, Started(t) PROVE TypeInv'
  <2>1. target[t] \in Sessions /\ creating[t] # None
    BY <1>10 DEF Started, CallInv
  <2>2. IdsOf(t) \subseteq Streams
    BY <2>1, IdsType
  <2>3. /\ nodeIds' = [nodeIds EXCEPT ![target[t]] = @ \cup IdsOf(t)]
        /\ reported' = [reported EXCEPT ![t] = {s \in IdsOf(t) : s[2] \in DOMAIN names[t]}]
        /\ step' = [step EXCEPT ![t] = "done"] /\ writer' = Unlocked(t)
        /\ UNCHANGED <<session, types, multiple, restore, defaultMonitor, method, target, names,
                       portal, picomVars>>
    BY <1>10 DEF Started, Recorded
  <2>4. nodeIds' \in [Sessions -> SUBSET Streams]
    BY <2>1, <2>2, <2>3 DEF TypeOK
  <2>5. reported' \in [Calls -> SUBSET Streams]
    BY <2>2, <2>3 DEF TypeOK
  <2>6. writer' \in [Sessions -> Calls \cup {None}]
    BY <2>3, UnlockedType
  <2> QED
    BY <2>1, <2>3, <2>4, <2>5, <2>6 DEF TypeInv, TypeOK, CallInv, Ended
<1>11. ASSUME NEW t \in Calls, Hang(t) PROVE TypeInv'
  BY <1>11 DEF Hang, TypeInv, TypeOK, CallInv
<1>12. ASSUME NEW t \in Calls, AskClose(t) PROVE TypeInv'
  <2>1. target[t] \in Sessions
    BY <1>12 DEF AskClose, CallInv
  <2> QED
    BY <1>12, <2>1 DEF AskClose, TypeInv, TypeOK, CallInv
<1>13. ASSUME NEW t \in Calls, Remove(t) PROVE TypeInv'
  BY <1>13 DEF Remove, Removable, TypeInv, TypeOK, CallInv, Ended
<1>14. ASSUME NEW t \in Calls, Creates(t) PROVE TypeInv'
  <2>1. IdsOf(t) \subseteq Streams
    BY <1>14, IdsType DEF Creates
  <2> QED
    BY <1>14, <2>1 DEF Creates, TypeInv, TypeOK, CallInv
<1>15. ASSUME NEW t \in Calls, Refuses(t) PROVE TypeInv'
  BY <1>15 DEF Refuses, TypeInv, TypeOK, CallInv
<1>16. ASSUME NEW t \in Calls, Closes(t) PROVE TypeInv'
  BY <1>16 DEF Closes, TypeInv, TypeOK, CallInv
<1>17. CASE Crash
  BY <1>17 DEF Crash, TypeInv, TypeOK, CallInv
<1>18. CASE Stall \/ Restart
  BY <1>18 DEF Stall, Restart, TypeInv, TypeOK, CallInv
<1>19. CASE UNCHANGED vars
  BY <1>19 DEF vars, TypeInv, TypeOK, CallInv
<1> QED
  BY <1>1, <1>2, <1>3, <1>4, <1>5, <1>6, <1>7, <1>8, <1>9, <1>10, <1>11, <1>12, <1>13, <1>14,
     <1>15, <1>16, <1>17, <1>18, <1>19 DEF Next, Run, Serve

\* The sessions and calls of the portal keep their types, whatever monitors
\* there are: so the index of the default monitor stays in bounds.
THEOREM TypeCorrect == Spec => []TypeOK
<1>1. TypeInv => TypeOK
  BY DEF TypeInv
<1> QED
  BY <1>1, TypeInit, TypeStep, PTL DEF Spec

-----------------------------------------------------------------------------
(* Streams and the locks.                                                  *)

Inv == TypeInv /\ AskInv /\ IdInv /\ LockInv /\ CloseInv /\ StreamsRecorded

LEMMA InvInit == Init => Inv
BY TypeInit DEF Init, Inv, AskInv, IdInv, LockInv, CloseInv, StreamsRecorded

LEMMA AskStep == TypeInv /\ AskInv /\ [Next]_vars => AskInv'
<1> SUFFICES ASSUME TypeOK, CallInv, AskInv, [Next]_vars PROVE AskInv'
  BY DEF TypeInv
<1> USE DEF sessionVars, taskVars, picomVars, Go, At, Writing, Removable, AskInv
<1>1. ASSUME NEW h \in Sessions, CreateSession(h) PROVE AskInv'
  BY <1>1 DEF CreateSession
<1>2. ASSUME NEW t \in Calls, NEW type \in {"SelectSources", "Start", "Close"},
             NEW h \in Sessions, Call(t, type, h)
      PROVE  AskInv'
  BY <1>2 DEF Call, TypeOK, CallInv
<1>3. ASSUME NEW t \in Calls,
             \/ LockForWriting(t) \/ LockForReading(t) \/ Connect(t) \/ Fail(t)
             \/ Started(t) \/ Hang(t) \/ Remove(t)
             \/ \E o \in Options : SelectSources(t, o)
      PROVE  AskInv'
  BY <1>3 DEF LockForWriting, LockForReading, Connect, Fail, Started, Hang, Remove,
              SelectSources, TypeOK, CallInv, Ended
<1>4. ASSUME NEW t \in Calls, NEW ms \in MonitorLists, Ask(t, ms) PROVE AskInv'
  BY <1>4 DEF Ask, TypeOK, CallInv
<1>5. ASSUME NEW t \in Calls, NEW ms \in MonitorLists, AskPanics(t, ms) PROVE AskInv'
  BY <1>5 DEF AskPanics, TypeOK, CallInv
<1>6. ASSUME NEW t \in Calls, AskClose(t) PROVE AskInv'
  BY <1>6 DEF AskClose, TypeOK, CallInv
<1>7. ASSUME NEW t \in Calls, Serve(t) PROVE AskInv'
  BY <1>7 DEF Serve, Creates, Refuses, Closes, TypeOK, CallInv
<1>8. CASE Stall \/ Crash \/ Restart \/ UNCHANGED vars
  BY <1>8 DEF Stall, Crash, Restart, vars, TypeOK, CallInv
<1> QED
  BY <1>1, <1>2, <1>3, <1>4, <1>5, <1>6, <1>7, <1>8 DEF Next, Run

LEMMA IdStep == TypeInv /\ AskInv /\ IdInv /\ [Next]_vars => IdInv'
<1> SUFFICES ASSUME TypeOK, CallInv, AskInv, IdInv, [Next]_vars PROVE IdInv'
  BY DEF TypeInv
<1> USE DEF sessionVars, taskVars, picomVars, Go, At, Writing, Removable
<1>0. /\ \A s \in streams : s[1] \in Calls
      /\ \A h \in Sessions : \A s \in nodeIds[h] : s[1] \in Calls
  BY DEF TypeOK, Streams
<1>1. ASSUME streams' \subseteq streams, creating' = creating, nodeIds' = nodeIds,
             \A u \in Calls : step[u] = "done" => step'[u] = "done"
      PROVE  IdInv'
  BY <1>0, <1>1 DEF IdInv, IdsOf
<1>2. ASSUME NEW t \in Calls, step[t] # "done",
             \E where : step' = [step EXCEPT ![t] = where]
      PROVE  \A u \in Calls : step[u] = "done" => step'[u] = "done"
  BY <1>2 DEF TypeOK
<1>3. ASSUME NEW h \in Sessions, CreateSession(h) PROVE IdInv'
  BY <1>1, <1>3 DEF CreateSession
<1>4. ASSUME NEW t \in Calls, NEW type \in {"SelectSources", "Start", "Close"},
             NEW h \in Sessions, Call(t, type, h)
      PROVE  IdInv'
  BY <1>1, <1>2, <1>4 DEF Call
<1>5. ASSUME NEW t \in Calls,
             \/ LockForWriting(t) \/ LockForReading(t) \/ Connect(t) \/ Fail(t)
             \/ AskClose(t) \/ Remove(t) \/ \E o \in Options : SelectSources(t, o)
             \/ \E ms \in MonitorLists : AskPanics(t, ms)
      PROVE  IdInv'
  <2>1. step[t] # "done" /\ \E where : step' = [step EXCEPT ![t] = where]
    BY <1>5 DEF LockForWriting, LockForReading, Connect, Fail, AskClose, Remove,
                SelectSources, AskPanics
  <2>2. streams' = streams /\ creating' = creating /\ nodeIds' = nodeIds
    BY <1>5 DEF LockForWriting, LockForReading, Connect, Fail, AskClose, Remove,
                SelectSources, AskPanics
  <2> QED
    BY <1>1, <1>2, <2>1, <2>2
<1>6. ASSUME NEW t \in Calls, NEW ms \in MonitorLists, Ask(t, ms) PROVE IdInv'
  <2>1. creating[t] = None /\ step[t] # "done"
    BY <1>6 DEF Ask, CallInv
  <2>2. \A u \in Calls : u # t => creating'[u] = creating[u]
    BY <1>6 DEF Ask, TypeOK
  <2>3. \A s \in streams : s[1] # t
    BY <2>1 DEF IdInv
  <2>4. \A s \in streams : creating'[s[1]] = creating[s[1]]
    BY <1>0, <2>2, <2>3
  <2>5. \A u \in Calls : step[u] = "done" => step'[u] = "done"
    BY <1>2, <1>6, <2>1 DEF Ask
  <2>6. streams' = streams /\ nodeIds' = nodeIds
    BY <1>6 DEF Ask
  <2> QED
    BY <1>0, <2>4, <2>5, <2>6 DEF IdInv, IdsOf
<1>7. ASSUME NEW t \in Calls, Started(t) PROVE IdInv'
  <2>1. /\ nodeIds' = [nodeIds EXCEPT ![target[t]] = @ \cup IdsOf(t)]
        /\ step' = [step EXCEPT ![t] = "done"]
        /\ streams' = streams /\ creating' = creating
    BY <1>7 DEF Started, Recorded
  <2>2. \A s \in IdsOf(t) : s[1] = t
    BY DEF IdsOf
  <2>3. ASSUME NEW h \in Sessions, NEW s \in nodeIds'[h] PROVE step'[s[1]] = "done"
    <3>1. s \in nodeIds[h] \/ s \in IdsOf(t)
      BY <2>1, <2>3 DEF TypeOK
    <3> QED
      BY <1>0, <2>1, <2>2, <3>1 DEF IdInv, TypeOK
  <2> QED
    BY <2>1, <2>3 DEF IdInv, IdsOf
<1>8. ASSUME NEW t \in Calls, Hang(t) \/ Refuses(t) \/ Closes(t) PROVE IdInv'
  BY <1>1, <1>8 DEF Hang, Refuses, Closes
<1>9. ASSUME NEW t \in Calls, Creates(t) PROVE IdInv'
  <2>1. streams' = streams \cup IdsOf(t) /\ creating[t] # None
        /\ UNCHANGED <<creating, nodeIds, step>>
    BY <1>9 DEF Creates
  <2>2. \A s \in IdsOf(t) : s[1] = t
    BY DEF IdsOf
  <2> QED
    BY <2>1, <2>2 DEF IdInv, IdsOf
<1>10. CASE Stall \/ Crash \/ Restart \/ UNCHANGED vars
  BY <1>1, <1>10 DEF Stall, Crash, Restart, vars
<1> QED
  BY <1>3, <1>4, <1>5, <1>6, <1>7, <1>8, <1>9, <1>10 DEF Next, Run, Serve

\* Others keep what they have of the locks when t, which has none, goes on.
LEMMA LockStep == TypeInv /\ LockInv /\ [Next]_vars => LockInv'
<1> SUFFICES ASSUME TypeOK, CallInv, LockInv, [Next]_vars PROVE LockInv'
  BY DEF TypeInv
<1> USE DEF sessionVars, taskVars, picomVars, Go, At, Readers
<1>0. \A t \in Calls : \A u \in Calls : t # u /\ writer[target[u]] = u /\ target[u] \in Sessions
                            => Unlocked(t)[target[u]] = u
  BY DEF Unlocked
<1>1. ASSUME NEW h \in Sessions, CreateSession(h) PROVE LockInv'
  BY <1>1 DEF CreateSession, LockInv
<1>2. ASSUME NEW t \in Calls, NEW type \in {"SelectSources", "Start", "Close"},
             NEW h \in Sessions, Call(t, type, h)
      PROVE  LockInv'
  BY <1>2 DEF Call, LockInv, TypeOK
<1>3. ASSUME NEW t \in Calls, LockForWriting(t) PROVE LockInv'
  BY <1>3, NoneNothing DEF LockForWriting, LockInv, TypeOK, CallInv
<1>4. ASSUME NEW t \in Calls, LockForReading(t) PROVE LockInv'
  BY <1>4, NoneNothing DEF LockForReading, LockInv, TypeOK, CallInv
<1>5. ASSUME NEW t \in Calls, Connect(t) PROVE LockInv'
  BY <1>5 DEF Connect, LockInv, TypeOK, CallInv
<1>6. ASSUME NEW t \in Calls, Fail(t) PROVE LockInv'
  BY <1>0, <1>6 DEF Fail, Writing, LockInv, TypeOK, CallInv
<1>7. ASSUME NEW t \in Calls, NEW o \in Options, SelectSources(t, o) PROVE LockInv'
  <2>1. /\ step' = [step EXCEPT ![t] = "failed"] \/ step' = [step EXCEPT ![t] = "done"]
        /\ writer' = Unlocked(t) /\ UNCHANGED <<method, target>>
    BY <1>7 DEF SelectSources
  <2>2. CASE step' = [step EXCEPT ![t] = "failed"]
    BY <1>0, <2>1, <2>2 DEF LockInv, TypeOK, CallInv
  <2>3. CASE step' = [step EXCEPT ![t] = "done"]
    BY <1>0, <2>1, <2>3 DEF LockInv, TypeOK, CallInv
  <2> QED
    BY <2>1, <2>2, <2>3
<1>8. ASSUME NEW t \in Calls, NEW ms \in MonitorLists, Ask(t, ms) PROVE LockInv'
  <2>1. /\ step[t] = "locked" /\ method[t] = "Start" /\ Readers(target[t]) = {}
        /\ UNCHANGED <<method, target>>
    BY <1>8 DEF Ask, Writing
  <2>2. CASE step' = [step EXCEPT ![t] = "waiting"] /\ writer' = writer
    BY <2>1, <2>2 DEF LockInv, TypeOK, CallInv
  <2>3. CASE step' = [step EXCEPT ![t] = "failed"] /\ writer' = Unlocked(t)
    BY <1>0, <2>1, <2>3 DEF LockInv, TypeOK, CallInv
  <2> QED
    BY <1>8, <2>2, <2>3 DEF Ask
<1>9. ASSUME NEW t \in Calls, NEW ms \in MonitorLists, AskPanics(t, ms) PROVE LockInv'
  BY <1>0, <1>9 DEF AskPanics, Writing, LockInv, TypeOK, CallInv
<1>10. ASSUME NEW t \in Calls, Started(t) PROVE LockInv'
  BY <1>0, <1>10 DEF Started, LockInv, TypeOK, CallInv
<1>11. ASSUME NEW t \in Calls, Hang(t) \/ Serve(t) PROVE LockInv'
  BY <1>11 DEF Hang, Serve, Creates, Refuses, Closes, LockInv
<1>12. ASSUME NEW t \in Calls, AskClose(t) PROVE LockInv'
  BY <1>12 DEF AskClose, LockInv, TypeOK, CallInv
<1>13. ASSUME NEW t \in Calls, Remove(t) PROVE LockInv'
  BY <1>13 DEF Remove, Removable, LockInv, TypeOK, CallInv
<1>14. CASE Stall \/ Crash \/ Restart \/ UNCHANGED vars
  BY <1>14 DEF Stall, Crash, Restart, vars, LockInv
<1> QED
  BY <1>1, <1>2, <1>3, <1>4, <1>5, <1>6, <1>7, <1>8, <1>9, <1>10, <1>11, <1>12, <1>13, <1>14
     DEF Next, Run

\* While a Close is between reading the ids and removing the session, no id is
\* recorded in it, and no stream of a recorded id is made.
LEMMA CloseStep ==
    TypeInv /\ AskInv /\ IdInv /\ LockInv /\ CloseInv /\ [Next]_vars => CloseInv'
<1> SUFFICES ASSUME TypeOK, CallInv, AskInv, IdInv, LockInv, CloseInv, [Next]_vars
             PROVE  CloseInv'
  BY DEF TypeInv
<1> USE DEF sessionVars, taskVars, picomVars, Go, At, Writing, Removable
<1>1. ASSUME nodeIds' = nodeIds, streams' \subseteq streams, closing' = closing, target' = target,
             \A u \in Calls : step'[u] = "removing" => step[u] = "removing"
      PROVE  CloseInv'
  BY <1>1 DEF CloseInv
<1>2. ASSUME NEW t \in Calls, NEW where, where # "removing", step' = [step EXCEPT ![t] = where]
      PROVE  \A u \in Calls : step'[u] = "removing" => step[u] = "removing"
  BY <1>2 DEF TypeOK
<1>3. ASSUME NEW h \in Sessions, CreateSession(h) PROVE CloseInv'
  BY <1>1, <1>3 DEF CreateSession
<1>4. ASSUME NEW t \in Calls, NEW type \in {"SelectSources", "Start", "Close"},
             NEW h \in Sessions, Call(t, type, h)
      PROVE  CloseInv'
  BY <1>4 DEF Call, CloseInv, TypeOK
<1>5. ASSUME NEW t \in Calls,
             \/ LockForWriting(t) \/ LockForReading(t) \/ Connect(t) \/ Fail(t) \/ Remove(t)
             \/ \E o \in Options : SelectSources(t, o)
             \/ \E ms \in MonitorLists : Ask(t, ms) \/ AskPanics(t, ms)
      PROVE  CloseInv'
  <2>1. \E where : where # "removing" /\ step' = [step EXCEPT ![t] = where]
    BY <1>5 DEF LockForWriting, LockForReading, Connect, Fail, Remove, SelectSources,
                Ask, AskPanics
  <2>2. UNCHANGED <<nodeIds, streams, closing, target>>
    BY <1>5 DEF LockForWriting, LockForReading, Connect, Fail, Remove, SelectSources,
                Ask, AskPanics
  <2> QED
    BY <1>1, <1>2, <2>1, <2>2
<1>6. ASSUME NEW t \in Calls, Started(t) PROVE CloseInv'
  <2>1. /\ nodeIds' = [nodeIds EXCEPT ![target[t]] = @ \cup IdsOf(t)]
        /\ step' = [step EXCEPT ![t] = "done"]
        /\ UNCHANGED <<streams, closing, target, method>>
    BY <1>6 DEF Started, Recorded
  <2>2. Readers(target[t]) = {}
    BY <1>6 DEF Started, LockInv
  <2>3. ASSUME NEW u \in Calls, step'[u] = "removing"
        PROVE  nodeIds'[target'[u]] \cap streams' \subseteq UNION {closing'[v] : v \in Calls}
    <3>1. step[u] = "removing" /\ method[u] = "Close"
      BY <2>1, <2>3 DEF TypeOK, LockInv
    <3>2. target[u] # target[t]
      BY <2>2, <3>1 DEF Readers
    <3>3. nodeIds'[target'[u]] = nodeIds[target[u]]
      BY <2>1, <3>1, <3>2 DEF TypeOK, CallInv
    <3> QED
      BY <2>1, <3>1, <3>3 DEF CloseInv
  <2> QED
    BY <2>3 DEF CloseInv
<1>7. ASSUME NEW t \in Calls, Hang(t) \/ Refuses(t) PROVE CloseInv'
  BY <1>1, <1>7 DEF Hang, Refuses
<1>8. ASSUME NEW t \in Calls, AskClose(t) PROVE CloseInv'
  <2>1. /\ closing[t] = {}
        /\ closing' = [closing EXCEPT ![t] = nodeIds[target[t]]]
        /\ step' = [step EXCEPT ![t] = "removing"]
        /\ UNCHANGED <<nodeIds, streams, target>>
    BY <1>8 DEF AskClose, AskInv
  <2>2. \A v \in Calls : closing[v] \subseteq closing'[v]
    BY <2>1 DEF TypeOK
  <2>3. closing'[t] = nodeIds[target[t]]
    BY <2>1 DEF TypeOK
  <2>4. ASSUME NEW u \in Calls, step'[u] = "removing", NEW s \in nodeIds[target[u]] \cap streams
        PROVE  \E v \in Calls : s \in closing'[v]
    <3>1. CASE u = t
      BY <2>3, <2>4, <3>1
    <3>2. CASE u # t
      <4>1. step[u] = "removing"
        BY <2>1, <2>4, <3>2 DEF TypeOK
      <4>2. \E v \in Calls : s \in closing[v]
        BY <2>4, <4>1 DEF CloseInv
      <4> QED
        BY <2>2, <4>2
    <3> QED
      BY <3>1, <3>2
  <2> QED
    BY <2>1, <2>4 DEF CloseInv
<1>9. ASSUME NEW t \in Calls, Creates(t) PROVE CloseInv'
  <2>1. /\ streams' = streams \cup IdsOf(t)
        /\ UNCHANGED <<nodeIds, closing, target, step>> /\ step[t] = "waiting"
    BY <1>9 DEF Creates, AskInv
  <2>2. ASSUME NEW h \in Sessions, NEW s \in nodeIds[h] PROVE s \notin IdsOf(t)
    BY <2>1, <2>2 DEF IdInv, IdsOf
  <2>3. ASSUME NEW u \in Calls, step[u] = "removing"
        PROVE  nodeIds[target[u]] \cap streams' \subseteq nodeIds[target[u]] \cap streams
    BY <2>1, <2>2, <2>3 DEF CallInv
  <2> QED
    BY <2>1, <2>3 DEF CloseInv
<1>10. ASSUME NEW t \in Calls, Closes(t) PROVE CloseInv'
  <2>1. /\ streams' = streams \ closing[t]
        /\ closing' = [closing EXCEPT ![t] = {}]
        /\ UNCHANGED <<nodeIds, target, step>>
    BY <1>10 DEF Closes
  <2>2. ASSUME NEW u \in Calls, step[u] = "removing", NEW s \in nodeIds[target[u]] \cap streams'
        PROVE  \E v \in Calls : s \in closing'[v]
    <3>1. PICK v \in Calls : s \in closing[v]
      BY <2>1, <2>2 DEF CloseInv
    <3>2. v # t
      BY <2>1, <2>2, <3>1
    <3> QED
      BY <2>1, <3>1, <3>2 DEF TypeOK
  <2> QED
    BY <2>1, <2>2 DEF CloseInv
<1>11. CASE Crash
  BY <1>11 DEF Crash, CloseInv
<1>12. CASE Stall \/ Restart \/ UNCHANGED vars
  BY <1>1, <1>12 DEF Stall, Restart, vars
<1> QED
  BY <1>3, <1>4, <1>5, <1>6, <1>7, <1>8, <1>9, <1>10, <1>11, <1>12 DEF Next, Run, Serve

LEMMA RecordStep ==
    TypeInv /\ AskInv /\ IdInv /\ StreamsRecorded /\ [Next]_vars => StreamsRecorded'
<1> SUFFICES ASSUME TypeOK, CallInv, AskInv, IdInv, StreamsRecorded, [Next]_vars
             PROVE  StreamsRecorded'
  BY DEF TypeInv
<1> USE DEF sessionVars, taskVars, picomVars, Go, At, Writing, Removable
<1>0. \A s \in streams : s[1] \in Calls
  BY DEF TypeOK, Streams
<1>1. ASSUME streams' \subseteq streams, nodeIds' = nodeIds,
             \A u \in Calls : step[u] = "waiting" /\ answer[u] = "ids" =>
                                  step'[u] = "waiting" /\ answer'[u] = "ids"
      PROVE  StreamsRecorded'
  BY <1>0, <1>1 DEF StreamsRecorded
<1>2. ASSUME NEW t \in Calls, step[t] # "waiting", answer' = answer,
             \E where : step' = [step EXCEPT ![t] = where]
      PROVE  \A u \in Calls : step[u] = "waiting" /\ answer[u] = "ids" =>
                                  step'[u] = "waiting" /\ answer'[u] = "ids"
  BY <1>2 DEF TypeOK
<1>3. ASSUME NEW h \in Sessions, CreateSession(h) PROVE StreamsRecorded'
  BY <1>1, <1>3 DEF CreateSession
<1>4. ASSUME NEW t \in Calls, NEW type \in {"SelectSources", "Start", "Close"},
             NEW h \in Sessions, Call(t, type, h)
      PROVE  StreamsRecorded'
  BY <1>1, <1>2, <1>4 DEF Call
<1>5. ASSUME NEW t \in Calls,
             \/ LockForWriting(t) \/ LockForReading(t) \/ Connect(t) \/ Fail(t)
             \/ AskClose(t) \/ Remove(t) \/ \E o \in Options : SelectSources(t, o)
             \/ \E ms \in MonitorLists : Ask(t, ms) \/ AskPanics(t, ms)
      PROVE  StreamsRecorded'
  <2>1. step[t] # "waiting" /\ \E where : step' = [step EXCEPT ![t] = where]
    BY <1>5 DEF LockForWriting, LockForReading, Connect, Fail, AskClose, Remove,
                SelectSources, Ask, AskPanics
  <2>2. UNCHANGED <<streams, nodeIds, answer>>
    BY <1>5 DEF LockForWriting, LockForReading, Connect, Fail, AskClose, Remove,
                SelectSources, Ask, AskPanics
  <2> QED
    BY <1>1, <1>2, <2>1, <2>2
<1>6. ASSUME NEW t \in Calls, Started(t) PROVE StreamsRecorded'
  <2>1. /\ nodeIds' = [nodeIds EXCEPT ![target[t]] = @ \cup IdsOf(t)]
        /\ step' = [step EXCEPT ![t] = "done"]
        /\ UNCHANGED <<streams, answer>> /\ target[t] \in Sessions
    BY <1>6 DEF Started, Recorded, CallInv
  <2>2. \A h \in Sessions : nodeIds[h] \subseteq nodeIds'[h]
    BY <2>1 DEF TypeOK
  <2>3. ASSUME NEW s \in streams, s[1] = t PROVE s \in nodeIds'[target[t]]
    BY <2>1, <2>3 DEF IdInv, TypeOK
  <2>4. ASSUME NEW s \in streams, s[1] # t
        PROVE  \/ \E h \in Sessions : s \in nodeIds'[h]
               \/ step'[s[1]] = "waiting" /\ answer'[s[1]] = "ids"
    BY <1>0, <2>1, <2>2, <2>4 DEF StreamsRecorded, TypeOK
  <2> QED
    BY <2>1, <2>3, <2>4 DEF StreamsRecorded
<1>7. ASSUME NEW t \in Calls, Hang(t) \/ Closes(t) PROVE StreamsRecorded'
  BY <1>1, <1>7 DEF Hang, Closes
<1>8. ASSUME NEW t \in Calls, Creates(t) PROVE StreamsRecorded'
  <2>1. /\ streams' = streams \cup IdsOf(t) /\ step[t] = "waiting"
        /\ answer' = [answer EXCEPT ![t] = "ids"] /\ UNCHANGED <<step, nodeIds>>
    BY <1>8 DEF Creates, AskInv
  <2>2. \A s \in IdsOf(t) : s[1] = t
    BY DEF IdsOf
  <2> QED
    BY <1>0, <2>1, <2>2 DEF StreamsRecorded, TypeOK
<1>9. ASSUME NEW t \in Calls, Refuses(t) PROVE StreamsRecorded'
  BY <1>1, <1>9 DEF Refuses, TypeOK
<1>10. CASE Crash
  BY <1>10 DEF Crash, StreamsRecorded
<1>11. CASE Stall \/ Restart \/ UNCHANGED vars
  BY <1>1, <1>11 DEF Stall, Restart, vars
<1> QED
  BY <1>3, <1>4, <1>5, <1>6, <1>7, <1>8, <1>9, <1>10, <1>11 DEF Next, Run, Serve

LEMMA Invariant == Spec => []Inv
<1>1. Inv /\ [Next]_vars => Inv'
  BY TypeStep, AskStep, IdStep, LockStep, CloseStep, RecordStep DEF Inv
<1> QED
  BY <1>1, InvInit, PTL DEF Spec

\* Every stream is known to the session of the Start that asked for it, or on
\* its way there: no stream is beyond the reach of a Close.
THEOREM StreamsAreRecorded == Spec => []StreamsRecorded
<1>1. Inv => StreamsRecorded
  BY DEF Inv
<1> QED
  BY <1>1, Invariant, PTL

\* A session is removed only when the end of all its streams has been asked
\* for, however Starts and Closes of it overlap.
THEOREM RemovedSessionsClosed == Spec => RemovalClosesStreams
<1> DEFINE Removal == \A h \in Sessions : session[h] = "open" /\ session'[h] = "closed" =>
                          nodeIds[h] \cap streams \subseteq UNION {closing[t] : t \in Calls}
<1>1. ASSUME TypeOK, CallInv, CloseInv, [Next]_vars PROVE [Removal]_vars
  <2> SUFFICES ASSUME NEW h \in Sessions, session[h] = "open", session'[h] = "closed"
               PROVE  nodeIds[h] \cap streams \subseteq UNION {closing[t] : t \in Calls}
    OBVIOUS
  <2> USE DEF sessionVars, taskVars, picomVars
  <2>1. \/ \E t \in Calls : Remove(t)
        \/ \E g \in Sessions : CreateSession(g)
        \/ session' = session
    <3>1. ASSUME NEW t \in Calls, Run(t), ~Remove(t) PROVE session' = session
      BY <3>1 DEF Run, LockForWriting, LockForReading, Connect, Fail, SelectSources, Ask,
                  AskPanics, Started, Hang, AskClose
    <3>2. ASSUME NEW t \in Calls, Serve(t) PROVE session' = session
      BY <3>2 DEF Serve, Creates, Refuses, Closes
    <3>3. ASSUME NEW t \in Calls, NEW type \in {"SelectSources", "Start", "Close"},
                 NEW g \in Sessions, Call(t, type, g)
          PROVE  session' = session
      BY <3>3 DEF Call
    <3>4. CASE Stall \/ Crash \/ Restart \/ UNCHANGED vars
      BY <3>4 DEF Stall, Crash, Restart, vars
    <3> QED
      BY <1>1, <3>1, <3>2, <3>3, <3>4 DEF Next
  <2>2. \A g \in Sessions : ~CreateSession(g)
    BY <1>1 DEF CreateSession, TypeOK
  <2>3. PICK t \in Calls : Remove(t)
    BY <2>1, <2>2
  <2>4. step[t] = "removing" /\ h = target[t]
    BY <1>1, <2>3 DEF Remove, Removable, At, TypeOK
  <2> QED
    BY <1>1, <2>4 DEF CloseInv
<1>2. Inv => TypeOK /\ CallInv /\ CloseInv
  BY DEF Inv, TypeInv
<1>3. Spec => [][Removal]_vars
  BY <1>1, <1>2, Invariant, PTL DEF Spec
<1> QED
  BY <1>3 DEF RemovalClosesStreams

-----------------------------------------------------------------------------
(* No deadlock.                                                            *)

\* The other direction of LockInv: a lock is held by a call of its session that
\* is at work on it.  A waiting Start has asked, a call that has the lock writes.
HolderInv ==
    /\ \A h \in Sessions : writer[h] # None =>
            target[writer[h]] = h /\ step[writer[h]] \in {"locked", "waiting"}
    /\ \A t \in Calls :
        /\ step[t] = "locked" => method[t] \in {"SelectSources", "Start"}
        /\ step[t] = "waiting" => creating[t] # None

LEMMA HolderStep == TypeInv /\ HolderInv /\ [Next]_vars => HolderInv'
<1> SUFFICES ASSUME TypeOK, CallInv, HolderInv, [Next]_vars PROVE HolderInv'
  BY DEF TypeInv
<1> USE DEF sessionVars, taskVars, picomVars, Go, At
<1>0. \A t \in Calls : \A h \in Sessions : Unlocked(t)[h] # None => writer[h] # None /\ writer[h] # t
                                              /\ Unlocked(t)[h] = writer[h]
  BY DEF Unlocked
<1>1. ASSUME UNCHANGED <<writer, method, target, step, creating>> PROVE HolderInv'
  BY <1>1 DEF HolderInv
<1>2. ASSUME NEW t \in Calls, NEW where \in Ended, writer' = Unlocked(t),
             step' = [step EXCEPT ![t] = where], UNCHANGED <<method, target, creating>>
      PROVE  HolderInv'
  BY <1>0, <1>2 DEF HolderInv, TypeOK, Ended
<1>3. ASSUME NEW h \in Sessions, CreateSession(h) PROVE HolderInv'
  BY <1>1, <1>3 DEF CreateSession
<1>4. ASSUME NEW t \in Calls, NEW type \in {"SelectSources", "Start", "Close"},
             NEW h \in Sessions, Call(t, type, h)
      PROVE  HolderInv'
  BY <1>4 DEF Call, HolderInv, TypeOK
<1>5. ASSUME NEW t \in Calls, LockForWriting(t) PROVE HolderInv'
  BY <1>5 DEF LockForWriting, HolderInv, TypeOK, CallInv
<1>6. ASSUME NEW t \in Calls,
             LockForReading(t) \/ Connect(t) \/ AskClose(t) \/ Remove(t)
      PROVE  HolderInv'
  <2>1. /\ UNCHANGED <<writer, method, target, creating>>
        /\ step[t] \notin {"locked", "waiting"}
        /\ \E where : where \notin {"locked", "waiting"} /\ step' = [step EXCEPT ![t] = where]
    BY <1>6 DEF LockForReading, Connect, AskClose, Remove, Removable
  <2> QED
    BY <2>1 DEF HolderInv, TypeOK
<1>7. ASSUME NEW t \in Calls, Fail(t) PROVE HolderInv'
  BY <1>2, <1>7 DEF Fail, Ended
<1>8. ASSUME NEW t \in Calls, NEW o \in Options, SelectSources(t, o) PROVE HolderInv'
  BY <1>2, <1>8 DEF SelectSources, Ended
<1>9. ASSUME NEW t \in Calls, NEW ms \in MonitorLists, Ask(t, ms) PROVE HolderInv'
  <2>1. CASE step' = [step EXCEPT ![t] = "failed"] /\ writer' = Unlocked(t)
             /\ UNCHANGED <<method, target, creating>>
    BY <1>2, <2>1 DEF Ended
  <2>2. CASE UNCHANGED <<writer, method, target>> /\ step' = [step EXCEPT ![t] = "waiting"]
             /\ creating' = [creating EXCEPT ![t] = WithScreen(target[t], names'[t])]
    <3>1. WithScreen(target[t], names'[t]) \in Seq(Sources)
      <4> DEFINE picked == Picked(target[t], ms)
                 ns == [i \in DOMAIN picked |-> ms[picked[i]]]
      <4>1. target[t] \in Sessions
        BY <1>9 DEF Ask, Writing, CallInv
      <4>2. (\A i \in DOMAIN picked : picked[i] \in DOMAIN ms) /\ names' = [names EXCEPT ![t] = ns]
        BY <1>9 DEF Ask
      <4>3. WithScreen(target[t], ns) \in Seq(Sources)
        BY <4>1, <4>2, AskedType
      <4> HIDE DEF ns
      <4>4. names'[t] = ns
        BY <4>2 DEF TypeOK
      <4> QED
        BY <4>3, <4>4
    <3>2. WithScreen(target[t], names'[t]) # None
      BY <3>1, NoneNoRequest DEF Sources
    <3>3. step[t] = "locked" /\ method[t] = "Start"
      BY <1>9 DEF Ask, Writing
    <3> QED
      BY <2>2, <3>2, <3>3 DEF HolderInv, TypeOK
  <2> QED
    BY <1>9, <2>1, <2>2 DEF Ask
<1>10. ASSUME NEW t \in Calls, NEW ms \in MonitorLists, AskPanics(t, ms) PROVE HolderInv'
  BY <1>2, <1>10 DEF AskPanics, Ended
<1>11. ASSUME NEW t \in Calls, Started(t) PROVE HolderInv'
  BY <1>2, <1>11 DEF Started, Ended
<1>12. ASSUME NEW t \in Calls, Hang(t) \/ Serve(t) PROVE HolderInv'
  BY <1>1, <1>12 DEF Hang, Serve, Creates, Refuses, Closes
<1>13. CASE Stall \/ Crash \/ Restart \/ UNCHANGED vars
  BY <1>1, <1>13 DEF Stall, Crash, Restart, vars
<1> QED
  BY <1>3, <1>4, <1>5, <1>6, <1>7, <1>8, <1>9, <1>10, <1>11, <1>12, <1>13 DEF Next, Run

\* Whatever calls come to a session, in any number and at any time, and whatever
\* fails: while one of them has not ended, one can go on.  A call waits for the
\* lock's holder, which waits for the readers or for picom, and these for nobody.
THEOREM SessionsNeverDeadlock == Spec => []NoDeadlock
<1>1. Init => HolderInv
  BY DEF Init, HolderInv
<1>2. TypeInv /\ LockInv /\ HolderInv => NoDeadlock
  <2> SUFFICES ASSUME TypeOK, CallInv, LockInv, HolderInv, portal = "running",
                      NEW t \in Calls, step[t] \notin {"none"} \cup Ended
               PROVE  \E u \in Calls : target[u] = target[t] /\ CanGoOn(u)
    BY DEF NoDeadlock, TypeInv
  <2>1. target[t] \in Sessions
    BY DEF CallInv
  <2>2. ASSUME NEW u \in Calls, target[u] = target[t], step[u] \in {"locked", "waiting"}
        PROVE  \E r \in Calls : target[r] = target[t] /\ CanGoOn(r)
    <3>1. CASE step[u] = "waiting"
      BY <2>2, <3>1 DEF CanGoOn, HolderInv
    <3>2. CASE step[u] = "locked" /\ Readers(target[u]) = {}
      <4>1. Writing(u, method[u]) /\ method[u] \in {"SelectSources", "Start"}
        BY <2>2, <3>2 DEF Writing, At, HolderInv
      <4> QED
        BY <2>2, <4>1 DEF CanGoOn
    <3>3. ASSUME NEW r \in Readers(target[u])
          PROVE  \E v \in Calls : target[v] = target[t] /\ CanGoOn(v)
      <4>1. /\ r \in Calls /\ target[r] = target[t] /\ method[r] = "Close"
            /\ step[r] \in {"connecting", "asking", "removing"}
        BY <2>2, <3>3 DEF Readers
      <4> QED
        BY <4>1 DEF CanGoOn, Removable, At
    <3> QED
      BY <2>2, <3>1, <3>2, <3>3
  <2>3. CASE step[t] = "locking" /\ writer[target[t]] # None
    <3>1. writer[target[t]] \in Calls
      BY <2>1, <2>3 DEF TypeOK
    <3> QED
      BY <2>1, <2>2, <2>3, <3>1 DEF HolderInv
  <2>4. CASE step[t] = "locking" /\ writer[target[t]] = None
    BY <2>4 DEF CanGoOn
  <2>5. CASE step[t] \in {"locked", "waiting"}
    BY <2>2, <2>5
  <2>6. CASE step[t] \in {"connecting", "asking", "removing"}
    <3>1. step[t] = "removing" => method[t] = "Close"
      BY DEF LockInv
    <3> QED
      BY <2>6, <3>1 DEF CanGoOn, Removable, At
  <2> QED
    BY <2>3, <2>4, <2>5, <2>6 DEF TypeOK
<1>3. Inv => TypeInv /\ LockInv
  BY DEF Inv
<1> QED
  BY <1>1, <1>2, <1>3, HolderStep, Invariant, PTL DEF Spec
=============================================================================
