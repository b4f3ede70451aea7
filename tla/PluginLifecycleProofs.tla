----------------------- MODULE PluginLifecycleProofs -----------------------
(***************************************************************************)
(* Theorems about the plugin's life cycle, for every set of picoms.        *)
(***************************************************************************)
EXTENDS PluginLifecycle, FiniteSetTheorems, TLAPS

-----------------------------------------------------------------------------
(* The inductive invariant.                                                *)

\* The closures a context holds, by how far init or deinit is.
ClosuresAt(where) ==
    CASE where \in {"off", "dead", "init", "stopped"} -> {{}}
      [] where = "hooking" -> {{}, {"deinit"}, {"deinit", "present"}}
      [] where \in {"publish", "published"} -> {Hooks}
      [] where \in {"running", "deinit"} -> {{}, {"deinit"}, {"deinit", "present"}, Hooks}
      [] where = "drop" -> {{"deinit"}}

\* The reference init itself holds while it works on the context.
Own(where) == IF where \in {"hooking", "publish", "published"} THEN 1 ELSE 0

\* References are those of closures, finished and not, and that of init; picom
\* calls no hook before or after its closure is there.
OwnedAt(where, cs, is, n, l) ==
    /\ cs \in ClosuresAt(where)
    /\ is = IF where \in {"hooking", "publish", "published", "running"} THEN cs ELSE {}
    /\ l \in {0, 1}
    /\ n = Cardinality(cs) + l + Own(where)
    /\ where \in {"off", "dead", "hooking", "publish", "published"} => l = 0
    /\ where = "deinit" => "deinit" \in cs

Owned(p) == OwnedAt(pc[p], closures[p], installed[p], count[p], leaked[p])

ClosureInv == \A p \in Picoms : Owned(p)

\* The lock is with the server that works under it.
LockInv ==
    \A p \in Picoms :
        /\ server[p] \in {"clear", "announce", "bind", "listening"} => lock = p
        /\ server[p] = "listening" => file = p

\* Who has published, or serves, has left a cookie in its window.
CookieInv ==
    /\ owner # None => pc[owner] # "off"
    /\ \A p \in Picoms :
        /\ window[p] # None => pc[window[p]] # "off"
        /\ target[p] # None => pc[target[p]] # "off"
        /\ pc[p] \in {"off", "dead"} => server[p] = "off" /\ ~socket[p]
        /\ socket[p] => cookie[p] # None
        /\ pc[p] = "published" /\ Exists(window[p]) => cookie[window[p]] # None
        /\ server[p] # "off" /\ Exists(target[p]) => cookie[target[p]] # None

-----------------------------------------------------------------------------
(* Lemmas.                                                                 *)

LEMMA HookCounts ==
    /\ Cardinality({}) = 0
    /\ Cardinality({"deinit"}) = 1
    /\ Cardinality({"deinit", "present"}) = 2
    /\ Cardinality(Hooks) = 3
    /\ Cardinality({"present"}) = 1
    /\ Cardinality({"present", "root_change"}) = 2
<1>1. Cardinality({}) = 0 /\ IsFiniteSet({})
  BY FS_EmptySet
<1>2. \A x : Cardinality({x}) = 1 /\ IsFiniteSet({x})
  BY FS_Singleton
<1>3. /\ Cardinality({"deinit"} \cup {"present"}) = 2
      /\ IsFiniteSet({"deinit"} \cup {"present"})
  <2>1. "present" \notin {"deinit"} /\ IsFiniteSet({"deinit"}) /\ Cardinality({"deinit"}) = 1
    BY <1>2
  <2>2. Cardinality({"deinit"} \cup {"present"}) = Cardinality({"deinit"}) + 1
    BY <2>1, FS_AddElement
  <2> QED
    BY <2>1, <2>2, FS_AddElement
<1>4. Cardinality(({"deinit"} \cup {"present"}) \cup {"root_change"}) = 3
  <2>1. "root_change" \notin {"deinit"} \cup {"present"}
    OBVIOUS
  <2> QED
    BY <1>3, <2>1, FS_AddElement
<1>5. Cardinality({"present"} \cup {"root_change"}) = 2
  <2>1. "root_change" \notin {"present"} /\ IsFiniteSet({"present"}) /\ Cardinality({"present"}) = 1
    BY <1>2
  <2>2. Cardinality({"present"} \cup {"root_change"}) = Cardinality({"present"}) + 1
    BY <2>1, FS_AddElement
  <2> QED
    BY <2>1, <2>2
<1>6. /\ {"deinit"} \cup {"present"} = {"deinit", "present"}
      /\ {"present"} \cup {"root_change"} = {"present", "root_change"}
      /\ ({"deinit"} \cup {"present"}) \cup {"root_change"} = Hooks
  BY DEF Hooks
<1> QED
  BY <1>1, <1>2, <1>3, <1>4, <1>5, <1>6

\* What a step of p does not touch stays as it was.
LEMMA OthersOwned ==
    ASSUME ClosureInv, NEW p \in Picoms, Owned(p)',
           \A q \in Picoms : q # p =>
               /\ pc'[q] = pc[q] /\ closures'[q] = closures[q] /\ installed'[q] = installed[q]
               /\ count'[q] = count[q] /\ leaked'[q] = leaked[q]
    PROVE  ClosureInv'
<1>1. ASSUME NEW q \in Picoms, q # p PROVE Owned(q)'
  BY <1>1 DEF ClosureInv, Owned
<1> QED
  BY <1>1 DEF ClosureInv

\* The count of references in numbers.
LEMMA OwnedParts ==
    ASSUME NEW where, NEW cs, NEW is, NEW n, NEW l, OwnedAt(where, cs, is, n, l),
           where \in {"off", "init", "hooking", "publish", "published", "running",
                      "deinit", "drop", "stopped", "dead"}
    PROVE  /\ cs \in {{}, {"deinit"}, {"deinit", "present"}, Hooks}
           /\ Cardinality(cs) \in {0, 1, 2, 3} /\ l \in {0, 1} /\ n \in 0..4
<1>1. cs \in {{}, {"deinit"}, {"deinit", "present"}, Hooks}
  BY DEF OwnedAt, ClosuresAt
<1>2. Cardinality(cs) \in {0, 1, 2, 3}
  BY <1>1, HookCounts
<1>3. l + Own(where) \in {0, 1} /\ l \in {0, 1} /\ Own(where) \in {0, 1}
  BY DEF OwnedAt, Own
<1>4. n = Cardinality(cs) + (l + Own(where))
  BY <1>2, <1>3 DEF OwnedAt
<1> QED
  BY <1>1, <1>2, <1>3, <1>4

\* The variables ClosureInv is not about.
RestTypeOK ==
    /\ window \in [Picoms -> Picoms \cup {None}]
    /\ pwTx \in [Picoms -> BOOLEAN] /\ gl \in [Picoms -> BOOLEAN]
    /\ target \in [Picoms -> Picoms \cup {None}]
    /\ server \in [Picoms -> {"off", "lock", "clear", "announce", "bind", "listening", "ended"}]
    /\ lock \in Picoms \cup {None} /\ file \in Picoms \cup {None}
    /\ owner \in Picoms \cup {None}
    /\ cookie \in [Picoms -> Picoms \cup {None}] /\ socket \in [Picoms -> BOOLEAN]

Steps == {"off", "init", "hooking", "publish", "published", "running",
          "deinit", "drop", "stopped", "dead"}

MainTypeOK ==
    /\ pc \in [Picoms -> Steps]
    /\ installed \in [Picoms -> SUBSET Hooks] /\ closures \in [Picoms -> SUBSET Hooks]
    /\ count \in [Picoms -> 0..4] /\ leaked \in [Picoms -> 0..1]

LEMMA TypeParts == TypeOK <=> MainTypeOK /\ RestTypeOK
BY DEF TypeOK, MainTypeOK, RestTypeOK, Steps

\* A step of picom p that leaves its context in order keeps everybody's.
LEMMA StepKeeps ==
    ASSUME MainTypeOK, ClosureInv, NEW p \in Picoms,
           NEW to \in Steps, NEW cs, NEW is, NEW n, NEW l, OwnedAt(to, cs, is, n, l),
           pc' = [pc EXCEPT ![p] = to], closures' = [closures EXCEPT ![p] = cs],
           installed' = [installed EXCEPT ![p] = is],
           count' = [count EXCEPT ![p] = n], leaked' = [leaked EXCEPT ![p] = l]
    PROVE  MainTypeOK' /\ ClosureInv'
<1>1. cs \in SUBSET Hooks /\ is \in SUBSET Hooks /\ l \in 0..1 /\ n \in 0..4
  <2>1. cs \in {{}, {"deinit"}, {"deinit", "present"}, Hooks} /\ l \in {0, 1} /\ n \in 0..4
    BY OwnedParts DEF Steps
  <2>2. is = cs \/ is = {}
    BY DEF OwnedAt
  <2> QED
    BY <2>1, <2>2 DEF Hooks
<1>2. MainTypeOK'
  BY <1>1 DEF MainTypeOK
<1>3. /\ pc'[p] = to /\ closures'[p] = cs /\ installed'[p] = is
      /\ count'[p] = n /\ leaked'[p] = l
  BY DEF MainTypeOK
<1>4. Owned(p)'
  BY <1>3 DEF Owned
<1>5. \A q \in Picoms : q # p =>
        /\ pc'[q] = pc[q] /\ closures'[q] = closures[q] /\ installed'[q] = installed[q]
        /\ count'[q] = count[q] /\ leaked'[q] = leaked[q]
  BY DEF MainTypeOK
<1> QED
  BY <1>2, <1>4, <1>5, OthersOwned

\* What a step leaves as it is it gives the value it had.
LEMMA Unchanged ==
    ASSUME MainTypeOK, NEW p \in Picoms
    PROVE  /\ pc = [pc EXCEPT ![p] = pc[p]]
           /\ closures = [closures EXCEPT ![p] = closures[p]]
           /\ installed = [installed EXCEPT ![p] = installed[p]]
           /\ count = [count EXCEPT ![p] = count[p]]
           /\ leaked = [leaked EXCEPT ![p] = leaked[p]]
BY DEF MainTypeOK

LEMMA OwnedNow ==
    ASSUME MainTypeOK, ClosureInv, NEW p \in Picoms
    PROVE  /\ OwnedAt(pc[p], closures[p], installed[p], count[p], leaked[p])
           /\ pc[p] \in Steps /\ count[p] \in 0..4 /\ leaked[p] \in {0, 1}
           /\ closures[p] \in {{}, {"deinit"}, {"deinit", "present"}, Hooks}
           /\ Cardinality(closures[p]) \in {0, 1, 2, 3}
<1>1. OwnedAt(pc[p], closures[p], installed[p], count[p], leaked[p])
  BY DEF ClosureInv, Owned
<1>2. pc[p] \in Steps
  BY DEF MainTypeOK
<1> QED
  BY <1>1, <1>2, OwnedParts DEF Steps

-----------------------------------------------------------------------------
(* Each action leaves the context of its picom in order.                   *)

\* picom starts, is reset or makes its context.
LEMMA StartKeeps ==
    ASSUME MainTypeOK, ClosureInv, NEW p \in Picoms,
           Start(p) \/ Reset(p) \/ MakeContext(p) \/ InitFails(p)
    PROVE  MainTypeOK' /\ ClosureInv'
<1>0. OwnedAt(pc[p], closures[p], installed[p], count[p], leaked[p])
  BY OwnedNow
<1>1. CASE Start(p)
  <2>1. OwnedAt("init", closures[p], installed[p], count[p], leaked[p])
    BY <1>0, <1>1, OwnedNow, HookCounts DEF Start, Go, OwnedAt, ClosuresAt, Own, Hooks
  <2>2. /\ pc' = [pc EXCEPT ![p] = "init"] /\ closures' = [closures EXCEPT ![p] = closures[p]]
        /\ installed' = [installed EXCEPT ![p] = installed[p]]
        /\ count' = [count EXCEPT ![p] = count[p]] /\ leaked' = [leaked EXCEPT ![p] = leaked[p]]
    BY <1>1, Unchanged DEF Start, Go
  <2> QED
    BY <2>1, <2>2, StepKeeps DEF Steps
<1>2. CASE Reset(p)
  <2>1. OwnedAt("init", closures[p], installed[p], count[p], leaked[p])
    BY <1>0, <1>2, OwnedNow, HookCounts DEF Reset, Go, OwnedAt, ClosuresAt, Own, Hooks
  <2>2. /\ pc' = [pc EXCEPT ![p] = "init"] /\ closures' = [closures EXCEPT ![p] = closures[p]]
        /\ installed' = [installed EXCEPT ![p] = installed[p]]
        /\ count' = [count EXCEPT ![p] = count[p]] /\ leaked' = [leaked EXCEPT ![p] = leaked[p]]
    BY <1>2, Unchanged DEF Reset, Go
  <2> QED
    BY <2>1, <2>2, StepKeeps DEF Steps
<1>3. CASE MakeContext(p)
  <2>0. closures[p] = {} /\ installed[p] = {}
    BY <1>0, <1>3 DEF MakeContext, Go, OwnedAt, ClosuresAt
  <2>1. OwnedAt("hooking", closures[p], installed[p], 1, 0)
    BY <2>0, HookCounts DEF OwnedAt, ClosuresAt, Own
  <2>2. /\ pc' = [pc EXCEPT ![p] = "hooking"] /\ closures' = [closures EXCEPT ![p] = closures[p]]
        /\ installed' = [installed EXCEPT ![p] = installed[p]]
        /\ count' = [count EXCEPT ![p] = 1] /\ leaked' = [leaked EXCEPT ![p] = 0]
    BY <1>3, Unchanged DEF MakeContext, Go
  <2> QED
    BY <2>1, <2>2, StepKeeps DEF Steps
<1>4. CASE InitFails(p)
  <2>0. closures[p] = {} /\ installed[p] = {}
    BY <1>0, <1>4 DEF InitFails, Go, OwnedAt, ClosuresAt
  <2>1. OwnedAt("running", closures[p], installed[p], 0, 0)
    BY <2>0, HookCounts DEF OwnedAt, ClosuresAt, Own
  <2>2. /\ pc' = [pc EXCEPT ![p] = "running"] /\ closures' = [closures EXCEPT ![p] = closures[p]]
        /\ installed' = [installed EXCEPT ![p] = installed[p]]
        /\ count' = [count EXCEPT ![p] = 0] /\ leaked' = [leaked EXCEPT ![p] = 0]
    BY <1>4, Unchanged DEF InitFails, Go
  <2> QED
    BY <2>1, <2>2, StepKeeps DEF Steps
<1> QED
  BY <1>1, <1>2, <1>3, <1>4

\* Hooks fail, or the cookie is published.
LEMMA PublishKeeps ==
    ASSUME MainTypeOK, ClosureInv, NEW p \in Picoms,
           HookFails(p) \/ Publish(p) \/ PublishFails(p)
    PROVE  MainTypeOK' /\ ClosureInv'
<1>0. OwnedAt(pc[p], closures[p], installed[p], count[p], leaked[p])
  BY OwnedNow
<1>1. CASE HookFails(p)
  <2>1. OwnedAt("running", closures[p], installed[p], count[p], leaked[p] + 1)
    BY <1>0, <1>1, OwnedNow, HookCounts DEF HookFails, Go, OwnedAt, ClosuresAt, Own, Hooks
  <2>2. /\ pc' = [pc EXCEPT ![p] = "running"] /\ closures' = [closures EXCEPT ![p] = closures[p]]
        /\ installed' = [installed EXCEPT ![p] = installed[p]]
        /\ count' = [count EXCEPT ![p] = count[p]] /\ leaked' = [leaked EXCEPT ![p] = leaked[p] + 1]
    BY <1>1, Unchanged DEF HookFails, Go
  <2> QED
    BY <2>1, <2>2, StepKeeps DEF Steps
<1>2. CASE Publish(p)
  <2>1. OwnedAt("published", closures[p], installed[p], count[p], leaked[p])
    BY <1>0, <1>2, OwnedNow, HookCounts DEF Publish, Go, OwnedAt, ClosuresAt, Own, Hooks
  <2>2. /\ pc' = [pc EXCEPT ![p] = "published"] /\ closures' = [closures EXCEPT ![p] = closures[p]]
        /\ installed' = [installed EXCEPT ![p] = installed[p]]
        /\ count' = [count EXCEPT ![p] = count[p]] /\ leaked' = [leaked EXCEPT ![p] = leaked[p]]
    BY <1>2, Unchanged DEF Publish, Go
  <2> QED
    BY <2>1, <2>2, StepKeeps DEF Steps
<1>3. CASE PublishFails(p)
  <2>1. OwnedAt("running", closures[p], installed[p], count[p] - 1, leaked[p])
    BY <1>0, <1>3, OwnedNow, HookCounts DEF PublishFails, Go, OwnedAt, ClosuresAt, Own, Hooks
  <2>2. /\ pc' = [pc EXCEPT ![p] = "running"] /\ closures' = [closures EXCEPT ![p] = closures[p]]
        /\ installed' = [installed EXCEPT ![p] = installed[p]]
        /\ count' = [count EXCEPT ![p] = count[p] - 1] /\ leaked' = [leaked EXCEPT ![p] = leaked[p]]
    BY <1>3, Unchanged DEF PublishFails, Go
  <2> QED
    BY <2>1, <2>2, StepKeeps DEF Steps
<1> QED
  BY <1>1, <1>2, <1>3

\* The process ends.
LEMMA ExitKeeps ==
    ASSUME MainTypeOK, ClosureInv, NEW p \in Picoms,
           Exit(p)
    PROVE  MainTypeOK' /\ ClosureInv'
<1>0. OwnedAt(pc[p], closures[p], installed[p], count[p], leaked[p])
  BY OwnedNow
<1>1. CASE Exit(p)
  <2>1. OwnedAt("dead", {}, {}, 0, 0)
    BY <1>0, <1>1, OwnedNow, HookCounts DEF Exit, Go, OwnedAt, ClosuresAt, Own, Hooks
  <2>2. /\ pc' = [pc EXCEPT ![p] = "dead"] /\ closures' = [closures EXCEPT ![p] = {}]
        /\ installed' = [installed EXCEPT ![p] = {}]
        /\ count' = [count EXCEPT ![p] = 0] /\ leaked' = [leaked EXCEPT ![p] = 0]
    BY <1>1, Unchanged DEF Exit, Go
  <2> QED
    BY <2>1, <2>2, StepKeeps DEF Steps
<1> QED
  BY <1>1

\* Init is done, or picom presents or unloads the backend.
LEMMA DoneKeeps ==
    ASSUME MainTypeOK, ClosureInv, NEW p \in Picoms,
           (InitDone(p) \/ Present(p) \/ Deinit(p)) /\ ~Exit(p)
    PROVE  MainTypeOK' /\ ClosureInv'
<1>0. OwnedAt(pc[p], closures[p], installed[p], count[p], leaked[p])
  BY OwnedNow
<1>1. CASE InitDone(p) /\ ~Exit(p)
  <2>1. OwnedAt("running", closures[p], installed[p], count[p] - 1, leaked[p])
    BY <1>0, <1>1, OwnedNow, HookCounts DEF InitDone, Go, OwnedAt, ClosuresAt, Own, Hooks
  <2>2. /\ pc' = [pc EXCEPT ![p] = "running"] /\ closures' = [closures EXCEPT ![p] = closures[p]]
        /\ installed' = [installed EXCEPT ![p] = installed[p]]
        /\ count' = [count EXCEPT ![p] = count[p] - 1] /\ leaked' = [leaked EXCEPT ![p] = leaked[p]]
    BY <1>1, Unchanged DEF InitDone, Go
  <2> QED
    BY <2>1, <2>2, StepKeeps DEF Steps
<1>2. CASE Present(p) /\ ~Exit(p)
  <2>1. OwnedAt(pc[p], closures[p], installed[p], count[p], leaked[p])
    BY <1>0, <1>2, OwnedNow, HookCounts DEF Present, Go, OwnedAt, ClosuresAt, Own, Hooks
  <2>2. /\ pc' = [pc EXCEPT ![p] = pc[p]] /\ closures' = [closures EXCEPT ![p] = closures[p]]
        /\ installed' = [installed EXCEPT ![p] = installed[p]]
        /\ count' = [count EXCEPT ![p] = count[p]] /\ leaked' = [leaked EXCEPT ![p] = leaked[p]]
    BY <1>2, Unchanged DEF Present, Go
  <2> QED
    BY <2>1, <2>2, OwnedNow, StepKeeps
<1>3. CASE Deinit(p) /\ "deinit" \in installed[p] /\ ~Exit(p)
  <2>1. OwnedAt("deinit", closures[p], {}, count[p], leaked[p])
    BY <1>0, <1>3, OwnedNow, HookCounts DEF Deinit, Go, OwnedAt, ClosuresAt, Own, Hooks
  <2>2. /\ pc' = [pc EXCEPT ![p] = "deinit"] /\ closures' = [closures EXCEPT ![p] = closures[p]]
        /\ installed' = [installed EXCEPT ![p] = {}]
        /\ count' = [count EXCEPT ![p] = count[p]] /\ leaked' = [leaked EXCEPT ![p] = leaked[p]]
    BY <1>3, Unchanged DEF Deinit, Go
  <2> QED
    BY <2>1, <2>2, StepKeeps DEF Steps
<1>4. CASE Deinit(p) /\ "deinit" \notin installed[p] /\ ~Exit(p)
  <2>1. OwnedAt("stopped", closures[p], installed[p], count[p], leaked[p])
    BY <1>0, <1>4, OwnedNow, HookCounts DEF Deinit, Go, OwnedAt, ClosuresAt, Own, Hooks
  <2>2. /\ pc' = [pc EXCEPT ![p] = "stopped"] /\ closures' = [closures EXCEPT ![p] = closures[p]]
        /\ installed' = [installed EXCEPT ![p] = installed[p]]
        /\ count' = [count EXCEPT ![p] = count[p]] /\ leaked' = [leaked EXCEPT ![p] = leaked[p]]
    BY <1>4, Unchanged DEF Deinit, Go
  <2> QED
    BY <2>1, <2>2, StepKeeps DEF Steps
<1> QED
  BY <1>1, <1>2, <1>3, <1>4

\* The next closure is made and hooked in.
LEMMA InstallKeeps ==
    ASSUME MainTypeOK, ClosureInv, NEW p \in Picoms, InstallHook(p)
    PROVE  MainTypeOK' /\ ClosureInv'
<1> DEFINE more == closures[p] \cup {NextHook(p)}
           to == IF NextHook(p) = "root_change" THEN "publish" ELSE "hooking"
<1>0. OwnedAt("hooking", closures[p], installed[p], count[p], leaked[p]) /\ pc[p] = "hooking"
  BY OwnedNow DEF InstallHook, Go
<1>1. closures[p] \in {{}, {"deinit"}, {"deinit", "present"}}
  BY <1>0 DEF OwnedAt, ClosuresAt
<1>2. /\ more \in {{"deinit"}, {"deinit", "present"}, Hooks}
      /\ NextHook(p) = "root_change" <=> more = Hooks
      /\ Cardinality(more) = Cardinality(closures[p]) + 1
      /\ Cardinality(closures[p]) \in {0, 1, 2}
  <2>1. CASE closures[p] = {}
    <3>1. NextHook(p) = "deinit" /\ more = {"deinit"}
      BY <2>1 DEF NextHook
    <3> QED
      BY <2>1, <3>1, HookCounts DEF Hooks
  <2>2. CASE closures[p] = {"deinit"}
    <3>1. NextHook(p) = "present" /\ more = {"deinit", "present"}
      BY <2>2 DEF NextHook
    <3> QED
      BY <2>2, <3>1, HookCounts DEF Hooks
  <2>3. CASE closures[p] = {"deinit", "present"}
    <3>1. NextHook(p) = "root_change" /\ more = Hooks
      BY <2>3 DEF NextHook, Hooks
    <3> QED
      BY <2>3, <3>1, HookCounts DEF Hooks
  <2> QED
    BY <1>1, <2>1, <2>2, <2>3
<1>3. to \in {"hooking", "publish"} /\ more \in ClosuresAt(to)
  BY <1>2 DEF ClosuresAt
<1>4. count[p] = Cardinality(closures[p]) + 0 + 1 /\ leaked[p] = 0 /\ installed[p] = closures[p]
  BY <1>0 DEF OwnedAt, Own
<1>5. OwnedAt(to, more, more, count[p] + 1, leaked[p])
  BY <1>2, <1>3, <1>4 DEF OwnedAt, Own
<1>6. /\ pc' = [pc EXCEPT ![p] = to] /\ closures' = [closures EXCEPT ![p] = more]
      /\ installed' = [installed EXCEPT ![p] = more]
      /\ count' = [count EXCEPT ![p] = count[p] + 1] /\ leaked' = [leaked EXCEPT ![p] = leaked[p]]
  BY <1>4, Unchanged DEF InstallHook, Go
<1> QED
  BY <1>3, <1>5, <1>6, StepKeeps DEF Steps

\* Closures are dropped, at last the one that runs.
LEMMA DropKeeps ==
    ASSUME MainTypeOK, ClosureInv, NEW p \in Picoms, DeinitBorrowed(p) \/ DeinitDrop(p)
    PROVE  MainTypeOK' /\ ClosureInv'
<1>0. OwnedAt(pc[p], closures[p], installed[p], count[p], leaked[p])
  BY OwnedNow
<1>1. CASE DeinitBorrowed(p)
  <2> DEFINE gone == closures[p] \cap {"present", "root_change"}
  <2>1. pc[p] = "deinit" /\ "deinit" \in closures[p] /\ installed[p] = {}
    BY <1>0, <1>1 DEF DeinitBorrowed, Go, OwnedAt
  <2>2. closures[p] \in {{"deinit"}, {"deinit", "present"}, Hooks}
    BY <2>1, OwnedNow
  <2>3. closures[p] \ {"present", "root_change"} = {"deinit"}
    BY <2>2 DEF Hooks
  <2>4. Cardinality(closures[p]) = Cardinality(gone) + 1 /\ Cardinality(gone) \in {0, 1, 2}
    <3>1. CASE closures[p] = {"deinit"}
      <4>1. gone = {}
        BY <3>1
      <4> QED
        BY <3>1, <4>1, HookCounts
    <3>2. CASE closures[p] = {"deinit", "present"}
      <4>1. gone = {"present"}
        BY <3>2
      <4> QED
        BY <3>2, <4>1, HookCounts
    <3>3. CASE closures[p] = Hooks
      <4>1. gone = {"present", "root_change"}
        BY <3>3 DEF Hooks
      <4> QED
        BY <3>3, <4>1, HookCounts
    <3> QED
      BY <2>2, <3>1, <3>2, <3>3
  <2>5. count[p] = Cardinality(closures[p]) + leaked[p] + 0 /\ leaked[p] \in {0, 1}
    BY <1>0, <2>1 DEF OwnedAt, Own
  <2>6. count[p] - Cardinality(gone) = 1 + leaked[p] + 0
    BY <2>4, <2>5
  <2>7. OwnedAt("drop", {"deinit"}, {}, 1 + leaked[p] + 0, leaked[p])
    BY <2>5, HookCounts DEF OwnedAt, ClosuresAt, Own
  <2>8. /\ pc' = [pc EXCEPT ![p] = "drop"] /\ closures' = [closures EXCEPT ![p] = {"deinit"}]
        /\ installed' = [installed EXCEPT ![p] = {}]
        /\ count' = [count EXCEPT ![p] = 1 + leaked[p] + 0]
        /\ leaked' = [leaked EXCEPT ![p] = leaked[p]]
    BY <1>1, <2>1, <2>3, <2>6, Unchanged DEF DeinitBorrowed, Drop, Go
  <2> QED
    BY <2>7, <2>8, StepKeeps DEF Steps
<1>2. CASE DeinitDrop(p)
  <2>1. pc[p] = "drop" /\ closures[p] = {"deinit"} /\ installed[p] = {}
    BY <1>0, <1>2 DEF DeinitDrop, Go, OwnedAt, ClosuresAt
  <2>2. closures[p] \ {"deinit"} = {} /\ closures[p] \cap {"deinit"} = {"deinit"}
    BY <2>1
  <2>3. Cardinality(closures[p]) = 1 /\ Cardinality(closures[p] \cap {"deinit"}) = 1
    BY <2>1, <2>2, HookCounts
  <2>4. count[p] = 1 + leaked[p] + 0 /\ leaked[p] \in {0, 1}
    BY <1>0, <2>1, <2>3 DEF OwnedAt, Own
  <2>5. count[p] - Cardinality(closures[p] \cap {"deinit"}) = 0 + leaked[p] + 0
    BY <2>3, <2>4
  <2>6. OwnedAt("stopped", {}, {}, 0 + leaked[p] + 0, leaked[p])
    BY <2>4, HookCounts DEF OwnedAt, ClosuresAt, Own
  <2>7. /\ pc' = [pc EXCEPT ![p] = "stopped"] /\ closures' = [closures EXCEPT ![p] = {}]
        /\ installed' = [installed EXCEPT ![p] = {}]
        /\ count' = [count EXCEPT ![p] = 0 + leaked[p] + 0]
        /\ leaked' = [leaked EXCEPT ![p] = leaked[p]]
    BY <1>2, <2>1, <2>2, <2>5, Unchanged DEF DeinitDrop, Drop, Go
  <2> QED
    BY <2>6, <2>7, StepKeeps DEF Steps
<1> QED
  BY <1>1, <1>2

\* The server thread has no part in it.
LEMMA ServerKeeps ==
    ASSUME MainTypeOK, ClosureInv, NEW p \in Picoms, ServerThread(p)
    PROVE  MainTypeOK' /\ ClosureInv'
<1>1. UNCHANGED mainVars
  BY DEF ServerThread, ServerLock, ServerClear, ServerAnnounce, ServerBind, ServerFails
<1> QED
  BY <1>1 DEF mainVars, MainTypeOK, ClosureInv, Owned

\* The other variables keep their types.
LEMMA RestKeeps ==
    ASSUME RestTypeOK, NEW p \in Picoms,
           Start(p) \/ Reset(p) \/ Die(p) \/ Picom(p) \/ ServerThread(p)
    PROVE  RestTypeOK'
<1>1. ASSUME Exit(p) PROVE RestTypeOK'
  BY <1>1 DEF Exit, RestTypeOK
<1>2. ASSUME Start(p) \/ Reset(p) \/ MakeContext(p) \/ InitFails(p) \/ InstallHook(p) \/ HookFails(p)
      PROVE  RestTypeOK'
  BY <1>2 DEF Start, Reset, MakeContext, InitFails, InstallHook, HookFails,
              RestTypeOK, serverVars, displayVars
<1>3. ASSUME Publish(p) \/ PublishFails(p) \/ (InitDone(p) /\ ~Exit(p))
      PROVE  RestTypeOK'
  BY <1>3 DEF Publish, PublishFails, InitDone, Exists, RestTypeOK, serverVars, displayVars
<1>4. ASSUME \/ (Present(p) \/ Deinit(p)) /\ ~Exit(p)
             \/ DeinitBorrowed(p) \/ DeinitDrop(p)
      PROVE  RestTypeOK'
  BY <1>4 DEF Present, Deinit, DeinitBorrowed, DeinitDrop, RestTypeOK, serverVars, displayVars
<1>5. ASSUME ServerThread(p) PROVE RestTypeOK'
  BY <1>5 DEF ServerThread, ServerLock, ServerClear, ServerAnnounce, ServerBind, ServerFails,
              Serves, RestTypeOK, mainVars, displayVars
<1> QED
  BY <1>1, <1>2, <1>3, <1>4, <1>5 DEF Picom, Die

LEMMA NextKeepsClosures ==
    ASSUME TypeOK, ClosureInv, [Next]_vars
    PROVE  TypeOK' /\ ClosureInv'
<1>1. CASE UNCHANGED vars
  BY <1>1 DEF vars, mainVars, serverVars, displayVars, TypeOK, ClosureInv, Owned
<1>2. ASSUME NEW p \in Picoms,
             Start(p) \/ Reset(p) \/ Die(p) \/ Picom(p) \/ ServerThread(p)
      PROVE  TypeOK' /\ ClosureInv'
  <2>1. MainTypeOK /\ RestTypeOK
    BY TypeParts
  <2>2. MainTypeOK' /\ ClosureInv'
    BY <1>2, <2>1, StartKeeps, PublishKeeps, ExitKeeps, DoneKeeps, InstallKeeps, DropKeeps,
       ServerKeeps DEF Picom, Die
  <2>3. RestTypeOK'
    BY <1>2, <2>1, RestKeeps
  <2>4. TypeOK' <=> MainTypeOK' /\ RestTypeOK'
    BY TypeParts, PTL
  <2> QED
    BY <2>2, <2>3, <2>4
<1> QED
  BY <1>1, <1>2 DEF Next

LEMMA InitClosures == Init => TypeOK /\ ClosureInv
BY HookCounts DEF Init, TypeOK, ClosureInv, Owned, OwnedAt, ClosuresAt, Own

LEMMA ClosuresAlways == Spec => [](TypeOK /\ ClosureInv)
<1>1. TypeOK /\ ClosureInv /\ [Next]_vars => (TypeOK /\ ClosureInv)'
  BY NextKeepsClosures
<1> QED
  BY InitClosures, <1>1, PTL DEF Spec
-----------------------------------------------------------------------------
\* Type correctness of picoms, their contexts and servers, and of the display.
THEOREM TypeCorrect == Spec => []TypeOK
BY ClosuresAlways, PTL

\* No closure is dropped while picom may call it, no context while it is borrowed,
\* and deinit leaves nothing behind.
THEOREM ContextsLiveAndDie == Spec => []ContextLifetime
<1>1. ASSUME TypeOK, ClosureInv PROVE ContextLifetime
  <2>1. MainTypeOK
    BY <1>1, TypeParts
  <2>2. ASSUME NEW p \in Picoms
        PROVE  /\ installed[p] \subseteq closures[p]
               /\ installed[p] # {} \/ pc[p] \in {"hooking", "deinit", "drop"} => count[p] > 0
               /\ pc[p] = "stopped" /\ leaked[p] = 0 => count[p] = 0
    <3>1. OwnedAt(pc[p], closures[p], installed[p], count[p], leaked[p])
      BY <1>1, <2>1, OwnedNow
    <3>2. /\ closures[p] \in {{}, {"deinit"}, {"deinit", "present"}, Hooks}
          /\ leaked[p] \in {0, 1} /\ Cardinality(closures[p]) \in {0, 1, 2, 3}
          /\ count[p] = Cardinality(closures[p]) + leaked[p] + Own(pc[p])
          /\ Own(pc[p]) \in {0, 1}
      BY <1>1, <2>1, <3>1, OwnedNow DEF OwnedAt, Own
    <3>3. closures[p] # {} => Cardinality(closures[p]) > 0
      <4>1. closures[p] # {} => closures[p] \in {{"deinit"}, {"deinit", "present"}, Hooks}
        BY <3>2
      <4> QED
        BY <4>1, HookCounts
    <3>4. installed[p] \subseteq closures[p]
      BY <3>1 DEF OwnedAt
    <3>5. ASSUME installed[p] # {} \/ pc[p] \in {"hooking", "deinit", "drop"} PROVE count[p] > 0
      <4>1. CASE pc[p] = "hooking"
        BY <4>1, <3>2 DEF Own
      <4>2. CASE pc[p] # "hooking"
        <5>1. closures[p] # {}
          BY <3>1, <3>4, <3>5, <4>2 DEF OwnedAt, ClosuresAt
        <5> QED
          BY <5>1, <3>2, <3>3
      <4> QED
        BY <4>1, <4>2
    <3>6. ASSUME pc[p] = "stopped", leaked[p] = 0 PROVE count[p] = 0
      <4>1. closures[p] = {} /\ Own(pc[p]) = 0
        BY <3>1, <3>6 DEF OwnedAt, ClosuresAt, Own
      <4> QED
        BY <3>2, <3>6, <4>1, HookCounts
    <3> QED
      BY <3>4, <3>5, <3>6
  <2> QED
    BY <2>2 DEF ContextLifetime
<1> QED
  BY <1>1, ClosuresAlways, PTL

-----------------------------------------------------------------------------
\* The socket of a server that listens is left alone: whoever would remove it
\* or put another in its place has the lock.
THEOREM SocketsServed == Spec => []SocketServed
<1>1. Init => LockInv
  BY DEF Init, LockInv
<1>2. ASSUME TypeOK, LockInv, [Next]_vars PROVE LockInv'
  <2> USE DEF LockInv, Serves, mainVars, serverVars, displayVars
  <2>1. CASE UNCHANGED vars
    BY <1>2, <2>1 DEF vars
  <2>2. ASSUME NEW p \in Picoms, Exit(p) PROVE LockInv'
    BY <1>2, <2>2 DEF Exit, TypeOK
  <2>3. ASSUME NEW p \in Picoms, Start(p) \/ Reset(p) \/ (Picom(p) /\ ~Exit(p)) PROVE LockInv'
    <3>1. UNCHANGED <<lock, file>>
      BY <2>3 DEF Start, Reset, Picom, MakeContext, InitFails, InstallHook, HookFails, Publish,
                  PublishFails, InitDone, Present, Deinit, DeinitBorrowed, DeinitDrop
    <3>2. server' = server \/ server' = [server EXCEPT ![p] = "lock"]
      BY <2>3 DEF Start, Reset, Picom, MakeContext, InitFails, InstallHook, HookFails, Publish,
                  PublishFails, InitDone, Present, Deinit, DeinitBorrowed, DeinitDrop
    <3> QED
      BY <1>2, <3>1, <3>2 DEF TypeOK
  <2>4. ASSUME NEW p \in Picoms, ServerThread(p) PROVE LockInv'
    <3>1. CASE ServerLock(p)
      <4>1. \/ lock = None /\ lock' = p /\ server' = [server EXCEPT ![p] = "clear"] /\ file' = file
            \/ lock' = lock /\ server' = [server EXCEPT ![p] = "ended"] /\ file' = file
        BY <3>1 DEF ServerLock
      <4>2. lock = None => \A q \in Picoms : server[q] \notin {"clear", "announce", "bind", "listening"}
        BY <1>2, PicomsFinite
      <4>3. server \in [Picoms -> {"off", "lock", "clear", "announce", "bind", "listening", "ended"}]
        BY <1>2 DEF TypeOK
      <4> QED
        BY <1>2, <4>1, <4>2, <4>3
    <3>2. CASE ServerClear(p) \/ ServerAnnounce(p)
      BY <1>2, <3>2 DEF ServerClear, ServerAnnounce, TypeOK
    <3>3. CASE ServerBind(p)
      BY <1>2, <3>3 DEF ServerBind, TypeOK
    <3>4. CASE ServerFails(p)
      BY <1>2, <3>4 DEF ServerFails, TypeOK
    <3> QED
      BY <2>4, <3>1, <3>2, <3>3, <3>4 DEF ServerThread
  <2> QED
    BY <1>2, <2>1, <2>2, <2>3, <2>4 DEF Next, Die
<1>3. TypeOK /\ LockInv /\ [Next]_vars => LockInv'
  BY <1>2
<1>4. LockInv => SocketServed
  BY DEF LockInv, SocketServed
<1> QED
  BY <1>1, <1>3, <1>4, TypeCorrect, PTL DEF Spec

-----------------------------------------------------------------------------
\* A window that shows a socket shows a cookie, whichever picom put either there.
THEOREM CookiesComeFirst == Spec => []CookieBeforeSocket
<1>1. Init => CookieInv
  BY DEF Init, CookieInv
<1>2. ASSUME TypeOK, CookieInv, [Next]_vars PROVE CookieInv'
  <2> USE PicomsFinite DEF CookieInv, Go, Serves, Exists, Alive, mainVars, serverVars, displayVars
  <2>1. CASE UNCHANGED vars
    BY <1>2, <2>1 DEF vars
  <2>2. ASSUME NEW p \in Picoms, Exit(p) PROVE CookieInv'
    BY <1>2, <2>2 DEF Exit, TypeOK
  <2>3. ASSUME NEW p \in Picoms, Start(p) PROVE CookieInv'
    BY <1>2, <2>3 DEF Start, TypeOK
  <2>4. ASSUME NEW p \in Picoms, MakeContext(p) PROVE CookieInv'
    BY <1>2, <2>4 DEF MakeContext, TypeOK
  <2>5. ASSUME NEW p \in Picoms, NEW from \in {"stopped", "init", "hooking", "publish", "running", "deinit", "drop"},
               NEW to \in {"init", "running", "publish", "hooking", "deinit", "drop", "stopped"},
               pc[p] = from, pc' = [pc EXCEPT ![p] = to],
               UNCHANGED <<window, serverVars, displayVars>>
        PROVE  CookieInv'
    BY <1>2, <2>5 DEF TypeOK
  <2>6. ASSUME NEW p \in Picoms, Publish(p) PROVE CookieInv'
    BY <1>2, <2>6 DEF Publish, TypeOK
  <2>7. ASSUME NEW p \in Picoms, InitDone(p), ~Exit(p) PROVE CookieInv'
    BY <1>2, <2>7 DEF InitDone, TypeOK
  <2>8. ASSUME NEW p \in Picoms, Present(p), ~Exit(p) PROVE CookieInv'
    BY <1>2, <2>8 DEF Present, TypeOK
  <2>9. ASSUME NEW p \in Picoms, ServerAnnounce(p) PROVE CookieInv'
    BY <1>2, <2>9 DEF ServerAnnounce, TypeOK
  <2>10. ASSUME NEW p \in Picoms,
                ServerLock(p) \/ ServerClear(p) \/ ServerBind(p) \/ ServerFails(p)
         PROVE  CookieInv'
    <3>1. /\ UNCHANGED <<mainVars, target, owner, cookie, socket>>
          /\ server[p] # "off"
          /\ \E to : server' = [server EXCEPT ![p] = to]
      BY <2>10 DEF ServerLock, ServerClear, ServerBind, ServerFails
    <3> QED
      BY <1>2, <3>1 DEF TypeOK
  <2>11. ASSUME NEW p \in Picoms,
                \/ Reset(p) \/ InitFails(p) \/ InstallHook(p) \/ HookFails(p) \/ PublishFails(p)
                \/ (Deinit(p) /\ ~Exit(p)) \/ DeinitBorrowed(p) \/ DeinitDrop(p)
         PROVE  CookieInv'
    <3>1. \E from \in {"stopped", "init", "hooking", "publish", "running", "deinit", "drop"},
             to \in {"init", "running", "publish", "hooking", "deinit", "drop", "stopped"} :
              /\ pc[p] = from /\ pc' = [pc EXCEPT ![p] = to]
              /\ UNCHANGED <<window, serverVars, displayVars>>
      BY <2>11 DEF Reset, InitFails, InstallHook, HookFails, PublishFails, Deinit,
                   DeinitBorrowed, DeinitDrop
    <3> QED
      BY <3>1, <2>5
  <2> QED
    BY <1>2, <2>1, <2>2, <2>3, <2>4, <2>6, <2>7, <2>8, <2>9, <2>10, <2>11
    DEF Next, Die, Picom, ServerThread
<1>3. TypeOK /\ CookieInv /\ [Next]_vars => CookieInv'
  BY <1>2
<1>4. CookieInv => CookieBeforeSocket
  BY DEF CookieInv, CookieBeforeSocket
<1> QED
  BY <1>1, <1>3, <1>4, TypeCorrect, PTL DEF Spec
=============================================================================
