-------------------------- MODULE PluginLifecycle --------------------------
(***************************************************************************)
(* How the plugin comes to life in a picom, hooks itself into picom's      *)
(* backend, makes itself known to portals, and goes.  Several picoms may   *)
(* be started on one display, one replacing the other.                     *)
(*                                                                         *)
(* The context is owned by the closures behind the hooks, and owns them:   *)
(* deinit breaks the cycle.  The server thread of a picom takes a lock     *)
(* file, removes the socket of whoever was there before, says in a window  *)
(* property where its socket is, and binds it.                              *)
(***************************************************************************)
EXTENDS Naturals, FiniteSets

CONSTANTS
    Picoms,   \* the processes, in this display's life; also their windows
    MayFail,  \* whether what init asks of EGL, GL, X and libffi may fail
    None

ASSUME PicomsFinite == IsFiniteSet(Picoms) /\ None \notin Picoms
ASSUME MayFailBoolean == MayFail \in BOOLEAN

Hooks == {"deinit", "present", "root_change"}

VARIABLES
    pc,         \* per picom: how far its main thread is
    window,     \* per picom: the owner of the compositor selection, as init saw it
    installed,  \* per picom: the hooks its backend calls
    closures,   \* per picom: the closures its context holds
    count,      \* per picom: strong_count of the Rc around the context
    leaked,     \* per picom: references of closures that were not finished
    pwTx,       \* per picom: pw_tx.is_some()
    gl,         \* per picom: EGL and GL are set
    server,     \* per picom: how far its server thread is
    target,     \* per picom: the window the server thread was given
    lock,       \* the picom that has the lock file
    file,       \* the picom whose socket is in the file system
    owner,      \* the picom that owns the compositor selection
    cookie,     \* per window: the picom whose cookie is in EGL_SCREENCAST_COOKIE
    socket      \* per window: whether EGL_SCREENCAST_SOCKET is set

mainVars == <<pc, window, installed, closures, count, leaked, pwTx, gl>>
displayVars == <<lock, file, owner, cookie, socket>>
serverVars == <<server, target>>
vars == <<mainVars, serverVars, displayVars>>

Init ==
    /\ pc = [p \in Picoms |-> "off"]
    /\ window = [p \in Picoms |-> None]
    /\ installed = [p \in Picoms |-> {}] /\ closures = [p \in Picoms |-> {}]
    /\ count = [p \in Picoms |-> 0] /\ leaked = [p \in Picoms |-> 0]
    /\ pwTx = [p \in Picoms |-> FALSE] /\ gl = [p \in Picoms |-> FALSE]
    /\ server = [p \in Picoms |-> "off"] /\ target = [p \in Picoms |-> None]
    /\ lock = None /\ file = None /\ owner = None
    /\ cookie = [p \in Picoms |-> None] /\ socket = [p \in Picoms |-> FALSE]

Alive(p) == pc[p] \notin {"off", "dead"}

Exists(w) == w # None /\ Alive(w)

Go(p, from, to) == pc[p] = from /\ pc' = [pc EXCEPT ![p] = to]

-----------------------------------------------------------------------------
(* picom's main thread. *)

\* picom starts: it takes the selection, then loads the backend.
Start(p) ==
    /\ Go(p, "off", "init")
    /\ owner' = p
    /\ UNCHANGED <<window, installed, closures, count, leaked, pwTx, gl, serverVars, lock, file,
                   cookie, socket>>

\* picom is reset: it loads the backend again in the same process.
Reset(p) ==
    /\ Go(p, "stopped", "init")
    /\ UNCHANGED <<window, installed, closures, count, leaked, pwTx, gl, serverVars, displayVars>>

\* The process is over: memory, locks, sockets and windows go, files stay.
Exit(p) ==
    /\ pc' = [pc EXCEPT ![p] = "dead"]
    /\ window' = [window EXCEPT ![p] = None]
    /\ installed' = [installed EXCEPT ![p] = {}] /\ closures' = [closures EXCEPT ![p] = {}]
    /\ count' = [count EXCEPT ![p] = 0] /\ leaked' = [leaked EXCEPT ![p] = 0]
    /\ pwTx' = [pwTx EXCEPT ![p] = FALSE] /\ gl' = [gl EXCEPT ![p] = FALSE]
    /\ server' = [server EXCEPT ![p] = "off"] /\ target' = [target EXCEPT ![p] = None]
    /\ lock' = IF lock = p THEN None ELSE lock
    /\ owner' = IF owner = p THEN None ELSE owner
    /\ cookie' = [cookie EXCEPT ![p] = None]
    /\ socket' = [socket EXCEPT ![p] = FALSE]
    /\ UNCHANGED file

Die(p) == Alive(p) /\ Exit(p)

\* Everything before the context is made; the pipewire and the cursor thread run.
MakeContext(p) ==
    /\ Go(p, "init", "hooking")
    /\ window' = [window EXCEPT ![p] = owner]
    /\ count' = [count EXCEPT ![p] = 1]
    /\ leaked' = [leaked EXCEPT ![p] = 0]
    /\ pwTx' = [pwTx EXCEPT ![p] = TRUE]
    /\ UNCHANGED <<installed, closures, gl, serverVars, displayVars>>

\* An error before there is a context: picom runs without the plugin.
InitFails(p) ==
    /\ MayFail
    /\ Go(p, "init", "running")
    /\ count' = [count EXCEPT ![p] = 0]
    /\ leaked' = [leaked EXCEPT ![p] = 0]
    /\ UNCHANGED <<window, installed, closures, pwTx, gl, serverVars, displayVars>>

NextHook(p) ==
    CASE closures[p] = {} -> "deinit"
      [] closures[p] = {"deinit"} -> "present"
      [] OTHER -> "root_change"

InstallHook(p) ==
    LET hook == NextHook(p)
    IN  /\ Go(p, "hooking", IF hook = "root_change" THEN "publish" ELSE "hooking")
        /\ closures' = [closures EXCEPT ![p] = @ \cup {hook}]
        /\ installed' = [installed EXCEPT ![p] = @ \cup {hook}]
        /\ count' = [count EXCEPT ![p] = @ + 1]
        /\ UNCHANGED <<window, leaked, pwTx, gl, serverVars, displayVars>>

\* A closure cannot be made: its data keeps its reference for good, init drops its own.
HookFails(p) ==
    /\ MayFail
    /\ Go(p, "hooking", "running")
    /\ leaked' = [leaked EXCEPT ![p] = @ + 1]
    /\ UNCHANGED <<window, installed, closures, count, pwTx, gl, serverVars, displayVars>>

\* The cookie goes to the window init saw; this needs the window to be there.
Publish(p) ==
    /\ Go(p, "publish", "published")
    /\ Exists(window[p])
    /\ cookie' = [cookie EXCEPT ![window[p]] = p]
    /\ UNCHANGED <<window, installed, closures, count, leaked, pwTx, gl, serverVars,
                   lock, file, owner, socket>>

\* Mutant: the error is ignored, init goes on.
PublishFailsIgnored(p) ==
    /\ Go(p, "publish", "published")
    /\ MayFail \/ ~Exists(window[p])
    /\ UNCHANGED <<window, installed, closures, count, leaked, pwTx, gl, serverVars, displayVars>>

\* Init returns the error with the hooks in place.
PublishFails(p) ==
    /\ Go(p, "publish", "running")
    /\ MayFail \/ ~Exists(window[p])
    /\ count' = [count EXCEPT ![p] = @ - 1]
    /\ UNCHANGED <<window, installed, closures, leaked, pwTx, gl, serverVars, displayVars>>

\* The server thread is spawned; EGL and GL are set, which works only once.
InitDone(p) ==
    \/ /\ ~gl[p]
       /\ Go(p, "published", "running")
       /\ gl' = [gl EXCEPT ![p] = TRUE]
       /\ count' = [count EXCEPT ![p] = @ - 1]
       /\ server' = [server EXCEPT ![p] = "lock"] /\ target' = [target EXCEPT ![p] = window[p]]
       /\ UNCHANGED <<window, installed, closures, leaked, pwTx, displayVars>>
    \/ gl[p] /\ pc[p] = "published" /\ Exit(p)

\* picom presents and the plugin's part of it fails: it gives up for good.  (A
\* copy that works, or finds no active buffer, changes nothing here; without GL
\* there was no server to ask for a stream, so that there is no buffer.)
Present(p) ==
    /\ MayFail
    /\ pc[p] = "running" /\ "present" \in installed[p] /\ pwTx[p]
    /\ pwTx' = [pwTx EXCEPT ![p] = FALSE]
    /\ UNCHANGED <<pc, window, installed, closures, count, leaked, gl, serverVars, displayVars>>

\* picom unloads its backend: the plugin's deinit calls the saved one, which frees
\* the backend; without GL it panics first.
Deinit(p) ==
    \/ /\ "deinit" \in installed[p] /\ gl[p]
       /\ Go(p, "running", "deinit")
       /\ installed' = [installed EXCEPT ![p] = {}]
       /\ UNCHANGED <<window, closures, count, leaked, pwTx, gl, serverVars, displayVars>>
    \/ pc[p] = "running" /\ "deinit" \in installed[p] /\ ~gl[p] /\ Exit(p)
    \/ /\ "deinit" \notin installed[p]
       /\ Go(p, "running", "stopped")
       /\ UNCHANGED <<window, installed, closures, count, leaked, pwTx, gl, serverVars, displayVars>>

Drop(p, hooks) ==
    /\ closures' = [closures EXCEPT ![p] = @ \ hooks]
    /\ count' = [count EXCEPT ![p] = @ - Cardinality(closures[p] \cap hooks)]

\* Mutant: the third is dropped with the others, under the borrow.
DeinitBorrowedAll(p) ==
    /\ Go(p, "deinit", "drop")
    /\ Drop(p, Hooks)
    /\ UNCHANGED <<window, installed, leaked, pwTx, gl, serverVars, displayVars>>

\* While it borrows the context, the trampoline drops two of its closures and
\* takes the third ...
DeinitBorrowed(p) ==
    /\ Go(p, "deinit", "drop")
    /\ Drop(p, {"present", "root_change"})
    /\ UNCHANGED <<window, installed, leaked, pwTx, gl, serverVars, displayVars>>

\* ... which it drops when the borrow is over, and with it the context.
DeinitDrop(p) ==
    /\ Go(p, "drop", "stopped")
    /\ Drop(p, {"deinit"})
    /\ UNCHANGED <<window, installed, leaked, pwTx, gl, serverVars, displayVars>>

-----------------------------------------------------------------------------
(* The server thread. *)

Serves(p, from, to) == server[p] = from /\ server' = [server EXCEPT ![p] = to]

\* Mutant: the server goes on without the lock.
ServerLockIgnored(p) ==
    /\ Serves(p, "lock", "clear")
    /\ lock' = IF lock = None THEN p ELSE lock
    /\ UNCHANGED <<mainVars, target, file, owner, cookie, socket>>

\* It gives up when another picom has the lock.
ServerLock(p) ==
    \/ /\ lock = None
       /\ Serves(p, "lock", "clear")
       /\ lock' = p
       /\ UNCHANGED <<mainVars, target, file, owner, cookie, socket>>
    \/ /\ lock # None
       /\ Serves(p, "lock", "ended")
       /\ UNCHANGED <<mainVars, target, displayVars>>

ServerClear(p) ==
    /\ Serves(p, "clear", "announce")
    /\ file' = None
    /\ UNCHANGED <<mainVars, target, lock, owner, cookie, socket>>

ServerAnnounce(p) ==
    /\ Serves(p, "announce", "bind")
    /\ Exists(target[p])
    /\ socket' = [socket EXCEPT ![target[p]] = TRUE]
    /\ UNCHANGED <<mainVars, target, lock, file, owner, cookie>>

ServerBind(p) ==
    /\ Serves(p, "bind", "listening")
    /\ file = None
    /\ file' = p
    /\ UNCHANGED <<mainVars, target, lock, owner, cookie, socket>>

\* run returns an error and closes the lock file.
ServerFails(p) ==
    /\ \/ MayFail /\ server[p] \in {"clear", "announce", "bind"}
       \/ server[p] = "announce" /\ ~Exists(target[p])
       \/ server[p] = "bind" /\ file # None
    /\ server' = [server EXCEPT ![p] = "ended"]
    /\ lock' = None
    /\ UNCHANGED <<mainVars, target, file, owner, cookie, socket>>

-----------------------------------------------------------------------------
Picom(p) ==
    \/ MakeContext(p) \/ InitFails(p) \/ InstallHook(p) \/ HookFails(p)
    \/ Publish(p) \/ PublishFails(p) \/ InitDone(p)
    \/ Present(p) \/ Deinit(p) \/ DeinitBorrowed(p) \/ DeinitDrop(p)

ServerThread(p) ==
    ServerLock(p) \/ ServerClear(p) \/ ServerAnnounce(p) \/ ServerBind(p) \/ ServerFails(p)

Next == \E p \in Picoms : Start(p) \/ Reset(p) \/ Die(p) \/ Picom(p) \/ ServerThread(p)

Spec == Init /\ [][Next]_vars

-----------------------------------------------------------------------------
TypeOK ==
    /\ pc \in [Picoms -> {"off", "init", "hooking", "publish", "published", "running",
                          "deinit", "drop", "stopped", "dead"}]
    /\ window \in [Picoms -> Picoms \cup {None}]
    /\ installed \in [Picoms -> SUBSET Hooks] /\ closures \in [Picoms -> SUBSET Hooks]
    /\ count \in [Picoms -> 0 .. 4] /\ leaked \in [Picoms -> 0 .. 1]
    /\ pwTx \in [Picoms -> BOOLEAN] /\ gl \in [Picoms -> BOOLEAN]
    /\ target \in [Picoms -> Picoms \cup {None}]
    /\ server \in [Picoms -> {"off", "lock", "clear", "announce", "bind", "listening", "ended"}]
    /\ {lock, file, owner} \subseteq Picoms \cup {None}
    /\ cookie \in [Picoms -> Picoms \cup {None}] /\ socket \in [Picoms -> BOOLEAN]

\* The documentation of make_ffi_closure1 says that its function pointer must not
\* be called after the closure is dropped, and the trampoline's comment that
\* the context must stay while it is borrowed: what picom may call is there,
\* the context behind it too, and it is still there when deinit's borrow ends.
\* When deinit is over, nothing is left but what failed closures hold.
ContextLifetime ==
    \A p \in Picoms : Alive(p) =>
        /\ installed[p] \subseteq closures[p]
        /\ installed[p] # {} \/ pc[p] \in {"hooking", "deinit", "drop"} => count[p] > 0
        /\ pc[p] = "stopped" /\ leaked[p] = 0 => count[p] = 0

\* The socket at the path of the display is that of the picom that listens:
\* nobody removes or replaces the socket of a server that is alive.
SocketServed ==
    \A p \in Picoms : server[p] = "listening" => file = p /\ lock = p

\* A portal reads the cookie first: a window that shows a socket shows a cookie.
CookieBeforeSocket == \A w \in Picoms : socket[w] => cookie[w] # None
=============================================================================
