# Verification of x11screencast-portal

x11screencast-portal lets desktop applications record the screen of an X11
session that is composited by picom. It is two programs. A plugin inside picom
(`src/plugin`) copies what picom presents into buffers of PipeWire streams; a
D-Bus service (`src/portal`) implements the ScreenCast portal and asks the
plugin for streams over a unix socket (`src/protocol`).

This directory holds TLA+ models of it, the TLC configurations that check them
on small instances, and proofs TLAPS checks for every instance.
`PROJECT.json` ties definitions to source lines and lists components, runs,
hazards and theorems.

    tlc -config pipeline_one.cfg MCPipeline.tla
    tlapm PipelineProofs.tla
    tlapm PipelineRefinementProofs.tla
    tlapm PipelineSafetyProofs.tla
    tlc -config cursor.cfg CursorMonitor.tla
    tlapm CursorMonitorProofs.tla
    tlc -config server.cfg Server.tla
    tlapm ServerProofs.tla
    tlc -config framing.cfg MCFraming.tla
    tlapm FramingProofs.tla
    tlc -config portal.cfg MCPortalSession.tla
    tlapm PortalSessionProofs.tla
    tlc -config lifecycle.cfg MCPluginLifecycle.tla
    tlapm PluginLifecycleProofs.tla

## 1. The system

### Components

| component | state it keeps | operations | code |
|---|---|---|---|
| picom thread, present hook | imported buffers (slot map), its end of the channels, `pw_tx` until it bails | `present` → `copy_back_buffer`: drain the channel, blit into active buffers, send fences, wake | `plugin/src/lib.rs` 298-436 |
| pipewire thread | streams (slot map), `node_id_to_stream`, `fence_waits`; per stream `StreamData`: outstanding buffer, ready flag, fixated format, reply | waker callback (drain messages, reap errored streams), stream callbacks (add/remove buffer, state, format, process), fence callbacks | `plugin/src/pipewire.rs` 411-884 |
| channels and waker | two `mpsc` queues, one oneshot per AddBuffer, the waker channel and its lock | `send`, `try_recv`, `start_send` / guard, `wake` | `lib.rs` 67-98, 590-641 |
| plugin server | one task per client, its read and write side | accept, CreateStream, CloseStreams, reply | `plugin/src/server.rs` |
| wire framing | partial reads and writes of length-prefixed JSON | `Picom` sink and stream, `Client` read and write side | `portal/src/main.rs` 23-125, `server.rs` 45-103 |
| cursor monitor | known serials, textures, current cursor | notify loop on its own thread, `current_cursor` in a present | `plugin/src/cursor.rs` |
| portal sessions | per session: sources, cursor mode, node ids, restore data; `default_monitor` | CreateSession, SelectSources, Start, Close | `portal/src/main.rs` 205-597 |
| format negotiation | offered formats and modifiers, fixated format, test buffer | `handle_param_changed`, `satisfies`, `extra_modifier_check` | `pipewire.rs` 1-409, 606-678; `lib.rs` 865-882 |
| plugin life cycle | saved function pointers, closures that own the context | `backend_plugin_init`, `deinit_trampoline` | `lib.rs` 438-492, 913-1160; `ffi.rs` |

### How they interact

The portal connects to the plugin's socket, sends one request per connection
and, for CreateStream, waits for the node ids. A server task passes the
request on to the pipewire thread: message into the channel, then the waker.
The pipewire thread creates a PipeWire stream; when the stream is first paused
its node id goes back through a oneshot. A consumer connects to the node,
negotiates a format and PipeWire adds buffers: `handle_add_buffer` allocates a
DMA buffer, sends it to picom and *blocks* until the next present has imported
it and answered with its id.

When the stream streams, the capture cycle runs. `send_buffer` dequeues a free
buffer, remembers it as outstanding and sends ActivateBuffer. The next present
blits into it and sends NewFrame with a fence. The pipewire thread waits for
the fence in its main loop, then sets the ready flag and triggers `process`,
which hands the buffer to the consumer and activates the next.

The pipewire thread has no way to wake itself (it may already be inside the
waker callback). A stream in error is therefore removed by a detour: WakeMeUp
to picom, and picom's guard wakes the pipewire thread.

### What is hard

Two threads and a peer (PipeWire) interleave; the state of one stream is spread
over both threads and both channels. Pauses, renegotiations, errors and closes
may come between any two steps of a cycle. Keys and pointers are looked up
after they may have gone stale, and assertions, `unwrap` and slot map indices
stand where the code relies on an order of messages. One thread blocks on the
other. Failures are handled by bailing out half way. `PROJECT.json` lists each
such place under "hazards".

### What makes it correct

* capture cycle: one frame at a time per stream, never lost, never blitted into
  a buffer that was removed, never shown before the GPU has copied it;
* imports: picom holds exactly the buffers PipeWire has, up to messages under way;
* registration: node ids resolve to the streams clients know of;
* life cycle: a close or an error ends in a dropped stream, a blocked thread is
  answered, nothing panics unless something outside failed;
* server: a client that gets an answer gets all its streams, in order; while the
  pipewire thread runs, one that gets none leaves no stream behind;
* framing: what one side sends is what the other receives, however reads and
  writes are split;
* cursor: the cursor drawn is one the X server announced, and the latest known;
* portal: node ids of a session are those of its streams, closing closes them.

## 2. Modules

| module | content | composes | abstract specification | runs | theorems |
|---|---|---|---|---|---|
| `Pipeline` | both threads, channels, waker, failures | – | `CaptureCycle` | pipeline_one, _two, _live, three violations | types, refinement, every safety property of its passing runs |
| `CaptureCycle` | what the consumers of the streams are promised | implemented by `Pipeline` | itself | property of pipeline_one | no frame is made in a buffer a consumer has |
| `Server` | client tasks, oneshots, partial failure, disconnects | request side of `Pipeline` | `StreamService` | server | types, refinement and its four safety properties |
| `StreamService` | what the server promises its clients | implemented by `Server` | itself | property of server | a granted stream stays |
| `Framing` | sink and stream of the portal, read and write side of the plugin over a byte pipe | both ends of a connection | `MessageQueue`, twice | framing | types, both refinements, nothing misread |
| `MessageQueue` | what a connection promises in either direction | implemented by `Framing`, twice | itself | property of framing | – |
| `CursorMonitor` | notify loop, image fetched later, textures, `current_cursor` | feeds the failure "present" of `Pipeline` | – | cursor | types and its four safety properties |
| `PortalSession` | sessions, their locks, Start / Close races, default monitor | `Server` and `Framing` as environment | – | portal, one violation | types and its three safety properties |
| `PluginLifecycle` | closures, reference counts, partial init, lock file and socket | gives life to all the others | – | lifecycle | its three safety properties |

The components meet where one takes for atomic what another takes apart. A
request is one step of `PortalSession` and a sequence of bytes in `Framing`; its
handling in the plugin is the step `Creates`, `Refuses` or `Closes` of
`PortalSession`, a task in `Server`, and the steps `RequestStream` and
`RequestClose` of `Pipeline`.

A module for format negotiation was planned and given up, see section 10.

## 3. `Pipeline`

### State

| variable | code |
|---|---|
| `toPw`, `fromPw` | the two `mpsc` channels, MessagesToPipewire and MessagesFromPipewire |
| `wake` | the waker channel holds something; sends coalesce, as the callback drains everything |
| `oneshot` | the reply channel of the AddBuffer under way |
| `fault` | which panic or invalid access ended the process; a panic on picom's thread or inside a C callback aborts it, so `Next` is disabled afterwards |
| `pwPc`, `cur` | the step of the callback the pipewire thread is in, and its stream |
| `nodes`, `fences` | keys of `node_id_to_stream` and `fence_waits` |
| `state`, `reply`, `fmt` | PipeWire's stream state, the CreateStream reply, `fixated_format` |
| `bufs`, `blank`, `free` | the stream's pw_buffers: with an id, with user_data never set, and those `dequeue_raw_buffer` returns |
| `outstanding`, `ready` | `outstanding_buffer`, `outstanding_buffer_ready` |
| `picomPc`, `pwTx`, `buffers`, `made`, `active`, `armed` | the present under way, `pw_tx.is_some()`, `PluginContext::buffers`, ids handed out, `active_buffers`, the guard's flag |
| `closed` | streams a CloseStreams was sent for |

A message is a record of its type and its key; coordinates, fences and DMA
buffers are left out. A buffer id is a pair of its stream and a number, so that
`stream_id` of a NewFrame is a projection of the id, as it is a field of the
imported buffer in the code. Slot map keys are never used twice, so ids are not
either. The n-th import of a stream gives `<<s, n>>`.

### Steps

One action per handler. A handler that another thread can observe half way is
split at the points where it can be observed: the waker callback is one action
per message and one per removed buffer, `handle_add_buffer` is split at the
blocking `recv`, a present is one action per message, one per blit and one for
the guard. Everything between is one action, with all its calls: FenceFired
contains `trigger_process` and the process callback it runs before it returns,
which contains `send_buffer`.

The server's guard is sent and dropped in one action: a message drained before
its wake-up only makes the wake-up spurious, and a spurious wake-up drains an
empty channel and reaps as any other would. In picom's present the wake-up is
an action of its own (`PresentEnd`), because it may have to wait for the lock
the waker callback holds.

### The environment

PipeWire and the GPU are not under `src/`; they are modelled from how the code
uses them:

* stream callbacks run on the pipewire thread's main loop, one at a time, and
  only while it is idle; `process` runs inside `trigger_process` only, because
  the stream is the driver;
* PipeWire adds and removes buffers of paused streams (and goes on with a batch
  of additions when one of them has put the stream in error), removes those of
  a stream that is destroyed, and starts only streams that have buffers;
* `pw_stream_set_error` changes the state at once;
* the consumer returns buffers in any order, at any time;
* the node id stands for its stream; it is not given out again while it matters;
* one CloseStreams names one stream (several names are several messages, which
  differ only in that no wake-up lies between them).

`Failures` selects what may go wrong. `shrink` stands for a consumer that
negotiates a smaller buffer set than the one before, after which the dangling
`outstanding_buffer` may be dereferenced. `unload` stands for picom unloading its
backend (`Unload`): the context is dropped with `pw_rx` and the imports, the
pipewire thread runs on, as the server has a sender for it, and the next
`tx.send(..).unwrap()` of that thread panics inside a C callback. `SendDue` says
when the thread is about to send; then `SendFails` is the step it takes, since
`SendToPicom` needs a receiver. As a panic ends the process, nothing is said of
what a callback did before the send.

### Bounds

`Streams` and `MaxBuffers` (imports in a stream's life), and one buffer that
fails to be added per stream. `pipeline_one` has 3 imports of one stream: a set
of two and a buffer of its replacement after a renegotiation, or a set of one or
two with an addition that comes late. All hazards of a cycle concern one stream,
so one suffices for them. `pipeline_two` has two streams, for what they share:
the channels, the waker, `active_buffers`, the reap loop, the node map.

### Runs

| run | instance | checks |
|---|---|---|
| `pipeline_one` | 1 stream, 3 imports, all failures but shrink, so also unload; 429 k states | TypeOK, OneInFlight, FrameNotLost, ImportsTracked, NodeMapAccurate, AssertionsHold, MessagesWillBeRead, BlockedThreadAsked, CyclesInOrder |
| `pipeline_two` | 2 streams, 1 import each, failures present, trigger, format; 2.1 M states up to symmetry | NeverPanics |
| `pipeline_live` | 1 stream, 2 imports, failures trigger, format, alloc, fence; 56 k states; fair | ErrorsWillBeSeen, AddBufferAnswered, CloseCompletes, ErroredReaped, FrameDelivered |
| `pipeline_bail` | failure present; fair | AddBufferAnswered is violated |
| `pipeline_buffer_error` | failure fence | BufferErrorHandled is violated |
| `pipeline_early_error` | 2 streams, failure extern | ErroredStreamRegistered is violated |

Deadlock is not checked: the system stops when a panic ended the process, and
a pipewire thread whose main loop has quit does nothing more.

### Wake-ups

The liveness properties rest on wake-ups that may not get lost, and that is a
safety property, which can be proved. `MessagesWillBeRead`: a message in the
channel of a pipewire thread that is not about to read it has a wake-up to come.
`ErrorsWillBeSeen`: a stream in error has one too, or WakeMeUp lies before
picom; not in `pipeline_one`, as nobody is told of an error of PipeWire's own
(`extern`), and not after unloading. `BlockedThreadAsked`: while `handle_add_buffer`
blocks, its request lies in the channel to picom, or it is answered, or its reply
was dropped, by unloading too. Whether picom goes on reading that channel is the
question of `AddBufferAnswered`: one that has bailed does not.

### What the consumers are promised

`CaptureCycle` has no threads and no channels. Per stream it knows how far a
frame is (wanted, taken, answered, fenced, ready), the buffer it is made in, and
the buffers the consumer holds. `Want` takes no buffer the consumer holds;
`Deliver`, which the consumer's buffers grow by, is possible only when the fence
of that very buffer was waited for; `Pause` keeps the frame for later; `Drop`
and `Abandon` (a present that fails, or unloading) may lose it. `Pipeline` is shown to implement it (`CyclesInOrder`)
under the mapping at its end: `Stage(s)` reads the stage from where a message or
buffer of the stream is (`Activations`, `ActiveOf`, `Answers`, `FencesOf`, then
the ready flag), `Target(s)` is the one buffer found there, and `Held(s)` are
the buffers of the stream that PipeWire neither has free nor has as outstanding.

### Fairness

`Fairness` assumes that picom keeps presenting and each present runs to its end,
that a callback once begun runs to its end (weak fairness), that the main loop
dispatches every source that is ready (strong fairness of WakeUp and of each
FenceFired, since other callbacks disable them again and again: epoll reports
all ready sources and the loop handles each), and that the GPU signals every
fence. Nothing is assumed of PipeWire, the consumer or the clients: streams may
pause for ever, consumers may keep their buffers, closes may never come.

`present` and `import` are left out of `pipeline_live`: after a failed present
picom never looks at the channel again, which `pipeline_bail` shows. `extern` is
left out because a stream in error that nobody was told of is removed only when
another message wakes the thread. `newstream` quits the main loop. After `unload`
nobody presents.

### What the violations show

* **A BufferError for a stream that is gone** (`pipeline_buffer_error`). picom
  sends BufferError while a CloseStreams is being handled; by the time it is
  received the stream has been removed, and `streams[stream_id]` (pipewire.rs
  786) panics. NewFrame tests for the missing stream, BufferError does not.
* **A pipewire thread that waits for ever** (`pipeline_bail`). A failed present
  takes `pw_tx`; the AddBuffer that is or will be in the channel is never
  received, its reply never sent nor dropped (`pw_rx` lives on), and `rx.recv()`
  (pipewire.rs 712) does not return. No stream is served or closed afterwards.
* **A stream that fails early** (`pipeline_early_error`). A stream enters the
  node map at its first Paused. If PipeWire fails it before, the next wake-up
  removes it with `node_id_to_stream.remove(..).unwrap()` (pipewire.rs 873).

Without a run, because it concerns wording only: the comment on RemoveBuffers
(lib.rs 635) says that it clears all buffers at shutdown of the pipewire thread;
the code sends it for each buffer PipeWire removes.

Reachable, but promised otherwise by no document, hence neither a property nor
a finding: the unset `user_data` of a buffer that failed to be added (587), the
dangling outstanding buffer after a renegotiation (563), the stall when the
consumer holds every buffer (744), a frame dropped with its removed buffer while
its stream keeps it as outstanding, the `unwrap` of a send to a pipewire
thread that has quit (lib.rs 392), and those of the pipewire thread's sends to a
picom that has unloaded the plugin (457, 567, 599, 711, 750). The model contains
them; the properties say in their premises, or `NeverPanics` in its comment and
its run, what they exclude.

## 4. `CursorMonitor`

The plugin draws the pointer into the streams that ask for it. A thread of its
own learns of cursors; picom draws them.

| variable | code |
|---|---|
| `display`, `changes` | the cursor the pointer shows, and how often it has changed |
| `events` | CursorNotify events the thread's connection holds |
| `pc`, `notify`, `image` | where the thread is in `run_inner` or after it, the `notify` and `cursor` in scope there |
| `serials`, `textures` | `cursor_serials`, `textures` |
| `chan` | the `mpsc` channel of CursorMessage |
| `picomPc`, `bailed` | the present under way; `pw_tx` is gone, so that `copy_back_buffer` returns before it asks for the cursor |
| `cursors`, `current` | `CursorMonitor::cursors`, `current_cursor` |

A cursor's serial stands for its image: what the properties tell apart is
whether an image is the one its serial names. The thread takes a notification
(`KnownCursor`, `UnknownCursor`), asks for the image and gets the one shown
*then* (`GetCursorImage`), and loads and sends it (`LoadCursor`); the pointer
may change between all of these. `Send` is the send with its error path: when
picom has dropped the receiver the thread leaves its loop, deletes its textures
and only then drops the sender (`DeleteTextures`, `ThreadEnds`). A present
empties the channel message by message, then draws with the current cursor. A
thread that has ended makes `try_recv` say Disconnected, and the plugin bails.
`MayFail` adds failures: of the thread's requests, of making its context
current, of the rest of a present.

`cursor` (3 serials, 5 changes, failures; 221 k states) checks that picom has an
image for the cursor it is told to draw (`CurrentKnown`), that images are filed
under their own serials (`ImagesTrue`), that a thread with nothing left to do
has told picom of the cursor shown (`UpToDate`), that picom draws with textures
that exist (`TexturesAlive`), and that picom gets to the cursor shown
(`CursorFollows`). With three serials the pointer can move on between
notification and fetch to a cursor that is known, to one that is not, and back;
five changes are enough for two such detours. `TexturesAlive` excludes in its
premise a thread whose request failed: it deletes the textures before picom can
know. No document promises otherwise.

Fairness: the thread runs on, so the X server answers what it asks (weak
fairness of `Monitor`), and picom keeps presenting (weak fairness of
`CurrentCursor`). Deadlock is not checked: when the plugin is unloaded and the
pointer rests, nothing happens any more.

## 5. `Server`

The portal's requests reach the pipewire thread through tasks of the server, one
per connection. `Pipeline` takes them for atomic; `Server` takes them apart, and
keeps of the pipewire thread what the tasks can tell.

| variable | code |
|---|---|
| `client`, `request`, `inbox` | the portal's end of a connection: is it there, what it sent, what it was answered |
| `task`, `sent`, `armed` | where `client_task_inner` is, how many CreateStream messages it has sent, the flag of its PipewireSendGuard |
| `outbox` | the channel to the write side |
| `toPw`, `wake` | the channel to the pipewire thread and its waker |
| `pw`, `streams`, `nodes`, `failed` | the waker callback or the end of `pipewire_main`; the streams, those in `node_id_to_stream`, those in state Error |
| `broken` | history: streams that got into state Error without a CloseStreams |
| `reply` | per stream, the oneshot of its node id |

A stream is `<<connection, i>>`, made for the i-th rectangle; it stands for its
node id too. A task reads its request (`NoRequest`, `WrongCookie`, `StartSend`),
sends message by message (`SendCreateStream`, `SendCloseStreams`), drops the
guard, which wakes the thread (`DropGuard`), waits until all oneshots are
resolved (`Collected`) and answers (`StreamCreated`) or ends
(`StreamCreationFails`). The write side is a task of its own (`Write`). Between
any two of these, other tasks, clients and the pipewire thread move. A stream
that cannot be created makes the main loop quit (`HandleCreateStreamFails`), and
`pipewire_main` returns. What that drops depends on the streams there are.
`Pipewire` holds their listeners and those hold `Pipewire` (pipewire.rs 443, 434,
417): with a stream alive, or one in a fence wait that was recorded before it
went, the cycle keeps streams, channel and oneshots for ever (`PipewireLeaks`).
Sends then still succeed, nobody receives, tasks that wait for ids hang, and no
stream can be closed. Without a stream the channel is dropped with the oneshots
in it (`PipewireEnds`), and the tasks notice. The answer StreamCreationError has no action: nobody ever sends an
error through the oneshot, so that branch of the code is dead.

`StreamService` says what clients are promised, without tasks, messages or
oneshots: a request for streams is granted with all of them in one step
(`Grant`), or ends without an answer, and that only when the pipewire thread
gives up (`End`); a granted stream is there until a client has named it or it has
broken (`Close`), and when the thread has given up none goes any more (`Stop`). The
answer may come late, with a stream that broke in the meantime: `Grant` says so. `Server` is shown to implement it (`StreamsServed`) under the mapping before
that property: the end of a task is the answer, and a granted stream is *live*
while the pipewire thread, or what it leaked, has it. What a client would want of
it, that a granted stream stays until it is named or breaks (`NamedOrLive` of the
service), is the theorem `GrantsLast`.

`server` (2 connections, up to 2 rectangles, failures, one stream that breaks;
207 k states; fair) checks `StreamsServed`, `AnswersInOrder`,
`NoMessageStranded`, `ReplyAwaited` (the unwrap of reply.send), `NoOrphans`,
`ClientAnswered`, `ConnectionEnds` and `CloseTakesEffect`. Tasks share the
channel and the waker only, so two connections suffice: one that creates and one
that closes, or two that create; both streams of a request can be paused in
either order. A client that leaves
before it is answered leaves its streams behind, and so does a thread that ends;
`NoOrphans` excludes both in its premises, and nothing in the repository promises
otherwise. Likewise `ClientAnswered` and `CloseTakesEffect` speak of a thread that
runs on, and `ConnectionEnds` excepts tasks that wait for senders that were leaked.

Fairness: the executor runs each task that can go on, the pipewire thread runs
its callback, PipeWire pauses a stream once it is connected (weak fairness of
each; the behaviour is finite, as every connection makes one request). Nothing
is assumed of clients. Not in this module: a stream that fails before its first
Paused, with which the thread panics (`pipeline_early_error`); messages of
picom, of which only the wake-ups are kept (`PicomWakes`, if there is something
to do); how bytes are read.

## 6. `Framing`

A connection carries JSON behind a length of four bytes, in both directions. The
portal's end is a sink and a stream polled by hand (`Picom`), which keeps its
place in a partial write (`out_pos`) or read (`pos`, `len`); the plugin's ends
are two tasks that read and write exactly. `Framing` has the bytes: a byte is a
mark (of a length or of JSON), its message and its index, so that bytes that
were lost, repeated or put together wrongly parse as nothing or as a length
that was not sent.

| variable | code |
|---|---|
| `portal`, `outBuf`, `outPos`, `inLen`, `inBuf` | the `Picom` and whether its owner awaits `next()` |
| `up`, `down` | bytes in the socket |
| `reader`, `rdLen`, `rdBuf` | `read_side` |
| `writer`, `queue`, `rest` | `write_side`, its channel, what `write_all` has left to write |
| `client` | whether the task still has its `Client`; dropping it cancels the read side and lets the write side finish |
| `asked`, `requests`, `answered`, `answers` | history: what was given to and got from either end |

`MessageQueue` says what either direction promises: the receiver gets the
sender's messages, whole, once, in order, as many as there are until the
connection ends. `framing` (messages of 1 and 3 bytes, up to 2 requests, a
socket of 5 bytes, picom may die, both ends may be dropped at any time; 12 k
states) checks that requests and answers refine it
(`RequestsArriveInOrder`, `AnswersArriveInOrder`), that no end takes bytes of a
message for a length or those of another message for its own (`NothingMisread`),
and that what was sent arrives unless an end is gone (`MessagesArrive`). A socket of 5 bytes takes a length
with part of a message, so that every cut between writes and reads happens; two
requests on one connection test that buffers and positions are reset, although
the portal sends one today.

Fairness: the portal goes on polling and the plugin's tasks run. `poll_next`
takes a read of 0 bytes for a short read and loops (main.rs 98); the model has
this as the state `spinning`, in which an answer that has not been written can
no longer arrive, since the plugin's end is closed.

## 7. `PortalSession`

A session is configured by SelectSources, started and closed by calls that run
as tasks on one thread and change places where they await: for the session's
lock, for a connection, for picom's answer.

| variable | code |
|---|---|
| `session` | the Session object on the object server |
| `types`, `multiple`, `restore`, `nodeIds` | the fields of `Session` |
| `writer`, `Readers(h)` | the lock of the object: SelectSources and Start take it for writing, Close for reading |
| `defaultMonitor` | the static `default_monitor` of `Session::start` |
| `method`, `target`, `step`, `names`, `reported` | the tasks |
| `portal` | `hung` when a task is in the endless `poll_next`: the executor has one thread |
| `up`, `stalled`, `connected`, `creating`, `answer`, `closing`, `streams` | picom: is it there, has its pipewire thread ended, connections, requests, answers, the streams of requests it has answered |

The steps of a Start are `Connect`, `LockForWriting`, `Ask` (monitors are read,
the rectangles chosen and sent) or `AskPanics`, `Started` or `Hang`; those of a
Close `LockForReading`, `Connect`, `AskClose`, `Remove`; `Fail` is an error of
either. The lists of monitors are those RandR may give at that moment. A stream
is the call that asked for it and the index of its rectangle, and stands for its
node id.

External, and assumed of them: the desktop portal uses a session handle once;
PipeWire never gives a node id twice; the lock of an object keeps new readers
out while a writer waits; a panic ends its task and frees the locks it has.
Picom answers a request with all its streams, or closes the connection without an
answer, or its pipewire thread has ended under its streams and it does neither
(`Creates`, `Refuses`, `Stall`), as `Server` shows; StreamCreationError is never sent.

`portal` (1 session, 3 calls, 2 monitors, five ways to select sources, failures,
picom stalls, dies and returns; 183 k states) checks `StreamsRecorded` (a stream's id is
in the session of the Start that asked for it, or about to be), `RemovalClosesStreams`
(when the object is removed, the end of all its streams has been asked for),
`NoDeadlock` (while a call has not ended, one of its session can go on) and, under
fairness, `CallsEnd` (however calls wait for each other's locks, each
ends, unless picom leaves one without an answer, as a stalled one does). One session suffices: sessions
share nothing but `defaultMonitor`, which the calls of one session change as well.
Three calls are two Starts and a Close, or two Closes and a Start behind them.

`portal_virtual` (no failures) shows that Start leaves a stream out of its
answer: `izip!` (main.rs 570) pairs ids with rectangles and the *names of
monitors*, and the virtual source has none. With a virtual source only, the
answer names no stream, though the portal publishes that source as available
(362, 371).

Seen in the model, but promised otherwise by no document: a Start that waits
behind a Close goes on in a session that is no longer reachable; a rejected
SelectSources leaves the session without a source type (412); a session cannot
be closed while the compositor is gone (234); no monitor makes Start panic (526).

Fairness: zbus runs every task that can go on, picom handles what it was sent
until it stalls (weak fairness per call). Nothing is assumed of the desktop portal.

## 8. `PluginLifecycle`

`backend_plugin_init` makes a context, replaces three of picom's function
pointers by closures that own references to the context, while the context owns
the closures; `deinit_trampoline` breaks the cycle. A server thread takes a lock
file, removes the socket of an earlier picom, publishes its path in a window
property and binds it. Init publishes a cookie in the same window.

| variable | code |
|---|---|
| `pc` | how far init or deinit is |
| `installed`, `closures`, `count`, `leaked` | picom's function pointers that are the plugin's, the context's closures, `strong_count`, references of closures libffi refused |
| `pwTx`, `gl` | `pw_tx.is_some()`, the statics EGL and GL |
| `server`, `target` | the server thread and the window it was given |
| `lock`, `file` | the lock file and the socket in the file system |
| `window`, `owner`, `cookie`, `socket` | the selection owner as init saw it, the owner now, the two properties of each window |

`lifecycle` (2 picoms up to symmetry, failures; 132 k states) checks
`ContextLifetime` (no hook without its closure, no context freed under a borrow
or a hook, nothing left after deinit), `SocketServed` (the socket at the path is
that of the server that listens) and `CookieBeforeSocket` (a window that shows a
socket shows a cookie). Two picoms are one that runs or dies and one that starts
beside it, all that the lock, the file and the selection tell apart. Processes
are killed at any point; memory, locks and windows go with them, the socket file
stays. Deadlock is not checked: all picoms end.

Seen in the model: an error after the hooks are in place leaves them without EGL
and GL, and deinit panics (lib.rs 1115; a present does not, as no server was
started that could have asked for a stream); a picom that is
reset panics in its second init, as EGL is set once (1134); a picom that starts
while another has the lock file never serves, nor tries again; a picom may read
the selection owner after another has taken it (979) and publish in that window.
The hook root_change keeps no state and has no action.

## 9. Proofs

The theorems about `Pipeline` hold for every set of streams, every `MaxBuffers`
and every subset of the failures, "shrink" included, under the three named
assumptions of `Pipeline`. The exceptions are four theorems of
`PipelineSafetyProofs`, which say in their ASSUME which failures they exclude.

`PipelineProofs`: `TypeCorrect`. TypeOK alone is not inductive: that a buffer id
lies in the bound, and that the id `handle_add_buffer` gets is one picom has
handed out, depend on the conversation across the channel. `TypeInv` adds
`AddInProgress` (an AddBuffer in the channel is the only one, for the stream the
pipewire thread is blocked on, not answered yet, below the bound) and
`AddAnswered`. The lemmas `Sent` and `Got` say what appending to and taking from
a channel do to the positions of a class of messages; all proofs about `Pipeline`
speak of channels through them only. Then `OneFrameInFlight` and
`OutstandingTrue`. A frame of a
stream is in one of four stages: ActivateBuffer in a channel, active in a
present, answer in the other channel, fence waited for. `Flight(s)` says that at
most one stage holds at most one frame, and ties that to the outstanding buffer
and its flag. It is not inductive without `OwnIds` (what a stream dequeues and
dereferences are its own buffers, also after a renegotiation) and `CreatedOnce`
(a stream comes alive with no frame of an earlier life under way, because it is
created once). Removed buffers do not matter to it, which is why it holds even
where the dangling pointer is dereferenced. `CycleInv` also has that the faults
double_activate, no_outstanding and fence_twice are never reached.

`PipelineRefinementProofs`: `ImplementsCaptureCycle`, that `Spec` implies
`CyclesInOrder`, and from it `FramesNotOverwritten`: no frame is made in a buffer
the consumer has. `CycleInv` counts frames; the refinement needs to know whose
buffer a frame is made in. `Belongs(s)` says that it is the outstanding buffer
while that is one of the stream's, and what holds when it no longer is (a
buffer was removed under a frame): then no consumer has any of the buffers added
since, so the frame that fires late cannot be made in one of them. Ids the
pipewire thread has not been told (`Known`) keep new buffers apart from old
ones. The proof goes action by action: each either leaves `Stage`, `Target` and
`Held` alone, or is shown to be one of the steps of `CaptureCycle`.

`PipelineSafetyProofs`: what else the runs of `Pipeline` check, by one invariant
for each hazard, every one on top of those before.
`NodeMapIsAccurate`: `NodeInv` adds that a client whose CreateStream is under way
has no answer yet, so no stream is answered or created twice.
`ImportsAreTracked`: `ImportInv` adds that no buffer of a stream has a removal in
the channel, that a removal is sent once, and that ids there are ones picom gave.
`FramesAreKept`: `KeptInv` says the property of the buffers a frame is promised
of; by `Belongs` the frame is made in that very buffer, and by `ImportInv`
neither a removal nor a failed blit of another can take it away. `PresentInv` has
what ties active buffers to a present under way, and what unloading leaves
(`Unloaded`): no imports, and nothing in the channel to picom.
`ActivationsAreImported` and `AssertionsNeverFail`, without "shrink": `ActInv`
says that the buffer of an activation in the channel is imported and its removal,
if there is one, is queued behind; with "shrink" a stale pointer may be activated
after its removal. `SurvivableFailures`, with no failures but a present,
trigger_process and a format, and without unloading: `CalmInv` says that then no main loop quits, no
buffer fails to be added, no BufferError is sent and every stream that is paused
has answered. Each of the other failures can end in a panic, or is one.
`NoWakeUpLost`, `BlockedThreadsAsked` and, without "extern", `ErrorsStayNoticed`:
the safety half of what `pipeline_live` checks as liveness. A message that is
sent while the thread is not about to drain is followed by its sender's wake-up;
an error sends WakeMeUp before anything else can look; a request for a buffer is
answered, or its reply dropped, in the step that takes it.

`CursorMonitorProofs`, for every set of serials and every number of changes:
`TypeCorrect`, `DrawnCursorKnown`, `ImagesFiledTrue`, `LastSaidIsShown`,
`DrawnTexturesAlive`. `CursorInv` adds what ties the thread's memory to
picom's: a serial the thread knows has an image at picom or a NewCursor in the
channel (`KnownSent`, while picom is there), and the last notification, the
image about to be sent or the last message sent names what is shown (`Handled`).
That is why a fetch may return another cursor than the one notified: another
notification is then waiting. `DrawnTexturesAlive` needs `AliveInv` besides: the
thread ends after the plugin only. Assumed: None is no serial.

`ServerProofs`, for every set of connections and every `MaxRects`:
`TypeCorrect`, `AnswersOrdered`, `MessagesGetThrough`, `RepliesHeard`,
`StreamsOwned`, `ServerImplementsService`, `GrantsLast`. `TaskInv` says what the place a task is at tells of its request,
its sends and its answer; `ReplyInv` that a oneshot exists for what was asked
for, is open only until the channel is gone, and is dropped only if the pipewire
thread has quit; and that the channel goes only when there is no stream left. The types themselves rest on these: that `sent` stays within the
request needs the task to have read one. The refinement of `StreamService` adds
`ServiceInv`: who was answered was granted and only granted streams are named
(`GrantInv`); a oneshot is used exactly when the stream enters the node map, and
a stream is made of one message, once (`StreamInv`); what is closed was named or
has broken, and a stream that was paused is still there otherwise (`CloseInv`).
So at the moment of an answer, however long ago its streams were paused, they are
there: nobody can have named them before, and the end of the thread takes none
away. Each step is then `Ask`, `Name`,
`Grant`, `End`, `Break`, `Close`, `Fail`, `Stop`, or changes nothing of what
`StreamService` shows. Assumed: `MaxRects` is natural, None is no request, no
answer and no number.

`FramingProofs`, for messages of any positive sizes, any number of requests and
a socket of any capacity: `TypeCorrect`, `RequestsImplementQueue`,
`AnswersImplementQueue`, `NothingIsMisread`. The bytes of the one message that
is under way lie, in order and without a gap, in the sender's buffer from its
position on, in the socket, and with the reader, where they are part of the
length or, with the length already read, of the message (`RequestInv`,
`AnswerInv`). That there is only one needs that the portal asks again only after
its answer (`OneAtATime`). So `poll_ready` may be interrupted after any byte, and
`poll_next` may return in the middle of a length. Assumed: sizes are positive,
None is no number.

`PortalSessionProofs`, for any number of sessions, calls and monitors:
`TypeCorrect`, `StreamsAreRecorded`, `RemovedSessionsClosed`,
`SessionsNeverDeadlock`. That no stream is
added between the moment a Close reads the ids and the moment it removes the
session follows from the lock: a Start that waits for picom has it for writing,
and then there are no readers (`LockInv`); so what a Close in its last step has
asked for is still all there is (`CloseInv`). That streams are recorded needs
that an answer is received by the call that asked (`AskInv`) and that ids of two
Starts differ (`IdInv`). That calls never wait in a circle needs the converse of
`LockInv`: whoever holds a lock is at work in that session, and a Start that
waits has asked picom (`HolderInv`). Assumed: monitors are finitely many and not
the root, None is nothing else.

`PluginLifecycleProofs`, for every finite set of picoms: `TypeCorrect`,
`ContextsLiveAndDie`, `SocketsServed`, `CookiesComeFirst`. `ClosureInv` counts:
references are those of the closures, of closures that were never finished and
the one init has, and which closures there are follows from how far init or
deinit is. `LockInv` gives the lock to each server that has passed it, hence to
one. `CookieInv` follows a window from the picom that read it as owner to its
cookie and its socket.

Only model-checked: liveness (ten properties of `pipeline_live`,
`server`, `cursor`, `framing` and `portal`), which is out of the prover's
reach. Every safety property of a passing run is a theorem. The other way round,
no run repeats these theorems: the type invariants of `Server`, `Framing`,
`CursorMonitor` and `PluginLifecycle`, `OutstandingTrue`, `FramesNotOverwritten`,
`ActivationsAreImported` and `GrantsLast`.

## 10. Not modelled

* **Format negotiation**, beyond the flag `fmt` (a stream has a fixated format
  or not). Which of the offered formats and modifiers is fixated, when the
  Buffers parameters apply and whether a new offer replaces an old one is
  decided by PipeWire's filter, which is not part of the repository: a model
  would be one of guesses about it. In the source, and untested by the model,
  are: `test_buffer` is a buffer of an earlier format if a format is announced
  twice (pipewire.rs 698 takes it without comparing); DONT_FIXATE is what tells a
  format that is still a choice from a fixated one (212, 326, 638), and whether
  the peer's pod has the flag is PipeWire's doing; the number of data planes is
  asserted (707).
* **GL and EGL calls**: what they draw. Whether they fail is modelled.
* **D-Bus values, JSON, window properties' contents**, the coordinates and sizes
  of rectangles, restore tokens beyond the monitor they name.
* **Generated bindings, build scripts, vendored picom headers, logging.**
