# NEk0 in TLA+

NEk0 is a TeamSpeak 3 client for Android: a Flutter/Dart user interface over a
native library in Rust (`native/src`), which drives a vendored fork of
`tsclientlib`. This directory models the parts of it in which threads,
callbacks, timers and the network meet, from the user's tap down to the packets
of the vendored transport. TLC checks the models on small instances; TLAPS
proves for every instance the safety of the session life cycle, the microphone
and the channel tree, that the user sees the book and every message once, that a
running session is heard, what a request is answered, what an application knows
about its audio, where a frame is placed, and that the commands of a connection arrive once each and in order.

## 1. The system

### Parts, state and operations

| Part | State | Operations |
|---|---|---|
| Session life cycle (`native/src/api.rs`, `lib.rs`, `lib/models/ts_state.dart`, `KeepAliveService.kt`) | `TsState.connecting/connected/disconnect_requested/pending_events`, `COMMAND_TX`, `CONNECTION_STASH`, `CONNECTION_GENERATION`, `EVENT_LOOP_ALIVE`, `SWIPE_DISCONNECT`; in Dart `connecting`, `connected`, the poll timer | `ts_connect`, `do_connect`, `event_loop`, `ts_disconnect`, `tsDisconnect` (JNI), `ts_poll_events`, `_handleEvent` |
| Output stream and farewell sounds (`api.rs`) | `AUDIO_STREAM`, `SFX_QUEUE`, the callback's two slots, `SFX_SUPPRESS_DISCONNECT`, `SFX_DEFERRED_TEARDOWN`, `OUTPUT_RESTART_REQUESTED` | `restart_output_stream`, `teardown_output_state`, `schedule_sfx_teardown`, `schedule_teardown_after_kick_sfx`, `spawn_maintenance_task`, `ts_stop_audio`, `ts_restart_audio_output` |
| Jitter buffer (`api.rs`, `lib.rs`) | `CLIENT_BUFFERS` (`base_pair`, `write_seq`, `slots`, `last_packet`), `PLAYED_SAMPLES`, `ACTIVE_CLIENT_IDS` | `unwrap_seq`, `decode_to_client_buffer`, the audio callback, snapshot and clean-up ticks |
| Commands, permission operations, file transfer (`api.rs`, `lib.rs`, `ft_service.dart`) | return codes, `PERM_OPS`, `pending_move`, `FT_LISTS`, `FT_OPS`, `FT_TASKS`, `FT_TASK_BY_RC`, the workers, Dart completers | the `Command` arms of `event_loop`, `handle_control_item`, the 600 ms timers, `finish_ft_task`, cancellation |
| Microphone (`ts_state.dart`, `audio_service.dart`, `MainActivity.kt`, `ts_send_audio`) | mute, away, push-to-talk, `_micEnabled`, the capture subscription, the channel's sink, the `AudioRecord`, VAD and encoder | toggles, permission request, capture, sending |
| Roster, chat and sounds (`api.rs`, `channel_tree.dart`) | `TsState.channels/clients/own_client_id`, `pending_events`, `SFX_ARMED` | `refresh_from_book`, `handle_event_item`, `maybe_trigger_sfx`, the widgets' sorting |
| Avatar cache, OTA update, settings, screens | Dart state | sequential, with awaits |
| Keep-alive service (`KeepAliveService.kt`) | notification, media session, wake locks | start, stop, route callback, task removal |
| Book (`ts-bookkeeping`, `tsclientlib/lib.rs`) | channels with order and parent, clients, subscriptions | one function per notification; relinking of siblings; `channelsubscribe` |
| Connection (`tsclientlib/lib.rs`, `tsproto/client.rs`) | `ConnectionState`, `stream_items`, identity, mute state in `ConnectOptions` | resolve, handshake, raise the level, reconnect, leave |
| Resolver (`tsclientlib/resolver.rs`) | the stream of addresses | ip, nickname, SRV records, tsdns, host name |
| Transport (`tsproto/resend.rs`, `packet_codec.rs`, `connection.rs`) | send queues, receive queue, fragments, ids and generations, pings | send, resend, acknowledge, put in order, put together, ping |

### How they interact

The Dart isolate calls the native library synchronously through FFI; nothing
calls back. It learns what happened only by its 200 ms poll timer, which drains
`pending_events`. The Android main thread calls the library through JNI (task
removed, audio route changed). Inside the library, tokio tasks and the audio
callback share statics: some under the one lock `STATE`, most of them atomics or
locks of their own. `tsclientlib` is a stream of events that only moves while
somebody polls it.

### What is hard

No two of these threads agree on an order. The decision "is there a session?"
is spread over six statics that different threads set and clear one after the
other; sounds must outlive the session they announce without outliving the
next one; timers know neither the session they were started for nor whether a
new one has begun; the jitter buffer maps 16-bit packet numbers to a clock that
a rebuild resets. Below them, answers are matched by return codes that start
again with every connection, the book is changed while its events wait to be
handled, and the transport guesses the high half of every packet id.
`PROJECT.json` lists every such hazard at its line with the
properties that watch it, or the reason why none does.

### What makes each part correct

* Session: one connection at a time; none left open when a new one may start;
  what the user asked to end ends; the UI agrees with the native side in the
  end; events of one session do not act on another.
* Output: a running session is heard; a farewell sound is heard in full, alone,
  and then the stream is closed; the stream follows the device.
* Jitter buffer: every frame received is played, in its order and in time;
  a frame is in its own place of the ring whatever is lost or realigned.
* Requests and file transfer: each request is answered once, by the answer to
  it, also across reconnects; a listing is complete, a transfer reported done is
  done.
* Microphone: nothing is sent while the user is away, in push-to-talk without the
  button held, or muted out of push-to-talk; nothing records between sessions;
  who wants to speak is heard, in the next session too; the service declares what
  it uses.
* Book, roster and sounds: the book has the server's channels in its order and
  the clients in view; the UI has what the book has; nothing sounds that did not
  happen.
* Connection: every handshake ends, an attempt comes to an end, leaving ends; the
  application knows whether its audio is sent.
* Transport: commands arrive once and in order; no packet is forgotten; a dead
  peer is noticed.

## 2. The modules

### `Session`, `SessionSpec`, `MCSession`, `SessionProofs`

`Session` has a program counter for each thread: `uiPc` for the Dart isolate
inside an FFI call, `jni` for the Android main thread, `hs` for the `do_connect`
task, `pc[g]` for the event-loop task of session g, and `lib[g]` for the state
of that session's `Connection` in `tsclientlib`. The statics of the library
keep their names in short form (`alive` is `EVENT_LOOP_ALIVE`, `tx` is
`COMMAND_TX`, `dreq` is `disconnect_requested`). One step is a section that no
other thread can see half done: one critical section of `STATE`, one atomic,
one channel operation. So `ts_disconnect` is three steps (branch, flag,
command), the stream-error path is three (push the error, clear `connected`,
push `Disconnected`), the clean close is one, because the code does it under
one guard.

A few points a reader of the code may ask about:

* The swipe destroys the activity; the process, its statics and the Dart
  isolate survive, because `MainActivity.provideFlutterEngine` hands out a cached
  `FlutterEngine`. `KeepAliveService.onTaskRemoved` calls `tsDisconnect` only if
  the service was started, that is, after Connected has been handled.
* The Dart isolate runs on the Android main thread (the workflow pins Flutter
  3.47.0, which merges the two threads), so a JNI call falls between two
  handlers of the isolate, never inside one (`Dart`, `Swipe`).
* `ts_disconnect` and `tsDisconnect` hold the lock of `CONNECTION_STASH` across
  their `block_on`, because the guard in the scrutinee of `if let` lives to the
  end of the statement. `StashFree` says so.
* Draining with `for_each` swallows the error of a failed reconnect and polls
  the finished stream again, which panics (`DrainPanics`); `catch_unwind` ends
  the task without an event. The synchronous branches of the two disconnects poll in
  the same way, with no `catch_unwind` around them: there the model stops.
* A server stop makes `tsclientlib` connect again even while it is disconnecting,
  so `Drop` may take a connection that closes back to `"temp"`. The drain then
  waits for the new connection, which nobody tells to end (`DrainEnds`, section 4).
* `CheckFlags` reads the swipe and the request in one step where the code has two
  reads; nothing happens between them that the next round would not see.
* `asked` and the session number inside an event are history: the code does
  not have them and no guard reads them.

`SessionSpec` is what the library promises, whatever its threads do: sessions
are numbered, the server sees at most one, and the library is ready for the
next only after it has left the previous one. `Session` implements it
(`ImplementsSessionSpec`) under the mapping given at `Abstract`.

Constants: `MaxGen` bounds the sessions of one process. `Network` and
`Gestures` select what the environment may do, so that a run can ask its
question with and without a behaviour that is known to break it (section 4).
`PromptExit` is the one scheduling assumption: a handshake, which needs network
round trips, does not overtake the few instructions a finished event loop still
has to run. The safety run does without it.

### `AudioOutput`, `AudioProofs`

One stream, four kinds of tasks that open, rebuild or close it. `phase` follows
the one session that is being set up, runs or ends (`Session` shows there is
only one); `timer[g]` is the deferred teardown task of session g, `maint[g]`
the maintenance task session g left behind: the code never stops it, and
neither does the model. `timer` and `maint` take the steps of the code one by
one: fire and clear the flag, read `connected`, tear down; read the request,
drop the old stream, look for the device (`found`), install a stream on it, clear
the request. The request comes from Android's route callback (`RouteChange`) and
from the error callback of the stream (`StreamError`). A sound is its
kind and its session; it leaves the queue through the callback (`Play`,
`Finish`) or through a teardown, and the difference is what the properties are
about. The output device is assumed to open, closing the stream and clearing
its queue (two statements) are one step, and the synchronous branch of
`ts_disconnect` (no event loop yet) is in `Session` only.

Constants: `Ends` selects how sessions end, `LastEnds` how the last one does. `Reconnect` selects how soon the
user connects again: `"patient"` after the timers, `"prompt"` at any time but a
handshake does not overtake the few instructions of a timer that has fired,
`"any"` without restriction. `QuickAck` says that the server acknowledges a
disconnect before the farewell sound of that session (and its margin of 400 ms)
is over; the timers of earlier sessions may fire in between. `Calm` says that the
route does not change, and no stream fails, between the moment a rebuild looks for
the device and its end. `MaxGen` and `MaxRoutes` are bounds.

### `JitterBuffer`, `JitterProofs`

One speaker, one ring. A frame is its position in the speaker's stream; a
packet carries it modulo `W`. One `Tick` is one 20 ms slot: the speaker sends
one frame or is silent, the callback plays one frame or none. `Arrive` is
`decode_to_client_buffer` with its early returns and the realignment with its
re-homing of the ring; `Snapshot`, `CleanUp` are ticks of the maintenance task;
`RebuildClears` and `RebuildZeroes` are the two halves of a rebuild (buffers
first, clock second) that decoding can fall between. The arithmetic keeps its
wrap-arounds; the constants keep the code's names and are scaled:

| | code | `jitter` |
|---|---|---|
| `W` (u16) / `U` (u32) | 2^16 / 2^32 | 64 / 256 |
| `JITTER_SLOTS` | 64 | 8 |
| `TARGET_DELAY` | 6 | 2 |
| `REBASE_LEAD` | 4 | 2 |
| distance check | 1000 | 10 |
| realignment bound | 4096 | 20 |
| idle | 500 slots | 14 |

The order of the numbers is kept (`REBASE_LEAD` below the ring, the ring below
the distance check, that below half a turn of the ids), except that the scaled
realignment bound exceeds a quarter of `W`, where the real one is a sixteenth;
the run has no stream long enough to notice. `Lossy` and `Slow` name the frames
that may be lost or overtaken; `Swift` says that no packet is decoded between the
few instructions of a rebuild. Opus, gain and mixing do not decide
where a frame goes and are left out.

### `MicControl`, `MicProofs`

`TsConnectionNotifier`, its `AudioService`, the `mic` EventChannel and the
`AudioRecord` behind it. All of them run on the main thread, so one step is what
a handler does up to its first `await`; the one `await` that lasts is the
permission request, and `asks[s]` counts the `enableMic` calls of service `s`
that wait for it. The channel's "listen" and "cancel" messages keep their order
and act on Android's side only; each is part of the step that sends it.

* `svc` is `_audioService`, named by its session. A stopped service is no longer
  referenced, but an `enableMic` of it may still be waiting and then acts
  (`Granted(s)` with `s # svc`).
* `handler` is the subscription the channel's data goes to: Flutter keeps one
  message handler per channel name, whoever set it last.
* `sink` is what Flutter's `EventChannel` remembers for the handler of the
  current activity: a "listen" with a sink cancels first, a "cancel" without one
  is rejected. `recording` holds the activities whose `AudioRecord` runs.
* An update of `KeepAliveService` starts it when it is not running (`Refresh`);
  the media card and the notification's mute button exist while the service does,
  connected or not (`Card`, `ToggleMute`).
* `voice` is the flag the event loop sets with each frame it sends (`FrameSent`) and
  `_pollEvents` reads and clears after its events (`Poll`): a change refreshes the
  notification. The poll that brings 'disconnected' does so too, after the service
  has been stopped (`Disconnected`), and so starts it again; that nothing records
  then is `QuietBetween`, that the service runs is in section 4 (`ServiceStopped`).
* `restores` and `refused` are history: no guard reads them.

Constants: `Gestures` and `Ends` select what the user and the server do.
`PromptAnswers` says that the permission dialog is answered before anything else
happens, `Refusals` that the answer may be no, `AnyActivity` that Android may
replace the activity while it records. `MaxSessions`, `MaxActivities` and
`MaxAsks` are bounds.

### `Requests`, `RequestsProofs`

Everything the user may ask of the server and wait for: permission operations
with a token, a channel move, plain commands, file operations, listings, and
transfers with their worker threads. A request is followed from the FFI call
(`Ask*`), through `COMMAND_TX` and the event loop's `Command` arm (`Execute`, one
`Send*` per kind), the server, the events stream, the batch the loop collects
(`Collect`) and `handle_control_item` (`Handle*`), to the event for Dart, which
is appended to `answers[r]`. The four tables keep their names. The code handles
the first item of a batch last; `Collect` orders the batch so.

* `code` is `cur_return_code`: it counts commands and starts again at 0 with a
  connection. `conn`, the number of the connection, does not exist in the code;
  no table is keyed by it.
* A timer is a sleep of 600 ms. Unless `Faults` has `"slow"`, what has been
  received when it starts is handled before it fires (`left` counts it down).
* A transfer is known by four names: its task (`tasks`), its return code
  (`taskByRc`), its handle (`opening`, until tsclientlib has the TCP stream), and
  the u16 `ftid`. Worker, status message, result and cancellation each try to
  end it, and `FinishTasks` lets only the first report it.
* `link` is what is left of module `Session` here; `End` empties what
  the ways out of the event loop empty and nothing else.

`Faults` selects what the network, the server and the user may do; each value is
explained beside the constant.

### `Channel`, `Transport`, `TransportProofs`

`Channel` is what the reliable command channel promises: commands come out once
each, in the order they went in, until an end breaks. `Transport` is what
`tsproto` does for it, and implements it (`FifoOrder`). Both ends run the same
code; between them packets are lost, delayed, reordered and, since they are
resent, duplicated. Packets have whole numbers in the model, and ids and
generations wherever the code has only those: `Key` is the number the Resender
files a packet under, `AckedKey` the number it takes an ack for, `Offset` and
`InWindow` what the receiver makes of an id. `Rounds` is the loop of
`handle_command_packet`, one `Round` per packet it finds kept (it finds none
once it has stopped, so as many rounds as there are kept packets are all of it).
`order` is the order of last
sends, which decides what is resent first (`Due`). Rates and times become
choices: the congestion window is any number up to `MaxWindow` each time it is
computed, a retransmission timer may run out at any moment.

### `Connect`, `ConnectProofs`

A `Connection` of tsclientlib from its first address to the end of its stream,
with the application at the end of it: `PollConnecting` and the actions below it
are `poll_next` while `ConnectionState::Connecting` holds its future,
`Receive` with `StepTo` and `Acks` is the handshake of `client.rs`. What waits in
the Resender for an answer is `waiting`; a packet that waits too long ends the
attempt (`PacketTimesOut`), and so does the wait for `initserver`; nothing else does
when the server says nothing. A restart of the handshake by the server starts
both again, any number of times.
`items` are the stream items the application has not taken; `poll_next` hands
them out before anything else happens (`Polls`), which is why so much of the
module is guarded by it. `again` distinguishes a reconnect.

Why no audio is sent, mute or away, stands in three places: `wants` is the user,
`options` the `ConnectOptions` that a handshake sends and a reconnect reads, `self`
the book's own client once the server has sent it (`seen`, `Enterview`). What the
server sends then is one of the `options` it has had of this connection (`known`).
`SetSilent` is a change by the user, which goes to the options, and to the book if
it has our client; `Named` is the server telling a change of that client.
`"early"` in `Faults` lets the user change it before the server has sent our client.

### `Resolver`

The stream of addresses as its four steps, and `resolve_srv` with its grouping by
priority (`Runs` after `ByPriority`) and its draw by weight, records of weight 0
included. The answers of DNS, the nickname service and tsdns are the
environment's choice: `Lookups` is every list of up to `MaxRecords` records.

### `ChannelTree`, `Book`, `TreeProofs`

The server names one channel per notification; the book relinks the siblings
itself. `ChannelTree` has the functions that do it, each as the set of books it
may lead to, since the code changes the first channel of a hash map that fits.
`Linked`, `Ranked` and `Chained` say what the orders are for.

`Book` puts the tree between a server and the user: an action changes the server
and lets the book follow, as the notifications arrive in order (module
`Channel`); the events wait in `items` until the event loop has collected its
batch, and `Handle` works them off, first item last, against the book as it is by
then: copy the channels and clients (`Refresh`), decide on a sound (`Sound`),
push the chat message. Subscriptions are commands: `Ask` sends one for a new
channel, the server grants the oldest (`Grant`). `due[x]` counts what client x
did, less the sounds about it.

`Mixes` bounds what happens in one behaviour (channels; other clients and our
own moves; moves and chat); the full product of them is out of reach.

## 3. What the runs check

All runs are listed in `PROJECT.json` with a sentence each. These pass:

| Run | Properties | Bounds |
|---|---|---|
| `session_safety` | `OneConnection`, `NoOrphan`, `ImplementsSessionSpec`, `UiEntersCurrent`, `UiLeavesEnded` | 2 sessions, all of network, gestures and scheduling; 1 559 930 states |
| `session_live` | `LoopReachable`, `ConnectResolves`, `UiLearns`, `UiShows`, `Honoured` | 3 sessions, closes, stream errors and the swipe, `PromptExit`; 25 796 states |
| `audio` | `HeardWhileRunning`, `StreamClosed`, `RouteFollowed` | 2 sessions, the first ended in every way, the second by the user or the server, one route change or stream error, `QuickAck`, `Calm`; 359 170 states |
| `jitter` | `Kept`, `Placed` | 9 frames from number 40 of 64, pauses of 6 and 8, latency 1, frame 43 may be lost, one rebuild; 2 710 710 states |
| `mic_control` | `NotOverheard`, `Speaks`, `QuietBetween`, `Declared`, `AwayRestores` | 3 sessions ended by the user, 2 activities, every gesture, refusals, prompt answers; 14 210 states |
| `requests` | `AnsweredOnce`, `AnswersTrue`, `ListingComplete`, `TransferTrue`, `Answered` | 2 requests of any kind, 2 directories, 2 connections, lost or ended, cancellations; 376 235 states |
| `transport` | `FifoOrder`, `NotForgotten`, `EachDelivered`, `DeadPeerNoticed` | 3 packets in commands of up to 3, sent from id 14 of 16, window 2, 2 tries, loss and death of the peer; 66 651 states |
| `connect` | `ToldWhileConnected`, `HandshakeEnds`, `FirstEnds`, `LeavingEnds` | 2 addresses, levels 1 and 2 asked for and 1 possible, any number of restarts, 3 server packets on the way, 2 items waiting, every fault but `"early"`; 85 705 states |
| `resolver` | `ByPriorityDrawn` | every answer of up to 3 records with 2 priorities and 3 weights; 1 131 326 states |
| `book` | `TreeRight`, `ClientsRight`, `CaughtUp`, `SoundsEarned`, `NoneOverlooked` | 3 channels, 1 other client, 3 events on the server, 4 items in a batch, one temporary disconnect; 405 216 states |

Two sessions are enough for what these properties say: each is about a session
and the one before it (a stale flag, event, timer or task), and the threads of
an ended session keep no memory of the one before them, except the maintenance
tasks, which are all alike. `session_live` takes three, so that what the first
left behind may still act when the second is over; `Audio.cfg` has been checked
with three sessions on one device (`MaxGen` 3, `MaxRoutes` 0) as well. Nine frames are several
turns of the ring, a realignment in the middle and frames beyond half a turn of
the ids. Two requests are the one asked and the one whose answer might be taken
for its own, in two connections; the tables are keyed by small numbers, so every
coincidence of return codes occurs. Three packets from id 14 cross the turn of
the ids, with a queue that holds what comes too early; more commands repeat the
same meetings. Three channels are a channel with a sibling on either side, or
with a parent and a child; a batch of four items holds all that three events and
a subscription yield.

`transport` exchanges less than a turn of the ids beyond its start, so that ids and
generations turn but nothing meets its own id again; what happens when one does is
in section 4.

The runs that expect a violation are `requests_move` (`MoveReported`) and
`book_shown` (`ShownInOrder`), see section 4.

Deadlock is not checked: the system rests when the user does nothing, and the
bounds stop it. The type invariants of the modules whose runs do not list them
hold as well and are left out of the runs to keep them short.

### Fairness

`FairSpec` of `Session` and `AudioOutput` assumes weak fairness for each thread
of the program (the Dart isolate and its timer, the JNI call, the `do_connect`
task, each event loop, each deferred and maintenance task, the audio callback): they are run by tokio, by the Dart event loop and by Android,
none of which starves a runnable one, and each of their waits has a timeout or
is a step of its own here. The user and the network owe nothing, with one
exception: a connection that is closing is acknowledged or times out in the
resender (`CloseAck`); in `AudioOutput`, where the handshake is one step, this
is part of `Ending`, and `do_connect` ends after 15 s at the latest.

`Requests` adds to its own threads (event loop, timers, workers) that a server
that is connected answers what it was sent and that tsclientlib opens or fails to
open a stream it was told of: without an answer, no code of the client ends the
wait. `Transport` assumes only that the sending end's timers are polled (`PollResend`,
`PollPing`); the network owes nothing, and `EachDelivered` allows for a
connection given up. `Connect` assumes that each await of the connecting future ends
that a timer or the client's own work ends: the pause before a reconnect, the
resend limit of each packet, the wait for `initserver`, the computation of a level. A
packet's limit runs while the packet waits; a server that answers step 127 again
and again has it replaced by a new one (`client.rs:279`, `resend.rs:648`), so
`HandshakeEnds` and `FirstEnds` make an exception for it. The resolver is assumed to
return: its own timeout does not end a slow step (`resolver.rs:200`), and the tsdns
lookup has none. In the application `do_connect` bounds the first connection, both of
these included, by 15 s; a reconnect has no such bound. A connection that leaves is
acknowledged or timed out, which is the one case of strong fairness, because
`poll_next` hands items out first; and the application takes items. The server owes
nothing. `MicControl`,
`JitterBuffer`, `Resolver` and `Book` state safety only. A liveness
property that needs more than this is not stated.

## 4. Where the code and its own words differ

Each row is a property that fails under the configuration given, with a trace
from TLC. Two are runs of the project that expect the violation; the others
are shown by putting the constants named into the configuration of a run and
checking the one property (a `x.cfg` is named where the module has several). The
passing runs of section 3 show the same properties without that behaviour; a
property no passing run lists is stated for its disagreement alone.

| Property, configuration | What happens |
|---|---|
| `Honoured`, `SessionLive.cfg`, `MaxGen` 1, `Network` {}, `Gestures` {cancel} | A disconnect during the handshake does nothing; the session is established afterwards. |
| `EndsOnlyAsked`, `SessionLive.cfg`, `MaxGen` 2, `Network` {}, `Gestures` {} | `disconnect_requested` survives and ends the next session at once. |
| `DrainEnds`, `SessionLive.cfg`, `MaxGen` 1, `Network` {drop}, `Gestures` {} | A disconnect during a reconnect sends nothing; the loop then drains a live stream. |
| `NoPanic`, `SessionLive.cfg`, `MaxGen` 1, `Network` {}, `Gestures` {cancel} | A disconnect between stash and spawn takes the connection; the task panics. |
| `UiLearns`, `SessionLive.cfg`, `MaxGen` 1, `Network` {}, `Gestures` {cancel} | A disconnect that takes the stashed connection, the UI having read Connected, pushes no Disconnected (`api.rs:3076`): the UI stays connected. |
| `UiLearns`, `SessionLive.cfg`, `MaxGen` 2, `Network` {}, `Gestures` {retap} | A tap on connect before the Disconnected of the last session is read clears it; when the new dial fails, the UI stays connected. |
| `PolledWhileConnected`, `SessionLive.cfg`, `MaxGen` 1, `Network` {level}, `Gestures` {} | The identity-level message ends polling, the session goes on. |
| `UiLeavesEnded` without its exception for `"failed"`, `SessionSafety.cfg` | The error path lets an old `Disconnected` into the next session. |
| `LoopReachable`, `SessionLive.cfg`, `MaxGen` 2, `Network` {close}, `Gestures` {retap}, `PromptExit` FALSE | The end of one event loop clears `EVENT_LOOP_ALIVE` or `COMMAND_TX` of the next. |
| `StreamClosed`, `Audio.cfg`, `MaxGen` 1, `MaxRoutes` 0, `Ends` and `LastEnds` {user}, `Reconnect` patient, `QuickAck` FALSE | The timer gives up while the server is slow; the stream stays open. |
| `StreamClosed` without its last disjunct, `Audio.cfg`, `MaxGen` 1 | A rebuild under way installs its stream after the session's teardown. |
| `FarewellHasStream`, `Audio.cfg`, `MaxGen` 1, `MaxRoutes` 0, `Ends` and `LastEnds` {close}, `Reconnect` patient | `ts_stop_audio` overtakes the scheduling of the connection-lost sound. (It holds, and `FarewellHeard` with it, with `MaxGen` 2, `Ends` and `LastEnds` {user}, `QuickAck` FALSE.) |
| `FarewellHeard`, `Audio.cfg`, `MaxRoutes` 0, `Ends` and `LastEnds` {user} | The timer of the previous session cuts the next farewell. |
| `HeardWhileRunning`, `Audio.cfg`, `MaxRoutes` 0, `Ends` and `LastEnds` {close}, `Reconnect` any | The deferred task closes the stream of a session established in between. |
| `RouteFollowed`, `Audio.cfg`, `MaxGen` 1, `Ends` and `LastEnds` {user}, `Calm` FALSE | A route change after a rebuild, asked for by a stream error, has read `default_output_device` (`api.rs:879`) is forgotten: the stream is installed on the old device and the request cleared. |
| `KickAlone`, `Audio.cfg`, `MaxGen` 1, `MaxRoutes` 0, `Ends` and `LastEnds` {kick, user} | The disconnected sound plays on top of the kick sound. (It holds with {kick, close}.) |
| `Kept`, `Jitter.cfg`, `Start` 60, `Pauses` {8}, `Latency` 0, `Lossy` {}, `Restarts` 0 | A base beyond one turn of the ids is truncated; the speaker is discarded. |
| `Kept`, the same with `Start` 1, `Pauses` {3} | A pause just too short to realign: the rest of the utterance is late. |
| `Kept`, the same with `Start` 0, `Pauses` {} | A base of 0 is taken for no base. |
| `Kept`, the same with `Start` 1, `Frames` 40, `Pauses` {} | The frame half a turn ahead maps half a turn back. |
| `Kept` and `Placed`, `Jitter.cfg`, `Start` 32 | A first packet with the id half a turn: `unwrap_seq` against 0 gives a base of 2^32 less half a turn; the comment (`api.rs:613`) leaves that to a check the first packet does not meet. |
| `Kept`, `Jitter.cfg`, `Slow` {43}, `Lossy` {}, `Restarts` 0 | A late packet moves `write_seq` back; newer frames in the ring are not played. |
| `Kept`, `Jitter.cfg`, `Swift` FALSE, `Lossy` {} | A frame decoded between clearing the buffers and the clock is placed on the old clock. |
| `InOrder`, `Jitter.cfg`, `SLOTS` 4, `DELAY` 1, `MaxDistance` 6, `MaxBehind` 12, `Idle` 8, `Start` 1, `Frames` 8, `MaxSlot` 20, `Pauses` {5}, `Latency` 2, every frame in `Lossy` and `Slow`, `Restarts` 0 | A frame written late is replayed a turn of the ring later. |
| `Speaks`, `MicControl.cfg`, `MaxSessions` 2, `Gestures` {}, `Ends` {passive} | A session that ends by itself leaves `_micEnabled` set; the next one has no microphone. |
| `NotOverheard`, `MicControl.cfg`, `PromptAnswers` FALSE | A mute while the permission is asked for; the grant starts the capture all the same. |
| `QuietBetween`, `MicControl.cfg`, `PromptAnswers` FALSE | A grant after `disconnect()` records, and starts the keep-alive service again. |
| `QuietBetween`, `MicControl.cfg`, `AnyActivity` TRUE | The new activity's handler rejects the "cancel"; the old `AudioRecord` runs on. |
| `MutedSilent`, `MicControl.cfg` | In push-to-talk the button alone decides (`_shouldMicBeActive`): who mutes while it is held goes on sending. |
| `ServiceStopped`, `MicControl.cfg` | A frame sent since the last poll: the poll that handles 'disconnected' stops the keep-alive service, then reads the voice flag and refreshes the notification, which starts the service again. |
| `MoveReported`, run `requests_move` | A wrong channel password is reported as a generic error, never as `MoveRejected`. |
| `OwnAnswer`, `Requests.cfg` | `FT_OPS` survives a temporary disconnect, return codes start again: the result of another command answers the operation. |
| `StartedEnds`, `Requests.cfg`, `Faults` {end} | A transfer announced when its session ends stays in `FT_TASKS` for ever; `api.rs:4026` means to prevent that. |
| `Answered`, `Requests.cfg`, `Faults` {stall} | A new listing removes one that is 30 s old without a word to whoever waits. |
| `ListingComplete`, `Requests.cfg`, `Faults` {again} | The marker of one listing of a directory ends the other one. |
| `AnswersTrue`, `Requests.cfg`, `Faults` {again} | The marker of a directory's first listing starts the timer of the second one too; it is shown as empty 600 ms later, before the server has answered it, or although it refuses it then. |
| `AnswersTrue`, `Requests.cfg`, `Faults` {drop, swift} | A timer from before the reconnect shows the listing that has its code now as empty, before the server has answered it. |
| `ListingComplete`, `Requests.cfg`, `Faults` {slow} | Rows that come after the 600 ms are dropped. |
| `ListingComplete`, `Requests.cfg`, `Faults` {drop, swift} | The timer of a listing from before the reconnect ends the one that has its code now. |
| `TransferTrue`, `Requests.cfg`, `Faults` {status} | A status Ok for a download, which the comment at `api.rs:2059` says is left to the worker, has the download reported as failed. |
| `TransferTrue`, `Requests.cfg`, `IdSpace` 2, `MaxRequests` 3, `Kinds` {down, up}, `Faults` {} | An id in use is given out again; the status of one transfer ends another. |
| `FifoOrder`, `Transport.cfg`, `IdSpace` 5, `Start` 0, `MaxSend` 7, `MaxSize` 1, `Faults` {} | A packet that came too early and was resent is kept twice; the second copy is handed out a turn of the ids later, in place of another command. |
| `NotForgotten`, `Transport.cfg`, `IdSpace` 5, `Start` 0, `MaxSend` 4, `MaxSize` 1, `Faults` {} | A packet half a turn ahead of the receiver is taken for an old one whose ack was lost (`packet_codec.rs:231`): it is acknowledged and thrown away, and never sent again. |
| `Waited`, `Transport.cfg`, `MaxSize` 1, `Faults` {lose} | The last id of a generation is filed under the next one (`packet_codec.rs`, `encode_packet`); whoever waits for its ack, as the doc of `send_packet` says, is not told. |
| `SubscribedAgain`, `Connect.cfg`, `Faults` {} | A reconnected session is not subscribed to all channels any more. |
| `ToldAlways`, `Connect.cfg`, `Faults` {} | A temporary disconnect pushes no item: the application believes it may send. |
| `ToldWhileConnected`, `Connect.cfg`, `Faults` {early} | A mute before the server has sent our own client changes only the options; the client it sends is unmuted still, and the application is told so. After a timeout the options are muted, the new connection pushes nothing, and the application believes it may send. |
| `MuteKept`, `Connect.cfg`, `Faults` {} | A mute or away during a reconnect is lost. |
| `LeavesForGood`, `Connect.cfg`, `Faults` {stop} | A server that stops while we leave is dialled again. |
| `EveryRecordDrawn`, `Resolver.cfg` | Records of weight 0 are set aside and never read (it holds with `Weights` {1, 2}). |
| `PortKept`, `Resolver.cfg` | The port of an SRV record replaces the one the user typed (it holds with `Weights` {0}, where no record is drawn). |
| `ChatInOrder`, `Book.cfg` | The first message of a batch is shown after those behind it. |
| `OwnKnown`, `Book.cfg` | `own_client_id` keeps the number from before a reconnect until a command of our own needs it. |
| `ShownInOrder`, run `book_shown` | Siblings are sorted by their predecessor's id as a number. |

The following were met while reading and have no property of their own. A
channel that only changes its order plays the "channel moved" sound, though the
comment in `maybe_trigger_sfx` says such changes are ignored. After a server
stop `SFX_ARMED` is set again by the book item that was collected first and is
handled last. A client that leaves while we change channel ourselves is judged
against the final book and makes no sound. Our own mute and away sounds cannot
play, because tsclientlib filters the events. A message of several parts that
fails in one part drops the events of the others.

## 5. What is proved

`SessionProofs`, from `SessionAssumption` only (`MaxGen` any positive number,
any network, any gestures, any scheduling):

* `TypeCorrect`: `Spec => []TypeOK`.
* `OneConnectionAtATime`: `Spec => []OneConnection`.
* `NoOrphanLeft`: `Spec => []NoOrphan`.
* `Refinement`: `Spec => ImplementsSessionSpec`.
* `EntersCurrent`, `LeavesEnded`: `Spec => UiEntersCurrent` and
  `Spec => UiLeavesEnded`.
* `RunningReachable`: `Spec => []LoopReachable` if `PromptExit` (section 4 shows
  why).

`OneConnection`, `NoOrphan` and the refinement are not inductive. The invariant that is, `SessionInv`, says
who owns what at each point of each thread:

* `TypeInv`: `TypeOK`; the sessions established, dialling and tapped for stay
  within `MaxGen` (`Bound`); a session whose handshake is over has its number
  (`Numbered`); the UI handles a batch only while it has an event (`Handling`);
* `Phases`: what `connecting` and `connected` are at each value of `hs`;
* `Owners`: whoever holds a Connection (the stash, a task that runs an event
  loop, one of the two synchronous disconnects) holds that of the session in
  force, and `connected` is TRUE as long as somebody does;
* `Exclusive`: nobody else holds one at the same time;
* `Presence`: only the session in force can be present on a server, and only
  while `ts_connect` refuses another one; a loop that reports an end has seen
  its stream end.

`OneConnection` needs `Presence` (a session still on a server keeps `Busy`
true, so `ts_connect` refuses), `Presence` needs `Owners` (only the holder of a
Connection can report its end), and `Owners` needs `Phases` (the stash is
filled once per session). The proof has one lemma per group of actions and
conjunct, and the theorems combine them with `PTL`. `Refinement` maps every step
to a step of `SessionSpec` or to a stutter, with `SessionInv` for the guards.

The cardinalities of `OneConnection` are handled by showing that `Joined` is
empty or `{gen}`.

What the user interface does with an event was true when it was pushed; that it
is when it is handled takes `EventInv` on top: a waiting "connected" is about the
session in force, and nothing is being dialled; a waiting "disconnected" finds no
session present and none dialled, or belongs to a task whose stream has failed
(`Recent`, and `News` says it of `pending_events` and of the batch). It is kept
because `ts_connect` clears `pending_events`, and because no batch is half
handled when it runs: both are steps of one isolate (`Fetched`).

For `LoopReachable`, `ReachInv` says that `COMMAND_TX` is the session's own from
before its Connection is in the stash until its loop ends (`Fed`), that a loop
that runs has set `EVENT_LOOP_ALIVE` (`Announced`), and that no earlier loop is
left to clear either of them (`Reported`); only the last needs `PromptExit`.

`AudioProofs`, from `AudioAssumption`, for any number of sessions and of route
changes, any way of ending and any server:

* `AudioTypeCorrect`: `Spec => []TypeOK`.
* `Heard`: `Spec => []HeardWhileRunning` if `Reconnect # "any"` (section 4).

`HeardInv` adds three parts. `FoundInv`: who has looked for a device and not yet
installed its stream has found one. `DartInv`: the user interface has no `ts_stop_audio`
under way when a session begins, and a running session meets only that of the
user's own disconnect, which reads `disconnect_requested`. `TimerInv`: `connected`
is TRUE exactly while a session is up, and no timer is then between its check of
it and the teardown.

`RequestsProofs`, from `RequestsAssumption`, for any number of requests,
connections, codes and ids and every value of `Faults`:

* `RequestsTypeCorrect`: `Spec => []TypeOK`.
* `Once`: `Spec => []AnsweredOnce`.
* `PermissionsTold`, `OperationsTold`, `RefusalsTold`: the first three of the four
  parts of `AnswersTrue`: a permission request is reported done or refused only
  if the server did or refused that one; so is a file operation in the
  connection it was sent in; a listing is reported failed only if it was.
* `AnswersTold`: `Spec => []AnswersTrue` if `Faults` has neither `"again"` nor
  `"swift"`; each of them alone breaks it (section 4). The fourth part says that
  a listing shown without an error was not refused.

`Once` rests on `OwnerInv`: a request without an answer stands in one place, the
queue, one table under one code, or `FT_TASKS`, and whoever answers it takes it out
of there. The others need `RequestsInv`: what is under way on the wire of a
connection carries a code below `code` that no other request of that connection
has (`WireInv`, `Below`, `Own`), nothing but `FT_OPS` and `FT_TASK_BY_RC` outlives a
connection, because the event that says it is lost is the last of its stream
(`Phases`), and a result is what the server did (`TruthInv`). `FT_OPS` that
does outlive it is why `OperationsTrue` speaks of one connection.

The marker that ends a listing has no code, only a directory, and the timer it
starts has no listing, only a code. `AnswersTold` therefore needs `ListingInv`
besides: one listing of a directory is open at a time (`OneOpen`), it has at
most one marker under way, sent after the server accepted it (`OneMarker`,
`MarkersTrue`), and a timer sleeps under a code already handed out, for a listing
the server has answered and whose marker has been handled (`TimersTrue`).
`"slow"` and `"stall"` do no harm to it: they cost rows or an answer, never its
truth.

* `ListingsComplete`: `Spec => []ListingComplete` if `Faults` has none of
  `"again"`, `"slow"` and `"swift"`; each of them alone breaks it (section 4).
* `TransfersReported`: `Spec => []TransferTrue` if `Faults` has neither `"status"` nor
  `"slow"`, each of which alone breaks it, and `MaxRequests < IdSpace`: a
  client transfer id comes round only after 2^16 transfers, and then a status of one ends
  another (section 4).

Both speak of what is under way in order, so they look at one sequence, `Flow`: the
batch, then the stream. A step takes its first item, puts items behind it, cuts it, or
turns the first item of a batch to the batch's end (`FlowTaken`, `FlowGrown`, `FlowCut`,
`FlowTurned`).

`ListingsComplete` needs `RowsInv`: while the marker of a listing is under way, and while
its timer sleeps, the rows collected and the rows in `Flow` are together as many
as the server sent (`RowsCounted`); rows come before the marker, or are in the same
batch (`RowsFirst`), so a connection that breaks behind the marker breaks behind
the rows; and a timer's `left` is no smaller than the place of any row it waits
for (`RowsAwaited`). When it fires `left` is 0, so no row is left. `RowsFirst` is
what makes the deferred first item harmless: the marker may be handled before rows
of its batch, but then the 600 ms are what the rows need. `RowsCounted` counts
with `Cardinality`, so its steps go through `SameSize`: taking an item, turning a
batch and the server's answer each are a bijection of places.

`TransfersReported` needs `TransferInv`: ids below `nextFt` are handed out once (`Ids`); what
is under way for a transfer, what its worker does and what the server did are
one story (`Story`): a transfer starts once, its status comes after its start,
and only where the server ended it; a return code in `FT_TASK_BY_RC` from the
connection that lasts is that of the task (`CodesTrue`), and what a task was told
is one of four verdicts that the rest of the story bears out (`TransfersTold`).

`ConnectProofs`, from `ConnectAssumption`, for any bounds and every value of
`Faults`:

* `ConnectTypeCorrect`: `Spec => []TypeOK`.
* `Told`: `Spec => []ToldWhileConnected` if `"early"` is not in `Faults` (section 4).

`ToldWhileConnected` speaks of an application that has taken every item.
`ToldInv` speaks of what it will believe when it has (`Says`): while the
connection is there, that is `can_send_audio`; and, connection or not, whoever is
muted or away will know it. The second half carries the first through a reconnect,
because a new connection pushes an item only if its options have neither. `BookAgrees` joins
the options and the book: while the book has not got our client, all the server
has had of this connection is the options as they are; once it has, the two agree.
That is where `"early"` would break it.

`JitterProofs`, from `JitterAssumption`:

* `JitterTypeCorrect`: `Spec => []TypeOK`.
* `InPlace`: `Spec => []Placed` if `HalfTurn`.

`HalfTurn` says that the ids of the stream are above 0, below one turn and not
half a turn, and that the constants are in the order they have in the code. A
stream beyond that (eleven minutes of speech at the most) is where section 4
shows frames placed wrongly or speakers discarded. With it, any packets may be
lost or overtaken, any pauses made, and buffers rebuilt at any moment, also
between the two halves of a rebuild. `BufferInv` adds to `Placed` that `base` and
`write_seq` are frames of the stream and in this order. The lemmas are about
`unwrap_seq` (it is the identity on such a stream, whatever the base) and about
the re-homing of the ring at a realignment.

`TransportProofs`, from `TransportAssumption` and the condition named, for any
number of ids, any windows, queue lengths, tries and sizes of commands,
whatever is lost, delayed, reordered and repeated:

* `InOrderOnce`: `Spec => FifoOrder` if `MaxSend < IdSpace`: while the ids of a
  connection do not start over, `Transport` implements `Channel`.
* `NoneForgotten`: `Spec => []NotForgotten` if `2 * MaxSend < IdSpace`.

Both conditions bound how much a connection sends, less than 65 536 packets and
less than half of that; without them section 4 shows the property fail. They say
nothing of where the ids start, so generations turn over within the theorems.
A packet may stay in the network for as long as it likes, so nothing weaker tells
two packets with the same id apart (`IdUnique`).

`FifoInv` is about the receiving end as a value (`Right`): what came out is a
prefix of what was sent, the fragments are the first packets of the command
after it, and `next` is the packet after those. The loop of
`handle_command_packet` keeps it round by round (`AssembleRight`, `RoundRight`),
and what one round keeps any number of rounds keeps (`RoundsKeep`, by the least
number of rounds that would not). A step of the loop hands out a run of commands,
which is what `Channel` allows. `ArrivedInv` adds, for `NoneForgotten`, that an ack
on the way is for a packet the receiving end has kept or handed on; with half
the ids unused, neither end can take an id for that of another packet, in
either direction.

`MicProofs`, from `MicAssumption` and the conditions named, for any number of
sessions, activities and requests and any gestures:

* `MicTypeCorrect`: `Spec => []TypeOK`, without conditions.
* `AwayRestoresMute`: `Spec => AwayRestores`, without conditions.
* `NobodyOverheard`: `Spec => []NotOverheard` if `PromptAnswers`.
* `QuietBetweenSessions`, `RecordingDeclared`: `Spec => []QuietBetween` (nothing
  records; the service may, section 4) and `Spec => []Declared` if `PromptAnswers` and `~AnyActivity`.
* `SpeakerHeard`: `Spec => []Speaks` if, besides, no session ends by itself.

The conditions are those of the run `mic_control`, and section 4 shows what
happens without each of them; `NobodyOverheard` and `QuietBetweenSessions` need
fewer than the run has. The invariants build on each other: `WantedInv` (only the
service of the running session waits for the microphone or has it, and only
while the user wants it), `RecordsInv` (the `AudioRecord` of the current activity
runs exactly while there is a subscription, and then the permission was granted
and the service declares it), `SpeakInv` (`_micEnabled` is what the running session
wants, and what is enabled is waited for, subscribed to or refused). Each has a
lemma on `_updateMicState`, which every gesture runs.

`TreeProofs`, from `ChannelsAssumption`, for any set of channels, any book and
whichever channel of the hash map each search finds first:

* `CreatedChained`, `DeletedChained`, `MovedChained`, `EditedChained`: if the
  siblings of a book form chains (`Chained`) and the server names a place that
  exists (`Place`), they do after the operation; the channel is at its place; no
  other channel is lost or changes its parent.

The argument is `Linked` on both sides of the change: unlinking c
leaves one channel without predecessor, which gets c's (`Removed`); linking finds
at most one sibling with c's new predecessor (`Inserted`). That `ChannelCreated`
links twice does no harm, because after the first time nobody fits
(`CreatedChained`). Acyclicity is a function to the naturals that grows along the
orders (`Ranked`), with the new ranks given explicitly: doubled, to make room for
c.

On top of them, from `BookAssumption`, for any number of channels and clients, any
number of events, batches and reconnects:

* `BookInvariant`: the inductive invariant.
* `BookRight`: `Spec => []TreeRight`.
* `RosterRight`: `Spec => []ClientsRight`.
* `NoChannelOverlooked`: `Spec => []NoneOverlooked`.
* `UiCaughtUp`: `Spec => []CaughtUp`.
* `SoundsTrue`: `Spec => []SoundsEarned`.

The server's tree has sequences of siblings, the book has orders. What joins them
is `Has(t, x, o, p)`: in t, x is below p and behind o. Inserting a channel into a
sequence or removing it changes the facts about that channel and about the one
behind it (`InsertedOrder`, `RemovedOrder`, `TreeInserted`, `TreeRemoved`), and these
are the two that the book changes; so `Right(book, tree)`, which says that the book
has just the facts of the tree, is kept by every operation, also where the same
channel is the one behind the old and the new place. A channel list is
the case of a connect and a reconnect: the channels come in any order, so a
channel may name a predecessor that the book does not have yet. While they come,
the book has a part of the tree's facts (`Listing`), and when all have come, all
of them; the least number of channels for which that failed would give one with
a channel less.

`TreeInv` says that every channel is in one place, `ViewInv` and `NumberInv`
where everybody is and that our number is not that of another client; they are
about the server and hold whether or not we are connected. `BookInv` is
`Right` and that only channels in view are subscribed, `ClientsInv` the roster
in terms of the tree. `AskedInv` is `NoneOverlooked` without the exception it makes
for the channel we are in, which would not survive a move out of it.

The last two are about the event loop, and their invariant, `BatchInvariant`, about the
items it has not handled (`BatchInv`). `UiInv`: what the widgets are given is the
book as it is, or an item is waiting that makes the loop copy it; so every change of
the book has to bring an item that is no message (`Copying`), which is where a
change without an event would show. `ChatInv`: every message is in the chat or in
one item, never in both. `DueInv`: for each client, and for the channels, the items
waiting that may sound are no more than what is still owed; `SoundsEarned` alone says
nothing of them and is not inductive. `ItemInv` says that no two events that may sound
share an item: several come together only where they are silent (a subscription, a
list, a channel that goes out of view). What an action sends is described once, as
`News(its, W)`: items that are no messages and sound only in the first, of somebody in
W. `NewsAdded` shows the invariant kept by any news whose sounds are earned, and
`BatchKept` that every action sends such news.

The other half is `Handle`, which works off a batch of any length, the first item
last. `HandleEvents` and `HandleItems` are recursive functions on the events
and the items handled; `InARow` shows that there is such a function and
`StepByStep` that what each step keeps, all keep. An item's step is `Worked`, an
event's `EventDone`: the interface is fresh from the first event that is no message
on, and stays so; the chat gains the message it is; `due` loses at most the
sounds of that item, once for each client.

### What stays with TLC

Liveness under fairness: the session's, the answers to requests, the closing of
the stream and the route (`StreamClosed`, `RouteFollowed`), the ends of a
handshake and of a connection, the delivery of commands. `Kept`, which is about
frames that are due, through pauses and realignments. `ByPriorityDrawn`,
which is about a sorted list. `TypeOK` of `Transport`; the
proofs type only the part they are about, and leave out the order of last sends
and the pings.

## 6. What is not modelled

`PROJECT.json` lists every component with its status. Left out for good: the
cryptography, message structs, parsers and licences of the vendored libraries
(pure data, largely generated), Opus, WAV parsing, the screens, settings and
bookmarks, FFI marshalling and logging; `audio.rs` and the sync wrapper of
tsclientlib, which the application does not use; the avatar cache and the OTA
update, which run one step at a time; the media session and wake locks of the
keep-alive service. Left out so far:

* the three locks `STATE`, `PANIC_LOG` and the shards of `CLIENT_BUFFERS`: two
  orders of taking them exist (`lib.rs:870`, `api.rs:805`), and a wait-for graph
  would say which threads can meet in them;
* what `ts_send_audio` makes of a frame (voice activation, encoder, the last
  packet of an utterance);
* the queries answered by a message of their own (permission, group and ban
  lists), and Dart's completers, which see the events of `Requests`;
* sounds other than those of moving clients and changed channels;
* packet kinds other than Command, and the congestion window's numbers.

## 7. Plan

Next, in this order: `Locks`, the wait-for graph; the encoder side of the microphone; the avatar cache over an abstract file transfer.
