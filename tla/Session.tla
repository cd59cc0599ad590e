------------------------------ MODULE Session ------------------------------
(***************************************************************************)
(* The life of a TeamSpeak session in NEk0: who opens it, who closes it    *)
(* and who is told.  Five kinds of threads share the statics of the native *)
(* library:                                                                *)
(*                                                                         *)
(*   - the Dart isolate (TsConnectionNotifier): connect(), disconnect() and*)
(*     the 200 ms poll timer, calling ts_connect, ts_disconnect and        *)
(*     ts_poll_events;                                                     *)
(*   - the task spawned by ts_connect, which runs do_connect;              *)
(*   - the task spawned by do_connect, which takes the Connection out of   *)
(*     CONNECTION_STASH and runs event_loop;                               *)
(*   - the Android main thread, which calls tsDisconnect through JNI when  *)
(*     the app is swiped away, between two handlers of the Dart isolate;   *)
(*   - the network, as seen through the events stream of tsclientlib.      *)
(*                                                                         *)
(* A session is named by its CONNECTION_GENERATION.  One step is a section *)
(* of code that no other thread can observe half done: a critical section  *)
(* of STATE, one atomic, one channel operation.                            *)
(***************************************************************************)
EXTENDS Integers, Sequences, FiniteSets

CONSTANTS
  MaxGen,      (* bound: sessions established in one life of the process    *)
  Network,     (* what the network may do: "drop", "close", "error", "level"*)
  Gestures,    (* what the user may do beyond connect() from the idle screen*)
               (* and disconnect() of a running session: "cancel" before    *)
               (* the event loop runs, "retap" connect() while the UI is    *)
               (* connecting or connected, "swipe" the app away             *)
  PromptExit   (* TRUE: a handshake (network round trips) never overtakes   *)
               (* the few instructions a finished event loop still has to   *)
               (* run; FALSE: the scheduler may do anything                 *)

ASSUME SessionAssumption ==
  /\ MaxGen \in Nat \ {0}
  /\ Network \subseteq {"drop", "close", "error", "level"}
  /\ Gestures \subseteq {"cancel", "retap", "swipe"}
  /\ PromptExit \in BOOLEAN

VARIABLES
  uiConnecting, uiConnected, \* TsConnectionState.connecting / .connected
  uiPolling,                 \* _pollTimer is running
  uiTaps,                    \* connect() calls suspended on SharedPreferences
  uiPc,                      \* where the Dart isolate is inside an FFI call
  uiCon,                     \* the session ts_disconnect took from the stash
  batch,                     \* events drained by ts_poll_events, not yet handled
  service,                   \* KeepAliveService is running
  jni, jniCon,               \* tsDisconnect on the Android main thread
  connecting, connected,     \* TsState.connecting / .connected
  dreq,                      \* TsState.disconnect_requested
  pending,                   \* TsState.pending_events
  swipe,                     \* SWIPE_DISCONNECT
  alive,                     \* EVENT_LOOP_ALIVE
  tx,                        \* COMMAND_TX: 0 (None) or the session it feeds
  stash,                     \* CONNECTION_STASH: 0 (None) or the session in it
  gen,                       \* CONNECTION_GENERATION
  hs,                        \* the do_connect task up to its CONNECTION_STASH
  pc,                        \* the event-loop task of each session, from the
                             \* tail of do_connect on
  lib,                       \* the tsclientlib Connection of each session
  con,                       \* the Connection each task has taken (0: none)
  queue,                     \* TRUE: a Command::Disconnect waits in the channel
  asked                      \* history: sessions the user asked to end

ui     == <<uiConnecting, uiConnected, uiPolling, uiTaps, uiPc, uiCon, batch, service>>
jniVars == <<jni, jniCon>>
flags  == <<dreq, swipe, alive>>
state  == <<connecting, connected, pending>>
links  == <<tx, stash, gen>>
loops  == <<pc, con, lib, queue>>
vars   == <<ui, jniVars, flags, state, links, hs, loops, asked>>

Gens == 1..MaxGen

\* The events of TsEvent that drive the session; gen is the session an event
\* belongs to (a history field: the JSON handed to Dart does not carry it).
Event(k, g) == [kind |-> k, gen |-> g]
Events == [kind : {"connected", "disconnected", "error"}, gen : Gens]

UiPcs   == {"idle", "handle", "discFlag", "discCmd", "discSync"}
JniPcs  == {"idle", "flag", "swipe", "cmd", "stash", "sync"}
HsPcs   == {"idle", "dial", "leveled", "ready", "published"}
LoopPcs == {"none", "opening", "spawned", "started", "top", "cmds", "poll",
            "drainFlag", "drainCmd", "flagEnd", "flagClear",
            "errEnd", "errPush", "clear", "ret", "done", "panicked"}
\* up: Connected; temp: Connecting(_, reconnect = true); closing: the
\* disconnect packet is out; ended: the stream returned None; failed and
\* dialFailed: it returned Some(Err), dialFailed when the reconnect future is
\* the one that failed.
LibStates == {"none", "up", "temp", "closing", "ended", "failed", "dialFailed"}

TypeOK ==
  /\ uiConnecting \in BOOLEAN /\ uiConnected \in BOOLEAN /\ uiPolling \in BOOLEAN
  /\ uiTaps \in Nat /\ uiPc \in UiPcs /\ uiCon \in Gens \union {0}
  /\ batch \in Seq(Events) /\ service \in BOOLEAN
  /\ jni \in JniPcs /\ jniCon \in Gens \union {0}
  /\ connecting \in BOOLEAN /\ connected \in BOOLEAN /\ pending \in Seq(Events)
  /\ dreq \in BOOLEAN /\ swipe \in BOOLEAN /\ alive \in BOOLEAN
  /\ tx \in Gens \union {0} /\ stash \in Gens \union {0} /\ gen \in Gens \union {0}
  /\ hs \in HsPcs
  /\ pc \in [Gens -> LoopPcs] /\ con \in [Gens -> Gens \union {0}]
  /\ lib \in [Gens -> LibStates] /\ queue \in [Gens -> BOOLEAN]
  /\ asked \subseteq Gens

Init ==
  /\ uiConnecting = FALSE /\ uiConnected = FALSE /\ uiPolling = FALSE
  /\ uiTaps = 0 /\ uiPc = "idle" /\ uiCon = 0 /\ batch = <<>> /\ service = FALSE
  /\ jni = "idle" /\ jniCon = 0
  /\ connecting = FALSE /\ connected = FALSE /\ pending = <<>>
  /\ dreq = FALSE /\ swipe = FALSE /\ alive = FALSE
  /\ tx = 0 /\ stash = 0 /\ gen = 0 /\ hs = "idle"
  /\ pc = [g \in Gens |-> "none"] /\ con = [g \in Gens |-> 0]
  /\ lib = [g \in Gens |-> "none"]
  /\ queue = [g \in Gens |-> FALSE]
  /\ asked = {}

----------------------------------------------------------------------------
(* Shared helpers.                                                         *)

Dialing == hs \in {"dial", "leveled"}

\* Mutant: ts_connect forgets the attempt that is still dialling.
BusyForgetsConnecting == connected

\* ts_connect's guard.
Busy == connecting \/ connected

\* The session a gesture of the user is about: the running one, or else the
\* one that is being set up.
Target == IF Dialing \/ (uiTaps > 0 /\ ~Busy) THEN gen + 1 ELSE gen

\* No session is being set up: every event loop has started or is over.
Settled == uiTaps = 0 /\ hs = "idle" /\ \A g \in Gens : pc[g] \notin {"opening", "spawned", "started"}

Ask == asked' = asked \union ({Target} \intersect Gens)

\* The event loop of g still reads its command channel.
Receives(g) == pc[g] \in {"none", "opening", "spawned", "started", "top", "cmds", "poll"}

SendDisconnect ==
  queue' = [g \in Gens |-> queue[g] \/ (g = tx /\ Receives(g))]

Push(k, g) == pending' = Append(pending, Event(k, g))

Goto(g, label) == pc' = [pc EXCEPT ![g] = label]

\* Somebody is awaiting the events stream of c, so its library state moves.
Polled(c) ==
  \/ \E g \in Gens : con[g] = c /\ pc[g] \in {"poll", "drainFlag", "drainCmd"}
  \/ uiCon = c \/ jniCon = c

\* An event loop that has left its main loop but has not ended yet.
Exiting(g) == pc[g] \in {"flagEnd", "flagClear", "errEnd", "errPush", "clear", "ret"}

\* The synchronous branches hold the CONNECTION_STASH lock across block_on: the
\* guard in the scrutinee of an `if let` lives to the end of the statement.
StashFree == uiPc # "discSync" /\ jni # "sync"

Unhurried == PromptExit => ~\E g \in Gens : Exiting(g)

----------------------------------------------------------------------------
(* Dart isolate: one handler runs at a time, uiPc = "idle" between them.   *)

\* TsConnectionNotifier.connect up to its await.
TapConnect ==
  /\ uiPc = "idle" /\ jni = "idle"
  /\ "retap" \in Gestures \/ ~(uiConnecting \/ uiConnected)
  /\ gen + uiTaps + (IF Dialing THEN 1 ELSE 0) < MaxGen      \* bound
  /\ uiConnecting' = TRUE
  /\ uiTaps' = uiTaps + 1
  /\ UNCHANGED <<uiConnected, uiPolling, uiPc, uiCon, batch, service, jniVars,
                 flags, state, links, hs, loops, asked>>

\* Mutant: ts_connect keeps the events of the previous connection.
ConnectKeepsEvents ==
  /\ uiPc = "idle" /\ uiTaps > 0 /\ ~Busy
  /\ uiTaps' = uiTaps - 1
  /\ connecting' = TRUE /\ hs' = "dial" /\ uiPolling' = TRUE
  /\ UNCHANGED <<uiConnecting, uiConnected, uiPc, uiCon, batch, service, jniVars, flags,
                 connected, pending, links, loops, asked>>

\* connect() resumed: ts_connect, then _startPolling unless it was refused.
Connect ==
  /\ uiPc = "idle" /\ uiTaps > 0
  /\ uiTaps' = uiTaps - 1
  /\ \/ /\ Busy
        /\ uiConnecting' = FALSE
        /\ UNCHANGED <<uiPolling, connecting, pending, hs>>
     \/ /\ ~Busy
        /\ connecting' = TRUE
        /\ pending' = <<>>
        /\ hs' = "dial"
        /\ uiPolling' = TRUE
        /\ UNCHANGED uiConnecting
  /\ UNCHANGED <<uiConnected, uiPc, uiCon, batch, service, jniVars, flags,
                 connected, links, loops, asked>>

\* _pollEvents: ts_poll_events drains pending_events.
Poll ==
  /\ uiPc = "idle" /\ uiPolling /\ pending # <<>>
  /\ batch' = pending /\ pending' = <<>>
  /\ uiPc' = "handle"
  /\ UNCHANGED <<uiConnecting, uiConnected, uiPolling, uiTaps, uiCon, service, jniVars,
                 flags, connecting, connected, links, hs, loops, asked>>

\* _handleEvent.
OnConnected ==
  /\ uiConnecting' = FALSE /\ uiConnected' = TRUE /\ service' = TRUE
  /\ UNCHANGED uiPolling

OnDisconnected ==
  IF uiConnecting
  THEN UNCHANGED <<uiConnecting, uiConnected, uiPolling, service>>
  ELSE /\ uiConnected' = FALSE /\ uiPolling' = FALSE /\ service' = FALSE
       /\ UNCHANGED uiConnecting

OnError ==
  /\ uiConnecting' = FALSE
  /\ uiPolling' = (uiPolling /\ ~uiConnecting)
  /\ UNCHANGED <<uiConnected, service>>

\* One event of the batch _pollEvents is iterating over.
HandleEvent ==
  /\ uiPc = "handle"
  /\ \/ Head(batch).kind = "connected" /\ OnConnected
     \/ Head(batch).kind = "disconnected" /\ OnDisconnected
     \/ Head(batch).kind = "error" /\ OnError
  /\ batch' = Tail(batch)
  /\ uiPc' = IF Tail(batch) = <<>> THEN "idle" ELSE "handle"
  /\ UNCHANGED <<uiTaps, uiCon, jniVars, flags, state, links, hs, loops, asked>>

\* disconnect() after ts_disconnect has returned.
DisconnectReturns ==
  /\ uiPc' = "idle" /\ uiCon' = 0
  /\ uiConnecting' = FALSE /\ service' = FALSE

\* disconnect(): ts_disconnect reads EVENT_LOOP_ALIVE and picks its branch.
TapDisconnect ==
  /\ uiPc = "idle" /\ jni = "idle"
  /\ uiConnecting \/ uiConnected
  /\ "cancel" \in Gestures \/ (Settled /\ ~uiConnecting)
  /\ Ask
  /\ \/ /\ alive
        /\ uiPc' = "discFlag"
        /\ UNCHANGED <<uiCon, uiConnecting, service, stash, lib>>
     \/ /\ ~alive /\ stash # 0
        /\ uiPc' = "discSync" /\ uiCon' = stash
        /\ stash' = 0
        /\ lib' = [lib EXCEPT ![stash] = "closing"]
        /\ UNCHANGED <<uiConnecting, service>>
     \/ /\ ~alive /\ stash = 0
        /\ DisconnectReturns
        /\ UNCHANGED <<stash, lib>>
  /\ UNCHANGED <<uiConnected, uiPolling, uiTaps, batch, jniVars, flags, state,
                 tx, gen, hs, pc, con, queue>>

DisconnectFlag ==
  /\ uiPc = "discFlag"
  /\ dreq' = TRUE
  /\ uiPc' = "discCmd"
  /\ UNCHANGED <<uiConnecting, uiConnected, uiPolling, uiTaps, uiCon, batch, service,
                 jniVars, swipe, alive, state, links, hs, loops, asked>>

DisconnectCommand ==
  /\ uiPc = "discCmd"
  /\ SendDisconnect
  /\ DisconnectReturns
  /\ UNCHANGED <<uiConnected, uiPolling, uiTaps, batch, jniVars, flags, state, links,
                 hs, pc, con, lib, asked>>

\* The synchronous branch: block_on drives the stream to its end.
DisconnectSync ==
  /\ uiPc = "discSync"
  /\ lib[uiCon] = "ended"
  /\ connected' = FALSE /\ dreq' = FALSE
  /\ DisconnectReturns
  /\ UNCHANGED <<uiConnected, uiPolling, uiTaps, batch, jniVars, swipe, alive,
                 connecting, pending, links, hs, loops, asked>>

----------------------------------------------------------------------------
(* Android main thread.                                                    *)

\* The app leaves the recents list.  The activity goes away; the process, the
\* statics of the native library and the cached FlutterEngine with the Dart
\* isolate stay.  KeepAliveService.onTaskRemoved runs tsDisconnect and stops the
\* service; without the service nobody is told.
Swipe ==
  /\ "swipe" \in Gestures
  /\ jni = "idle" /\ uiPc = "idle" /\ service
  /\ "cancel" \in Gestures \/ Settled
  /\ service' = FALSE
  /\ jni' = "flag"
  /\ Ask
  /\ UNCHANGED <<uiConnecting, uiConnected, uiPolling, uiTaps, uiPc, uiCon, batch, jniCon,
                 flags, state, links, hs, loops>>

JniFlag ==
  /\ jni = "flag"
  /\ dreq' = TRUE
  /\ jni' = "swipe"
  /\ UNCHANGED <<ui, jniCon, swipe, alive, state, links, hs, loops, asked>>

JniSwipe ==
  /\ jni = "swipe"
  /\ swipe' = TRUE
  /\ jni' = "cmd"
  /\ UNCHANGED <<ui, jniCon, dreq, alive, state, links, hs, loops, asked>>

JniCommand ==
  /\ jni = "cmd"
  /\ SendDisconnect
  /\ jni' = "stash"
  /\ UNCHANGED <<ui, jniCon, flags, state, links, hs, pc, con, lib, asked>>

\* The fallback of tsDisconnect.
JniStash ==
  /\ jni = "stash"
  /\ \/ /\ stash = 0
        /\ jni' = "idle"
        /\ UNCHANGED <<jniCon, stash, lib>>
     \/ /\ stash # 0
        /\ jni' = "sync" /\ jniCon' = stash
        /\ stash' = 0
        /\ lib' = [lib EXCEPT ![stash] = "closing"]
  /\ UNCHANGED <<ui, flags, state, tx, gen, hs, pc, con, queue, asked>>

JniSync ==
  /\ jni = "sync"
  /\ lib[jniCon] = "ended"
  /\ connected' = FALSE /\ dreq' = FALSE
  /\ jni' = "idle" /\ jniCon' = 0
  /\ UNCHANGED <<ui, swipe, alive, connecting, pending, links, hs, loops, asked>>

----------------------------------------------------------------------------
(* The do_connect task.                                                    *)

\* StreamItem::IdentityLevelIncreasing is reported as an Error event.
IdentityLevel ==
  /\ "level" \in Network /\ hs = "dial" /\ Unhurried
  /\ hs' = "leveled"
  /\ Push("error", gen + 1)
  /\ UNCHANGED <<ui, jniVars, flags, connecting, connected, links, loops, asked>>

\* Mutant: the failed attempt is not reported.
HandshakeFailsSilently ==
  /\ Dialing
  /\ connecting' = FALSE /\ hs' = "idle"
  /\ UNCHANGED <<ui, jniVars, flags, connected, pending, links, loops, asked>>

\* The stream failed, ended, or 15 s passed without BookEvents.
HandshakeFails ==
  /\ Dialing
  /\ connecting' = FALSE
  /\ Push("error", gen + 1)
  /\ hs' = "idle"
  /\ UNCHANGED <<ui, jniVars, flags, connected, links, loops, asked>>

\* First BookEvents: the generation counter and the command channel.
HandshakeDone ==
  /\ Dialing
  /\ Unhurried
  /\ gen' = gen + 1
  /\ tx' = gen'
  /\ lib' = [lib EXCEPT ![gen'] = "up"]
  /\ hs' = "ready"
  /\ UNCHANGED <<ui, jniVars, flags, state, stash, pc, con, queue, asked>>

\* Mutant: Connected is never pushed.
PublishSilently ==
  /\ hs = "ready"
  /\ connecting' = FALSE /\ connected' = TRUE
  /\ hs' = "published"
  /\ UNCHANGED <<ui, jniVars, flags, pending, links, loops, asked>>

Publish ==
  /\ hs = "ready"
  /\ connecting' = FALSE /\ connected' = TRUE
  /\ Push("connected", gen)
  /\ hs' = "published"
  /\ UNCHANGED <<ui, jniVars, flags, links, loops, asked>>

Stash ==
  /\ hs = "published" /\ StashFree
  /\ stash' = gen
  /\ hs' = "idle" /\ Goto(gen, "opening")
  /\ UNCHANGED <<ui, jniVars, flags, state, tx, gen, con, lib, queue, asked>>

----------------------------------------------------------------------------
(* The event-loop task of session g.                                       *)

\* The tail of do_connect: it opens the output stream, then spawns the task.
SpawnLoop(g) ==
  /\ pc[g] = "opening"
  /\ Goto(g, "spawned")
  /\ UNCHANGED <<ui, jniVars, flags, state, links, hs, con, lib, queue, asked>>

\* CONNECTION_STASH.take().expect("Connection not in stash")
TakeStash(g) ==
  /\ pc[g] = "spawned" /\ StashFree
  /\ \/ /\ stash # 0
        /\ stash' = 0
        /\ con' = [con EXCEPT ![g] = stash]
        /\ Goto(g, "started")
     \/ /\ stash = 0
        /\ Goto(g, "panicked")
        /\ UNCHANGED <<stash, con>>
  /\ UNCHANGED <<ui, jniVars, flags, state, tx, gen, hs, lib, queue, asked>>

\* Mutant: the loop does not say that it runs.
StartLoopUnseen(g) ==
  /\ pc[g] = "started"
  /\ Goto(g, "top")
  /\ UNCHANGED <<ui, jniVars, flags, state, links, hs, con, lib, queue, asked>>

StartLoop(g) ==
  /\ pc[g] = "started"
  /\ alive' = TRUE
  /\ Goto(g, "top")
  /\ UNCHANGED <<ui, jniVars, dreq, swipe, state, links, hs, con, lib, queue, asked>>

\* Mutant: con.disconnect is left out.
CloseNothing(g) == lib' = lib

\* con.disconnect: a packet is sent only by a connected library.
Close(g) == lib' = [lib EXCEPT ![con[g]] = IF @ = "up" THEN "closing" ELSE @]

CheckFlags(g) ==
  /\ pc[g] = "top"
  /\ dreq' = (dreq \/ swipe) /\ swipe' = FALSE
  /\ \/ dreq' /\ Close(g) /\ Goto(g, "drainFlag")
     \/ ~dreq' /\ Goto(g, "cmds") /\ UNCHANGED lib
  /\ UNCHANGED <<ui, jniVars, alive, state, links, hs, con, queue, asked>>

\* try_recv until the channel is empty; other commands leave this state alone.
Commands(g) ==
  /\ pc[g] = "cmds"
  /\ \/ queue[g] /\ Close(g) /\ Goto(g, "drainCmd")
     \/ ~queue[g] /\ Goto(g, "poll") /\ UNCHANGED lib
  /\ queue' = [queue EXCEPT ![g] = FALSE]
  /\ UNCHANGED <<ui, jniVars, flags, state, links, hs, con, asked>>

\* 2a-2c with nothing final on the stream.
PollStream(g) ==
  /\ pc[g] = "poll" /\ lib[con[g]] \in {"up", "temp"}
  /\ Goto(g, "top")
  /\ UNCHANGED <<ui, jniVars, flags, state, links, hs, con, lib, queue, asked>>

\* Mutant: connected is cleared in one critical section and Disconnected pushed
\* in a later one.
StreamEndsInTwoSteps(g) ==
  /\ pc[g] = "poll" /\ lib[con[g]] = "ended"
  /\ connected' = FALSE
  /\ Goto(g, "errPush")
  /\ UNCHANGED <<ui, jniVars, flags, connecting, pending, links, hs, con, lib, queue, asked>>

\* The stream ended while the loop was reading it.
StreamEnds(g) ==
  /\ pc[g] = "poll" /\ lib[con[g]] = "ended"
  /\ \/ /\ gen = g
        /\ connected' = FALSE
        /\ Push("disconnected", g)
        /\ Goto(g, "clear")
     \/ /\ gen # g
        /\ Goto(g, "ret")
        /\ UNCHANGED <<connected, pending>>
  /\ UNCHANGED <<ui, jniVars, flags, connecting, links, hs, con, lib, queue, asked>>

\* Some(Err): the error, then connected, then Disconnected, each under its own
\* lock of STATE.
StreamFails(g) ==
  /\ pc[g] = "poll" /\ lib[con[g]] \in {"failed", "dialFailed"}
  /\ \/ gen = g /\ Push("error", g) /\ Goto(g, "errEnd")
     \/ gen # g /\ Goto(g, "ret") /\ UNCHANGED pending
  /\ UNCHANGED <<ui, jniVars, flags, connecting, connected, links, hs, con, lib, queue, asked>>

FailEnd(g) ==
  /\ pc[g] = "errEnd"
  /\ connected' = FALSE
  /\ Goto(g, "errPush")
  /\ UNCHANGED <<ui, jniVars, flags, connecting, pending, links, hs, con, lib, queue, asked>>

StreamFailed(g) ==
  /\ pc[g] = "errPush"
  /\ Push("disconnected", g)
  /\ Goto(g, "clear")
  /\ UNCHANGED <<ui, jniVars, flags, connecting, connected, links, hs, con, lib, queue, asked>>

\* Mutant: the loop does not wait for the stream to end.
DrainedFlagEarly(g) ==
  /\ pc[g] = "drainFlag"
  /\ Push("disconnected", g) /\ Goto(g, "flagEnd")
  /\ UNCHANGED <<ui, jniVars, flags, connecting, connected, links, hs, con, lib, queue, asked>>

\* disconnect_requested: the stream is drained, then Disconnected is pushed.
DrainedFlag(g) ==
  /\ pc[g] = "drainFlag" /\ lib[con[g]] = "ended"
  /\ \/ gen = g /\ Push("disconnected", g) /\ Goto(g, "flagEnd")
     \/ gen # g /\ Goto(g, "ret") /\ UNCHANGED pending
  /\ UNCHANGED <<ui, jniVars, flags, connecting, connected, links, hs, con, lib, queue, asked>>

FlagEnd(g) ==
  /\ pc[g] = "flagEnd"
  /\ connected' = FALSE
  /\ Goto(g, "flagClear")
  /\ UNCHANGED <<ui, jniVars, flags, connecting, pending, links, hs, con, lib, queue, asked>>

FlagClear(g) ==
  /\ pc[g] = "flagClear"
  /\ dreq' = FALSE
  /\ Goto(g, "clear")
  /\ UNCHANGED <<ui, jniVars, swipe, alive, state, links, hs, con, lib, queue, asked>>

\* Mutant: the command path does not tell the UI.
DrainedCommandSilently(g) ==
  /\ pc[g] = "drainCmd" /\ lib[con[g]] = "ended"
  /\ connected' = FALSE
  /\ Goto(g, "clear")
  /\ UNCHANGED <<ui, jniVars, flags, connecting, pending, links, hs, con, lib, queue, asked>>

\* Command::Disconnect.
DrainedCommand(g) ==
  /\ pc[g] = "drainCmd" /\ lib[con[g]] = "ended"
  /\ \/ /\ gen = g
        /\ connected' = FALSE
        /\ Push("disconnected", g)
        /\ Goto(g, "clear")
     \/ /\ gen # g
        /\ Goto(g, "ret")
        /\ UNCHANGED <<connected, pending>>
  /\ UNCHANGED <<ui, jniVars, flags, connecting, links, hs, con, lib, queue, asked>>

\* for_each swallows the error of a failed reconnect and polls the finished
\* future again: the loop panics and catch_unwind ends the task.
DrainPanics(g) ==
  /\ pc[g] \in {"drainFlag", "drainCmd"} /\ lib[con[g]] = "dialFailed"
  /\ Goto(g, "ret")
  /\ UNCHANGED <<ui, jniVars, flags, state, links, hs, con, lib, queue, asked>>

ClearTx(g) ==
  /\ pc[g] = "clear"
  /\ tx' = 0
  /\ Goto(g, "ret")
  /\ UNCHANGED <<ui, jniVars, flags, state, stash, gen, hs, con, lib, queue, asked>>

EndTask(g) ==
  /\ pc[g] = "ret"
  /\ alive' = FALSE
  /\ Goto(g, "done")
  /\ UNCHANGED <<ui, jniVars, dreq, swipe, state, links, hs, con, lib, queue, asked>>

----------------------------------------------------------------------------
(* The events stream of tsclientlib.                                       *)

LibStep(g, from, to) ==
  /\ Polled(g)
  /\ lib[g] = from
  /\ lib' = [lib EXCEPT ![g] = to]
  /\ UNCHANGED <<ui, jniVars, flags, state, links, hs, pc, con, queue, asked>>

\* Timeout or server shutdown: DisconnectedTemporarily, then a reconnect.  A
\* shutdown has the library reconnect even while it is disconnecting.
Drop(g) ==
  /\ "drop" \in Network
  /\ LibStep(g, "up", "temp") \/ LibStep(g, "closing", "temp")

Reconnect(g)      == LibStep(g, "temp", "up")
ReconnectFails(g) == LibStep(g, "temp", "dialFailed")
ServerCloses(g)   == "close" \in Network /\ LibStep(g, "up", "ended")
NetworkError(g)   == "error" \in Network /\ LibStep(g, "up", "failed")

\* The server's acknowledgement or the resender's timeout.
CloseAck(g)       == LibStep(g, "closing", "ended")

----------------------------------------------------------------------------
User == TapConnect \/ TapDisconnect \/ Swipe
\* Flutter runs the Dart isolate on the Android main thread.
Dart == jni = "idle" /\ (Connect \/ Poll \/ HandleEvent \/ DisconnectFlag \/ DisconnectCommand
                          \/ DisconnectSync)
Jni  == JniFlag \/ JniSwipe \/ JniCommand \/ JniStash \/ JniSync
DoConnect == IdentityLevel \/ HandshakeFails \/ HandshakeDone \/ Publish \/ Stash
EventLoop(g) ==
  \/ SpawnLoop(g) \/ TakeStash(g) \/ StartLoop(g)
  \/ CheckFlags(g) \/ Commands(g) \/ PollStream(g)
  \/ StreamEnds(g) \/ StreamFails(g) \/ FailEnd(g) \/ StreamFailed(g)
  \/ DrainedFlag(g) \/ FlagEnd(g) \/ FlagClear(g) \/ DrainedCommand(g) \/ DrainPanics(g)
  \/ ClearTx(g) \/ EndTask(g)
Library(g) ==
  \/ Drop(g) \/ Reconnect(g) \/ ReconnectFails(g) \/ ServerCloses(g) \/ NetworkError(g)
  \/ CloseAck(g)

Next == User \/ Dart \/ Jni \/ DoConnect \/ \E g \in Gens : EventLoop(g) \/ Library(g)

Spec == Init /\ [][Next]_vars

\* Every thread of the program keeps running; the user and the network owe
\* nothing, except that a closing connection is acknowledged or times out.
Fairness ==
  /\ WF_vars(Dart) /\ WF_vars(Jni) /\ WF_vars(DoConnect)
  /\ \A g \in Gens : WF_vars(EventLoop(g)) /\ WF_vars(CloseAck(g))

FairSpec == Spec /\ Fairness

----------------------------------------------------------------------------
(* Properties.                                                             *)

\* Sessions the server counts as present, or that the library will renew.
Joined == {g \in Gens : lib[g] \in {"up", "temp", "closing"}}

\* One connection at a time: however taps, swipes, kicks and reconnects
\* interleave, ts_connect never dials a second connection beside a live one.
OneConnection == Cardinality(Joined) + (IF Dialing THEN 1 ELSE 0) <= 1

\* No orphan: when ts_connect would accept a new connection, no connection of
\* ours is still open on a server.
NoOrphan == ~Busy => Joined = {} /\ ~Dialing

\* The library implements the abstract life of sessions.
Abstract == INSTANCE SessionSpec WITH
  phase  <- IF connecting THEN "connecting" ELSE IF connected THEN "connected" ELSE "idle",
  joined <- Joined,
  n      <- gen

\* do_connect, event_loop, ts_disconnect and tsDisconnect together only take the
\* steps SessionSpec allows: numbered sessions, left before the next is dialled.
ImplementsSessionSpec == Abstract!Spec

\* A 'connected' event turns the UI on only for the session that is running,
\* never for an earlier one while the next is being dialled: ts_connect clears
\* the events of the previous connection.
UiEntersCurrent ==
  [][HandleEvent /\ ~uiConnected /\ uiConnected' => Head(batch).gen = gen /\ ~Dialing]_vars

\* A 'disconnected' event takes the UI out of a session only when no session is
\* left: a late one of the previous connection must not end the next one in the
\* UI while the native side stays connected.  (The event of a failed stream may:
\* connected is false before it is pushed.)
UiLeavesEnded ==
  [][HandleEvent /\ uiConnected /\ ~uiConnected'
       => Joined = {} \/ lib[con[Head(batch).gen]] \in {"failed", "dialFailed"}]_vars

\* A running event loop can be told to stop: COMMAND_TX feeds it and
\* EVENT_LOOP_ALIVE says so, which is what ts_disconnect goes by.
LoopReachable ==
  gen # 0 /\ pc[gen] \in {"top", "cmds", "poll"} => tx = gen /\ alive

\* The Connection is in the stash when the task that runs the event loop comes
\* for it: its expect("Connection not in stash") does not fire.
NoPanic == \A g \in Gens : pc[g] # "panicked"

\* The event loop ends a session of its own accord only when asked to end this
\* one: the reason it reports is "User disconnected".
EndsOnlyAsked == \A g \in Gens : pc[g] \in {"drainFlag", "drainCmd"} => g \in asked

\* The poll timer runs as long as the UI shows a session: it is what brings the
\* events that close it.
PolledWhileConnected == uiConnected => uiPolling

\* "Connecting..." always ends, by the Connected or the Error of do_connect.
ConnectResolves == uiConnecting ~> ~uiConnecting

\* The UI does not show a session for ever after the native side has ended it.
UiLearns == (uiConnected /\ ~Busy) ~> (~uiConnected \/ Busy)

\* A session that runs is shown, or is over before it could be.
UiShows == \A g \in Gens : (lib[g] = "up" /\ pc[g] # "none") ~> (uiConnected \/ lib[g] # "up")

\* A session the user asked to end ends on the server.
Honoured == \A g \in Gens : g \in asked ~> g \notin Joined

\* An event loop that has begun to disconnect comes to an end: it does not wait
\* for ever for the end of its events stream.
DrainEnds == \A g \in Gens : pc[g] \in {"drainFlag", "drainCmd"} ~> pc[g] = "done"

=============================================================================
