----------------------------- MODULE AudioOutput -----------------------------
(***************************************************************************)
(* The output stream of NEk0 across sessions: who opens it, who rebuilds   *)
(* it on another device and who tears it down once the farewell sound of a *)
(* session ("disconnected", "connection lost", "error", or the kick sound) *)
(* has been heard.  The threads:                                           *)
(*                                                                         *)
(*   - do_connect, which resets the sfx flags, opens the stream and leaves *)
(*     a maintenance task behind;                                          *)
(*   - the event loop, which ends the session, queues the farewell and     *)
(*     spawns a timer that tears the stream down;                          *)
(*   - one timer per ended session (schedule_sfx_teardown);                *)
(*   - one maintenance task per connection: none of them ever ends;        *)
(*   - the Dart isolate, which calls ts_disconnect and ts_stop_audio;      *)
(*   - the audio callback and Android's route changes.                     *)
(*                                                                         *)
(* Module Session shows that one session at a time is set up or running;   *)
(* here phase follows that one.  The output device is taken to open.       *)
(* Closing the stream and clearing its queue, two statements, are one step.*)
(***************************************************************************)
EXTENDS Naturals, Sequences, FiniteSets

CONSTANTS
  MaxGen,     (* bound: sessions established                               *)
  MaxRoutes,  (* bound: route changes (Bluetooth, wired, USB)              *)
  Ends,       (* how a session may end: "user", "close", "kick", "error"   *)
  LastEnds,   (* bound: the same for session MaxGen                        *)
  Reconnect,  (* "patient": no connect() while a timer is pending;         *)
              (* "prompt": a handshake does not overtake the few           *)
              (* instructions of a timer that has fired; "any"             *)
  QuickAck,   (* TRUE: the server acknowledges a disconnect before the     *)
              (* timer of that session's farewell sound fires              *)
  Calm        (* TRUE: neither the route nor the stream fails between the  *)
              (* moment a rebuild looks for the device and its end         *)

ASSUME AudioAssumption ==
  /\ MaxGen \in Nat \ {0} /\ MaxRoutes \in Nat
  /\ Ends \subseteq {"user", "close", "kick", "error"} /\ LastEnds \subseteq Ends
  /\ Reconnect \in {"patient", "prompt", "any"}
  /\ QuickAck \in BOOLEAN /\ Calm \in BOOLEAN

VARIABLES
  ui,         \* what the UI shows: "off", "connecting", "on"
  uiPc,       \* where the Dart isolate is inside ts_stop_audio
  service,    \* an AudioService is running
  events,     \* pending_events: "connected", "disconnected", "error"
  phase,      \* the do_connect task and the event loop of session gen
  gen,        \* CONNECTION_GENERATION
  connected,  \* TsState.connected
  dreq,       \* TsState.disconnect_requested
  cmd,        \* a Command::Disconnect waits in the channel
  suppress,   \* SFX_SUPPRESS_DISCONNECT
  deferred,   \* SFX_DEFERRED_TEARDOWN
  timer,      \* the deferred teardown task of each session
  restart,    \* OUTPUT_RESTART_REQUESTED
  maint,      \* the maintenance task each session left behind
  stream,     \* AUDIO_STREAM: 0 (None) or the device it plays on
  device,     \* the default output device: 1, 2, ...
  found,      \* the device restart_output_stream has found: that of do_connect
              \* (0) or of a maintenance task; 0 when none is building
  queued,     \* SFX_QUEUE
  playing     \* the two sfx slots of the callback

dart    == <<ui, uiPc, service>>
session == <<phase, gen, connected, dreq, cmd>>
sounds  == <<queued, playing>>
output  == <<stream, device, found, restart>>
vars    == <<dart, events, session, suppress, deferred, timer, maint, output, sounds>>

Gens    == 1..MaxGen
Devices == 1..(MaxRoutes + 1)
Builders == 0..MaxGen    \* do_connect and the maintenance tasks
Ways    == IF gen = MaxGen THEN LastEnds ELSE Ends
Sound(k, g) == [kind |-> k, gen |-> g]
Sounds  == [kind : {"connected", "kick", "farewell"}, gen : Gens]

Phases == {"idle", "called", "dial", "opening", "dropped", "found", "running", "drainFlag", "drainCmd",
           "flagEnd", "flagClear", "closed", "err1", "err2", "err3"}

TypeOK ==
  /\ ui \in {"off", "connecting", "on"} /\ uiPc \in {"idle", "stop", "check", "tear"}
  /\ service \in BOOLEAN /\ events \in Seq({"connected", "disconnected", "error"})
  /\ phase \in Phases /\ gen \in 0..MaxGen
  /\ connected \in BOOLEAN /\ dreq \in BOOLEAN /\ cmd \in BOOLEAN
  /\ suppress \in BOOLEAN /\ deferred \in BOOLEAN
  /\ timer \in [Gens -> {"none", "armed", "fired", "tearing", "over"}]
  /\ maint \in [Gens -> {"none", "idle", "checked", "dropped", "found", "installed"}]
  /\ restart \in BOOLEAN /\ device \in Devices /\ stream \in Devices \union {0}
  /\ found \in [Builders -> Devices \union {0}]
  /\ queued \subseteq Sounds /\ playing \subseteq Sounds

Init ==
  /\ ui = "off" /\ uiPc = "idle" /\ service = FALSE /\ events = <<>>
  /\ phase = "idle" /\ gen = 0 /\ connected = FALSE /\ dreq = FALSE /\ cmd = FALSE
  /\ suppress = FALSE /\ deferred = FALSE
  /\ timer = [g \in Gens |-> "none"] /\ maint = [g \in Gens |-> "none"]
  /\ restart = FALSE /\ device = 1 /\ stream = 0 /\ found = [b \in Builders |-> 0]
  /\ queued = {} /\ playing = {}

----------------------------------------------------------------------------
(* The stream.  Its slots live in the callback's closure: they go with it. *)

DropStream == stream' = 0 /\ queued' = {} /\ playing' = {}

\* teardown_output_state
Teardown == DropStream /\ UNCHANGED <<device, found, restart>>

\* restart_output_stream by b once the old stream is gone: default_output_device,
\* and later, the stream having been built on it, the installation.
RestartFinds(b) ==
  /\ found' = [found EXCEPT ![b] = device]
  /\ UNCHANGED <<stream, device, restart>>

RestartInstalls(b) ==
  /\ stream' = found[b] /\ found' = [found EXCEPT ![b] = 0]
  /\ UNCHANGED <<device, restart>>

\* A rebuild has looked for its device and has not finished.
Building ==
  \/ phase = "found"
  \/ \E g \in Gens : maint[g] \in {"found", "installed"}

\* The callback empties the queue; requests that find both slots busy are dropped.
Play ==
  /\ stream # 0 /\ queued # {}
  /\ queued' = {}
  /\ \E S \in SUBSET queued :
       /\ Cardinality(playing \union S) <= 2
       /\ S # queued => Cardinality(playing \union S) = 2
       /\ playing' = playing \union S
  /\ UNCHANGED <<dart, events, session, suppress, deferred, timer, maint, output>>

Finish(s) ==
  /\ stream # 0 /\ s \in playing
  /\ playing' = playing \ {s}
  /\ UNCHANGED <<dart, events, session, suppress, deferred, timer, maint, output, queued>>

\* AudioDeviceCallback: the default device changes, ts_restart_audio_output.
RouteChange ==
  /\ device <= MaxRoutes                                       \* bound
  /\ Calm => ~Building
  /\ device' = device + 1
  /\ restart' = (restart \/ connected)
  /\ UNCHANGED <<dart, events, session, suppress, deferred, timer, maint, stream, found,
                 sounds>>

\* The error callback of the open stream; it may come before a route change, or
\* without one.
StreamError ==
  /\ stream # 0 /\ device <= MaxRoutes                         \* bound
  /\ Calm => ~Building
  /\ restart' = TRUE
  /\ UNCHANGED <<dart, events, session, suppress, deferred, timer, maint, stream, device,
                 found, sounds>>

----------------------------------------------------------------------------
(* Dart isolate.                                                           *)

TimersOver == \A g \in Gens : timer[g] \in {"none", "over"}

\* connect() and ts_connect, the event loop of the ended session being over.
Connect ==
  /\ uiPc = "idle" /\ ui = "off"
  /\ phase = "idle" /\ ~connected
  /\ gen < MaxGen                                              \* bound
  /\ Reconnect = "patient" => TimersOver
  /\ ui' = "connecting" /\ phase' = "called" /\ events' = <<>>
  /\ UNCHANGED <<uiPc, service, gen, connected, dreq, cmd, suppress, deferred, timer, maint,
                 output, sounds>>

\* disconnect(): ts_disconnect, then AudioService.stop.
TapDisconnect ==
  /\ "user" \in Ways
  /\ uiPc = "idle" /\ ui = "on" /\ service
  /\ phase \notin {"opening", "dropped", "found"}    \* the event loop runs, or is over
  /\ IF phase = "idle" THEN UNCHANGED <<dreq, cmd>> ELSE dreq' = TRUE /\ cmd' = TRUE
  /\ service' = FALSE /\ uiPc' = "stop"
  /\ UNCHANGED <<ui, events, phase, gen, connected, suppress, deferred, timer, maint,
                 output, sounds>>

\* One event of the poll timer.
HandleEvent ==
  /\ uiPc = "idle" /\ events # <<>>
  /\ events' = Tail(events)
  /\ \/ /\ Head(events) = "connected"
        /\ ui' = "on" /\ service' = TRUE /\ UNCHANGED uiPc
     \/ /\ Head(events) = "disconnected" /\ ui # "connecting"
        /\ ui' = "off" /\ service' = FALSE
        /\ uiPc' = IF service THEN "stop" ELSE "idle"
     \/ /\ Head(events) = "disconnected" /\ ui = "connecting" /\ UNCHANGED dart
     \/ /\ Head(events) = "error"
        /\ ui' = IF ui = "connecting" THEN "off" ELSE ui
        /\ UNCHANGED <<uiPc, service>>
  /\ UNCHANGED <<session, suppress, deferred, timer, maint, output, sounds>>

\* ts_stop_audio: disconnect_requested, then SFX_DEFERRED_TEARDOWN, then the
\* teardown.
StopReadsRequest ==
  /\ uiPc = "stop" /\ uiPc' = IF dreq THEN "idle" ELSE "check"
  /\ UNCHANGED <<ui, service, events, session, suppress, deferred, timer, maint, output, sounds>>

StopReadsDeferred ==
  /\ uiPc = "check" /\ uiPc' = IF deferred THEN "idle" ELSE "tear"
  /\ UNCHANGED <<ui, service, events, session, suppress, deferred, timer, maint, output, sounds>>

StopTears ==
  /\ uiPc = "tear" /\ uiPc' = "idle"
  /\ Teardown
  /\ UNCHANGED <<ui, service, events, session, suppress, deferred, timer, maint>>

----------------------------------------------------------------------------
(* do_connect.                                                             *)

ResetFlags ==
  /\ phase = "called" /\ phase' = "dial"
  /\ suppress' = FALSE /\ deferred' = FALSE
  /\ UNCHANGED <<dart, events, gen, connected, dreq, cmd, timer, maint, output, sounds>>

HandshakeFails ==
  /\ phase = "dial" /\ phase' = "idle"
  /\ events' = Append(events, "error")
  /\ UNCHANGED <<dart, gen, connected, dreq, cmd, suppress, deferred, timer, maint,
                 output, sounds>>

Established ==
  /\ phase = "dial" /\ phase' = "opening"
  /\ Reconnect # "any" => \A g \in Gens : timer[g] \notin {"fired", "tearing"}
  /\ gen' = gen + 1 /\ connected' = TRUE /\ cmd' = FALSE
  /\ events' = Append(events, "connected")
  /\ UNCHANGED <<dart, dreq, suppress, deferred, timer, maint, output, sounds>>

\* spawn_maintenance_task, restart_output_stream.
OpenDrops ==
  /\ phase = "opening" /\ phase' = "dropped"
  /\ maint' = [maint EXCEPT ![gen] = "idle"]
  /\ Teardown
  /\ UNCHANGED <<dart, events, gen, connected, dreq, cmd, suppress, deferred, timer>>

OpenFinds ==
  /\ phase = "dropped" /\ phase' = "found"
  /\ RestartFinds(0)
  /\ UNCHANGED <<dart, events, gen, connected, dreq, cmd, suppress, deferred, timer, maint,
                 sounds>>

OpenInstalls ==
  /\ phase = "found" /\ phase' = "running"
  /\ RestartInstalls(0)
  /\ queued' = queued \union {Sound("connected", gen)}
  /\ UNCHANGED <<dart, events, gen, connected, dreq, cmd, suppress, deferred, timer, maint,
                 playing>>

----------------------------------------------------------------------------
(* The event loop ends a session.                                          *)

\* Mutant: the sound is queued, the teardown is forgotten.
ScheduleNothing ==
  /\ queued' = queued \union {Sound("farewell", gen)}
  /\ UNCHANGED <<deferred, timer>>

\* schedule_sfx_teardown
ScheduleSound ==
  /\ queued' = queued \union {Sound("farewell", gen)}
  /\ deferred' = TRUE
  /\ timer' = [timer EXCEPT ![gen] = "armed"]

\* schedule_teardown_after_kick_sfx
ScheduleKick ==
  /\ deferred' = TRUE
  /\ timer' = [timer EXCEPT ![gen] = "armed"]
  /\ UNCHANGED queued

EndByFlag ==
  /\ phase = "running" /\ dreq
  /\ phase' = "drainFlag"
  /\ ScheduleSound
  /\ UNCHANGED <<dart, events, gen, connected, dreq, cmd, suppress, maint, output, playing>>

EndByCommand ==
  /\ phase = "running" /\ cmd
  /\ phase' = "drainCmd"
  /\ ScheduleSound
  /\ UNCHANGED <<dart, events, gen, connected, dreq, cmd, suppress, maint, output, playing>>

\* The events stream has ended: Disconnected first, connected after it.
DrainedFlag ==
  /\ phase = "drainFlag" /\ phase' = "flagEnd"
  /\ events' = Append(events, "disconnected")
  /\ UNCHANGED <<dart, gen, connected, dreq, cmd, suppress, deferred, timer, maint, output, sounds>>

FlagEnd ==
  /\ phase = "flagEnd" /\ phase' = "flagClear"
  /\ connected' = FALSE
  /\ UNCHANGED <<dart, events, gen, dreq, cmd, suppress, deferred, timer, maint, output, sounds>>

FlagClear ==
  /\ phase = "flagClear" /\ phase' = "idle"
  /\ dreq' = FALSE
  /\ UNCHANGED <<dart, events, gen, connected, cmd, suppress, deferred, timer, maint, output, sounds>>

DrainedCommand ==
  /\ phase = "drainCmd" /\ phase' = "idle"
  /\ connected' = FALSE
  /\ events' = Append(events, "disconnected")
  /\ UNCHANGED <<dart, gen, dreq, cmd, suppress, deferred, timer, maint, output, sounds>>

\* Our own client is kicked or banned: the sound is queued on the spot.
Kick ==
  /\ "kick" \in Ways /\ phase = "running" /\ ~suppress
  /\ suppress' = TRUE
  /\ queued' = queued \union {Sound("kick", gen)}
  /\ UNCHANGED <<dart, events, session, deferred, timer, maint, output, playing>>

\* The stream ends while the loop reads it.
Close ==
  /\ phase = "running" /\ ("close" \in Ways \/ suppress)
  /\ phase' = "closed" /\ connected' = FALSE
  /\ events' = Append(events, "disconnected")
  /\ UNCHANGED <<dart, gen, dreq, cmd, suppress, deferred, timer, maint, output, sounds>>

Closed ==
  /\ phase = "closed" /\ phase' = "idle"
  /\ \/ suppress /\ ScheduleKick
     \/ ~suppress /\ ScheduleSound
  /\ suppress' = FALSE
  /\ UNCHANGED <<dart, events, gen, connected, dreq, cmd, maint, output, playing>>

Fail ==
  /\ "error" \in Ways /\ phase = "running" /\ phase' = "err1"
  /\ events' = Append(events, "error")
  /\ UNCHANGED <<dart, gen, connected, dreq, cmd, suppress, deferred, timer, maint, output, sounds>>

FailEnd ==
  /\ phase = "err1" /\ phase' = "err2"
  /\ connected' = FALSE
  /\ UNCHANGED <<dart, events, gen, dreq, cmd, suppress, deferred, timer, maint, output, sounds>>

FailPush ==
  /\ phase = "err2" /\ phase' = "err3"
  /\ events' = Append(events, "disconnected")
  /\ UNCHANGED <<dart, gen, connected, dreq, cmd, suppress, deferred, timer, maint, output, sounds>>

Failed ==
  /\ phase = "err3" /\ phase' = "idle"
  /\ ScheduleSound
  /\ UNCHANGED <<dart, events, gen, connected, dreq, cmd, suppress, maint, output, playing>>

----------------------------------------------------------------------------
(* The deferred teardown task of session g.                                *)

\* It sleeps for the length of the sample and 400 ms.
TimerFires(g) ==
  /\ timer[g] = "armed"
  /\ stream # 0 => \A s \in queued \union playing : s.kind = "connected" \/ s.gen # g
  /\ QuickAck /\ g = gen => phase \notin {"drainFlag", "drainCmd", "flagEnd"}
  /\ timer' = [timer EXCEPT ![g] = "fired"]
  /\ deferred' = FALSE
  /\ UNCHANGED <<dart, events, session, suppress, maint, output, sounds>>

\* Mutant: the task does not look whether a session is up.
TimerTearsAnyway(g) ==
  /\ timer[g] = "fired"
  /\ timer' = [timer EXCEPT ![g] = "tearing"]
  /\ UNCHANGED <<dart, events, session, suppress, deferred, maint, output, sounds>>

TimerChecks(g) ==
  /\ timer[g] = "fired"
  /\ timer' = [timer EXCEPT ![g] = IF connected THEN "over" ELSE "tearing"]
  /\ UNCHANGED <<dart, events, session, suppress, deferred, maint, output, sounds>>

TimerTears(g) ==
  /\ timer[g] = "tearing"
  /\ timer' = [timer EXCEPT ![g] = "over"]
  /\ Teardown
  /\ UNCHANGED <<dart, events, session, suppress, deferred, maint>>

----------------------------------------------------------------------------
(* The maintenance task session g left behind: its 500 ms tick.            *)

MaintChecks(g) ==
  /\ maint[g] = "idle" /\ restart /\ connected
  /\ maint' = [maint EXCEPT ![g] = "checked"]
  /\ UNCHANGED <<dart, events, session, suppress, deferred, timer, output, sounds>>

\* Mutant: the tick does not rebuild the stream.
MaintSkips(g) ==
  /\ maint[g] = "checked"
  /\ maint' = [maint EXCEPT ![g] = "installed"]
  /\ UNCHANGED <<dart, events, session, suppress, deferred, timer, output, sounds>>

MaintDrops(g) ==
  /\ maint[g] = "checked"
  /\ maint' = [maint EXCEPT ![g] = "dropped"]
  /\ Teardown
  /\ UNCHANGED <<dart, events, session, suppress, deferred, timer>>

MaintFinds(g) ==
  /\ maint[g] = "dropped"
  /\ maint' = [maint EXCEPT ![g] = "found"]
  /\ RestartFinds(g)
  /\ UNCHANGED <<dart, events, session, suppress, deferred, timer, sounds>>

MaintInstalls(g) ==
  /\ maint[g] = "found"
  /\ maint' = [maint EXCEPT ![g] = "installed"]
  /\ RestartInstalls(g)
  /\ UNCHANGED <<dart, events, session, suppress, deferred, timer, sounds>>

MaintClears(g) ==
  /\ maint[g] = "installed"
  /\ maint' = [maint EXCEPT ![g] = "idle"]
  /\ restart' = FALSE
  /\ UNCHANGED <<dart, events, session, suppress, deferred, timer, stream, device, found,
                 sounds>>

----------------------------------------------------------------------------
Dart == HandleEvent \/ StopReadsRequest \/ StopReadsDeferred \/ StopTears
DoConnect == ResetFlags \/ HandshakeFails \/ Established \/ OpenDrops \/ OpenFinds
               \/ OpenInstalls
Asked  == EndByFlag \/ EndByCommand
Ending == DrainedFlag \/ FlagEnd \/ FlagClear \/ DrainedCommand \/ Closed
            \/ FailEnd \/ FailPush \/ Failed
Timer(g) == TimerFires(g) \/ TimerChecks(g) \/ TimerTears(g)
Maintenance(g) == MaintChecks(g) \/ MaintDrops(g) \/ MaintFinds(g) \/ MaintInstalls(g)
                    \/ MaintClears(g)
Callback == Play \/ \E s \in Sounds : Finish(s)
Outside == Connect \/ TapDisconnect \/ RouteChange \/ StreamError \/ Kick \/ Close \/ Fail

Next == Outside \/ Dart \/ DoConnect \/ Asked \/ Ending \/ Callback
          \/ \E g \in Gens : Timer(g) \/ Maintenance(g)

Spec == Init /\ [][Next]_vars

\* Every thread of the program and the audio callback keep running; the server
\* acknowledges a disconnect or the library times out.
Fairness ==
  /\ WF_vars(Dart) /\ WF_vars(DoConnect) /\ WF_vars(Asked) /\ WF_vars(Ending)
  /\ WF_vars(Callback)
  /\ \A g \in Gens : WF_vars(Timer(g)) /\ WF_vars(Maintenance(g))

FairSpec == Spec /\ Fairness

----------------------------------------------------------------------------
(* Properties.                                                             *)

Rebuilding == \E g \in Gens : maint[g] \in {"dropped", "found"}

\* A running session is heard: its output stream is open, unless a restart is
\* between closing the old one and opening the new one.  The timers of earlier
\* sessions and a late ts_stop_audio leave it alone.
HeardWhileRunning == phase = "running" => stream # 0 \/ Rebuilding

\* The farewell or kick sounds of the latest session.
Farewells(S) == {s \in S : s.kind # "connected" /\ s.gen = gen}

\* The farewell or kick sound of the latest session is not cut: it leaves the
\* queue or its slot only through the callback of an open stream, never by a
\* teardown.
FarewellHeard ==
  [][Farewells(queued \union playing) \subseteq queued' \union playing' \/ stream' # 0]_vars

\* A farewell that is queued finds a stream to play it.
FarewellHasStream == Farewells(queued) # {} => stream # 0 \/ Rebuilding

\* The kick sound stands alone: no second sound of the same session's end.
KickAlone == Cardinality(Farewells(queued \union playing)) <= 1

\* Once a session ends, its output stream is closed in the end, or the next
\* session is dialled, or a rebuild is under way that does not look again whether
\* there is a session.
StreamClosed ==
  phase \in {"drainFlag", "drainCmd", "closed", "err1"} ~>
    \/ phase = "idle" /\ stream = 0
    \/ phase = "called"
    \/ ~connected /\ (Rebuilding \/ \E g \in Gens : maint[g] = "checked")

\* The stream follows the default device as long as the session runs: whoever
\* rebuilds it, do_connect or the maintenance task of any session, and whatever
\* request outlives the session it was made in.
RouteFollowed ==
  (phase = "running" /\ stream # device) ~> (stream = device \/ phase # "running")

=============================================================================
