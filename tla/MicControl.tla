----------------------------- MODULE MicControl -----------------------------
(***************************************************************************)
(* The microphone: when TsConnectionNotifier wants it (mute, away,         *)
(* push-to-talk, the media card), how AudioService gets it (a permission   *)
(* request that is answered later, a subscription to the mic EventChannel) *)
(* and what records in the end (the AudioRecord of a MainActivity).        *)
(*                                                                         *)
(* Dart and Android handlers run one at a time on the main thread; what    *)
(* one of them does up to its first await is one step.  The "listen" and   *)
(* "cancel" messages of the channel keep their order and only act on       *)
(* Android's side, so each is part of the step that sends it.              *)
(***************************************************************************)
EXTENDS Naturals, FiniteSets

CONSTANTS
  MaxSessions,   (* bound: sessions, and so AudioService objects           *)
  MaxActivities, (* bound: MainActivity objects over the life of the engine*)
  MaxAsks,       (* bound: permission requests of one service under way    *)
  Gestures,      (* what the user uses: "mute", "ptt", "away", "card"      *)
  Ends,          (* how a session ends: "user", "passive"                  *)
  PromptAnswers, (* TRUE: a permission request is answered before anything *)
                 (* else happens; FALSE: the dialog may stay open          *)
  Refusals,      (* TRUE: the user may refuse the permission               *)
  AnyActivity    (* TRUE: the activity may be replaced while it records    *)

ASSUME MicAssumption ==
  /\ MaxSessions \in Nat \ {0} /\ MaxActivities \in Nat \ {0} /\ MaxAsks \in Nat \ {0}
  /\ Gestures \subseteq {"mute", "ptt", "away", "card"} /\ Ends \subseteq {"user", "passive"}
  /\ PromptAnswers \in BOOLEAN /\ Refusals \in BOOLEAN /\ AnyActivity \in BOOLEAN

VARIABLES
  on,         \* TsConnectionState.connected
  sessions,   \* sessions so far
  muted, away, ptt, pressed, \* inputMuted, away, pttMode, pttPressed
  before,     \* _inputMutedBeforeAway
  svc,        \* _audioService: 0 (null) or the service of that session, running
  micEnabled, micGranted,
  asks,       \* enableMic calls of each service waiting for their permission
  subs,       \* services that have a _micSubscription
  handler,    \* whose subscription the channel's data goes to: 0 or a service
  activity,   \* the activity whose MicStreamHandler the channel knows
  sink,       \* that handler has an active sink
  recording,  \* activities whose AudioRecord runs
  voice,      \* TsState.voice_active: a frame was sent since it was last read
  voiceActive,\* TsConnectionState.voiceActive: what was read then
  service,    \* KeepAliveService is running
  fgMic,      \* its foreground type includes the microphone
  restores,   \* history: the mute state in force when the away button was
              \* pressed, "card" when the media card was used since
  refused     \* history: the last permission request was refused

wishes   == <<muted, away, ptt, pressed, before>>
mic      == <<micEnabled, micGranted, asks, refused>>
platform == <<subs, handler, sink, recording>>
talk     == <<voice, voiceActive>>
keep     == <<service, fgMic>>
vars     == <<on, sessions, wishes, svc, mic, platform, activity, talk, keep, restores>>

Services   == 1..MaxSessions
Activities == 1..MaxActivities

TypeOK ==
  /\ on \in BOOLEAN /\ sessions \in 0..MaxSessions
  /\ muted \in BOOLEAN /\ away \in BOOLEAN /\ ptt \in BOOLEAN /\ pressed \in BOOLEAN
  /\ before \in BOOLEAN /\ svc \in {0} \union Services
  /\ micEnabled \in BOOLEAN /\ micGranted \in BOOLEAN /\ asks \in [Services -> 0..MaxAsks]
  /\ subs \subseteq Services /\ handler \in {0} \union subs
  /\ activity \in Activities /\ sink \in BOOLEAN /\ recording \subseteq Activities
  /\ voice \in BOOLEAN /\ voiceActive \in BOOLEAN
  /\ service \in BOOLEAN /\ fgMic \in BOOLEAN /\ restores \in {"muted", "open", "card"}
  /\ refused \in BOOLEAN

Init ==
  /\ on = FALSE /\ sessions = 0 /\ svc = 0
  /\ muted = FALSE /\ away = FALSE /\ ptt = FALSE /\ pressed = FALSE /\ before = FALSE
  /\ micEnabled = FALSE /\ micGranted = FALSE /\ asks = [s \in Services |-> 0]
  /\ subs = {} /\ handler = 0 /\ activity = 1 /\ sink = FALSE /\ recording = {}
  /\ voice = FALSE /\ voiceActive = FALSE
  /\ service = FALSE /\ fgMic = FALSE /\ restores = "card" /\ refused = FALSE

----------------------------------------------------------------------------
(* AudioService and the mic channel.                                       *)

\* _startMic: a second "listen" first cancels the active sink, so the activity
\* stops and starts its AudioRecord.
StartMic(s) ==
  /\ subs' = subs \union {s} /\ handler' = s
  /\ sink' = TRUE /\ recording' = recording \union {activity}

\* Mutant: the stream is left to itself.
StopMicForgets(s) == subs' = subs \ {s} /\ UNCHANGED <<handler, sink, recording>>

\* _stopMic: "cancel" reaches the handler of the current activity, which
\* rejects it when it has no active sink.
StopMic(s) ==
  IF s \in subs
  THEN /\ subs' = subs \ {s} /\ handler' = 0
       /\ sink' = FALSE /\ recording' = IF sink THEN recording \ {activity} ELSE recording
  ELSE UNCHANGED platform

----------------------------------------------------------------------------
(* TsConnectionNotifier.                                                   *)

\* Mutant: away does not count.
ShouldWhenAway == IF ptt THEN pressed ELSE ~muted

\* _shouldMicBeActive
Should == ~away /\ IF ptt THEN pressed ELSE ~muted

Enables(s)  == s # 0 /\ Should' /\ ~micEnabled
Disables(s) == s # 0 /\ ~Should' /\ micEnabled

\* _updateMicState, s being the service.
UpdateMic(s) ==
  \/ /\ Enables(s) /\ asks[s] < MaxAsks                        \* bound
     /\ asks' = [asks EXCEPT ![s] = @ + 1] /\ micEnabled' = TRUE /\ refused' = FALSE
     /\ UNCHANGED <<micGranted, platform>>
  \/ /\ Disables(s)
     /\ StopMic(s) /\ micEnabled' = FALSE /\ micGranted' = FALSE
     /\ UNCHANGED <<asks, refused>>
  \/ /\ ~Enables(s) /\ ~Disables(s)
     /\ UNCHANGED <<mic, platform>>

\* Mutant: the update leaves the microphone out of the service's type.
RefreshWithoutMic == service' = TRUE /\ fgMic' = FALSE

\* _refreshNotification: an update starts the service if it is not running.
Refresh == service' = TRUE /\ fgMic' = micGranted'

Answered == PromptAnswers => \A s \in Services : asks[s] = 0

\* The 'connected' event.
Connected ==
  /\ Answered /\ ~on /\ sessions < MaxSessions                 \* bound
  /\ on' = TRUE /\ sessions' = sessions + 1 /\ svc' = sessions'
  /\ UNCHANGED <<wishes, activity, talk, restores>>
  /\ UpdateMic(svc')
  /\ service' = TRUE /\ fgMic' = FALSE

\* Mutant: disconnect() leaves _micEnabled as it is.
DisconnectKeepsEnabled ==
  /\ Answered /\ "user" \in Ends /\ on /\ svc # 0
  /\ StopMic(svc) /\ svc' = 0
  /\ service' = FALSE /\ fgMic' = FALSE
  /\ UNCHANGED <<on, sessions, wishes, mic, activity, talk, restores>>

\* disconnect(): the state stays connected until the event comes.
Disconnect ==
  /\ Answered /\ "user" \in Ends /\ on /\ svc # 0
  /\ StopMic(svc) /\ svc' = 0 /\ micEnabled' = FALSE
  /\ service' = FALSE /\ fgMic' = FALSE
  /\ UNCHANGED <<on, sessions, wishes, micGranted, asks, refused, activity, talk, restores>>

\* The 'disconnected' event, after disconnect() or out of the blue, and the rest
\* of the _pollEvents it came with, which is the last: the voice flag is read, and
\* a frame sent since the poll before has the notification refreshed.
Disconnected ==
  /\ Answered /\ on /\ (svc # 0 => "passive" \in Ends)
  /\ IF svc = 0 THEN UNCHANGED platform ELSE StopMic(svc)
  /\ on' = FALSE /\ svc' = 0
  /\ muted' = FALSE /\ away' = FALSE /\ ptt' = FALSE /\ pressed' = FALSE
  /\ voiceActive' = voice /\ voice' = FALSE
  /\ UNCHANGED <<sessions, before, mic, activity, restores>>
  /\ IF voice THEN Refresh ELSE service' = FALSE /\ fgMic' = FALSE

\* What _pollEvents does after its events; it runs while connected and while
\* connecting.
Poll ==
  /\ Answered /\ (on \/ sessions < MaxSessions)
  /\ voiceActive' = voice /\ voice' = FALSE
  /\ UNCHANGED <<on, sessions, wishes, svc, mic, platform, activity, restores>>
  /\ IF voice # voiceActive THEN Refresh ELSE UNCHANGED keep

\* The 'channels_updated' event, and toggleOutputMute.
Refreshed ==
  /\ Answered /\ on
  /\ UNCHANGED <<on, sessions, wishes, svc, mic, platform, activity, talk, restores>>
  /\ Refresh

\* The parts of every gesture that follow the change of the state.
Then ==
  /\ UpdateMic(svc)
  /\ UNCHANGED <<on, sessions, svc, activity, talk>>

\* The screen's button, and that of the notification the service shows.
ToggleMute ==
  /\ Answered /\ "mute" \in Gestures /\ (on \/ service)
  /\ muted' = ~muted
  /\ UNCHANGED <<away, ptt, pressed, before, restores>>
  /\ Then /\ Refresh

\* Mutant: the mute state is saved after it has been changed.
ToggleAwaySavesLate ==
  /\ Answered /\ "away" \in Gestures /\ on
  /\ away' = ~away
  /\ muted' = IF away THEN before ELSE TRUE
  /\ before' = IF away THEN before ELSE muted'
  /\ restores' = IF away THEN restores ELSE IF muted THEN "muted" ELSE "open"
  /\ UNCHANGED <<ptt, pressed>>
  /\ Then /\ Refresh

ToggleAway ==
  /\ Answered /\ "away" \in Gestures /\ on
  /\ away' = ~away
  /\ muted' = IF away THEN before ELSE TRUE
  /\ before' = IF away THEN before ELSE muted
  /\ restores' = IF away THEN restores ELSE IF muted THEN "muted" ELSE "open"
  /\ UNCHANGED <<ptt, pressed>>
  /\ Then /\ Refresh

\* setAwayAndFullMute: pause and play on the media card, which is there while
\* the service runs.
Card(paused) ==
  /\ Answered /\ "card" \in Gestures /\ service
  /\ before' = muted
  /\ away' = paused /\ muted' = paused
  /\ restores' = "card"
  /\ UNCHANGED <<ptt, pressed>>
  /\ Then /\ Refresh

\* Push-to-talk: only a change that disables the microphone refreshes the
\* notification.
RefreshIfDisabled == IF Disables(svc) THEN Refresh ELSE UNCHANGED keep

TogglePtt ==
  /\ Answered /\ "ptt" \in Gestures /\ on
  /\ ptt' = ~ptt
  /\ UNCHANGED <<muted, away, pressed, before, restores>>
  /\ Then /\ RefreshIfDisabled

Press ==
  /\ Answered /\ on /\ ptt /\ ~muted /\ ~pressed
  /\ pressed' = TRUE
  /\ UNCHANGED <<muted, away, ptt, before, restores>>
  /\ Then /\ RefreshIfDisabled

Release ==
  /\ Answered /\ on /\ pressed
  /\ pressed' = FALSE
  /\ UNCHANGED <<muted, away, ptt, before, restores>>
  /\ Then /\ RefreshIfDisabled

----------------------------------------------------------------------------
(* The answer to enableMic of service s, which may be stopped by then.     *)

Granted(s) ==
  /\ asks[s] > 0
  /\ asks' = [asks EXCEPT ![s] = @ - 1]
  /\ StartMic(s)
  /\ micGranted' = TRUE
  /\ service' = TRUE /\ fgMic' = TRUE
  /\ UNCHANGED <<on, sessions, wishes, svc, micEnabled, refused, activity, talk, restores>>

\* Refused by the user, or by the plugin while another request is under way.
Refused(s) ==
  /\ asks[s] > 0
  /\ Refusals \/ asks[s] > 1 \/ \E t \in Services \ {s} : asks[t] > 0
  /\ asks' = [asks EXCEPT ![s] = @ - 1]
  /\ refused' = \A t \in Services : asks'[t] = 0
  /\ UNCHANGED <<on, sessions, wishes, svc, micEnabled, micGranted, platform, activity, talk,
                 keep, restores>>

\* A new activity on the cached engine installs a handler of its own.
NewActivity ==
  /\ activity < MaxActivities                                  \* bound
  /\ AnyActivity \/ recording = {}
  /\ activity' = activity + 1 /\ sink' = FALSE
  /\ UNCHANGED <<on, sessions, wishes, svc, mic, subs, handler, recording, talk, keep, restores>>

\* What is recorded is encoded and sent: it reaches a service that runs.
Sending == recording # {} /\ handler # 0 /\ handler = svc

\* The event loop encodes a frame of the microphone and sends it.
FrameSent ==
  /\ Answered /\ Sending
  /\ voice' = TRUE
  /\ UNCHANGED <<on, sessions, wishes, svc, mic, platform, activity, voiceActive, keep,
                 restores>>

----------------------------------------------------------------------------
Session == Connected \/ Disconnect \/ Disconnected
Background == Poll \/ Refreshed \/ FrameSent \/ NewActivity
Gesture ==
  \/ ToggleMute \/ ToggleAway \/ TogglePtt \/ Press \/ Release
  \/ \E paused \in BOOLEAN : Card(paused)
Answer == \E s \in Services : Granted(s) \/ Refused(s)

Next == Session \/ Gesture \/ Answer \/ Background

Spec == Init /\ [][Next]_vars

----------------------------------------------------------------------------
(* Properties.                                                             *)

Waiting == \E s \in Services : asks[s] > 0

\* Nobody is overheard: nothing is sent while the user is away, in push-to-talk
\* without the button held, or muted out of push-to-talk.  In push-to-talk the
\* button alone decides, as the code has it.
NotOverheard ==
  Sending => /\ ~away
             /\ ptt => pressed
             /\ muted => ptt

\* Muting stops the sending.  It does not while the button is held.
MutedSilent == muted => ~Sending

\* Who wants to speak is heard: in a running session the microphone is on
\* whenever it should be, once its permission has been answered and unless the
\* answer was no.
Speaks == svc # 0 /\ Should /\ ~Waiting /\ ~refused => Sending

\* Between sessions nothing records, whatever was asked for, enabled or refreshed
\* when the session ended.
QuietBetween == ~on /\ ~Waiting => recording = {}

\* Between sessions no service keeps the app alive.  One does when the user spoke
\* within the last 200 ms.
ServiceStopped == ~on => ~service

\* Android takes the microphone from a background app whose service does not
\* declare it: while a session records, its service has the microphone type.
Declared == svc # 0 /\ recording # {} => service /\ fgMic

\* Leaving away with the button restores the mute state from before.
AwayRestores ==
  [][ToggleAway /\ away /\ restores # "card" => (muted' <=> restores = "muted")]_vars

=============================================================================
