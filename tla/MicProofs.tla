----------------------------- MODULE MicProofs -----------------------------
(***************************************************************************)
(* Theorems about MicControl, for every number of sessions, activities and *)
(* permission requests and every choice of gestures.                       *)
(***************************************************************************)
EXTENDS MicControl, TLAPS

\* TypeOK in three parts: the user's wishes, the service's memory, the
\* platform's.
WishTypes ==
  /\ on \in BOOLEAN /\ muted \in BOOLEAN /\ away \in BOOLEAN /\ ptt \in BOOLEAN
  /\ pressed \in BOOLEAN /\ before \in BOOLEAN /\ restores \in {"muted", "open", "card"}

ServiceTypes ==
  /\ sessions \in 0..MaxSessions /\ svc \in {0} \union Services
  /\ micEnabled \in BOOLEAN /\ micGranted \in BOOLEAN /\ refused \in BOOLEAN
  /\ asks \in [Services -> 0..MaxAsks]
  /\ service \in BOOLEAN /\ fgMic \in BOOLEAN
  /\ voice \in BOOLEAN /\ voiceActive \in BOOLEAN

PlatformTypes ==
  /\ subs \subseteq Services /\ handler \in {0} \union subs
  /\ activity \in Activities /\ sink \in BOOLEAN /\ recording \subseteq Activities

LEMMA TypeParts == TypeOK <=> WishTypes /\ ServiceTypes /\ PlatformTypes
BY DEF TypeOK, WishTypes, ServiceTypes, PlatformTypes

\* The notifier, the services and the channel start in their types.
LEMMA TypeInit == Init => TypeOK
<1> SUFFICES ASSUME Init PROVE TypeOK
  OBVIOUS
<1> USE MicAssumption
<1>1. WishTypes
  BY DEF Init, WishTypes
<1>2. asks \in [Services -> 0..MaxAsks]
  BY DEF Init
<1>3. 0 \in 0..MaxSessions /\ 1 \in 1..MaxActivities
  OBVIOUS
<1>4. ServiceTypes
  BY <1>2, <1>3 DEF Init, ServiceTypes
<1>5. PlatformTypes
  BY <1>3 DEF Init, PlatformTypes, Activities
<1> QED BY <1>1, <1>4, <1>5, TypeParts

\* _updateMicState keeps the types of the service and of the platform.
LEMMA UpdateTypes ==
  ASSUME TypeOK, NEW s \in {0} \union Services, UpdateMic(s)
  PROVE  /\ micEnabled' \in BOOLEAN /\ micGranted' \in BOOLEAN /\ refused' \in BOOLEAN
         /\ asks' \in [Services -> 0..MaxAsks]
         /\ subs' \subseteq Services /\ handler' \in {0} \union subs'
         /\ sink' \in BOOLEAN /\ recording' \subseteq Activities
<1> USE MicAssumption
<1>1. CASE Enables(s)
  <2>1. /\ asks[s] < MaxAsks /\ asks' = [asks EXCEPT ![s] = @ + 1]
        /\ micEnabled' = TRUE /\ refused' = FALSE /\ UNCHANGED <<micGranted, platform>>
    BY <1>1 DEF UpdateMic, Enables, Disables
  <2>2. s \in Services /\ asks \in [Services -> 0..MaxAsks]
    BY <1>1 DEF Enables, TypeOK
  <2>3. asks[s] + 1 \in 0..MaxAsks
    BY <2>1, <2>2
  <2> QED BY <2>1, <2>2, <2>3 DEF TypeOK, platform
<1>2. CASE Disables(s)
  BY <1>2 DEF UpdateMic, Enables, Disables, StopMic, TypeOK, platform, mic
<1>3. CASE ~Enables(s) /\ ~Disables(s)
  BY <1>3 DEF UpdateMic, Enables, Disables, TypeOK, platform, mic
<1> QED BY <1>1, <1>2, <1>3

\* Every handler keeps the types.
LEMMA TypeStep == TypeOK /\ [Next]_vars => TypeOK'
<1> SUFFICES ASSUME TypeOK, [Next]_vars PROVE TypeOK'
  OBVIOUS
<1> USE MicAssumption
<1> USE DEF WishTypes, ServiceTypes, PlatformTypes, Services, Activities
<1>0. WishTypes /\ ServiceTypes /\ PlatformTypes
  BY TypeParts
<1>1. CASE Connected
  <2>1. sessions' \in 0..MaxSessions /\ svc' \in Services
    BY <1>0, <1>1 DEF Connected
  <2>2. UpdateMic(svc')
    BY <1>1 DEF Connected
  <2> QED BY <1>0, <1>1, <2>1, <2>2, UpdateTypes, TypeParts DEF Connected, wishes, talk, TypeOK
<1>2. CASE Disconnect
  <2>1. subs' \subseteq Services /\ handler' \in {0} \union subs' /\ sink' \in BOOLEAN
        /\ recording' \subseteq Activities
    BY <1>0, <1>2 DEF Disconnect, StopMic, platform
  <2>2. PlatformTypes'
    BY <1>0, <1>2, <2>1 DEF Disconnect
  <2>3. WishTypes' /\ ServiceTypes'
    BY <1>0, <1>2 DEF Disconnect, wishes, talk
  <2> QED BY <2>2, <2>3 DEF TypeOK
<1>3. CASE Disconnected
  <2>1. subs' \subseteq Services /\ handler' \in {0} \union subs' /\ sink' \in BOOLEAN
        /\ recording' \subseteq Activities
    BY <1>0, <1>3 DEF Disconnected, StopMic, platform
  <2>2. PlatformTypes'
    BY <1>0, <1>3, <2>1 DEF Disconnected
  <2>3. WishTypes' /\ ServiceTypes'
    BY <1>0, <1>3 DEF Disconnected, Refresh, mic
  <2> QED BY <2>2, <2>3 DEF TypeOK
<1>4. ASSUME Then,
             muted' \in BOOLEAN, away' \in BOOLEAN, ptt' \in BOOLEAN, pressed' \in BOOLEAN,
             before' \in BOOLEAN, restores' \in {"muted", "open", "card"},
             Refresh \/ RefreshIfDisabled
      PROVE  TypeOK'
  <2>1. UpdateMic(svc) /\ UNCHANGED <<on, sessions, svc, activity, voice, voiceActive>>
    BY <1>4 DEF Then, talk
  <2>2. micGranted' \in BOOLEAN
    BY <1>0, <2>1, UpdateTypes
  <2>3. service' \in BOOLEAN /\ fgMic' \in BOOLEAN
    BY <1>0, <1>4, <2>2 DEF Refresh, RefreshIfDisabled, keep
  <2> QED BY <1>0, <1>4, <2>1, <2>3, UpdateTypes DEF TypeOK
<1>5. CASE Gesture
  <2>1. CASE ToggleMute
    BY <1>0, <1>4, <2>1 DEF ToggleMute
  <2>2. CASE ToggleAway
    BY <1>0, <1>4, <2>2 DEF ToggleAway
  <2>3. CASE TogglePtt
    BY <1>0, <1>4, <2>3 DEF TogglePtt
  <2>4. CASE Press
    BY <1>0, <1>4, <2>4 DEF Press
  <2>5. CASE Release
    BY <1>0, <1>4, <2>5 DEF Release
  <2>6. CASE \E paused \in BOOLEAN : Card(paused)
    BY <1>0, <1>4, <2>6 DEF Card
  <2> QED BY <1>5, <2>1, <2>2, <2>3, <2>4, <2>5, <2>6 DEF Gesture
<1>6. ASSUME NEW s \in Services, Granted(s) PROVE TypeOK'
  BY <1>0, <1>6 DEF Granted, StartMic, wishes, talk, TypeOK
<1>7. ASSUME NEW s \in Services, Refused(s) PROVE TypeOK'
  BY <1>0, <1>7 DEF Refused, wishes, platform, talk, keep, TypeOK
<1>8. CASE NewActivity
  <2>1. activity' \in Activities
    BY <1>0, <1>8 DEF NewActivity
  <2>2. WishTypes' /\ ServiceTypes'
    BY <1>0, <1>8 DEF NewActivity, wishes, mic, talk, keep
  <2>3. PlatformTypes'
    BY <1>0, <1>8, <2>1 DEF NewActivity
  <2> QED BY <2>2, <2>3 DEF TypeOK
<1>9. CASE UNCHANGED vars
  BY <1>0, <1>9 DEF vars, wishes, mic, platform, talk, keep, TypeOK
<1>10. CASE Poll \/ Refreshed \/ FrameSent
  <2>1. UNCHANGED <<on, sessions, wishes, svc, mic, platform, activity, restores>>
    BY <1>10 DEF Poll, Refreshed, FrameSent
  <2>2. service' \in BOOLEAN /\ fgMic' \in BOOLEAN
    BY <1>0, <1>10, <2>1 DEF Poll, Refreshed, FrameSent, Refresh, keep, mic
  <2>3. voice' \in BOOLEAN /\ voiceActive' \in BOOLEAN
    BY <1>0, <1>10 DEF Poll, Refreshed, FrameSent, talk
  <2> QED BY <1>0, <2>1, <2>2, <2>3 DEF wishes, mic, platform, TypeOK
<1> QED
  BY <1>1, <1>2, <1>3, <1>5, <1>6, <1>7, <1>8, <1>9, <1>10
  DEF Next, Session, Answer, Background

\* TsConnectionNotifier, AudioService and MicStreamHandler keep values of
\* their types, whatever the user, the server and Android do.
THEOREM MicTypeCorrect == Spec => []TypeOK
BY TypeInit, TypeStep, PTL DEF Spec

----------------------------------------------------------------------------
(* Who wants the microphone.                                               *)

\* Nothing but the service of the running session waits for the microphone or
\* has it, and the user still wants it to: no handler runs between a request
\* and its answer.
Owned(s, enabled, wanted, waits, subscribed, h) ==
  /\ \A t \in Services : waits[t] > 0 => t = s /\ enabled /\ wanted
  /\ \A t \in subscribed : t = s /\ enabled /\ wanted
  /\ h = 0 => subscribed = {}

WantedInv ==
  /\ svc # 0 => on
  /\ Owned(svc, micEnabled, Should, asks, subs, handler)

\* _updateMicState asks for the microphone only when it should be active, and
\* gives it up when it should not.
LEMMA UpdateOwned ==
  ASSUME TypeOK, NEW s \in {0} \union Services, UpdateMic(s),
         \A t \in Services : asks[t] = 0,
         \A t \in subs : t = s /\ micEnabled,
         handler = 0 => subs = {}
  PROVE  Owned(s, micEnabled', Should', asks', subs', handler')
<1>0. subs \subseteq Services /\ asks \in [Services -> 0..MaxAsks] /\ 0 \notin Services
  BY DEF TypeOK, Services
<1>1. CASE Enables(s)
  <2>1. /\ asks' = [asks EXCEPT ![s] = @ + 1] /\ micEnabled' = TRUE
        /\ UNCHANGED platform /\ Should' /\ subs = {}
    BY <1>1 DEF UpdateMic, Enables, Disables
  <2>2. \A t \in Services : asks'[t] > 0 => t = s
    BY <1>0, <2>1
  <2> QED BY <2>1, <2>2 DEF Owned, platform
<1>2. CASE Disables(s)
  <2>1. StopMic(s) /\ UNCHANGED asks
    BY <1>2 DEF UpdateMic, Enables, Disables
  <2>2. subs' = {}
    BY <2>1 DEF StopMic, platform
  <2> QED BY <2>1, <2>2 DEF Owned
<1>3. CASE ~Enables(s) /\ ~Disables(s)
  <2>1. UNCHANGED mic /\ UNCHANGED platform
    BY <1>3 DEF UpdateMic
  <2>2. subs # {} => Should'
    BY <1>0, <1>3 DEF Disables
  <2> QED BY <2>1, <2>2 DEF Owned, mic, platform
<1> QED BY <1>1, <1>2, <1>3

\* The service of the session in force is stopped, or there is none.
LEMMA StopOwned ==
  ASSUME TypeOK, WantedInv, \/ StopMic(svc)
                            \/ svc = 0 /\ UNCHANGED platform
  PROVE  subs' = {}
<1>1. subs \subseteq Services /\ 0 \notin Services /\ \A t \in subs : t = svc
  BY DEF TypeOK, Services, WantedInv, Owned
<1> QED BY <1>1 DEF StopMic, platform

LEMMA WantedInit == Init => WantedInv
BY DEF Init, WantedInv, Owned

\* With prompt answers, every handler keeps the microphone with its owner.
LEMMA WantedStep ==
  ASSUME PromptAnswers
  PROVE  TypeOK /\ WantedInv /\ [Next]_vars => WantedInv'
<1> SUFFICES ASSUME TypeOK, WantedInv, [Next]_vars PROVE WantedInv'
  OBVIOUS
<1>0. /\ svc # 0 => on
      /\ \A t \in Services : asks[t] > 0 => t = svc /\ micEnabled /\ Should
      /\ \A t \in subs : t = svc /\ micEnabled /\ Should
      /\ handler = 0 => subs = {}
  BY DEF WantedInv, Owned
<1>t. /\ subs \subseteq Services /\ asks \in [Services -> 0..MaxAsks] /\ 0 \notin Services
      /\ svc \in {0} \union Services /\ on \in BOOLEAN
  BY DEF TypeOK, Services
<1>a. Answered => \A t \in Services : asks[t] = 0
  BY <1>t DEF Answered
<1>1. CASE Connected
  <2>1. /\ ~on /\ Answered /\ on' = TRUE /\ UpdateMic(svc')
        /\ svc' = sessions + 1 /\ sessions < MaxSessions
    BY <1>1 DEF Connected
  <2>2. svc' \in {0} \union Services
    BY <2>1, MicAssumption DEF TypeOK, Services
  <2>3. subs = {}
    BY <1>0, <1>t, <2>1
  <2>4. Owned(svc', micEnabled', Should', asks', subs', handler')
    BY <1>0, <1>a, <2>1, <2>2, <2>3, UpdateOwned
  <2> QED BY <2>1, <2>4 DEF WantedInv
<1>2. CASE Disconnect
  <2>1. /\ Answered /\ StopMic(svc) /\ svc' = 0 /\ UNCHANGED <<on, asks>>
    BY <1>2 DEF Disconnect
  <2> QED BY <1>a, <1>t, <2>1, StopOwned DEF WantedInv, Owned
<1>3. CASE Disconnected
  <2>1. /\ Answered /\ svc' = 0 /\ on' = FALSE /\ UNCHANGED asks
        /\ StopMic(svc) \/ (svc = 0 /\ UNCHANGED platform)
    BY <1>3 DEF Disconnected, mic
  <2> QED BY <1>a, <1>t, <2>1, StopOwned DEF WantedInv, Owned
<1>4. ASSUME Answered, Then PROVE WantedInv'
  <2>1. UpdateMic(svc) /\ on' = on /\ svc' = svc
    BY <1>4 DEF Then
  <2>2. Owned(svc, micEnabled', Should', asks', subs', handler')
    BY <1>0, <1>a, <1>t, <1>4, <2>1, UpdateOwned
  <2> QED BY <1>0, <2>1, <2>2 DEF WantedInv
<1>5. CASE Gesture
  <2>1. Answered /\ Then
    BY <1>5
    DEF Gesture, ToggleMute, ToggleAway, TogglePtt, Press, Release, Card
  <2> QED BY <1>4, <2>1
<1>6. ASSUME NEW s \in Services, Granted(s) PROVE WantedInv'
  <2>1. /\ asks[s] > 0 /\ asks' = [asks EXCEPT ![s] = @ - 1]
        /\ subs' = subs \union {s} /\ handler' = s
        /\ UNCHANGED <<on, wishes, svc, micEnabled>>
    BY <1>6 DEF Granted, StartMic
  <2>2. \A t \in Services : asks'[t] > 0 => asks[t] > 0
    BY <1>t, <2>1
  <2>3. s = svc /\ s # 0 /\ micEnabled /\ Should
    BY <1>0, <1>t, <2>1
  <2>4. Should' = Should
    BY <2>1 DEF Should, wishes
  <2> QED BY <1>0, <2>1, <2>2, <2>3, <2>4 DEF WantedInv, Owned
<1>7. ASSUME NEW s \in Services, Refused(s) PROVE WantedInv'
  <2>1. /\ asks' = [asks EXCEPT ![s] = @ - 1]
        /\ UNCHANGED <<on, wishes, svc, micEnabled, platform>>
    BY <1>7 DEF Refused
  <2>2. \A t \in Services : asks'[t] > 0 => asks[t] > 0
    BY <1>t, <1>7, <2>1 DEF Refused
  <2>3. Should' = Should
    BY <2>1 DEF Should, wishes
  <2> QED BY <1>0, <2>1, <2>2, <2>3 DEF WantedInv, Owned, platform
<1>8. CASE Background \/ UNCHANGED vars
  <2>1. UNCHANGED <<on, wishes, svc, mic, subs, handler>>
    BY <1>8 DEF Background, Poll, Refreshed, FrameSent, NewActivity, vars, platform
  <2>2. Should' = Should
    BY <2>1 DEF Should, wishes
  <2> QED BY <1>0, <2>1, <2>2 DEF WantedInv, Owned, mic
<1> QED
  BY <1>1, <1>2, <1>3, <1>5, <1>6, <1>7, <1>8 DEF Next, Session, Answer

\* toggleMute, toggleAway and push-to-talk: while the permission is answered
\* before anything else, nothing is sent while the user is away, in
\* push-to-talk without the button held, or muted out of push-to-talk, even if
\* Android replaces the activity while it records.
THEOREM NobodyOverheard ==
  ASSUME PromptAnswers
  PROVE  Spec => []NotOverheard
<1>1. TypeOK /\ WantedInv => NotOverheard
  <2> SUFFICES ASSUME TypeOK, WantedInv, Sending
               PROVE  ~away /\ (ptt => pressed) /\ (muted => ptt)
    BY DEF NotOverheard
  <2>1. handler \in subs
    BY DEF Sending, TypeOK
  <2>2. Should
    BY <2>1 DEF WantedInv, Owned
  <2> QED BY <2>2 DEF Should
<1> QED
  BY <1>1, TypeInit, TypeStep, WantedInit, WantedStep, PTL DEF Spec

----------------------------------------------------------------------------
(* What records.                                                           *)

\* The AudioRecord of the current activity runs exactly while a service has a
\* subscription, and then the keep-alive service declares the microphone.
Follows(subscribed, s, records, a, granted) ==
  /\ records # {} => subscribed # {}
  /\ records \subseteq {a}
  /\ subscribed # {} => s /\ a \in records /\ granted

RecordsInv ==
  /\ Follows(subs, sink, recording, activity, micGranted)
  /\ subs # {} => service /\ fgMic

LEMMA RecordsInit == Init => RecordsInv
BY DEF Init, RecordsInv, Follows

\* A "cancel" by the only service that has a subscription ends the recording.
LEMMA StopFollows ==
  ASSUME WantedInv, RecordsInv, NEW s, s = svc, UNCHANGED activity, NEW granted,
         StopMic(s)
  PROVE  Follows(subs', sink', recording', activity', granted) /\ subs' = {}
<1>1. \A t \in subs : t = s
  BY DEF WantedInv, Owned
<1>2. CASE s \in subs
  BY <1>1, <1>2 DEF StopMic, RecordsInv, Follows
<1>3. CASE s \notin subs
  BY <1>1, <1>3 DEF StopMic, RecordsInv, Follows, platform
<1> QED BY <1>2, <1>3

\* _updateMicState can only end a recording.
LEMMA UpdateFollows ==
  ASSUME WantedInv, RecordsInv, UNCHANGED <<svc, activity>>, UpdateMic(svc)
  PROVE  Follows(subs', sink', recording', activity', micGranted') /\ subs' \subseteq subs
<1>1. CASE Disables(svc)
  <2>1. StopMic(svc)
    BY <1>1 DEF UpdateMic, Enables, Disables
  <2> QED BY <2>1, StopFollows
<1>2. CASE ~Disables(svc)
  <2>1. UNCHANGED <<micGranted, platform>>
    BY <1>2 DEF UpdateMic, mic
  <2> QED BY <2>1 DEF RecordsInv, Follows, platform
<1> QED BY <1>1, <1>2

\* Unless Android replaces an activity that records, every handler keeps the
\* recording with the subscription.
LEMMA RecordsStep ==
  ASSUME PromptAnswers, ~AnyActivity
  PROVE  TypeOK /\ WantedInv /\ RecordsInv /\ [Next]_vars => RecordsInv'
<1> SUFFICES ASSUME TypeOK, WantedInv, RecordsInv, [Next]_vars PROVE RecordsInv'
  OBVIOUS
<1>1. CASE Connected
  <2>1. /\ svc = 0 /\ UNCHANGED activity /\ UpdateMic(svc')
    BY <1>1 DEF Connected, WantedInv
  <2>2. subs = {}
    BY <2>1 DEF WantedInv, Owned, TypeOK, Services
  <2>3. recording = {}
    BY <2>2 DEF RecordsInv, Follows
  <2>4. subs' = {} /\ recording' = {}
    BY <2>2, <2>3, <2>1 DEF UpdateMic, StopMic, platform
  <2> QED BY <2>4 DEF RecordsInv, Follows
<1>2. CASE Disconnect
  <2>1. StopMic(svc) /\ UNCHANGED activity
    BY <1>2 DEF Disconnect
  <2> QED BY <2>1, StopFollows DEF RecordsInv
<1>3. CASE Disconnected
  <2>1. UNCHANGED activity /\ (StopMic(svc) \/ (svc = 0 /\ UNCHANGED platform))
    BY <1>3 DEF Disconnected
  <2>2. CASE StopMic(svc)
    BY <2>1, <2>2, StopFollows DEF RecordsInv
  <2>3. CASE svc = 0 /\ UNCHANGED platform
    <3>1. subs' = {} /\ recording' = {}
      BY <2>3 DEF WantedInv, Owned, TypeOK, Services, RecordsInv, Follows, platform
    <3> QED BY <3>1 DEF RecordsInv, Follows
  <2> QED BY <2>1, <2>2, <2>3
<1>4. ASSUME Then, Refresh \/ RefreshIfDisabled PROVE RecordsInv'
  <2>1. UpdateMic(svc) /\ UNCHANGED <<svc, activity>>
    BY <1>4 DEF Then
  <2>2. Follows(subs', sink', recording', activity', micGranted') /\ subs' \subseteq subs
    BY <2>1, UpdateFollows
  <2>3. subs' # {} => service' /\ fgMic'
    BY <1>4, <2>2 DEF Refresh, RefreshIfDisabled, keep, RecordsInv, Follows
  <2> QED BY <2>2, <2>3 DEF RecordsInv
<1>5. CASE Gesture
  <2>1. Then /\ (Refresh \/ RefreshIfDisabled)
    BY <1>5 DEF Gesture, ToggleMute, ToggleAway, TogglePtt, Press, Release, Card
  <2> QED BY <1>4, <2>1
<1>6. ASSUME NEW s \in Services, Granted(s) PROVE RecordsInv'
  BY <1>6 DEF Granted, StartMic, RecordsInv, Follows
<1>7. ASSUME NEW s \in Services, Refused(s) PROVE RecordsInv'
  BY <1>7 DEF Refused, RecordsInv, Follows, platform, keep
<1>8. CASE NewActivity
  <2>1. recording = {} /\ subs = {}
    BY <1>8 DEF NewActivity, RecordsInv, Follows
  <2> QED BY <1>8, <2>1 DEF NewActivity, RecordsInv, Follows
<1>9. CASE UNCHANGED vars
  BY <1>9 DEF vars, mic, platform, keep, RecordsInv, Follows
<1>10. CASE Poll \/ Refreshed \/ FrameSent
  <2>1. UNCHANGED <<micGranted, platform, activity>> /\ (Refresh \/ UNCHANGED keep)
    BY <1>10 DEF Poll, Refreshed, FrameSent, mic
  <2> QED BY <2>1 DEF Refresh, platform, keep, RecordsInv, Follows
<1> QED
  BY <1>1, <1>2, <1>3, <1>5, <1>6, <1>7, <1>8, <1>9, <1>10
  DEF Next, Session, Answer, Background

\* _stopAudio: between sessions nothing records, however the session ended and
\* though a late refresh of the notification may have started the service again,
\* if permission requests are answered at once and an activity that records is
\* kept.
THEOREM QuietBetweenSessions ==
  ASSUME PromptAnswers, ~AnyActivity
  PROVE  Spec => []QuietBetween
<1>1. TypeOK /\ WantedInv /\ RecordsInv => QuietBetween
  <2> SUFFICES ASSUME TypeOK, WantedInv, RecordsInv, ~on PROVE recording = {}
    BY DEF QuietBetween
  <2>1. svc = 0
    BY DEF WantedInv
  <2>2. subs = {}
    BY <2>1 DEF WantedInv, Owned, TypeOK, Services
  <2> QED BY <2>1, <2>2 DEF RecordsInv, Follows
<1> QED
  BY <1>1, TypeInit, TypeStep, WantedInit, WantedStep, RecordsInit, RecordsStep, PTL DEF Spec

\* _refreshNotification: under the same conditions the foreground service
\* declares the microphone whenever a session records.
THEOREM RecordingDeclared ==
  ASSUME PromptAnswers, ~AnyActivity
  PROVE  Spec => []Declared
<1>1. RecordsInv => Declared
  BY DEF RecordsInv, Follows, Declared
<1> QED
  BY <1>1, TypeInit, TypeStep, WantedInit, WantedStep, RecordsInit, RecordsStep, PTL DEF Spec

----------------------------------------------------------------------------
(* Who wants to speak.                                                     *)

\* _micEnabled is what the running session wants, and what is enabled is
\* waited for, subscribed to or refused.
Enabled(s, enabled, wanted, waits, subscribed, no) ==
  /\ enabled <=> s # 0 /\ wanted
  /\ enabled => \/ \E t \in Services : waits[t] > 0
                \/ s \in subscribed
                \/ no

SpeakInv == Enabled(svc, micEnabled, Should, asks, subs, refused)

LEMMA SpeakInit == Init => SpeakInv
BY DEF Init, SpeakInv, Enabled

\* _updateMicState brings _micEnabled in line with what the user wants.
LEMMA UpdateEnabled ==
  ASSUME TypeOK, NEW s \in {0} \union Services, UpdateMic(s),
         s = 0 => ~micEnabled,
         micEnabled => \/ \E t \in Services : asks[t] > 0
                       \/ s \in subs
                       \/ refused
  PROVE  Enabled(s, micEnabled', Should', asks', subs', refused')
<1>1. CASE Enables(s)
  <2>1. s \in Services /\ asks \in [Services -> 0..MaxAsks]
    BY <1>1 DEF Enables, TypeOK
  <2>2. asks' = [asks EXCEPT ![s] = @ + 1] /\ micEnabled' = TRUE /\ s # 0 /\ Should'
    BY <1>1 DEF UpdateMic, Enables, Disables
  <2>3. asks'[s] > 0
    BY <2>1, <2>2
  <2> QED BY <2>1, <2>2, <2>3 DEF Enabled
<1>2. CASE Disables(s)
  BY <1>2 DEF UpdateMic, Enables, Disables, Enabled
<1>3. CASE ~Enables(s) /\ ~Disables(s)
  <2>1. UNCHANGED mic /\ UNCHANGED platform
    BY <1>3 DEF UpdateMic
  <2>2. micEnabled \in BOOLEAN
    BY DEF TypeOK
  <2>3. micEnabled <=> s # 0 /\ Should'
    BY <1>3, <2>2 DEF Enables, Disables
  <2> QED BY <2>1, <2>3 DEF Enabled, mic, platform
<1> QED BY <1>1, <1>2, <1>3

\* When sessions end only by disconnect(), every handler keeps _micEnabled in
\* line with the user's wish.
LEMMA SpeakStep ==
  ASSUME PromptAnswers, "passive" \notin Ends
  PROVE  TypeOK /\ WantedInv /\ SpeakInv /\ [Next]_vars => SpeakInv'
<1> SUFFICES ASSUME TypeOK, WantedInv, SpeakInv, [Next]_vars PROVE SpeakInv'
  OBVIOUS
<1>0. /\ micEnabled <=> svc # 0 /\ Should
      /\ micEnabled => \/ \E t \in Services : asks[t] > 0
                       \/ svc \in subs
                       \/ refused
  BY DEF SpeakInv, Enabled
<1>t. /\ asks \in [Services -> 0..MaxAsks] /\ 0 \notin Services
      /\ svc \in {0} \union Services /\ subs \subseteq Services
  BY DEF TypeOK, Services
<1>1. CASE Connected
  <2>1. svc = 0 /\ UpdateMic(svc') /\ svc' = sessions + 1 /\ sessions < MaxSessions
    BY <1>1 DEF Connected, WantedInv
  <2>2. svc' \in {0} \union Services
    BY <2>1, MicAssumption DEF TypeOK, Services
  <2>3. Enabled(svc', micEnabled', Should', asks', subs', refused')
    BY <1>0, <2>1, <2>2, UpdateEnabled
  <2> QED BY <2>3 DEF SpeakInv
<1>2. CASE Disconnect \/ Disconnected
  <2>1. svc' = 0 /\ ~micEnabled'
    BY <1>0, <1>2 DEF Disconnect, Disconnected, mic
  <2> QED BY <2>1 DEF SpeakInv, Enabled
<1>3. CASE Gesture
  <2>1. UpdateMic(svc) /\ svc' = svc
    BY <1>3 DEF Gesture, ToggleMute, ToggleAway, TogglePtt, Press, Release, Card, Then
  <2>2. Enabled(svc, micEnabled', Should', asks', subs', refused')
    BY <1>0, <1>t, <2>1, UpdateEnabled
  <2> QED BY <2>1, <2>2 DEF SpeakInv
<1>4. ASSUME NEW s \in Services, Granted(s) PROVE SpeakInv'
  <2>1. /\ s \in subs' /\ UNCHANGED <<svc, micEnabled, wishes>> /\ asks[s] > 0
    BY <1>4 DEF Granted, StartMic
  <2>2. s = svc
    BY <2>1 DEF WantedInv, Owned
  <2>3. Should' = Should
    BY <2>1 DEF Should, wishes
  <2> QED BY <1>0, <2>1, <2>2, <2>3 DEF SpeakInv, Enabled
<1>5. ASSUME NEW s \in Services, Refused(s) PROVE SpeakInv'
  <2>1. /\ UNCHANGED <<svc, micEnabled, wishes>>
        /\ refused' = \A t \in Services : asks'[t] = 0
        /\ asks' = [asks EXCEPT ![s] = @ - 1] /\ asks[s] > 0
    BY <1>5 DEF Refused
  <2>2. asks' \in [Services -> Nat]
    BY <1>t, <2>1, MicAssumption
  <2>3. refused' \/ \E t \in Services : asks'[t] > 0
    <3>1. (\A t \in Services : asks'[t] = 0) \/ \E t \in Services : asks'[t] > 0
      BY <2>2
    <3>2. (\A t \in Services : asks'[t] = 0) => refused'
      BY <2>1, Zenon
    <3> QED BY <3>1, <3>2
  <2>4. Should' = Should
    BY <2>1 DEF Should, wishes
  <2> QED BY <1>0, <2>1, <2>3, <2>4 DEF SpeakInv, Enabled
<1>6. CASE Background \/ UNCHANGED vars
  <2>1. UNCHANGED <<wishes, svc, mic, subs>>
    BY <1>6 DEF Background, Poll, Refreshed, FrameSent, NewActivity, vars, platform
  <2>2. Should' = Should
    BY <2>1 DEF Should, wishes
  <2> QED BY <1>0, <2>1, <2>2 DEF SpeakInv, Enabled, mic
<1> QED
  BY <1>1, <1>2, <1>3, <1>4, <1>5, <1>6 DEF Next, Session, Answer

\* _updateMicState and enableMic: who wants to speak is heard once the
\* permission is there, also in the next session, as long as sessions are
\* ended by disconnect().
THEOREM SpeakerHeard ==
  ASSUME PromptAnswers, ~AnyActivity, "passive" \notin Ends
  PROVE  Spec => []Speaks
<1>1. TypeOK /\ WantedInv /\ RecordsInv /\ SpeakInv => Speaks
  <2> SUFFICES ASSUME TypeOK, WantedInv, RecordsInv, SpeakInv,
                      svc # 0, Should, ~Waiting, ~refused
               PROVE  Sending
    BY DEF Speaks
  <2>1. svc \in subs
    BY DEF SpeakInv, Enabled, Waiting
  <2>2. recording # {}
    BY <2>1 DEF RecordsInv, Follows
  <2>3. handler \in subs
    BY <2>1 DEF WantedInv, Owned, TypeOK
  <2>4. handler = svc
    BY <2>3 DEF WantedInv, Owned
  <2> QED BY <2>2, <2>4 DEF Sending
<1> QED
  BY <1>1, TypeInit, TypeStep, WantedInit, WantedStep, RecordsInit, RecordsStep,
     SpeakInit, SpeakStep, PTL DEF Spec

----------------------------------------------------------------------------
(* Away.                                                                   *)

\* _inputMutedBeforeAway holds the mute state in force when the away button was
\* pressed, until the media card has its say.
AwayInv == away /\ restores # "card" => (before <=> restores = "muted")

LEMMA AwayInit == Init => AwayInv
BY DEF Init, AwayInv

LEMMA AwayStep == TypeOK /\ AwayInv /\ [Next]_vars => AwayInv'
<1> SUFFICES ASSUME TypeOK, AwayInv, [Next]_vars PROVE AwayInv'
  OBVIOUS
<1>1. CASE Connected \/ Disconnect \/ Background \/ UNCHANGED vars \/ Answer
  <2>1. UNCHANGED <<wishes, restores>>
    BY <1>1 DEF Connected, Disconnect, Background, Poll, Refreshed, FrameSent, NewActivity,
               vars, Answer, Granted, Refused
  <2> QED BY <2>1 DEF AwayInv, wishes
<1>2. CASE Disconnected
  BY <1>2 DEF Disconnected, AwayInv
<1>3. CASE ToggleAway
  BY <1>3 DEF ToggleAway, AwayInv, TypeOK
<1>4. CASE \E paused \in BOOLEAN : Card(paused)
  BY <1>4 DEF Card, AwayInv
<1>5. CASE ToggleMute \/ TogglePtt \/ Press \/ Release
  BY <1>5 DEF ToggleMute, TogglePtt, Press, Release, AwayInv
<1> QED
  BY <1>1, <1>2, <1>3, <1>4, <1>5 DEF Next, Session, Gesture

\* toggleAway: leaving away brings back the mute state from before, whatever
\* happened in between.
THEOREM AwayRestoresMute == Spec => AwayRestores
<1>1. TypeOK /\ AwayInv /\ [Next]_vars
      => [ToggleAway /\ away /\ restores # "card" => (muted' <=> restores = "muted")]_vars
  BY DEF AwayInv, ToggleAway
<1> QED
  BY <1>1, TypeInit, TypeStep, AwayInit, AwayStep, PTL DEF Spec, AwayRestores

============================================================================
