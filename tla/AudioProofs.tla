---------------------------- MODULE AudioProofs ----------------------------
(***************************************************************************)
(* Theorems about AudioOutput, for any number of sessions and of route     *)
(* changes, every way a session may end and every server.                  *)
(***************************************************************************)
EXTENDS AudioOutput, TLAPS

(* Types. *)

\* A session that is dialled still has a number to take; one that is over its
\* handshake has taken it.
Numbered ==
  /\ phase \in {"called", "dial"} => gen < MaxGen
  /\ phase \notin {"idle", "called", "dial"} => gen # 0

TypeInv == TypeOK /\ Numbered

\* TypeOK by kinds of values: what is boolean, and all else.
Switches ==
  /\ service \in BOOLEAN /\ connected \in BOOLEAN /\ dreq \in BOOLEAN /\ cmd \in BOOLEAN
  /\ suppress \in BOOLEAN /\ deferred \in BOOLEAN /\ restart \in BOOLEAN

Places ==
  /\ ui \in {"off", "connecting", "on"} /\ uiPc \in {"idle", "stop", "check", "tear"}
  /\ events \in Seq({"connected", "disconnected", "error"})
  /\ phase \in Phases /\ gen \in 0..MaxGen
  /\ timer \in [Gens -> {"none", "armed", "fired", "tearing", "over"}]
  /\ maint \in [Gens -> {"none", "idle", "checked", "dropped", "found", "installed"}]
  /\ found \in [Builders -> Devices \union {0}]
  /\ device \in Devices /\ stream \in Devices \union {0}
  /\ queued \subseteq Sounds /\ playing \subseteq Sounds

LEMMA TypeParts == TypeOK <=> Switches /\ Places
BY DEF TypeOK, Switches, Places

\* A sound of a session that has its number is a sound.
LEMMA SoundType ==
  ASSUME NEW k \in {"connected", "kick", "farewell"}, NEW g \in Gens
  PROVE  Sound(k, g) \in Sounds
BY DEF Sound, Sounds

\* The statics start in their types.
LEMMA TypeInit == Init => TypeInv
<1> SUFFICES ASSUME Init PROVE TypeInv
  OBVIOUS
<1> USE AudioAssumption
<1>1. Switches
  BY DEF Init, Switches
<1>2. timer \in [Gens -> {"none", "armed", "fired", "tearing", "over"}]
  BY DEF Init
<1>3. maint \in [Gens -> {"none", "idle", "checked", "dropped", "found", "installed"}]
  BY DEF Init
<1>4. Places
  BY <1>2, <1>3 DEF Init, Places, Phases, Devices, Builders
<1>5. Numbered
  BY DEF Init, Numbered
<1> QED BY <1>1, <1>4, <1>5, TypeParts DEF TypeInv

\* Every handler writes TRUE or FALSE to a flag.
LEMMA SwitchStep == Switches /\ [Next]_vars => Switches'
<1> SUFFICES ASSUME Switches, [Next]_vars PROVE Switches'
  OBVIOUS
<1> USE DEF Switches, dart, session, sounds, output
<1>1. CASE Connect
  BY <1>1, Zenon DEF Connect
<1>2. CASE TapDisconnect
  BY <1>2, Zenon DEF TapDisconnect
<1>3. CASE HandleEvent
  BY <1>3, Zenon DEF HandleEvent
<1>4. CASE StopReadsRequest
  BY <1>4, Zenon DEF StopReadsRequest
<1>5. CASE StopReadsDeferred
  BY <1>5, Zenon DEF StopReadsDeferred
<1>6. CASE StopTears
  BY <1>6, Zenon DEF StopTears, Teardown, DropStream
<1>7. CASE ResetFlags
  BY <1>7, Zenon DEF ResetFlags
<1>8. CASE HandshakeFails
  BY <1>8, Zenon DEF HandshakeFails
<1>9. CASE Established
  BY <1>9, Zenon DEF Established
<1>10. CASE OpenDrops
  BY <1>10, Zenon DEF OpenDrops, Teardown, DropStream
<1>11. CASE OpenInstalls
  BY <1>11, Zenon DEF OpenInstalls, RestartInstalls
<1>12. CASE EndByFlag
  BY <1>12, Zenon DEF EndByFlag, ScheduleSound
<1>13. CASE EndByCommand
  BY <1>13, Zenon DEF EndByCommand, ScheduleSound
<1>14. CASE DrainedFlag
  BY <1>14, Zenon DEF DrainedFlag
<1>15. CASE FlagEnd
  BY <1>15, Zenon DEF FlagEnd
<1>16. CASE FlagClear
  BY <1>16, Zenon DEF FlagClear
<1>17. CASE DrainedCommand
  BY <1>17, Zenon DEF DrainedCommand
<1>18. CASE Kick
  BY <1>18, Zenon DEF Kick
<1>19. CASE Close
  BY <1>19, Zenon DEF Close
<1>20. CASE Closed
  BY <1>20, Zenon DEF Closed, ScheduleSound, ScheduleKick
<1>21. CASE Fail
  BY <1>21, Zenon DEF Fail
<1>22. CASE FailEnd
  BY <1>22, Zenon DEF FailEnd
<1>23. CASE FailPush
  BY <1>23, Zenon DEF FailPush
<1>24. CASE Failed
  BY <1>24, Zenon DEF Failed, ScheduleSound
<1>25. CASE RouteChange
  BY <1>25, Zenon DEF RouteChange
<1>26. ASSUME NEW g \in Gens, TimerFires(g) PROVE Switches'
  BY <1>26, Zenon DEF TimerFires
<1>27. ASSUME NEW g \in Gens, TimerChecks(g) PROVE Switches'
  BY <1>27, Zenon DEF TimerChecks
<1>28. ASSUME NEW g \in Gens, TimerTears(g) PROVE Switches'
  BY <1>28, Zenon DEF TimerTears, Teardown, DropStream
<1>29. ASSUME NEW g \in Gens, MaintChecks(g) PROVE Switches'
  BY <1>29, Zenon DEF MaintChecks
<1>30. ASSUME NEW g \in Gens, MaintDrops(g) PROVE Switches'
  BY <1>30, Zenon DEF MaintDrops, Teardown, DropStream
<1>31. ASSUME NEW g \in Gens, MaintInstalls(g) PROVE Switches'
  BY <1>31, Zenon DEF MaintInstalls, RestartInstalls
<1>32. CASE StreamError
  BY <1>32, Zenon DEF StreamError
<1>33. CASE OpenFinds
  BY <1>33, Zenon DEF OpenFinds, RestartFinds
<1>34. ASSUME NEW g \in Gens, MaintFinds(g) PROVE Switches'
  BY <1>34, Zenon DEF MaintFinds, RestartFinds
<1>35. ASSUME NEW g \in Gens, MaintClears(g) PROVE Switches'
  BY <1>35, Zenon DEF MaintClears
<1>36. CASE Play
  BY <1>36, Zenon DEF Play
<1>37. ASSUME NEW s \in Sounds, Finish(s) PROVE Switches'
  BY <1>37, Zenon DEF Finish
<1>38. CASE UNCHANGED vars
  BY <1>38, Zenon DEF vars
<1> QED
  BY <1>1, <1>2, <1>3, <1>4, <1>5, <1>6, <1>7, <1>8, <1>9, <1>10, <1>11, <1>12, <1>13, <1>14, <1>15, <1>16, <1>17, <1>18, <1>19, <1>20, <1>21, <1>22, <1>23, <1>24, <1>25, <1>26, <1>27, <1>28, <1>29, <1>30, <1>31, <1>32, <1>33, <1>34, <1>35, <1>36, <1>37, <1>38
  DEF Next, Outside, Dart, DoConnect, Asked, Ending, Callback, Timer, Maintenance

\* Every handler goes to a place of its own, with a number in its range.
LEMMA PlaceStep == Places /\ Numbered /\ [Next]_vars => Places' /\ Numbered'
<1> SUFFICES ASSUME Places, Numbered, [Next]_vars PROVE Places' /\ Numbered'
  OBVIOUS
<1> USE AudioAssumption, SoundType
    DEF Places, Numbered, Phases, Devices, Builders, Gens, dart, session, sounds, output
<1>1. CASE Connect
  BY <1>1 DEF Connect
<1>2. CASE TapDisconnect
  BY <1>2 DEF TapDisconnect
<1>3. CASE HandleEvent
  BY <1>3 DEF HandleEvent
<1>4. CASE StopReadsRequest
  BY <1>4 DEF StopReadsRequest
<1>5. CASE StopReadsDeferred
  BY <1>5 DEF StopReadsDeferred
<1>6. CASE StopTears
  BY <1>6 DEF StopTears, Teardown, DropStream
<1>7. CASE ResetFlags
  BY <1>7 DEF ResetFlags
<1>8. CASE HandshakeFails
  BY <1>8 DEF HandshakeFails
<1>9. CASE Established
  BY <1>9 DEF Established
<1>10. CASE OpenDrops
  BY <1>10 DEF OpenDrops, Teardown, DropStream
<1>11. CASE OpenInstalls
  BY <1>11 DEF OpenInstalls, RestartInstalls
<1>12. CASE EndByFlag
  BY <1>12 DEF EndByFlag, ScheduleSound
<1>13. CASE EndByCommand
  BY <1>13 DEF EndByCommand, ScheduleSound
<1>14. CASE DrainedFlag
  BY <1>14 DEF DrainedFlag
<1>15. CASE FlagEnd
  BY <1>15 DEF FlagEnd
<1>16. CASE FlagClear
  BY <1>16 DEF FlagClear
<1>17. CASE DrainedCommand
  BY <1>17 DEF DrainedCommand
<1>18. CASE Kick
  BY <1>18 DEF Kick
<1>19. CASE Close
  BY <1>19 DEF Close
<1>20. CASE Closed
  BY <1>20 DEF Closed, ScheduleSound, ScheduleKick
<1>21. CASE Fail
  BY <1>21 DEF Fail
<1>22. CASE FailEnd
  BY <1>22 DEF FailEnd
<1>23. CASE FailPush
  BY <1>23 DEF FailPush
<1>24. CASE Failed
  BY <1>24 DEF Failed, ScheduleSound
<1>25. CASE RouteChange
  BY <1>25 DEF RouteChange
<1>26. ASSUME NEW g \in Gens, TimerFires(g) PROVE Places' /\ Numbered'
  BY <1>26 DEF TimerFires
<1>27. ASSUME NEW g \in Gens, TimerChecks(g) PROVE Places' /\ Numbered'
  BY <1>27 DEF TimerChecks
<1>28. ASSUME NEW g \in Gens, TimerTears(g) PROVE Places' /\ Numbered'
  BY <1>28 DEF TimerTears, Teardown, DropStream
<1>29. ASSUME NEW g \in Gens, MaintChecks(g) PROVE Places' /\ Numbered'
  BY <1>29 DEF MaintChecks
<1>30. ASSUME NEW g \in Gens, MaintDrops(g) PROVE Places' /\ Numbered'
  BY <1>30 DEF MaintDrops, Teardown, DropStream
<1>31. ASSUME NEW g \in Gens, MaintInstalls(g) PROVE Places' /\ Numbered'
  BY <1>31 DEF MaintInstalls, RestartInstalls
<1>32. CASE StreamError
  BY <1>32 DEF StreamError
<1>33. CASE OpenFinds
  BY <1>33 DEF OpenFinds, RestartFinds
<1>34. ASSUME NEW g \in Gens, MaintFinds(g) PROVE Places' /\ Numbered'
  BY <1>34 DEF MaintFinds, RestartFinds
<1>35. ASSUME NEW g \in Gens, MaintClears(g) PROVE Places' /\ Numbered'
  BY <1>35 DEF MaintClears
<1>36. CASE Play
  BY <1>36 DEF Play
<1>37. ASSUME NEW s \in Sounds, Finish(s) PROVE Places' /\ Numbered'
  BY <1>37 DEF Finish
<1>38. CASE UNCHANGED vars
  BY <1>38 DEF vars
<1> QED
  BY <1>1, <1>2, <1>3, <1>4, <1>5, <1>6, <1>7, <1>8, <1>9, <1>10, <1>11, <1>12, <1>13, <1>14, <1>15, <1>16, <1>17, <1>18, <1>19, <1>20, <1>21, <1>22, <1>23, <1>24, <1>25, <1>26, <1>27, <1>28, <1>29, <1>30, <1>31, <1>32, <1>33, <1>34, <1>35, <1>36, <1>37, <1>38
  DEF Next, Outside, Dart, DoConnect, Asked, Ending, Callback, Timer, Maintenance

\* The statics and the tasks keep values of their types, whatever the user, the
\* server and Android do.
THEOREM AudioTypeCorrect == Spec => []TypeOK
<1>1. TypeInv /\ [Next]_vars => TypeInv'
  BY TypeParts, SwitchStep, PlaceStep DEF TypeInv, TypeOK, Switches, Places
<1>2. TypeInv => TypeOK
  BY DEF TypeInv
<1> QED BY TypeInit, <1>1, <1>2, PTL DEF Spec

-----------------------------------------------------------------------------
(* The stream of a running session. *)

\* Between the handshake and the end of the events stream.
Up == phase \in {"opening", "dropped", "found", "running", "drainFlag", "drainCmd", "flagEnd", "err1"}

\* Dart has been told of the session that begins, and of nothing else.
Announced ==
  \/ ui = "connecting" /\ events = <<"connected">>
  \/ ui = "on" /\ events = <<>>

\* ts_stop_audio is not under way when a session begins; while it runs, only a
\* call of the user's own disconnect is, and that one finds disconnect_requested.
DartInv ==
  /\ phase \in {"called", "dial"} => ui = "connecting" /\ uiPc = "idle" /\ events = <<>>
  /\ phase \in {"opening", "dropped", "found", "running"} => Announced
  /\ phase \in {"opening", "dropped", "found"} => uiPc = "idle"
  /\ phase = "running" => uiPc = "idle" \/ (uiPc = "stop" /\ dreq)

\* TsState.connected tells the timers of earlier sessions that one is up: those
\* that fire before it is see it, those that saw it down are done when it rises.
TimerInv ==
  /\ connected <=> Up
  /\ connected => \A g \in Gens : timer[g] # "tearing"

\* Whoever is about to install a stream has found a device for it.
FoundInv ==
  /\ phase = "found" => found[0] # 0
  /\ \A g \in Gens : maint[g] = "found" => found[g] # 0

HeardInv == DartInv /\ TimerInv /\ FoundInv /\ HeardWhileRunning

\* No session is up and nothing has been said to Dart.
LEMMA HeardInit == Init => HeardInv
BY DEF Init, HeardInv, DartInv, TimerInv, FoundInv, HeardWhileRunning, Up

\* Whoever closes the stream does so while no session runs, or is about to open
\* it again.
LEMMA HeardStep ==
  ASSUME TypeOK, HeardInv, [Next]_vars, Reconnect # "any"
  PROVE  HeardInv'
<1> USE AudioAssumption
    DEF TypeOK, HeardInv, DartInv, TimerInv, FoundInv, HeardWhileRunning, Rebuilding, Announced,
        Up, Phases, Devices, Builders, Gens, dart, session, sounds, output
<1>1. CASE Connect
  BY <1>1 DEF Connect
<1>2. CASE TapDisconnect
  BY <1>2 DEF TapDisconnect
<1>3. CASE HandleEvent
  BY <1>3 DEF HandleEvent
<1>4. CASE StopReadsRequest
  BY <1>4 DEF StopReadsRequest
<1>5. CASE StopReadsDeferred
  BY <1>5 DEF StopReadsDeferred
<1>6. CASE StopTears
  BY <1>6 DEF StopTears, Teardown, DropStream
<1>7. CASE ResetFlags
  BY <1>7 DEF ResetFlags
<1>8. CASE HandshakeFails
  BY <1>8 DEF HandshakeFails
<1>9. CASE Established
  BY <1>9 DEF Established
<1>10. CASE OpenDrops
  BY <1>10 DEF OpenDrops, Teardown, DropStream
<1>11. CASE OpenInstalls
  BY <1>11 DEF OpenInstalls, RestartInstalls
<1>12. CASE EndByFlag
  BY <1>12 DEF EndByFlag, ScheduleSound
<1>13. CASE EndByCommand
  BY <1>13 DEF EndByCommand, ScheduleSound
<1>14. CASE DrainedFlag
  BY <1>14 DEF DrainedFlag
<1>15. CASE FlagEnd
  BY <1>15 DEF FlagEnd
<1>16. CASE FlagClear
  BY <1>16 DEF FlagClear
<1>17. CASE DrainedCommand
  BY <1>17 DEF DrainedCommand
<1>18. CASE Kick
  BY <1>18 DEF Kick
<1>19. CASE Close
  BY <1>19 DEF Close
<1>20. CASE Closed
  BY <1>20 DEF Closed, ScheduleSound, ScheduleKick
<1>21. CASE Fail
  BY <1>21 DEF Fail
<1>22. CASE FailEnd
  BY <1>22 DEF FailEnd
<1>23. CASE FailPush
  BY <1>23 DEF FailPush
<1>24. CASE Failed
  BY <1>24 DEF Failed, ScheduleSound
<1>25. CASE RouteChange
  BY <1>25 DEF RouteChange
<1>26. ASSUME NEW g \in Gens, TimerFires(g) PROVE HeardInv'
  BY <1>26 DEF TimerFires
<1>27. ASSUME NEW g \in Gens, TimerChecks(g) PROVE HeardInv'
  BY <1>27 DEF TimerChecks
<1>28. ASSUME NEW g \in Gens, TimerTears(g) PROVE HeardInv'
  BY <1>28 DEF TimerTears, Teardown, DropStream
<1>29. ASSUME NEW g \in Gens, MaintChecks(g) PROVE HeardInv'
  BY <1>29 DEF MaintChecks
<1>30. ASSUME NEW g \in Gens, MaintDrops(g) PROVE HeardInv'
  BY <1>30 DEF MaintDrops, Teardown, DropStream
<1>31. ASSUME NEW g \in Gens, MaintInstalls(g) PROVE HeardInv'
  BY <1>31 DEF MaintInstalls, RestartInstalls
<1>32. CASE StreamError
  BY <1>32 DEF StreamError
<1>33. CASE OpenFinds
  BY <1>33 DEF OpenFinds, RestartFinds
<1>34. ASSUME NEW g \in Gens, MaintFinds(g) PROVE HeardInv'
  BY <1>34 DEF MaintFinds, RestartFinds
<1>35. ASSUME NEW g \in Gens, MaintClears(g) PROVE HeardInv'
  BY <1>35 DEF MaintClears
<1>36. CASE Play
  BY <1>36 DEF Play
<1>37. ASSUME NEW s \in Sounds, Finish(s) PROVE HeardInv'
  BY <1>37 DEF Finish
<1>38. CASE UNCHANGED vars
  BY <1>38 DEF vars
<1> QED
  BY <1>1, <1>2, <1>3, <1>4, <1>5, <1>6, <1>7, <1>8, <1>9, <1>10, <1>11, <1>12, <1>13, <1>14, <1>15, <1>16, <1>17, <1>18, <1>19, <1>20, <1>21, <1>22, <1>23, <1>24, <1>25, <1>26, <1>27, <1>28, <1>29, <1>30, <1>31, <1>32, <1>33, <1>34, <1>35, <1>36, <1>37, <1>38
  DEF Next, Outside, Dart, DoConnect, Asked, Ending, Callback, Timer, Maintenance

\* A running session is heard: no timer of an earlier session, no ts_stop_audio of
\* the user interface and no rebuild leaves it without an output stream, provided
\* a handshake does not overtake the few instructions of a timer that has fired.
THEOREM Heard ==
  ASSUME Reconnect # "any"
  PROVE  Spec => []HeardWhileRunning
<1>1. TypeOK /\ HeardInv /\ [Next]_vars => HeardInv'
  BY HeardStep
<1>2. HeardInv => HeardWhileRunning
  BY DEF HeardInv
<1> QED BY AudioTypeCorrect, HeardInit, <1>1, <1>2, PTL DEF Spec

=============================================================================
