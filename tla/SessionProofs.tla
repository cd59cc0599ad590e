--------------------------- MODULE SessionProofs ---------------------------
(***************************************************************************)
(* Theorems about Session, for every MaxGen and every choice of what the   *)
(* network and the user may do.                                            *)
(***************************************************************************)
EXTENDS Session, FiniteSetTheorems, TLAPS

\* The attempts that still have a number to take fit into the bound.
Bound == gen + uiTaps + (IF Dialing THEN 1 ELSE 0) <= MaxGen

\* A session whose handshake is over has its number.
Numbered == hs \in {"ready", "published"} => gen # 0

\* _pollEvents iterates over a batch that has an event left.
Handling == uiPc = "handle" => batch # <<>>

TypeInv == TypeOK /\ Bound /\ Numbered /\ Handling

\* TypeOK by kinds of values: what is boolean, what names sessions and events,
\* what is a place in the code.
Switches ==
  /\ uiConnecting \in BOOLEAN /\ uiConnected \in BOOLEAN /\ uiPolling \in BOOLEAN
  /\ service \in BOOLEAN
  /\ connecting \in BOOLEAN /\ connected \in BOOLEAN
  /\ dreq \in BOOLEAN /\ swipe \in BOOLEAN /\ alive \in BOOLEAN

Numbers ==
  /\ uiTaps \in Nat /\ uiCon \in Gens \union {0} /\ jniCon \in Gens \union {0}
  /\ tx \in Gens \union {0} /\ stash \in Gens \union {0} /\ gen \in Gens \union {0}
  /\ batch \in Seq(Events) /\ pending \in Seq(Events)
  /\ asked \subseteq Gens

Places ==
  /\ uiPc \in UiPcs /\ jni \in JniPcs /\ hs \in HsPcs
  /\ pc \in [Gens -> LoopPcs] /\ lib \in [Gens -> LibStates]

NumberInv == Numbers /\ Bound /\ Numbered /\ Handling

\* TypeOK is the conjunction of its kinds.
LEMMA TypeParts ==
  TypeOK <=> /\ Switches /\ Numbers /\ Places
             /\ con \in [Gens -> Gens \union {0}] /\ queue \in [Gens -> BOOLEAN]
BY DEF TypeOK, Switches, Numbers, Places

\* An event pushed to pending_events is an event.
LEMMA PushType ==
  ASSUME NEW k \in {"connected", "disconnected", "error"}, NEW g \in Gens,
         pending \in Seq(Events)
  PROVE  Append(pending, Event(k, g)) \in Seq(Events)
BY DEF Event, Events

\* The statics and the notifier start in their types.
LEMMA TypeInit == Init => TypeInv
<1> SUFFICES ASSUME Init PROVE TypeInv
  OBVIOUS
<1> USE SessionAssumption
<1>1. TypeOK
  <2>1. <<>> \in Seq(Events)
    OBVIOUS
  <2>2. pc \in [Gens -> LoopPcs] /\ con \in [Gens -> Gens \union {0}]
    BY DEF Init, LoopPcs
  <2>3. lib \in [Gens -> LibStates] /\ queue \in [Gens -> BOOLEAN]
    BY DEF Init, LibStates
  <2> QED
    BY <2>1, <2>2, <2>3 DEF Init, TypeOK, UiPcs, JniPcs, HsPcs
<1>2. Bound
  BY DEF Init, Bound, Dialing
<1>3. Numbered
  BY DEF Init, Numbered
<1>4. Handling
  BY DEF Init, Handling
<1> QED
  BY <1>1, <1>2, <1>3, <1>4 DEF TypeInv

\* Every handler writes TRUE or FALSE to a flag, and moves events between
\* pending_events and the batch without touching the flags.
LEMMA SwitchStep == Switches /\ [Next]_vars => Switches'
<1> SUFFICES ASSUME Switches, [Next]_vars PROVE Switches'
  OBVIOUS
<1> USE DEF Switches
<1>0. CASE UNCHANGED vars
  BY <1>0 DEF vars, ui, flags, state
<1>1. CASE TapConnect
  BY <1>1, Zenon DEF TapConnect, flags, state
<1>2. CASE TapDisconnect
  BY <1>2, Zenon DEF TapDisconnect, DisconnectReturns, flags, state
<1>3. CASE Swipe
  BY <1>3, Zenon DEF Swipe, flags, state
<1>4. CASE Connect
  BY <1>4, Zenon DEF Connect, flags
<1>5. CASE Poll
  BY <1>5, Zenon DEF Poll, flags
<1>6. CASE HandleEvent
  <2>1. OnConnected \/ OnDisconnected \/ OnError
    BY <1>6 DEF HandleEvent
  <2>2. CASE OnConnected
    BY <1>6, <2>2, Zenon DEF HandleEvent, OnConnected, flags, state
  <2>3. CASE OnDisconnected
    BY <1>6, <2>3, Zenon DEF HandleEvent, OnDisconnected, flags, state
  <2>4. CASE OnError
    BY <1>6, <2>4, Zenon DEF HandleEvent, OnError, flags, state
  <2> QED
    BY <2>1, <2>2, <2>3, <2>4
<1>7. CASE DisconnectFlag
  BY <1>7, Zenon DEF DisconnectFlag, state
<1>8. CASE DisconnectCommand
  BY <1>8, Zenon DEF DisconnectCommand, DisconnectReturns, flags, state
<1>9. CASE DisconnectSync
  BY <1>9, Zenon DEF DisconnectSync, DisconnectReturns
<1>10. CASE JniFlag
  BY <1>10, Zenon DEF JniFlag, ui, state
<1>11. CASE JniSwipe
  BY <1>11, Zenon DEF JniSwipe, ui, state
<1>12. CASE JniCommand
  BY <1>12, Zenon DEF JniCommand, ui, flags, state
<1>13. CASE JniStash
  BY <1>13, Zenon DEF JniStash, ui, flags, state
<1>14. CASE JniSync
  BY <1>14, Zenon DEF JniSync, ui
<1>15. CASE IdentityLevel
  BY <1>15, Zenon DEF IdentityLevel, ui, flags
<1>16. CASE HandshakeFails
  BY <1>16, Zenon DEF HandshakeFails, ui, flags
<1>17. CASE HandshakeDone
  BY <1>17, Zenon DEF HandshakeDone, ui, flags, state
<1>18. CASE Publish
  BY <1>18, Zenon DEF Publish, ui, flags
<1>19. CASE Stash
  BY <1>19, Zenon DEF Stash, ui, flags, state
<1>20. ASSUME NEW g \in Gens, SpawnLoop(g) PROVE Switches'
  BY <1>20, Zenon DEF SpawnLoop, ui, flags, state
<1>21. ASSUME NEW g \in Gens, TakeStash(g) PROVE Switches'
  BY <1>21, Zenon DEF TakeStash, ui, flags, state
<1>22. ASSUME NEW g \in Gens, StartLoop(g) PROVE Switches'
  BY <1>22, Zenon DEF StartLoop, ui, state
<1>23. ASSUME NEW g \in Gens, CheckFlags(g) PROVE Switches'
  BY <1>23, Zenon DEF CheckFlags, ui, state
<1>24. ASSUME NEW g \in Gens, Commands(g) PROVE Switches'
  BY <1>24, Zenon DEF Commands, ui, flags, state
<1>25. ASSUME NEW g \in Gens, PollStream(g) PROVE Switches'
  BY <1>25, Zenon DEF PollStream, ui, flags, state
<1>26. ASSUME NEW g \in Gens, StreamEnds(g) PROVE Switches'
  BY <1>26, Zenon DEF StreamEnds, ui, flags
<1>27. ASSUME NEW g \in Gens, StreamFails(g) PROVE Switches'
  BY <1>27, Zenon DEF StreamFails, ui, flags
<1>28. ASSUME NEW g \in Gens, FailEnd(g) PROVE Switches'
  BY <1>28, Zenon DEF FailEnd, ui, flags
<1>29. ASSUME NEW g \in Gens, StreamFailed(g) PROVE Switches'
  BY <1>29, Zenon DEF StreamFailed, ui, flags
<1>30. ASSUME NEW g \in Gens, DrainedFlag(g) PROVE Switches'
  BY <1>30, Zenon DEF DrainedFlag, ui, flags
<1>31. ASSUME NEW g \in Gens, FlagEnd(g) PROVE Switches'
  BY <1>31, Zenon DEF FlagEnd, ui, flags
<1>32. ASSUME NEW g \in Gens, FlagClear(g) PROVE Switches'
  BY <1>32, Zenon DEF FlagClear, ui, state
<1>33. ASSUME NEW g \in Gens, DrainedCommand(g) PROVE Switches'
  BY <1>33, Zenon DEF DrainedCommand, ui, flags
<1>34. ASSUME NEW g \in Gens, DrainPanics(g) PROVE Switches'
  BY <1>34, Zenon DEF DrainPanics, ui, flags, state
<1>35. ASSUME NEW g \in Gens, ClearTx(g) PROVE Switches'
  BY <1>35, Zenon DEF ClearTx, ui, flags, state
<1>36. ASSUME NEW g \in Gens, EndTask(g) PROVE Switches'
  BY <1>36, Zenon DEF EndTask, ui, state
<1>37. ASSUME NEW g \in Gens, Drop(g) PROVE Switches'
  BY <1>37, Zenon DEF Drop, LibStep, ui, flags, state
<1>38. ASSUME NEW g \in Gens, Reconnect(g) PROVE Switches'
  BY <1>38, Zenon DEF Reconnect, LibStep, ui, flags, state
<1>39. ASSUME NEW g \in Gens, ReconnectFails(g) PROVE Switches'
  BY <1>39, Zenon DEF ReconnectFails, LibStep, ui, flags, state
<1>40. ASSUME NEW g \in Gens, ServerCloses(g) PROVE Switches'
  BY <1>40, Zenon DEF ServerCloses, LibStep, ui, flags, state
<1>41. ASSUME NEW g \in Gens, NetworkError(g) PROVE Switches'
  BY <1>41, Zenon DEF NetworkError, LibStep, ui, flags, state
<1>42. ASSUME NEW g \in Gens, CloseAck(g) PROVE Switches'
  BY <1>42, Zenon DEF CloseAck, LibStep, ui, flags, state
<1> QED
  BY <1>0, <1>1, <1>2, <1>3, <1>4, <1>5, <1>6, <1>7, <1>8, <1>9, <1>10, <1>11, <1>12,
         <1>13, <1>14, <1>15, <1>16, <1>17, <1>18, <1>19, <1>20, <1>21, <1>22, <1>23,
         <1>24, <1>25, <1>26, <1>27, <1>28, <1>29, <1>30, <1>31, <1>32, <1>33, <1>34,
         <1>35, <1>36, <1>37, <1>38, <1>39, <1>40, <1>41, <1>42 DEF Next, User, Dart,
         Jni, DoConnect, EventLoop, Library

\* Session numbers stay in range: CONNECTION_GENERATION only grows by one per
\* handshake, and an attempt starts only while a number is left.
LEMMA NumberStep == TypeInv /\ [Next]_vars => NumberInv'
<1> SUFFICES ASSUME TypeInv, [Next]_vars PROVE NumberInv'
  OBVIOUS
<1> USE SessionAssumption, TypeParts
<1> USE DEF NumberInv, TypeInv, Numbers, Bound, Numbered, Handling, Dialing, Gens
<1>0. CASE UNCHANGED vars
  BY <1>0 DEF vars, ui, jniVars, flags, state, links, loops
<1>1. CASE TapConnect
  BY <1>1 DEF TapConnect, Dialing, jniVars, state, links
<1>2. CASE TapDisconnect
  BY <1>2 DEF TapDisconnect, Ask, Dialing, DisconnectReturns, jniVars, state
<1>3. CASE Swipe
  BY <1>3 DEF Swipe, Ask, Dialing, state, links
<1>4. CASE Connect
  <2>1. Numbers'
    <3>1. pending' \in Seq(Events)
      <4>1. pending' = <<>> \/ pending' = pending
        BY <1>4 DEF Connect
      <4>2. <<>> \in Seq(Events)
        OBVIOUS
      <4> QED
        BY <4>1, <4>2
    <3>2. uiTaps' \in Nat
      BY <1>4 DEF Connect
    <3> QED
      BY <1>4, <3>1, <3>2 DEF Connect, jniVars, links
  <2>2. Bound' /\ Numbered'
    <3>1. /\ uiTaps \in Nat /\ uiTaps > 0 /\ gen \in Nat
          /\ uiTaps' = uiTaps - 1 /\ gen' = gen
      BY <1>4 DEF Connect, links
    <3>2. hs' = hs \/ hs' = "dial"
      BY <1>4 DEF Connect
    <3> QED
      BY <3>1, <3>2
  <2>3. Handling'
    BY <1>4 DEF Connect
  <2> QED
    BY <2>1, <2>2, <2>3
<1>5. CASE Poll
  BY <1>5 DEF Poll, jniVars, links
<1>6. CASE HandleEvent
  BY <1>6 DEF HandleEvent, OnConnected, OnDisconnected, OnError, jniVars, state, links
<1>7. CASE DisconnectFlag
  BY <1>7 DEF DisconnectFlag, jniVars, state, links
<1>8. CASE DisconnectCommand
  BY <1>8 DEF DisconnectCommand, DisconnectReturns, jniVars, state, links
<1>9. CASE DisconnectSync
  BY <1>9 DEF DisconnectSync, DisconnectReturns, jniVars, links
<1>10. CASE JniFlag
  BY <1>10 DEF JniFlag, ui, state, links
<1>11. CASE JniSwipe
  BY <1>11 DEF JniSwipe, ui, state, links
<1>12. CASE JniCommand
  BY <1>12 DEF JniCommand, ui, state, links
<1>13. CASE JniStash
  BY <1>13 DEF JniStash, ui, state
<1>14. CASE JniSync
  BY <1>14 DEF JniSync, ui, links
<1>15. CASE IdentityLevel
  BY <1>15, PushType DEF IdentityLevel, Push, ui, jniVars, links
<1>16. CASE HandshakeFails
  BY <1>16, PushType DEF HandshakeFails, Dialing, Push, ui, jniVars, links
<1>17. CASE HandshakeDone
  BY <1>17 DEF HandshakeDone, Dialing, ui, jniVars, state
<1>18. CASE Publish
  BY <1>18, PushType DEF Publish, Push, ui, jniVars, links
<1>19. CASE Stash
  BY <1>19 DEF Stash, ui, jniVars, state
<1>20. ASSUME NEW g \in Gens, SpawnLoop(g) PROVE NumberInv'
  BY <1>20 DEF SpawnLoop, ui, jniVars, state, links
<1>21. ASSUME NEW g \in Gens, TakeStash(g) PROVE NumberInv'
  BY <1>21 DEF TakeStash, ui, jniVars, state
<1>22. ASSUME NEW g \in Gens, StartLoop(g) PROVE NumberInv'
  BY <1>22 DEF StartLoop, ui, jniVars, state, links
<1>23. ASSUME NEW g \in Gens, CheckFlags(g) PROVE NumberInv'
  BY <1>23 DEF CheckFlags, ui, jniVars, state, links
<1>24. ASSUME NEW g \in Gens, Commands(g) PROVE NumberInv'
  BY <1>24 DEF Commands, ui, jniVars, state, links
<1>25. ASSUME NEW g \in Gens, PollStream(g) PROVE NumberInv'
  BY <1>25 DEF PollStream, ui, jniVars, state, links
<1>26. ASSUME NEW g \in Gens, StreamEnds(g) PROVE NumberInv'
  BY <1>26, PushType DEF StreamEnds, Push, ui, jniVars, links
<1>27. ASSUME NEW g \in Gens, StreamFails(g) PROVE NumberInv'
  BY <1>27, PushType DEF StreamFails, Push, ui, jniVars, links
<1>28. ASSUME NEW g \in Gens, FailEnd(g) PROVE NumberInv'
  BY <1>28 DEF FailEnd, ui, jniVars, links
<1>29. ASSUME NEW g \in Gens, StreamFailed(g) PROVE NumberInv'
  BY <1>29, PushType DEF StreamFailed, Push, ui, jniVars, links
<1>30. ASSUME NEW g \in Gens, DrainedFlag(g) PROVE NumberInv'
  BY <1>30, PushType DEF DrainedFlag, Push, ui, jniVars, links
<1>31. ASSUME NEW g \in Gens, FlagEnd(g) PROVE NumberInv'
  BY <1>31 DEF FlagEnd, ui, jniVars, links
<1>32. ASSUME NEW g \in Gens, FlagClear(g) PROVE NumberInv'
  BY <1>32 DEF FlagClear, ui, jniVars, state, links
<1>33. ASSUME NEW g \in Gens, DrainedCommand(g) PROVE NumberInv'
  BY <1>33, PushType DEF DrainedCommand, Push, ui, jniVars, links
<1>34. ASSUME NEW g \in Gens, DrainPanics(g) PROVE NumberInv'
  BY <1>34 DEF DrainPanics, ui, jniVars, state, links
<1>35. ASSUME NEW g \in Gens, ClearTx(g) PROVE NumberInv'
  BY <1>35 DEF ClearTx, ui, jniVars, state
<1>36. ASSUME NEW g \in Gens, EndTask(g) PROVE NumberInv'
  BY <1>36 DEF EndTask, ui, jniVars, state, links
<1>37. ASSUME NEW g \in Gens, Drop(g) PROVE NumberInv'
  BY <1>37 DEF Drop, LibStep, ui, jniVars, state, links
<1>38. ASSUME NEW g \in Gens, Reconnect(g) PROVE NumberInv'
  BY <1>38 DEF Reconnect, LibStep, ui, jniVars, state, links
<1>39. ASSUME NEW g \in Gens, ReconnectFails(g) PROVE NumberInv'
  BY <1>39 DEF ReconnectFails, LibStep, ui, jniVars, state, links
<1>40. ASSUME NEW g \in Gens, ServerCloses(g) PROVE NumberInv'
  BY <1>40 DEF ServerCloses, LibStep, ui, jniVars, state, links
<1>41. ASSUME NEW g \in Gens, NetworkError(g) PROVE NumberInv'
  BY <1>41 DEF NetworkError, LibStep, ui, jniVars, state, links
<1>42. ASSUME NEW g \in Gens, CloseAck(g) PROVE NumberInv'
  BY <1>42 DEF CloseAck, LibStep, ui, jniVars, state, links
<1> QED
  BY <1>0, <1>1, <1>2, <1>3, <1>4, <1>5, <1>6, <1>7, <1>8, <1>9, <1>10, <1>11, <1>12,
         <1>13, <1>14, <1>15, <1>16, <1>17, <1>18, <1>19, <1>20, <1>21, <1>22, <1>23,
         <1>24, <1>25, <1>26, <1>27, <1>28, <1>29, <1>30, <1>31, <1>32, <1>33, <1>34,
         <1>35, <1>36, <1>37, <1>38, <1>39, <1>40, <1>41, <1>42 DEF Next, User, Dart,
         Jni, DoConnect, EventLoop, Library

\* Every thread moves from one place of its code to another.
LEMMA PlaceStep == Places /\ [Next]_vars => Places'
<1> SUFFICES ASSUME Places, [Next]_vars PROVE Places'
  OBVIOUS
<1> USE DEF Places, UiPcs, JniPcs, HsPcs, LoopPcs, LibStates
<1>0. CASE UNCHANGED vars
  BY <1>0 DEF vars, ui, jniVars, loops
<1>1. CASE TapConnect
  BY <1>1 DEF TapConnect, jniVars, loops
<1>2. CASE TapDisconnect
  BY <1>2 DEF TapDisconnect, DisconnectReturns, jniVars
<1>3. CASE Swipe
  BY <1>3 DEF Swipe, loops
<1>4. CASE Connect
  BY <1>4 DEF Connect, jniVars, loops
<1>5. CASE Poll
  BY <1>5 DEF Poll, jniVars, loops
<1>6. CASE HandleEvent
  BY <1>6 DEF HandleEvent, jniVars, loops
<1>7. CASE DisconnectFlag
  BY <1>7 DEF DisconnectFlag, jniVars, loops
<1>8. CASE DisconnectCommand
  BY <1>8 DEF DisconnectCommand, SendDisconnect, DisconnectReturns, jniVars
<1>9. CASE DisconnectSync
  BY <1>9 DEF DisconnectSync, DisconnectReturns, jniVars, loops
<1>10. CASE JniFlag
  BY <1>10 DEF JniFlag, ui, loops
<1>11. CASE JniSwipe
  BY <1>11 DEF JniSwipe, ui, loops
<1>12. CASE JniCommand
  BY <1>12 DEF JniCommand, SendDisconnect, ui
<1>13. CASE JniStash
  BY <1>13 DEF JniStash, ui
<1>14. CASE JniSync
  BY <1>14 DEF JniSync, ui, loops
<1>15. CASE IdentityLevel
  BY <1>15 DEF IdentityLevel, ui, jniVars, loops
<1>16. CASE HandshakeFails
  BY <1>16 DEF HandshakeFails, ui, jniVars, loops
<1>17. CASE HandshakeDone
  BY <1>17 DEF HandshakeDone, ui, jniVars
<1>18. CASE Publish
  BY <1>18 DEF Publish, ui, jniVars, loops
<1>19. CASE Stash
  BY <1>19 DEF Stash, Goto, ui, jniVars
<1>20. ASSUME NEW g \in Gens, SpawnLoop(g) PROVE Places'
  BY <1>20 DEF SpawnLoop, Goto, ui, jniVars
<1>21. ASSUME NEW g \in Gens, TakeStash(g) PROVE Places'
  BY <1>21 DEF TakeStash, Goto, ui, jniVars
<1>22. ASSUME NEW g \in Gens, StartLoop(g) PROVE Places'
  BY <1>22 DEF StartLoop, Goto, ui, jniVars
<1>23. ASSUME NEW g \in Gens, CheckFlags(g) PROVE Places'
  BY <1>23 DEF CheckFlags, Close, Goto, ui, jniVars
<1>24. ASSUME NEW g \in Gens, Commands(g) PROVE Places'
  BY <1>24 DEF Commands, Close, Goto, ui, jniVars
<1>25. ASSUME NEW g \in Gens, PollStream(g) PROVE Places'
  BY <1>25 DEF PollStream, Goto, ui, jniVars
<1>26. ASSUME NEW g \in Gens, StreamEnds(g) PROVE Places'
  BY <1>26 DEF StreamEnds, Goto, ui, jniVars
<1>27. ASSUME NEW g \in Gens, StreamFails(g) PROVE Places'
  BY <1>27 DEF StreamFails, Goto, ui, jniVars
<1>28. ASSUME NEW g \in Gens, FailEnd(g) PROVE Places'
  BY <1>28 DEF FailEnd, Goto, ui, jniVars
<1>29. ASSUME NEW g \in Gens, StreamFailed(g) PROVE Places'
  BY <1>29 DEF StreamFailed, Goto, ui, jniVars
<1>30. ASSUME NEW g \in Gens, DrainedFlag(g) PROVE Places'
  BY <1>30 DEF DrainedFlag, Goto, ui, jniVars
<1>31. ASSUME NEW g \in Gens, FlagEnd(g) PROVE Places'
  BY <1>31 DEF FlagEnd, Goto, ui, jniVars
<1>32. ASSUME NEW g \in Gens, FlagClear(g) PROVE Places'
  BY <1>32 DEF FlagClear, Goto, ui, jniVars
<1>33. ASSUME NEW g \in Gens, DrainedCommand(g) PROVE Places'
  BY <1>33 DEF DrainedCommand, Goto, ui, jniVars
<1>34. ASSUME NEW g \in Gens, DrainPanics(g) PROVE Places'
  BY <1>34 DEF DrainPanics, Goto, ui, jniVars
<1>35. ASSUME NEW g \in Gens, ClearTx(g) PROVE Places'
  BY <1>35 DEF ClearTx, Goto, ui, jniVars
<1>36. ASSUME NEW g \in Gens, EndTask(g) PROVE Places'
  BY <1>36 DEF EndTask, Goto, ui, jniVars
<1>37. ASSUME NEW g \in Gens, Drop(g) PROVE Places'
  BY <1>37 DEF Drop, LibStep, ui, jniVars
<1>38. ASSUME NEW g \in Gens, Reconnect(g) PROVE Places'
  BY <1>38 DEF Reconnect, LibStep, ui, jniVars
<1>39. ASSUME NEW g \in Gens, ReconnectFails(g) PROVE Places'
  BY <1>39 DEF ReconnectFails, LibStep, ui, jniVars
<1>40. ASSUME NEW g \in Gens, ServerCloses(g) PROVE Places'
  BY <1>40 DEF ServerCloses, LibStep, ui, jniVars
<1>41. ASSUME NEW g \in Gens, NetworkError(g) PROVE Places'
  BY <1>41 DEF NetworkError, LibStep, ui, jniVars
<1>42. ASSUME NEW g \in Gens, CloseAck(g) PROVE Places'
  BY <1>42 DEF CloseAck, LibStep, ui, jniVars
<1> QED
  BY <1>0, <1>1, <1>2, <1>3, <1>4, <1>5, <1>6, <1>7, <1>8, <1>9, <1>10, <1>11, <1>12,
         <1>13, <1>14, <1>15, <1>16, <1>17, <1>18, <1>19, <1>20, <1>21, <1>22, <1>23,
         <1>24, <1>25, <1>26, <1>27, <1>28, <1>29, <1>30, <1>31, <1>32, <1>33, <1>34,
         <1>35, <1>36, <1>37, <1>38, <1>39, <1>40, <1>41, <1>42 DEF Next, User, Dart,
         Jni, DoConnect, EventLoop, Library

\* Only TakeStash writes con, and only with the session it found in the stash.
LEMMA ConStep ==
  ASSUME TypeInv, [Next]_vars
  PROVE  con' \in [Gens -> Gens \union {0}]
<1>1. con \in [Gens -> Gens \union {0}] /\ stash \in Gens \union {0}
  BY DEF TypeInv, TypeOK
<1>2. ASSUME NEW g \in Gens, TakeStash(g) PROVE con' \in [Gens -> Gens \union {0}]
  BY <1>1, <1>2 DEF TakeStash
<1>3. CASE con' = con
  BY <1>1, <1>3
<1>4. (\A g \in Gens : ~TakeStash(g)) => con' = con
  BY DEF Next, User, Dart, Jni, DoConnect, EventLoop, Library, vars, loops,
         TapConnect, TapDisconnect, Swipe, Connect, Poll, HandleEvent, DisconnectFlag,
         DisconnectCommand, DisconnectSync, JniFlag, JniSwipe, JniCommand, JniStash, JniSync,
         IdentityLevel, HandshakeFails, HandshakeDone, Publish, Stash, SpawnLoop, StartLoop,
         CheckFlags, Commands, PollStream, StreamEnds, StreamFails, FailEnd, StreamFailed,
         DrainedFlag, FlagEnd, FlagClear, DrainedCommand, DrainPanics, ClearTx, EndTask,
         Drop, Reconnect, ReconnectFails, ServerCloses, NetworkError, CloseAck, LibStep
<1> QED
  BY <1>2, <1>3, <1>4

\* Only SendDisconnect fills the command channels and only Commands empties one.
LEMMA QueueStep ==
  ASSUME TypeInv, [Next]_vars
  PROVE  queue' \in [Gens -> BOOLEAN]
<1>1. queue \in [Gens -> BOOLEAN]
  BY DEF TypeInv, TypeOK
<1>2. SendDisconnect => queue' \in [Gens -> BOOLEAN]
  BY <1>1, Zenon DEF SendDisconnect
<1>3. ASSUME NEW g \in Gens, Commands(g) PROVE queue' \in [Gens -> BOOLEAN]
  <2>1. queue' = [queue EXCEPT ![g] = FALSE]
    BY <1>3 DEF Commands
  <2> QED
    BY <1>1, <2>1
<1>4. CASE queue' = queue
  BY <1>1, <1>4
<1>5. ~SendDisconnect /\ (\A g \in Gens : ~Commands(g)) => queue' = queue
  BY DEF Next, User, Dart, Jni, DoConnect, EventLoop, Library, vars, loops,
         TapConnect, TapDisconnect, Swipe, Connect, Poll, HandleEvent, DisconnectFlag,
         DisconnectCommand, DisconnectSync, JniFlag, JniSwipe, JniCommand, JniStash, JniSync,
         IdentityLevel, HandshakeFails, HandshakeDone, Publish, Stash, SpawnLoop, TakeStash,
         StartLoop, CheckFlags, PollStream, StreamEnds, StreamFails, FailEnd, StreamFailed,
         DrainedFlag, FlagEnd, FlagClear, DrainedCommand, DrainPanics, ClearTx, EndTask,
         Drop, Reconnect, ReconnectFails, ServerCloses, NetworkError, CloseAck, LibStep
<1> QED
  BY <1>2, <1>3, <1>4, <1>5

\* Every step preserves the types.
LEMMA TypeStep == TypeInv /\ [Next]_vars => TypeInv'
<1> SUFFICES ASSUME TypeInv, [Next]_vars PROVE TypeInv'
  OBVIOUS
<1>1. Switches' /\ Places'
  BY TypeParts, SwitchStep, PlaceStep DEF TypeInv
<1>2. NumberInv'
  BY NumberStep
<1>3. con' \in [Gens -> Gens \union {0}] /\ queue' \in [Gens -> BOOLEAN]
  BY ConStep, QueueStep
<1>4. TypeOK'
  BY <1>1, <1>2, <1>3, TypeParts DEF TypeOK, NumberInv, Switches, Numbers, Places
<1> QED
  BY <1>2, <1>4 DEF TypeInv, NumberInv

\* The strengthened type invariant holds of every behaviour.
LEMMA TypeInvariant == Spec => []TypeInv
BY TypeInit, TypeStep, PTL DEF Spec

\* Every variable stays in its type: no handler leaves the library or the UI in a
\* state its code has no case for, and CONNECTION_GENERATION stays within the
\* bound.
THEOREM TypeCorrect == Spec => []TypeOK
<1>1. TypeInv => TypeOK
  BY DEF TypeInv
<1> QED
  BY <1>1, TypeInvariant, PTL

----------------------------------------------------------------------------
(* The inductive invariant: whoever holds the Connection holds the current *)
(* session, alone, and while connected is set.                             *)

\* The library states in which the server counts a session as present.
Present == {"up", "temp", "closing"}

\* An event loop that has taken a Connection and not yet reported its end.
Held == {"started", "top", "cmds", "poll", "drainFlag", "drainCmd", "flagEnd", "errEnd"}
Holds(g) == pc[g] \in Held

\* What do_connect's progress says about STATE.
Phases ==
  /\ connecting <=> hs \in {"dial", "leveled", "ready"}
  /\ connecting => ~connected
  /\ hs = "published" => connected
  /\ hs \in {"ready", "published"} => lib[gen] = "up"

\* Whoever holds a Connection holds that of the session in force.
Owners ==
  /\ stash # 0  => stash = gen  /\ connected /\ lib[stash] = "up"
  /\ uiCon # 0  => uiCon = gen  /\ connected
  /\ jniCon # 0 => jniCon = gen /\ connected
  /\ \A g \in Gens : Holds(g) => con[g] = gen /\ gen # 0 /\ connected
  /\ uiPc = "discSync" <=> uiCon # 0
  /\ jni = "sync" <=> jniCon # 0

\* Nobody else does.
Exclusive ==
  /\ hs \in {"ready", "published"} =>
       stash = 0 /\ uiCon = 0 /\ jniCon = 0 /\ \A g \in Gens : ~Holds(g)
  /\ stash # 0  => uiCon = 0 /\ jniCon = 0 /\ \A g \in Gens : ~Holds(g)
  /\ uiCon # 0  => jniCon = 0 /\ \A g \in Gens : ~Holds(g)
  /\ jniCon # 0 => \A g \in Gens : ~Holds(g)
  /\ \A g, h \in Gens : Holds(g) /\ Holds(h) => g = h

\* Only the session in force can be present, and only while ts_connect refuses
\* another one; a loop that reports the end of a session has seen that end.
Presence ==
  /\ \A c \in Gens : lib[c] \in Present => c = gen /\ (connected \/ hs = "ready")
  /\ \A g \in Gens : pc[g] \in {"flagEnd", "errEnd"} => lib[con[g]] \notin Present

OwnerInv == Phases /\ Owners /\ Exclusive /\ Presence

SessionInv == TypeInv /\ OwnerInv

\* A running event loop holds the session in force, and nobody else holds one.
LEMMA LoopOwns ==
  ASSUME SessionInv, NEW g \in Gens, Holds(g)
  PROVE  /\ con[g] = gen /\ gen \in Gens /\ connected
         /\ stash = 0 /\ uiCon = 0 /\ jniCon = 0 /\ hs \notin {"ready", "published"}
         /\ \A h \in Gens : Holds(h) => h = g
BY DEF SessionInv, OwnerInv, Owners, Exclusive, TypeInv, TypeOK

\* Every step hands the Connection from one owner to the next: do_connect to the
\* stash, the stash to the loop or to a synchronous disconnect.
LEMMA SessionStep == SessionInv /\ TypeInv' /\ [Next]_vars => OwnerInv'
<1> SUFFICES ASSUME SessionInv, TypeInv', [Next]_vars
             PROVE  OwnerInv'
  OBVIOUS
<1> USE SessionAssumption
<1> USE DEF SessionInv, OwnerInv, TypeInv, TypeOK, Numbered, Phases, Owners, Exclusive,
            Presence, Present, Holds, Held, Gens, Dialing, HsPcs, LoopPcs, LibStates
<1>0. CASE UNCHANGED vars
  BY <1>0 DEF vars, ui, jniVars, flags, state, links, loops
<1>1. CASE TapConnect
  BY <1>1 DEF TapConnect, Dialing, jniVars, flags, state, links, loops
<1>2. CASE TapDisconnect
  BY <1>2 DEF TapDisconnect, Dialing, Busy, DisconnectReturns, jniVars, flags, state
<1>3. CASE Swipe
  BY <1>3 DEF Swipe, Dialing, Busy, flags, state, links, loops
<1>4. CASE Connect
  BY <1>4 DEF Connect, Busy, jniVars, flags, links, loops
<1>5. CASE Poll
  BY <1>5 DEF Poll, jniVars, flags, links, loops
<1>6. CASE HandleEvent
  BY <1>6 DEF HandleEvent, OnConnected, OnDisconnected, OnError, jniVars, flags,
         state, links, loops
<1>7. CASE DisconnectFlag
  BY <1>7 DEF DisconnectFlag, jniVars, state, links, loops
<1>8. CASE DisconnectCommand
  BY <1>8 DEF DisconnectCommand, DisconnectReturns, jniVars, flags, state, links
<1>9. CASE DisconnectSync
  BY <1>9 DEF DisconnectSync, DisconnectReturns, jniVars, links, loops
<1>10. CASE JniFlag
  BY <1>10 DEF JniFlag, ui, state, links, loops
<1>11. CASE JniSwipe
  BY <1>11 DEF JniSwipe, ui, state, links, loops
<1>12. CASE JniCommand
  BY <1>12 DEF JniCommand, ui, flags, state, links
<1>13. CASE JniStash
  BY <1>13 DEF JniStash, ui, flags, state
<1>14. CASE JniSync
  BY <1>14 DEF JniSync, ui, links, loops
<1>15. CASE IdentityLevel
  BY <1>15 DEF IdentityLevel, ui, jniVars, flags, links, loops
<1>16. CASE HandshakeFails
  BY <1>16 DEF HandshakeFails, Dialing, ui, jniVars, flags, links, loops
<1>17. CASE HandshakeDone
  BY <1>17 DEF HandshakeDone, Dialing, ui, jniVars, flags, state
<1>18. CASE Publish
  BY <1>18 DEF Publish, ui, jniVars, flags, links, loops
<1>19. CASE Stash
  BY <1>19 DEF Stash, StashFree, Goto, ui, jniVars, flags, state
<1>20. ASSUME NEW g \in Gens, SpawnLoop(g) PROVE OwnerInv'
  BY <1>20 DEF SpawnLoop, Goto, ui, jniVars, flags, state, links
<1>21. ASSUME NEW g \in Gens, TakeStash(g) PROVE OwnerInv'
  BY <1>21 DEF TakeStash, StashFree, Goto, ui, jniVars, flags, state
<1>22. ASSUME NEW g \in Gens, StartLoop(g) PROVE OwnerInv'
  BY <1>22 DEF StartLoop, Goto, ui, jniVars, state, links
<1>23. ASSUME NEW g \in Gens, CheckFlags(g) PROVE OwnerInv'
  <2>1. CASE Close(g) /\ Goto(g, "drainFlag")
    <3>1. /\ con[g] = gen /\ gen \in Gens /\ connected
          /\ stash = 0 /\ uiCon = 0 /\ jniCon = 0 /\ hs \notin {"ready", "published"}
          /\ \A h \in Gens : Holds(h) => h = g
      BY <1>23, LoopOwns DEF CheckFlags
    <3>2. Phases' /\ Owners' /\ Exclusive'
      BY <1>23, <2>1, <3>1 DEF CheckFlags, Close, Goto, ui, jniVars, state, links
    <3>3. Presence'
      BY <1>23, <2>1, <3>1 DEF CheckFlags, Close, Goto, ui, jniVars, state, links
    <3> QED
      BY <3>2, <3>3
  <2>2. CASE Goto(g, "cmds") /\ lib' = lib
    BY <1>23, <2>2 DEF CheckFlags, Close, Goto, ui, jniVars, state, links
  <2> QED
    BY <1>23, <2>1, <2>2 DEF CheckFlags
<1>24. ASSUME NEW g \in Gens, Commands(g) PROVE OwnerInv'
  <2>1. CASE Close(g) /\ Goto(g, "drainCmd")
    BY <1>24, <2>1 DEF Commands, Close, Goto, ui, jniVars, flags, state, links
  <2>2. CASE Goto(g, "poll") /\ lib' = lib
    BY <1>24, <2>2 DEF Commands, Close, Goto, ui, jniVars, flags, state, links
  <2> QED
    BY <1>24, <2>1, <2>2 DEF Commands
<1>25. ASSUME NEW g \in Gens, PollStream(g) PROVE OwnerInv'
  BY <1>25 DEF PollStream, Goto, ui, jniVars, flags, state, links
<1>26. ASSUME NEW g \in Gens, StreamEnds(g) PROVE OwnerInv'
  <2>1. /\ con[g] = gen /\ connected /\ lib[gen] \notin Present
        /\ stash = 0 /\ uiCon = 0 /\ jniCon = 0 /\ hs \notin {"ready", "published"}
        /\ \A h \in Gens : Holds(h) => h = g
    BY <1>26 DEF StreamEnds
  <2>2. /\ pc' = [pc EXCEPT ![g] = "clear"] \/ pc' = [pc EXCEPT ![g] = "ret"]
        /\ UNCHANGED <<ui, jniVars, links, hs, con, lib, connecting>>
    BY <1>26 DEF StreamEnds, Goto
  <2>3. \A h \in Gens : ~Holds(h)'
    <3>1. CASE pc' = [pc EXCEPT ![g] = "clear"]
      BY <2>1, <3>1
    <3>2. CASE pc' = [pc EXCEPT ![g] = "ret"]
      BY <2>1, <3>2
    <3> QED
      BY <2>2, <3>1, <3>2
  <2>4. Phases'
    BY <1>26, <2>1 DEF StreamEnds, Goto, ui, jniVars, flags, links
  <2>5. Owners'
    BY <1>26, <2>1, <2>2, <2>3 DEF StreamEnds, Goto, ui, jniVars, flags, links
  <2>6. Exclusive'
    BY <2>1, <2>2, <2>3 DEF ui, jniVars, links
  <2>7. Presence'
    <3>1. \A c \in Gens : lib'[c] \notin Present
      BY <2>1, <2>2
    <3> QED
      BY <3>1, <2>2
  <2> QED
    BY <2>4, <2>5, <2>6, <2>7
<1>27. ASSUME NEW g \in Gens, StreamFails(g) PROVE OwnerInv'
  <2>1. /\ con[g] = gen /\ connected /\ lib[gen] \notin Present
        /\ stash = 0 /\ uiCon = 0 /\ jniCon = 0 /\ hs \notin {"ready", "published"}
        /\ \A h \in Gens : Holds(h) => h = g
    BY <1>27 DEF StreamFails
  <2>2. /\ pc' = [pc EXCEPT ![g] = "errEnd"] \/ pc' = [pc EXCEPT ![g] = "ret"]
        /\ UNCHANGED <<ui, jniVars, links, hs, con, lib, connecting>>
    BY <1>27 DEF StreamFails, Goto
  <2>3. \A h \in Gens : Holds(h)' => h = g
    BY <2>1, <2>2
  <2>4. Phases'
    BY <1>27, <2>1 DEF StreamFails, Goto, ui, jniVars, flags, links
  <2>5. Owners'
    BY <1>27, <2>1, <2>2, <2>3 DEF StreamFails, Goto, ui, jniVars, flags, links
  <2>6. Exclusive'
    BY <2>1, <2>2, <2>3 DEF ui, jniVars, links
  <2>7. Presence'
    <3>1. \A c \in Gens : lib'[c] \notin Present
      BY <2>1, <2>2
    <3> QED
      BY <2>1, <2>2, <2>3 DEF links
  <2> QED
    BY <2>4, <2>5, <2>6, <2>7
<1>28. ASSUME NEW g \in Gens, FailEnd(g) PROVE OwnerInv'
  BY <1>28 DEF FailEnd, Goto, ui, jniVars, flags, links
<1>29. ASSUME NEW g \in Gens, StreamFailed(g) PROVE OwnerInv'
  BY <1>29 DEF StreamFailed, Goto, ui, jniVars, flags, links
<1>30. ASSUME NEW g \in Gens, DrainedFlag(g) PROVE OwnerInv'
  <2>1. /\ con[g] = gen /\ connected /\ lib[gen] \notin Present
        /\ stash = 0 /\ uiCon = 0 /\ jniCon = 0 /\ hs \notin {"ready", "published"}
        /\ \A h \in Gens : Holds(h) => h = g
    BY <1>30 DEF DrainedFlag
  <2>2. /\ pc' = [pc EXCEPT ![g] = "flagEnd"] \/ pc' = [pc EXCEPT ![g] = "ret"]
        /\ UNCHANGED <<ui, jniVars, links, hs, con, lib, connecting>>
    BY <1>30 DEF DrainedFlag, Goto
  <2>3. \A h \in Gens : Holds(h)' => h = g
    BY <2>1, <2>2
  <2>4. Phases'
    BY <1>30, <2>1 DEF DrainedFlag, Goto, ui, jniVars, flags, links
  <2>5. Owners'
    BY <1>30, <2>1, <2>2, <2>3 DEF DrainedFlag, Goto, ui, jniVars, flags, links
  <2>6. Exclusive'
    BY <2>1, <2>2, <2>3 DEF ui, jniVars, links
  <2>7. Presence'
    <3>1. \A c \in Gens : lib'[c] \notin Present
      BY <2>1, <2>2
    <3> QED
      BY <2>1, <2>2, <2>3 DEF links
  <2> QED
    BY <2>4, <2>5, <2>6, <2>7
<1>31. ASSUME NEW g \in Gens, FlagEnd(g) PROVE OwnerInv'
  BY <1>31 DEF FlagEnd, Goto, ui, jniVars, flags, links
<1>32. ASSUME NEW g \in Gens, FlagClear(g) PROVE OwnerInv'
  BY <1>32 DEF FlagClear, Goto, ui, jniVars, state, links
<1>33. ASSUME NEW g \in Gens, DrainedCommand(g) PROVE OwnerInv'
  <2>1. /\ con[g] = gen /\ connected /\ lib[gen] \notin Present
        /\ stash = 0 /\ uiCon = 0 /\ jniCon = 0 /\ hs \notin {"ready", "published"}
        /\ \A h \in Gens : Holds(h) => h = g
    BY <1>33 DEF DrainedCommand
  <2>2. /\ pc' = [pc EXCEPT ![g] = "clear"] \/ pc' = [pc EXCEPT ![g] = "ret"]
        /\ UNCHANGED <<ui, jniVars, links, hs, con, lib, connecting>>
    BY <1>33 DEF DrainedCommand, Goto
  <2>3. \A h \in Gens : ~Holds(h)'
    <3>1. CASE pc' = [pc EXCEPT ![g] = "clear"]
      BY <2>1, <3>1
    <3>2. CASE pc' = [pc EXCEPT ![g] = "ret"]
      BY <2>1, <3>2
    <3> QED
      BY <2>2, <3>1, <3>2
  <2>4. Phases'
    BY <1>33, <2>1 DEF DrainedCommand, Goto, ui, jniVars, flags, links
  <2>5. Owners'
    BY <1>33, <2>1, <2>2, <2>3 DEF DrainedCommand, Goto, ui, jniVars, flags, links
  <2>6. Exclusive'
    BY <2>1, <2>2, <2>3 DEF ui, jniVars, links
  <2>7. Presence'
    <3>1. \A c \in Gens : lib'[c] \notin Present
      BY <2>1, <2>2
    <3> QED
      BY <3>1, <2>2
  <2> QED
    BY <2>4, <2>5, <2>6, <2>7
<1>34. ASSUME NEW g \in Gens, DrainPanics(g) PROVE OwnerInv'
  BY <1>34 DEF DrainPanics, Goto, ui, jniVars, flags, state, links
<1>35. ASSUME NEW g \in Gens, ClearTx(g) PROVE OwnerInv'
  BY <1>35 DEF ClearTx, Goto, ui, jniVars, flags, state
<1>36. ASSUME NEW g \in Gens, EndTask(g) PROVE OwnerInv'
  BY <1>36 DEF EndTask, Goto, ui, jniVars, state, links
<1>37. ASSUME NEW g \in Gens, Drop(g) PROVE OwnerInv'
  BY <1>37 DEF Drop, LibStep, ui, jniVars, flags, state, links, Polled
<1>38. ASSUME NEW g \in Gens, Reconnect(g) PROVE OwnerInv'
  BY <1>38 DEF Reconnect, LibStep, ui, jniVars, flags, state, links, Polled
<1>39. ASSUME NEW g \in Gens, ReconnectFails(g) PROVE OwnerInv'
  BY <1>39 DEF ReconnectFails, LibStep, ui, jniVars, flags, state, links, Polled
<1>40. ASSUME NEW g \in Gens, ServerCloses(g) PROVE OwnerInv'
  BY <1>40 DEF ServerCloses, LibStep, ui, jniVars, flags, state, links, Polled
<1>41. ASSUME NEW g \in Gens, NetworkError(g) PROVE OwnerInv'
  BY <1>41 DEF NetworkError, LibStep, ui, jniVars, flags, state, links, Polled
<1>42. ASSUME NEW g \in Gens, CloseAck(g) PROVE OwnerInv'
  BY <1>42 DEF CloseAck, LibStep, ui, jniVars, flags, state, links, Polled
<1> QED
  BY <1>0, <1>1, <1>2, <1>3, <1>4, <1>5, <1>6, <1>7, <1>8, <1>9, <1>10, <1>11, <1>12,
         <1>13, <1>14, <1>15, <1>16, <1>17, <1>18, <1>19, <1>20, <1>21, <1>22, <1>23,
         <1>24, <1>25, <1>26, <1>27, <1>28, <1>29, <1>30, <1>31, <1>32, <1>33, <1>34,
         <1>35, <1>36, <1>37, <1>38, <1>39, <1>40, <1>41, <1>42 DEF Next, User, Dart,
         Jni, DoConnect, EventLoop, Library

\* At start nobody owns a Connection.
LEMMA SessionInit == Init => SessionInv
<1> SUFFICES ASSUME Init PROVE SessionInv
  OBVIOUS
<1>1. TypeInv
  BY TypeInit
<1>2. Phases /\ Owners /\ Exclusive /\ Presence
  BY SessionAssumption
  DEF Init, Phases, Owners, Exclusive, Presence, Present, Holds, Held, Gens
<1> QED
  BY <1>1, <1>2 DEF SessionInv, OwnerInv

\* The ownership invariant holds of every behaviour.
LEMMA SessionInvariant == Spec => []SessionInv
<1>1. SessionInv /\ [Next]_vars => SessionInv'
  BY SessionStep, TypeStep DEF SessionInv, OwnerInv
<1> QED
  BY SessionInit, <1>1, PTL DEF Spec

\* What the invariant says of the sessions on the server.
LEMMA JoinedCurrent ==
  ASSUME SessionInv
  PROVE  /\ Joined \subseteq {gen}
         /\ Joined # {} => connected \/ hs = "ready"
         /\ Dialing => Joined = {} /\ ~connected
BY DEF SessionInv, OwnerInv, Presence, Present, Phases, Joined, Dialing

\* However taps, swipes, kicks and reconnects interleave, ts_connect never dials
\* a second connection beside a live one.
THEOREM OneConnectionAtATime == Spec => []OneConnection
<1>1. SessionInv => OneConnection
  <2> SUFFICES ASSUME SessionInv PROVE OneConnection
    OBVIOUS
  <2>1. CASE Joined = {}
    BY <2>1, FS_EmptySet DEF OneConnection
  <2>2. CASE Joined # {}
    <3>1. Joined = {gen} /\ ~Dialing
      BY <2>2, JoinedCurrent
    <3>2. Cardinality({gen}) = 1
      BY FS_Singleton
    <3> QED
      BY <3>1, <3>2 DEF OneConnection
  <2> QED
    BY <2>1, <2>2
<1> QED
  BY <1>1, SessionInvariant, PTL

\* When ts_connect would accept a new connection, none of ours is left open on a
\* server.
THEOREM NoOrphanLeft == Spec => []NoOrphan
<1>1. SessionInv => NoOrphan
  BY JoinedCurrent DEF SessionInv, OwnerInv, Phases, NoOrphan, Busy, Dialing
<1> QED
  BY <1>1, SessionInvariant, PTL

\* The abstract step of a concrete one: what it does to the session in force.
AbstractStep == [Abstract!Next]_(Abstract!vars)

Unseen == UNCHANGED <<connecting, connected, gen, lib>>

\* A step that changes none of these is a stutter of SessionSpec.
LEMMA UnseenStep == Unseen => AbstractStep
BY DEF Unseen, AbstractStep, Abstract!vars, Joined

\* Steps that leave alone what SessionSpec speaks of.
LEMMA UnseenSteps ==
  ASSUME NEW g \in Gens,
         TapConnect \/ Swipe \/ Poll \/ HandleEvent \/ DisconnectFlag \/
                  DisconnectCommand \/ JniFlag \/ JniSwipe \/ JniCommand \/
                  IdentityLevel \/ Stash \/ SpawnLoop(g) \/ TakeStash(g) \/ StartLoop(g)
                  \/ PollStream(g) \/ StreamFails(g) \/ StreamFailed(g) \/
                  DrainedFlag(g) \/ FlagClear(g) \/ DrainPanics(g) \/ ClearTx(g) \/
                  EndTask(g)
  PROVE  Unseen
<1> USE DEF Unseen
<1>1. CASE TapConnect
  BY <1>1 DEF TapConnect, jniVars, flags, state, links, loops
<1>2. CASE Swipe
  BY <1>2 DEF Swipe, Busy, flags, state, links, loops
<1>3. CASE Poll
  BY <1>3 DEF Poll, jniVars, flags, links, loops
<1>4. CASE HandleEvent
  BY <1>4 DEF HandleEvent, jniVars, flags, state, links, loops
<1>5. CASE DisconnectFlag
  BY <1>5 DEF DisconnectFlag, jniVars, state, links, loops
<1>6. CASE DisconnectCommand
  BY <1>6 DEF DisconnectCommand, jniVars, flags, state, links
<1>7. CASE JniFlag
  BY <1>7 DEF JniFlag, ui, state, links, loops
<1>8. CASE JniSwipe
  BY <1>8 DEF JniSwipe, ui, state, links, loops
<1>9. CASE JniCommand
  BY <1>9 DEF JniCommand, ui, flags, state, links
<1>10. CASE IdentityLevel
  BY <1>10 DEF IdentityLevel, ui, jniVars, flags, links, loops
<1>11. CASE Stash
  BY <1>11 DEF Stash, ui, jniVars, flags, state
<1>12. CASE SpawnLoop(g)
  BY <1>12 DEF SpawnLoop, ui, jniVars, flags, state, links
<1>13. CASE TakeStash(g)
  BY <1>13 DEF TakeStash, ui, jniVars, flags, state
<1>14. CASE StartLoop(g)
  BY <1>14 DEF StartLoop, ui, jniVars, state, links
<1>15. CASE PollStream(g)
  BY <1>15 DEF PollStream, ui, jniVars, flags, state, links
<1>16. CASE StreamFails(g)
  BY <1>16 DEF StreamFails, ui, jniVars, flags, links
<1>17. CASE StreamFailed(g)
  BY <1>17 DEF StreamFailed, ui, jniVars, flags, links
<1>18. CASE DrainedFlag(g)
  BY <1>18 DEF DrainedFlag, ui, jniVars, flags, links
<1>19. CASE FlagClear(g)
  BY <1>19 DEF FlagClear, ui, jniVars, state, links
<1>20. CASE DrainPanics(g)
  BY <1>20 DEF DrainPanics, ui, jniVars, flags, state, links
<1>21. CASE ClearTx(g)
  BY <1>21 DEF ClearTx, ui, jniVars, flags, state
<1>22. CASE EndTask(g)
  BY <1>22 DEF EndTask, ui, jniVars, state, links
<1> QED
  BY <1>1, <1>2, <1>3, <1>4, <1>5, <1>6, <1>7, <1>8, <1>9, <1>10, <1>11, <1>12, <1>13,
         <1>14, <1>15, <1>16, <1>17, <1>18, <1>19, <1>20, <1>21, <1>22

\* Closing a connection, or losing it for a while, keeps the session present.
LEMMA KeepingSteps ==
  ASSUME SessionInv, NEW g \in Gens,
         TapDisconnect \/ JniStash \/ CheckFlags(g) \/ Commands(g) \/ Drop(g) \/ Reconnect(g)
  PROVE  AbstractStep
<1>1. UNCHANGED <<connecting, connected, gen>>
  BY DEF TapDisconnect, JniStash, CheckFlags, Commands, Drop, Reconnect, LibStep, state, links
<1>2. \/ lib' = lib
      \/ \E c \in Gens, l \in Present : lib[c] \in Present /\ lib' = [lib EXCEPT ![c] = l]
  <2> USE DEF SessionInv, OwnerInv, TypeInv, TypeOK, Owners, Holds, Held, Present
  <2>1. CASE TapDisconnect
    BY <2>1 DEF TapDisconnect
  <2>2. CASE JniStash
    BY <2>2 DEF JniStash
  <2>3. Close(g) => \/ lib' = lib
                    \/ lib[con[g]] = "up" /\ lib' = [lib EXCEPT ![con[g]] = "closing"]
    <3> SUFFICES ASSUME Close(g), lib' # lib
                 PROVE  lib[con[g]] = "up" /\ lib' = [lib EXCEPT ![con[g]] = "closing"]
      OBVIOUS
    <3> QED
      BY DEF Close
  <2>4. CASE CheckFlags(g) \/ Commands(g)
    <3>1. con[g] \in Gens
      BY <2>4, LoopOwns DEF CheckFlags, Commands
    <3>2. Close(g) \/ lib' = lib
      BY <2>4 DEF CheckFlags, Commands
    <3> QED
      BY <2>3, <3>1, <3>2
  <2>5. CASE Drop(g) \/ Reconnect(g)
    BY <2>5 DEF Drop, Reconnect, LibStep
  <2> QED
    BY <2>1, <2>2, <2>4, <2>5
<1>3. Joined' = Joined
  BY <1>2 DEF Joined, Present, SessionInv, TypeInv, TypeOK
<1> QED
  BY <1>1, <1>3 DEF AbstractStep, Abstract!vars

\* The last steps of a connection take it off the server.
LEMMA LeavingSteps ==
  ASSUME SessionInv, NEW g \in Gens,
         ReconnectFails(g) \/ ServerCloses(g) \/ NetworkError(g) \/ CloseAck(g)
  PROVE  AbstractStep
<1> USE DEF SessionInv, OwnerInv, TypeInv, TypeOK
<1>1. /\ g = gen /\ connected
      /\ lib[g] \in Present
      /\ \E l \in LibStates \ Present : lib' = [lib EXCEPT ![g] = l]
      /\ UNCHANGED <<connecting, connected, gen>>
  <2>1. Polled(g) /\ UNCHANGED <<connecting, connected, gen>>
    BY DEF ReconnectFails, ServerCloses, NetworkError, CloseAck, LibStep, state, links
  <2>2. g = gen /\ connected
    <3>1. CASE uiCon = g \/ jniCon = g
      BY <3>1, SessionAssumption DEF Owners, Gens
    <3>2. CASE \E h \in Gens : con[h] = g /\ Holds(h)
      BY <3>2 DEF Owners
    <3> QED
      BY <2>1, <3>1, <3>2 DEF Polled, Holds, Held
  <2> QED
    BY <2>1, <2>2
    DEF ReconnectFails, ServerCloses, NetworkError, CloseAck, LibStep, Present, LibStates
<1>2. Joined = {gen} /\ Joined' = {}
  BY <1>1 DEF Joined, Present, Presence
<1>3. ~connecting
  BY <1>1 DEF Phases
<1> QED
  BY <1>1, <1>2, <1>3 DEF AbstractStep, Abstract!Next, Abstract!Leave

\* connected is cleared only after the connection is off the server.
LEMMA EndingSteps ==
  ASSUME SessionInv, NEW g \in Gens,
         \/ DisconnectSync \/ JniSync
         \/ StreamEnds(g) \/ FailEnd(g) \/ FlagEnd(g) \/ DrainedCommand(g)
  PROVE  AbstractStep
<1> USE DEF SessionInv, OwnerInv, TypeInv, TypeOK
<1>1. /\ lib[gen] \notin Present /\ connected
      /\ lib' = lib /\ gen' = gen /\ connecting' = connecting
      /\ ~connected' \/ connected' = connected
  <2>1. CASE DisconnectSync
    BY <2>1 DEF DisconnectSync, Owners, Present, links, loops
  <2>2. CASE JniSync
    BY <2>2 DEF JniSync, Owners, Present, links, loops
  <2>3. CASE StreamEnds(g) \/ FailEnd(g) \/ FlagEnd(g) \/ DrainedCommand(g)
    <3>1. Holds(g)
      BY <2>3 DEF StreamEnds, FailEnd, FlagEnd, DrainedCommand, Holds, Held
    <3>2. lib[con[g]] \notin Present
      BY <2>3 DEF StreamEnds, FailEnd, FlagEnd, DrainedCommand, Presence, Present
    <3> QED
      BY <2>3, <3>1, <3>2, LoopOwns
      DEF StreamEnds, FailEnd, FlagEnd, DrainedCommand, links
  <2> QED
    BY <2>1, <2>2, <2>3
<1>2. Joined = {} /\ Joined' = Joined
  BY <1>1 DEF Joined, Presence, Present
<1>3. ~connecting
  BY <1>1 DEF Phases
<1> QED
  BY <1>1, <1>2, <1>3 DEF AbstractStep, Abstract!Next, Abstract!End, Abstract!vars

\* The steps of do_connect.
LEMMA ConnectingSteps ==
  ASSUME SessionInv, Connect \/ HandshakeFails \/ HandshakeDone \/ Publish
  PROVE  AbstractStep
<1> USE DEF SessionInv, OwnerInv, TypeInv, TypeOK
<1>1. CASE Connect
  <2>1. CASE Busy
    BY <1>1, <2>1 DEF Connect, Busy, links, loops, Joined, AbstractStep, Abstract!vars
  <2>2. CASE ~Busy
    <3>1. connecting' /\ ~connecting /\ ~connected
      BY <1>1, <2>2 DEF Connect, Busy
    <3> QED
      BY <1>1, <3>1 DEF Connect, links, loops, Joined,
         AbstractStep, Abstract!Next, Abstract!Start
  <2> QED
    BY <2>1, <2>2
<1>2. CASE HandshakeFails
  <2>1. connecting /\ ~connecting' /\ ~connected /\ connected' = connected /\ Joined = {}
    BY <1>2, JoinedCurrent DEF HandshakeFails, Phases, Dialing
  <2>2. gen' = gen /\ Joined' = Joined
    BY <1>2 DEF HandshakeFails, links, loops, Joined
  <2> QED
    BY <2>1, <2>2 DEF AbstractStep, Abstract!Next, Abstract!Fail
<1>3. CASE HandshakeDone
  <2>1. connecting /\ connecting' = connecting /\ Joined = {}
    BY <1>3, JoinedCurrent DEF HandshakeDone, Phases, Dialing, state
  <2>2. gen' = gen + 1 /\ gen' \in Gens
    BY <1>3, SessionAssumption DEF HandshakeDone, Bound, Gens, Dialing
  <2>3. Joined' = {gen'}
    BY <1>3, <2>1, <2>2 DEF HandshakeDone, Joined
  <2> QED
    BY <2>1, <2>2, <2>3 DEF AbstractStep, Abstract!Next, Abstract!Join
<1>4. CASE Publish
  <2>1. connecting /\ ~connecting' /\ connected'
    BY <1>4 DEF Publish, Phases
  <2>2. gen' = gen /\ Joined' = Joined /\ Joined = {gen}
    BY <1>4, JoinedCurrent DEF Publish, Phases, Numbered, links, loops, Joined
  <2> QED
    BY <2>1, <2>2 DEF AbstractStep, Abstract!Next, Abstract!Establish
<1> QED
  BY <1>1, <1>2, <1>3, <1>4

\* do_connect, event_loop, ts_disconnect and tsDisconnect together only take the
\* steps SessionSpec allows: sessions are numbered in order, and each has left the
\* server before ts_connect accepts the next.
THEOREM Refinement == Spec => ImplementsSessionSpec
<1>1. Init => Abstract!Init
  BY DEF Init, Abstract!Init, Joined
<1>2. SessionInv /\ [Next]_vars => [Abstract!Next]_(Abstract!vars)
  <2> SUFFICES ASSUME SessionInv, [Next]_vars PROVE AbstractStep
    BY DEF AbstractStep
  <2>1. CASE UNCHANGED vars
    BY <2>1, UnseenStep DEF vars, state, links, loops, Unseen
  <2>2. CASE \E g \in Gens : EventLoop(g) \/ Library(g)
    BY <2>2, UnseenStep, UnseenSteps, KeepingSteps, LeavingSteps, EndingSteps
    DEF EventLoop, Library
  <2>3. CASE User \/ Dart \/ Jni \/ DoConnect
    <3>1. 1 \in Gens
      BY SessionAssumption DEF Gens
    <3> QED
      BY <2>3, <3>1, UnseenStep, UnseenSteps, KeepingSteps, EndingSteps, ConnectingSteps
      DEF User, Dart, Jni, DoConnect
  <2> QED
    BY <2>1, <2>2, <2>3 DEF Next
<1> QED
  BY <1>1, <1>2, SessionInvariant, PTL DEF Spec, ImplementsSessionSpec, Abstract!Spec

----------------------------------------------------------------------------
(* The events: what waits for the UI is about the session in force, or     *)
(* about one that is over.                                                 *)

\* pending_events is handled batch by batch: connect() and disconnect() find
\* the last one worked off.
Fetched == uiPc # "handle" => batch = <<>>

\* A task holds, or has held, a session that exists.
Past == \A g \in Gens : con[g] <= gen

\* A session has no task before its Connection is in the stash.
Fresh == \A g \in Gens : g > gen \/ (g = gen /\ hs \in {"ready", "published"}) => pc[g] = "none"

\* The stream the task of g was reading has failed.
Broken(g) == con[g] \in Gens /\ lib[con[g]] \in {"failed", "dialFailed"}

Failing == \A g \in Gens : pc[g] \in {"errEnd", "errPush"} => Broken(g)

\* No session is present, and none is being dialled.
Gone == ~connecting /\ \A c \in Gens : lib[c] \notin Present

\* What the news of an event is worth while it waits.
Recent(e) ==
  /\ e.kind = "connected" => e.gen = gen /\ ~connecting
  /\ e.kind = "disconnected" =>
       Gone \/ (pc[e.gen] \in {"clear", "ret", "done"} /\ Broken(e.gen))

Truths == {e \in Events : Recent(e)}

News == pending \in Seq(Truths) /\ batch \in Seq(Truths)

EventInv == Fetched /\ Past /\ Fresh /\ Failing /\ News

\* The state of a connection changes while the session is present, or by the
\* handshake that creates it.
LEMMA LibChange ==
  ASSUME SessionInv, [Next]_vars
  PROVE  \/ lib' = lib
         \/ \E c \in Gens, l \in LibStates : lib[c] \in Present /\ lib' = [lib EXCEPT ![c] = l]
         \/ HandshakeDone
<1> DEFINE Change == \/ lib' = lib
                     \/ \E c \in Gens, l \in LibStates :
                          lib[c] \in Present /\ lib' = [lib EXCEPT ![c] = l]
<1> USE DEF SessionInv, OwnerInv, TypeInv, TypeOK
<1>1. CASE TapDisconnect \/ JniStash
  BY <1>1 DEF TapDisconnect, JniStash, Owners, Present, LibStates
<1>2. ASSUME NEW g \in Gens, CheckFlags(g) \/ Commands(g) PROVE Change
  <2>1. con[g] \in Gens
    BY <1>2, LoopOwns DEF CheckFlags, Commands, Holds, Held
  <2>2. Close(g) \/ lib' = lib
    BY <1>2 DEF CheckFlags, Commands
  <2>3. CASE Close(g) /\ lib[con[g]] = "up"
    <3>1. lib' = [lib EXCEPT ![con[g]] = "closing"]
      BY <2>3 DEF Close
    <3> QED
      BY <2>1, <2>3, <3>1 DEF Present, LibStates
  <2>4. CASE Close(g) /\ lib[con[g]] # "up"
    BY <2>4 DEF Close
  <2> QED
    BY <2>2, <2>3, <2>4
<1>3. ASSUME NEW g \in Gens, Library(g) PROVE Change
  BY <1>3 DEF Library, Drop, Reconnect, ReconnectFails, ServerCloses, NetworkError, CloseAck,
     LibStep, Present, LibStates
<1>4. \/ lib' = lib \/ HandshakeDone \/ TapDisconnect \/ JniStash
      \/ \E g \in Gens : CheckFlags(g) \/ Commands(g) \/ Library(g)
  BY DEF Next, User, Dart, Jni, DoConnect, EventLoop, vars, loops,
         TapConnect, Swipe, Connect, Poll, HandleEvent, DisconnectFlag,
         DisconnectCommand, DisconnectSync, JniFlag, JniSwipe, JniCommand, JniSync,
         IdentityLevel, HandshakeFails, Publish, Stash, SpawnLoop, TakeStash, StartLoop,
         PollStream, StreamEnds, StreamFails, FailEnd, StreamFailed,
         DrainedFlag, FlagEnd, FlagClear, DrainedCommand, DrainPanics, ClearTx, EndTask
<1> QED
  BY <1>1, <1>2, <1>3, <1>4

\* gen only grows in HandshakeDone.
LEMMA GenChange ==
  ASSUME [Next]_vars, ~HandshakeDone
  PROVE  gen' = gen
BY DEF Next, User, Dart, Jni, DoConnect, EventLoop, Library, vars, links,
       TapConnect, TapDisconnect, Swipe, Connect, Poll, HandleEvent, DisconnectFlag,
       DisconnectCommand, DisconnectSync, JniFlag, JniSwipe, JniCommand, JniStash, JniSync,
       IdentityLevel, HandshakeFails, Publish, Stash, SpawnLoop, TakeStash, StartLoop,
       CheckFlags, Commands, PollStream, StreamEnds, StreamFails, FailEnd, StreamFailed,
       DrainedFlag, FlagEnd, FlagClear, DrainedCommand, DrainPanics, ClearTx, EndTask,
       Drop, Reconnect, ReconnectFails, ServerCloses, NetworkError, CloseAck, LibStep

\* connecting is set by ts_connect alone.
LEMMA DialChange ==
  ASSUME [Next]_vars, connecting' # connecting
  PROVE  (Connect /\ ~Busy /\ jni = "idle") \/ (~connecting' /\ (HandshakeFails \/ Publish))
BY DEF Next, User, Dart, Jni, DoConnect, EventLoop, Library, vars, state, Busy,
       TapConnect, TapDisconnect, Swipe, Connect, Poll, HandleEvent, DisconnectFlag,
       DisconnectCommand, DisconnectSync, JniFlag, JniSwipe, JniCommand, JniStash, JniSync,
       IdentityLevel, HandshakeFails, HandshakeDone, Publish, Stash, SpawnLoop, TakeStash,
       StartLoop, CheckFlags, Commands, PollStream, StreamEnds, StreamFails, FailEnd,
       StreamFailed, DrainedFlag, FlagEnd, FlagClear, DrainedCommand, DrainPanics, ClearTx,
       EndTask, Drop, Reconnect, ReconnectFails, ServerCloses, NetworkError, CloseAck, LibStep

\* Only TakeStash writes con, with the session it found in the stash.
LEMMA ConChange ==
  ASSUME [Next]_vars
  PROVE  con' = con \/ \E g \in Gens : TakeStash(g)
BY DEF Next, User, Dart, Jni, DoConnect, EventLoop, Library, vars, loops,
       TapConnect, TapDisconnect, Swipe, Connect, Poll, HandleEvent, DisconnectFlag,
       DisconnectCommand, DisconnectSync, JniFlag, JniSwipe, JniCommand, JniStash, JniSync,
       IdentityLevel, HandshakeFails, HandshakeDone, Publish, Stash, SpawnLoop, StartLoop,
       CheckFlags, Commands, PollStream, StreamEnds, StreamFails, FailEnd, StreamFailed,
       DrainedFlag, FlagEnd, FlagClear, DrainedCommand, DrainPanics, ClearTx, EndTask,
       Drop, Reconnect, ReconnectFails, ServerCloses, NetworkError, CloseAck, LibStep

\* The places of the tasks change by the tasks' own steps and by Stash.
LEMMA PlaceChange ==
  ASSUME [Next]_vars
  PROVE  pc' = pc \/ Stash \/ \E g \in Gens : EventLoop(g)
BY DEF Next, User, Dart, Jni, DoConnect, Library, vars, loops,
       TapConnect, TapDisconnect, Swipe, Connect, Poll, HandleEvent, DisconnectFlag,
       DisconnectCommand, DisconnectSync, JniFlag, JniSwipe, JniCommand, JniStash, JniSync,
       IdentityLevel, HandshakeFails, HandshakeDone, Publish,
       Drop, Reconnect, ReconnectFails, ServerCloses, NetworkError, CloseAck, LibStep

\* A task moves itself, and no task moves out of "none" but by Stash.
LEMMA OwnStep ==
  ASSUME TypeInv, NEW g \in Gens, EventLoop(g)
  PROVE  /\ pc[g] # "none" /\ pc[g] # "done" /\ pc[g] # "panicked"
         /\ \E l \in LoopPcs : pc' = [pc EXCEPT ![g] = l]
         /\ hs' = hs /\ gen' = gen
BY DEF EventLoop, SpawnLoop, TakeStash, StartLoop, CheckFlags, Commands, PollStream,
       StreamEnds, StreamFails, FailEnd, StreamFailed, DrainedFlag, FlagEnd, FlagClear,
       DrainedCommand, DrainPanics, ClearTx, EndTask, Goto, LoopPcs, links

\* The tail of a task.
LEMMA TailSteps ==
  ASSUME TypeInv, NEW g \in Gens, EventLoop(g)
  PROVE  /\ pc[g] = "clear" => pc'[g] = "ret"
         /\ pc[g] = "ret" => pc'[g] = "done"
         /\ pc[g] = "errEnd" => pc'[g] = "errPush"
         /\ pc[g] = "errPush" => StreamFailed(g)
         /\ pc'[g] = "errPush" => pc[g] = "errEnd"
         /\ pc'[g] = "errEnd" => StreamFails(g)
BY DEF EventLoop, SpawnLoop, TakeStash, StartLoop, CheckFlags, Commands, PollStream,
       StreamEnds, StreamFails, FailEnd, StreamFailed, DrainedFlag, FlagEnd, FlagClear,
       DrainedCommand, DrainPanics, ClearTx, EndTask, Goto, LoopPcs, TypeInv, TypeOK

\* No task before the stash is filled.
LEMMA FreshStep == TypeInv /\ Fresh /\ [Next]_vars => Fresh'
<1> SUFFICES ASSUME TypeInv, Fresh, [Next]_vars, NEW g \in Gens,
                    g > gen' \/ (g = gen' /\ hs' \in {"ready", "published"})
             PROVE  pc'[g] = "none"
  BY DEF Fresh
<1> USE DEF TypeInv, TypeOK, Gens, Fresh
<1> USE SessionAssumption
<1>1. CASE HandshakeDone
  BY <1>1 DEF HandshakeDone, loops
<1>2. CASE Stash
  BY <1>2 DEF Stash, Goto, links
<1>3. ASSUME NEW h \in Gens, EventLoop(h) PROVE pc'[g] = "none"
  <2>1. pc[g] = "none"
    BY <1>3, OwnStep
  <2> QED
    BY <1>3, <2>1, OwnStep
<1>4. CASE pc' = pc /\ ~HandshakeDone
  <2>1. gen' = gen
    BY <1>4, GenChange
  <2>2. hs' \in {"ready", "published"} => hs \in {"ready", "published"}
    BY <1>4 DEF Next, User, Dart, Jni, DoConnect, EventLoop, Library, vars, loops,
       TapConnect, TapDisconnect, Swipe, Connect, Poll, HandleEvent, DisconnectFlag,
       DisconnectCommand, DisconnectSync, JniFlag, JniSwipe, JniCommand, JniStash, JniSync,
       IdentityLevel, HandshakeFails, Publish, Stash, SpawnLoop, TakeStash,
       StartLoop, CheckFlags, Commands, PollStream, StreamEnds, StreamFails, FailEnd,
       StreamFailed, DrainedFlag, FlagEnd, FlagClear, DrainedCommand, DrainPanics, ClearTx,
       EndTask, Drop, Reconnect, ReconnectFails, ServerCloses, NetworkError, CloseAck, LibStep
  <2> QED
    BY <1>4, <2>1, <2>2
<1> QED
  BY <1>1, <1>2, <1>3, <1>4, PlaceChange

\* The sessions a task holds have been established.
LEMMA PastStep == SessionInv /\ Past /\ [Next]_vars => Past'
<1> SUFFICES ASSUME SessionInv, Past, [Next]_vars, NEW g \in Gens PROVE con'[g] <= gen'
  BY DEF Past
<1> USE DEF SessionInv, OwnerInv, TypeInv, TypeOK, Gens, Past
<1> USE SessionAssumption
<1>1. gen' >= gen /\ gen \in Int /\ con[g] \in Int /\ gen' \in Int
  BY GenChange DEF HandshakeDone
<1>2. CASE con' = con
  BY <1>1, <1>2
<1>3. ASSUME NEW h \in Gens, TakeStash(h) PROVE con'[g] <= gen'
  <2>1. con' = con \/ (stash # 0 /\ con' = [con EXCEPT ![h] = stash])
    BY <1>3 DEF TakeStash
  <2>2. con'[g] = con[g] \/ (stash # 0 /\ con'[g] = stash)
    BY <2>1
  <2> QED
    BY <1>1, <2>2 DEF Owners
<1> QED
  BY <1>2, <1>3, ConChange

\* What has failed stays failed: nobody revives the session of a task that has
\* begun to report.
LEMMA BrokenStep ==
  ASSUME SessionInv, Past, [Next]_vars, NEW g \in Gens,
         pc[g] \in {"errEnd", "errPush", "clear", "ret", "done"}, Broken(g)
  PROVE  Broken(g)'
<1> USE DEF SessionInv, OwnerInv, TypeInv, TypeOK
<1>1. con'[g] = con[g]
  <2>1. ASSUME NEW h \in Gens, TakeStash(h) PROVE con'[g] = con[g]
    BY <2>1 DEF TakeStash
  <2> QED
    BY <2>1, ConChange
<1>2. lib'[con[g]] = lib[con[g]]
  <2>1. CASE lib' = lib
    BY <2>1
  <2>2. ASSUME NEW c \in Gens, NEW l \in LibStates, lib[c] \in Present,
               lib' = [lib EXCEPT ![c] = l]
        PROVE  lib'[con[g]] = lib[con[g]]
    <3>1. c # con[g]
      BY <2>2 DEF Broken, Present
    <3> QED
      BY <2>2, <3>1 DEF Broken
  <2>3. CASE HandshakeDone
    <3>1. gen + 1 # con[g] /\ lib' = [lib EXCEPT ![gen + 1] = "up"]
      BY <2>3, SessionAssumption DEF HandshakeDone, Past, Gens
    <3> QED
      BY <3>1 DEF Broken
  <2> QED
    BY <2>1, <2>2, <2>3, LibChange
<1> QED
  BY <1>1, <1>2 DEF Broken

\* A session that is over stays so until connect() clears the events.
LEMMA GoneStep ==
  ASSUME SessionInv, Gone, [Next]_vars
  PROVE  Gone' \/ (Connect /\ ~Busy /\ jni = "idle")
<1> USE DEF SessionInv, OwnerInv, TypeInv, TypeOK, Gone
<1>1. ~HandshakeDone
  BY DEF HandshakeDone, Dialing, Phases
<1>2. lib' = lib
  BY <1>1, LibChange
<1>3. connecting' => Connect /\ ~Busy /\ jni = "idle"
  BY DialChange
<1> QED
  BY <1>2, <1>3

\* An event that waits stays true, unless connect() clears them all.
LEMMA RecentStep ==
  ASSUME SessionInv, Past, Fresh, [Next]_vars, NEW e \in Events, Recent(e)
  PROVE  Recent(e)' \/ (Connect /\ ~Busy /\ jni = "idle")
<1> SUFFICES ASSUME ~(Connect /\ ~Busy /\ jni = "idle") PROVE Recent(e)'
  OBVIOUS
<1>0. e.gen \in Gens
  BY DEF Events
<1>1. ASSUME e.kind = "connected" PROVE e.gen = gen' /\ ~connecting'
  <2>1. e.gen = gen /\ ~connecting
    BY <1>1 DEF Recent
  <2>2. ~HandshakeDone
    BY <2>1 DEF HandshakeDone, Dialing, SessionInv, OwnerInv, Phases
  <2>3. gen' = gen
    BY <2>2, GenChange
  <2>4. ~connecting'
    BY <2>1, DialChange
  <2> QED
    BY <2>1, <2>3, <2>4
<1>2. ASSUME pc[e.gen] \in {"clear", "ret", "done"}, Broken(e.gen)
      PROVE  pc'[e.gen] \in {"clear", "ret", "done"} /\ Broken(e.gen)'
  <2>1. Broken(e.gen)'
    BY <1>0, <1>2, BrokenStep
  <2>2. TypeInv
    BY DEF SessionInv
  <2>3. pc'[e.gen] \in {"clear", "ret", "done"}
    <3>1. CASE Stash
      <4>1. pc[gen] = "none" /\ gen \in Gens /\ pc' = [pc EXCEPT ![gen] = "opening"]
        BY <2>2, <3>1, SessionAssumption
        DEF Stash, Goto, Fresh, Numbered, TypeInv, TypeOK
      <4>2. e.gen # gen
        BY <1>2, <4>1
      <4> QED
        BY <1>0, <1>2, <2>2, <4>1, <4>2 DEF TypeInv, TypeOK
    <3>2. ASSUME NEW h \in Gens, EventLoop(h) PROVE pc'[e.gen] \in {"clear", "ret", "done"}
      <4>1. CASE h = e.gen
        BY <1>2, <2>2, <3>2, <4>1, OwnStep, TailSteps
      <4>2. CASE h # e.gen
        BY <1>0, <1>2, <2>2, <3>2, <4>2, OwnStep DEF TypeInv, TypeOK
      <4> QED
        BY <4>1, <4>2
    <3>3. CASE pc' = pc
      BY <1>2, <3>3
    <3> QED
      BY <3>1, <3>2, <3>3, PlaceChange
  <2> QED
    BY <2>1, <2>3
<1>3. Gone => Gone'
  BY GoneStep
<1> QED
  BY <1>1, <1>2, <1>3 DEF Recent

\* Who reports a failure has seen one.
LEMMA FailingStep == SessionInv /\ Past /\ Fresh /\ Failing /\ [Next]_vars => Failing'
<1> SUFFICES ASSUME SessionInv, Past, Fresh, Failing, [Next]_vars,
                    NEW g \in Gens, pc'[g] \in {"errEnd", "errPush"}
             PROVE  Broken(g)'
  BY DEF Failing
<1>0. TypeInv
  BY DEF SessionInv
<1>1. CASE pc[g] \in {"errEnd", "errPush"}
  BY <1>1, BrokenStep DEF Failing
<1>2. CASE StreamFails(g)
  <2>1. con[g] = gen /\ gen \in Gens
    BY <1>2, LoopOwns DEF StreamFails, Holds, Held
  <2>2. con' = con /\ lib' = lib
    BY <1>2 DEF StreamFails
  <2> QED
    BY <1>2, <2>1, <2>2 DEF StreamFails, Broken
<1>3. pc[g] \in {"errEnd", "errPush"} \/ StreamFails(g)
  <2>1. CASE Stash
    <3>1. pc' = [pc EXCEPT ![gen] = "opening"]
      BY <2>1 DEF Stash, Goto
    <3> QED
      BY <1>0, <3>1 DEF TypeInv, TypeOK
  <2>2. ASSUME NEW h \in Gens, EventLoop(h)
        PROVE  pc[g] \in {"errEnd", "errPush"} \/ StreamFails(g)
    <3>1. CASE h = g
      BY <1>0, <2>2, <3>1, TailSteps
    <3>2. CASE h # g
      BY <1>0, <2>2, <3>2, OwnStep DEF TypeInv, TypeOK
    <3> QED
      BY <3>1, <3>2
  <2>3. CASE pc' = pc
    BY <2>3
  <2> QED
    BY <2>1, <2>2, <2>3, PlaceChange
<1> QED
  BY <1>1, <1>2, <1>3

\* The batch is filled by Poll and worked off by HandleEvent.
LEMMA BatchChange ==
  ASSUME [Next]_vars
  PROVE  \/ batch' = batch /\ (uiPc' = "handle" <=> uiPc = "handle")
         \/ batch' = pending /\ pending' = <<>> /\ uiPc' = "handle"
         \/ HandleEvent
BY DEF Next, User, Dart, Jni, DoConnect, EventLoop, Library, vars, ui, DisconnectReturns,
       TapConnect, TapDisconnect, Swipe, Connect, Poll, DisconnectFlag,
       DisconnectCommand, DisconnectSync, JniFlag, JniSwipe, JniCommand, JniStash, JniSync,
       IdentityLevel, HandshakeFails, HandshakeDone, Publish, Stash, SpawnLoop, TakeStash,
       StartLoop, CheckFlags, Commands, PollStream, StreamEnds, StreamFails, FailEnd,
       StreamFailed, DrainedFlag, FlagEnd, FlagClear, DrainedCommand, DrainPanics, ClearTx,
       EndTask, Drop, Reconnect, ReconnectFails, ServerCloses, NetworkError, CloseAck, LibStep

\* connect() and disconnect() start when the last batch has been worked off.
LEMMA FetchedStep == Fetched /\ [Next]_vars => Fetched'
<1> SUFFICES ASSUME Fetched, [Next]_vars PROVE Fetched'
  OBVIOUS
<1>1. CASE HandleEvent
  BY <1>1 DEF HandleEvent, Fetched
<1> QED
  BY <1>1, BatchChange DEF Fetched

\* The steps that push an event.
Pushing ==
  \/ IdentityLevel \/ HandshakeFails \/ Publish
  \/ \E g \in Gens : StreamEnds(g) \/ StreamFails(g) \/ StreamFailed(g)
                     \/ DrainedFlag(g) \/ DrainedCommand(g)

\* pending_events grows by one of these, or is emptied.
LEMMA PendingChange ==
  ASSUME [Next]_vars
  PROVE  pending' = pending \/ pending' = <<>> \/ Pushing
BY DEF Next, User, Dart, Jni, DoConnect, EventLoop, Library, vars, state, Pushing,
       TapConnect, TapDisconnect, Swipe, Connect, Poll, HandleEvent, DisconnectFlag,
       DisconnectCommand, DisconnectSync, JniFlag, JniSwipe, JniCommand, JniStash, JniSync,
       HandshakeDone, Stash, SpawnLoop, TakeStash,
       StartLoop, CheckFlags, Commands, PollStream, FailEnd,
       FlagEnd, FlagClear, DrainPanics, ClearTx,
       EndTask, Drop, Reconnect, ReconnectFails, ServerCloses, NetworkError, CloseAck, LibStep

\* What is pushed is true.
LEMMA PushedTrue ==
  ASSUME SessionInv, SessionInv', Past, Fresh, Failing, [Next]_vars, Pushing, pending' # pending
  PROVE  \E e \in Truths' : pending' = Append(pending, e)
<1> USE DEF Push
<1>1. ASSUME NEW g \in Gens, pending' = Append(pending, Event("error", g))
      PROVE  \E e \in Truths' : pending' = Append(pending, e)
  <2>1. Event("error", g) \in Events /\ Recent(Event("error", g))'
    BY DEF Recent, Event, Events
  <2> QED
    BY <1>1, <2>1 DEF Truths
<1>2. CASE IdentityLevel \/ HandshakeFails
  <2>1. gen + 1 \in Gens
    BY <1>2, SessionAssumption
    DEF IdentityLevel, HandshakeFails, Dialing, SessionInv, TypeInv, TypeOK, Bound, Gens
  <2> QED
    BY <1>1, <1>2, <2>1 DEF IdentityLevel, HandshakeFails
<1>3. CASE Publish
  <2>1. gen \in Gens /\ gen' = gen /\ ~connecting'
    BY <1>3 DEF Publish, links, SessionInv, TypeInv, TypeOK, Numbered
  <2>2. PICK e \in Events : e = Event("connected", gen)
    BY <2>1 DEF Event, Events
  <2>3. Recent(e)'
    BY <2>1, <2>2 DEF Recent, Event
  <2> QED
    BY <1>3, <2>2, <2>3 DEF Publish, Truths
<1>4. ASSUME NEW g \in Gens, StreamFails(g)
      PROVE  \E e \in Truths' : pending' = Append(pending, e)
  BY <1>1, <1>4 DEF StreamFails
<1>5. ASSUME NEW g \in Gens, StreamFailed(g)
      PROVE  \E e \in Truths' : pending' = Append(pending, e)
  <2>1. Broken(g)'
    BY <1>5, BrokenStep DEF StreamFailed, Failing
  <2>2. pc'[g] = "clear"
    BY <1>5 DEF StreamFailed, Goto, SessionInv, TypeInv, TypeOK
  <2>3. Event("disconnected", g) \in Events /\ Recent(Event("disconnected", g))'
    BY <2>1, <2>2 DEF Recent, Event, Events
  <2> QED
    BY <1>5, <2>3 DEF StreamFailed, Truths
<1>6. ASSUME NEW g \in Gens, StreamEnds(g) \/ DrainedFlag(g) \/ DrainedCommand(g)
      PROVE  \E e \in Truths' : pending' = Append(pending, e)
  <2>1. con[g] = gen /\ gen \in Gens /\ connected /\ lib[con[g]] = "ended"
    BY <1>6, LoopOwns DEF StreamEnds, DrainedFlag, DrainedCommand, Holds, Held
  <2>2. ~connecting' /\ lib' = lib
    BY <1>6, <2>1 DEF StreamEnds, DrainedFlag, DrainedCommand, SessionInv, OwnerInv, Phases
  <2>3. \A c \in Gens : lib[c] \notin Present
    BY <2>1 DEF SessionInv, OwnerInv, Presence, Present
  <2>4. Event("disconnected", g) \in Events /\ Recent(Event("disconnected", g))'
    BY <2>2, <2>3 DEF Recent, Gone, Event, Events
  <2> QED
    BY <1>6, <2>4 DEF StreamEnds, DrainedFlag, DrainedCommand, Truths
<1> QED
  BY <1>2, <1>3, <1>4, <1>5, <1>6 DEF Pushing

\* Every event that waits stays true, and every new one is.
LEMMA NewsStep ==
  SessionInv /\ SessionInv' /\ EventInv /\ [Next]_vars => News'
<1> SUFFICES ASSUME SessionInv, SessionInv', EventInv, [Next]_vars PROVE News'
  OBVIOUS
<1> USE DEF EventInv
<1>0. pending \in Seq(Truths) /\ batch \in Seq(Truths) /\ <<>> \in Seq(Truths')
  BY DEF News
<1>1. CASE Connect /\ ~Busy /\ jni = "idle"
  <2>1. pending' = <<>> /\ batch' = <<>>
    BY <1>1 DEF Connect, Fetched
  <2> QED
    BY <1>0, <2>1 DEF News
<1>2. CASE ~(Connect /\ ~Busy /\ jni = "idle")
  <2>1. Truths \subseteq Truths'
    BY <1>2, RecentStep DEF Truths
  <2>2. \A s \in Seq(Truths) : s \in Seq(Truths')
    BY <2>1
  <2>3. pending' \in Seq(Truths')
    <3>1. CASE Pushing /\ pending' # pending
      <4>1. PICK e \in Truths' : pending' = Append(pending, e)
        BY <3>1, PushedTrue
      <4> QED
        BY <1>0, <2>2, <4>1
    <3> QED
      BY <1>0, <2>2, <3>1, PendingChange
  <2>4. batch' \in Seq(Truths')
    <3>1. CASE HandleEvent
      <4>1. batch' = Tail(batch) /\ batch # <<>>
        BY <3>1 DEF HandleEvent, SessionInv, TypeInv, Handling
      <4>2. Tail(batch) \in Seq(Truths)
        BY <1>0, <4>1
      <4> QED
        BY <2>2, <4>1, <4>2
    <3> QED
      BY <1>0, <2>2, <3>1, BatchChange
  <2> QED
    BY <2>3, <2>4 DEF News
<1> QED
  BY <1>1, <1>2

\* At start nothing waits.
LEMMA EventInit == Init => EventInv
<1> SUFFICES ASSUME Init PROVE EventInv
  OBVIOUS
<1>1. <<>> \in Seq(Truths)
  OBVIOUS
<1> QED
  BY <1>1, SessionAssumption
  DEF Init, EventInv, Fetched, Past, Fresh, Failing, News, Gens

\* The invariant of the events holds of every behaviour.
LEMMA EventInvariant == Spec => [](SessionInv /\ EventInv)
<1>1. SessionInv /\ SessionInv' /\ EventInv /\ [Next]_vars => EventInv'
  BY NewsStep, FetchedStep, PastStep, FreshStep, FailingStep DEF EventInv, SessionInv
<1> QED
  BY EventInit, SessionInvariant, <1>1, PTL DEF Spec

\* A 'connected' event turns the UI on only for the session that is running, never
\* for an earlier one while the next is being dialled.
THEOREM EntersCurrent == Spec => UiEntersCurrent
<1>1. SessionInv /\ EventInv /\ [Next]_vars
        => [HandleEvent /\ ~uiConnected /\ uiConnected' => Head(batch).gen = gen /\ ~Dialing]_vars
  <2> SUFFICES ASSUME SessionInv, EventInv, HandleEvent, ~uiConnected, uiConnected'
               PROVE  Head(batch).gen = gen /\ ~Dialing
    OBVIOUS
  <2>1. Head(batch).kind = "connected"
    BY DEF HandleEvent, OnDisconnected, OnError
  <2>2. Head(batch) \in Truths
    BY DEF HandleEvent, EventInv, News, SessionInv, TypeInv, Handling
  <2> QED
    BY <2>1, <2>2 DEF Truths, Recent, SessionInv, OwnerInv, Phases, Dialing
<1> QED
  BY <1>1, EventInvariant, PTL DEF Spec, UiEntersCurrent

\* A late 'disconnected' event of an earlier session does not take the UI out of
\* the next: it finds a session only if the stream it is about has failed.
THEOREM LeavesEnded == Spec => UiLeavesEnded
<1>1. SessionInv /\ EventInv /\ [Next]_vars
        => [HandleEvent /\ uiConnected /\ ~uiConnected'
              => Joined = {} \/ lib[con[Head(batch).gen]] \in {"failed", "dialFailed"}]_vars
  <2> SUFFICES ASSUME SessionInv, EventInv, HandleEvent, uiConnected, ~uiConnected'
               PROVE  Joined = {} \/ lib[con[Head(batch).gen]] \in {"failed", "dialFailed"}
    OBVIOUS
  <2>1. Head(batch).kind = "disconnected"
    BY DEF HandleEvent, OnConnected, OnError
  <2>2. Head(batch) \in Truths
    BY DEF HandleEvent, EventInv, News, SessionInv, TypeInv, Handling
  <2> QED
    BY <2>1, <2>2 DEF Truths, Recent, Gone, Broken, Joined, Present
<1> QED
  BY <1>1, EventInvariant, PTL DEF Spec, UiLeavesEnded

----------------------------------------------------------------------------
(* The command channel and EVENT_LOOP_ALIVE of the session in force.       *)

\* On the way to its event loop, and in it.
Starting == {"opening", "spawned", "started"}
Running  == {"top", "cmds", "poll"}
\* Out of its main loop, before and after COMMAND_TX is cleared.
Reporting == {"flagEnd", "flagClear", "errEnd", "errPush", "clear"}

\* COMMAND_TX feeds the session that starts or runs.
Fed ==
  hs \in {"ready", "published"} \/ (gen # 0 /\ pc[gen] \in Starting \union Running) => tx = gen

\* An event loop that runs says so.
Announced == gen # 0 /\ pc[gen] \in Running => alive

\* Only the loop of the session in force still reports, and while a loop has not
\* ended no other has begun to run or can.
Reported ==
  /\ \A g \in Gens : pc[g] \in Reporting => g = gen
  /\ \A g \in Gens : pc[g] \in Reporting \union {"ret"} =>
       /\ stash = 0 /\ hs \notin {"ready", "published"}
       /\ gen # 0 => pc[gen] \notin {"started"} \union Running

ReachInv == Fed /\ Announced /\ Reported

\* Who else writes the statics that ts_disconnect goes by.
LEMMA StaticsKept ==
  ASSUME [Next]_vars, \A g \in Gens : ~EventLoop(g), ~HandshakeDone, ~Stash
  PROVE  /\ tx' = tx /\ alive' = alive /\ (stash' = stash \/ stash' = 0)
         /\ hs' \in {"ready", "published"} => hs \in {"ready", "published"}
BY DEF Next, User, Dart, Jni, DoConnect, Library, vars, flags, links,
       TapConnect, TapDisconnect, Swipe, Connect, Poll, HandleEvent, DisconnectFlag,
       DisconnectCommand, DisconnectSync, JniFlag, JniSwipe, JniCommand, JniStash, JniSync,
       IdentityLevel, HandshakeFails, Publish,
       Drop, Reconnect, ReconnectFails, ServerCloses, NetworkError, CloseAck, LibStep

\* How a task comes to where it is, and what it writes on the way.
LEMMA WayIn ==
  ASSUME TypeInv, NEW g \in Gens, EventLoop(g)
  PROVE  /\ pc'[g] \in Starting \union Running => pc[g] \in Starting \union Running
         /\ pc'[g] \in Running => pc[g] \in Running \/ (pc[g] = "started" /\ alive')
         /\ pc'[g] = "started" => stash # 0
         /\ pc'[g] \in Reporting => pc[g] \in Reporting \/ (Holds(g) /\ g = gen)
         /\ pc'[g] = "ret" => pc[g] \in Reporting \/ Holds(g)
BY DEF EventLoop, SpawnLoop, TakeStash, StartLoop, CheckFlags, Commands, PollStream,
       StreamEnds, StreamFails, FailEnd, StreamFailed, DrainedFlag, FlagEnd, FlagClear,
       DrainedCommand, DrainPanics, ClearTx, EndTask, Goto, LoopPcs, TypeInv, TypeOK,
       Starting, Running, Reporting, Holds, Held

\* What a task writes to the statics, and where.
LEMMA WayStatics ==
  ASSUME TypeInv, NEW g \in Gens, EventLoop(g)
  PROVE  /\ stash' = stash \/ stash' = 0
         /\ tx' = tx \/ (pc[g] = "clear" /\ pc'[g] = "ret")
         /\ alive => alive' \/ pc[g] = "ret"
BY DEF EventLoop, SpawnLoop, TakeStash, StartLoop, CheckFlags, Commands, PollStream,
       StreamEnds, StreamFails, FailEnd, StreamFailed, DrainedFlag, FlagEnd, FlagClear,
       DrainedCommand, DrainPanics, ClearTx, EndTask, Goto, LoopPcs, TypeInv, TypeOK, flags, links

\* A task that reports or ends leaves the session in force as ts_disconnect
\* believes it to be.
LEMMA LoopReach ==
  ASSUME SessionInv, ReachInv, Fresh, NEW g \in Gens, EventLoop(g)
  PROVE  ReachInv'
<1>0. TypeInv /\ gen \in Gens \union {0} /\ pc \in [Gens -> LoopPcs]
  BY DEF SessionInv, TypeInv, TypeOK
<1>1. PICK l \in LoopPcs : pc' = [pc EXCEPT ![g] = l]
  BY <1>0, OwnStep
<1>2. /\ hs' = hs /\ gen' = gen
      /\ \A h \in Gens : h # g => pc'[h] = pc[h]
  BY <1>0, <1>1, OwnStep
<1>3. Fed'
  <2>1. CASE tx' = tx
    BY <1>0, <1>2, <2>1, WayIn DEF ReachInv, Fed
  <2>2. CASE pc[g] = "clear" /\ pc'[g] = "ret"
    BY <1>0, <1>2, <2>2 DEF ReachInv, Fed, Reported, Starting, Running, Reporting
  <2> QED
    BY <1>0, <2>1, <2>2, WayStatics
<1>4. Announced'
  <2>1. CASE g = gen
    BY <1>0, <1>2, <2>1, WayIn, WayStatics DEF ReachInv, Announced, Running
  <2>2. CASE g # gen
    BY <1>0, <1>2, <2>2, WayStatics DEF ReachInv, Announced, Reported
  <2> QED
    BY <2>1, <2>2
<1>5. Reported'
  <2>1. stash' = stash \/ stash' = 0
    BY <1>0, WayStatics
  <2>2. ASSUME NEW h \in Gens, pc'[h] \in Reporting PROVE h = gen
    <3>1. CASE h = g
      BY <1>0, <2>2, <3>1, WayIn DEF ReachInv, Reported, Reporting
    <3>2. CASE h # g
      BY <1>2, <2>2, <3>2 DEF ReachInv, Reported
    <3> QED
      BY <3>1, <3>2
  <2>3. ASSUME NEW h \in Gens, pc'[h] \in Reporting \union {"ret"}
        PROVE  /\ stash' = 0 /\ hs \notin {"ready", "published"}
               /\ gen # 0 => pc'[gen] \notin {"started"} \union Running
    <3>1. CASE pc[h] \in Reporting \union {"ret"}
      <4>1. /\ stash = 0 /\ hs \notin {"ready", "published"}
            /\ gen # 0 => pc[gen] \notin {"started"} \union Running
        BY <3>1 DEF ReachInv, Reported
      <4>2. gen # 0 => pc'[gen] \notin {"started"} \union Running
        BY <1>0, <1>2, <4>1, WayIn DEF Running, Starting
      <4> QED
        BY <2>1, <4>1, <4>2
    <3>2. CASE pc[h] \notin Reporting \union {"ret"}
      <4>1. h = g /\ Holds(g)
        BY <1>0, <1>2, <2>3, <3>2, WayIn DEF Reporting
      <4>2. /\ stash = 0 /\ hs \notin {"ready", "published"}
            /\ \A k \in Gens : Holds(k) => k = g
        BY <4>1, LoopOwns
      <4>3. gen # 0 => pc'[gen] \notin {"started"} \union Running
        BY <1>0, <1>2, <2>3, <4>1, <4>2 DEF Holds, Held, Running, Reporting
      <4> QED
        BY <2>1, <4>2, <4>3
    <3> QED
      BY <3>1, <3>2
  <2> QED
    BY <1>2, <2>2, <2>3 DEF Reported
<1> QED
  BY <1>3, <1>4, <1>5 DEF ReachInv

\* Nobody else takes the session in force away from its loop, as long as a handshake
\* does not overtake a loop that is ending.
LEMMA ReachStep ==
  ASSUME PromptExit, SessionInv, TypeInv', Fresh, ReachInv, [Next]_vars
  PROVE  ReachInv'
<1>0. TypeInv /\ gen \in Gens \union {0} /\ pc \in [Gens -> LoopPcs]
  BY DEF SessionInv, TypeInv, TypeOK
<1>1. ASSUME NEW g \in Gens, EventLoop(g) PROVE ReachInv'
  BY <1>1, LoopReach
<1>2. CASE HandshakeDone
  <2>1. \A g \in Gens : pc[g] \notin Reporting \union {"ret"}
    BY <1>2 DEF HandshakeDone, Unhurried, Exiting, Reporting
  <2>2. gen' = gen + 1 /\ pc' = pc /\ tx' = gen' /\ hs' = "ready"
    BY <1>2 DEF HandshakeDone, loops
  <2>3. gen' \in Gens
    BY <1>0, <1>2, <2>2, SessionAssumption DEF HandshakeDone, Bound, TypeInv, TypeOK, Gens
  <2>4. pc[gen'] = "none"
    BY <1>0, <2>2, <2>3, SessionAssumption DEF Fresh, Gens
  <2> QED
    BY <2>1, <2>2, <2>3, <2>4 DEF ReachInv, Fed, Announced, Reported, Running
<1>3. CASE Stash
  <2>1. /\ gen \in Gens /\ pc[gen] = "none" /\ tx = gen
        /\ \A g \in Gens : pc[g] \notin Reporting \union {"ret"}
    BY <1>0, <1>3 DEF Stash, Fresh, ReachInv, Fed, Reported, TypeInv, Numbered
  <2>2. pc' = [pc EXCEPT ![gen] = "opening"] /\ gen' = gen /\ tx' = tx
    BY <1>3 DEF Stash, Goto
  <2>3. pc'[gen] = "opening" /\ \A g \in Gens : pc'[g] \notin Reporting \union {"ret"}
    BY <1>0, <2>1, <2>2 DEF Reporting
  <2> QED
    BY <2>1, <2>2, <2>3 DEF ReachInv, Fed, Announced, Reported, Running
<1>4. CASE ~HandshakeDone /\ ~Stash /\ \A g \in Gens : ~EventLoop(g)
  <2>1. /\ tx' = tx /\ alive' = alive /\ (stash' = stash \/ stash' = 0)
        /\ hs' \in {"ready", "published"} => hs \in {"ready", "published"}
    BY <1>4, StaticsKept
  <2>2. pc' = pc /\ gen' = gen
    BY <1>4, PlaceChange, GenChange
  <2> QED
    BY <2>1, <2>2 DEF ReachInv, Fed, Announced, Reported
<1> QED
  BY <1>1, <1>2, <1>3, <1>4

\* A running event loop can be told to stop: COMMAND_TX feeds it and
\* EVENT_LOOP_ALIVE says so, which is what ts_disconnect goes by; provided that a
\* handshake does not overtake the last instructions of an event loop.
THEOREM RunningReachable ==
  ASSUME PromptExit
  PROVE  Spec => []LoopReachable
<1>1. Init => ReachInv
  BY SessionAssumption DEF Init, ReachInv, Fed, Announced, Reported, Reporting, Gens
<1>2. SessionInv /\ EventInv /\ TypeInv' /\ ReachInv /\ [Next]_vars => ReachInv'
  BY ReachStep DEF EventInv
<1>3. SessionInv => TypeInv
  BY DEF SessionInv
<1>4. ReachInv => LoopReachable
  BY DEF ReachInv, Fed, Announced, LoopReachable, Running
<1> QED
  BY <1>1, <1>2, <1>3, <1>4, EventInvariant, PTL DEF Spec

=============================================================================
