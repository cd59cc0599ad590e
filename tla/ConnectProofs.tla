---------------------------- MODULE ConnectProofs ----------------------------
(***************************************************************************)
(* Proofs about module Connect: its type invariant, and that an            *)
(* application that has taken every item of a connection knows whether its *)
(* audio is sent, through any number of reconnects.                        *)
(***************************************************************************)
EXTENDS Connect, SequenceTheorems, TLAPS

-----------------------------------------------------------------------------
(* The items the Connection pushes. *)

\* The sequences it is made of.
LEMMA OneItem ==
  ASSUME NEW x \in Items
  PROVE  <<x>> \in Seq(Items) /\ Len(<<x>>) = 1 /\ DOMAIN <<x>> = 1..1 /\ <<x>>[1] = x
OBVIOUS

LEMMA NoItem == <<>> \in Seq(Items) /\ Len(<<>>) = 0 /\ DOMAIN <<>> = 1..0
OBVIOUS

\* can_send_audio pushes at most one item.
LEMMA AudioItems ==
  ASSUME NEW before \in BOOLEAN, NEW after \in BOOLEAN
  PROVE  AudioItem(before, after) \in Seq(Items) /\ Len(AudioItem(before, after)) <= 1
<1>1. CASE before = after
  BY <1>1, NoItem DEF AudioItem
<1>2. CASE before # after /\ after
  <2>1. "CanSend" \in Items
    BY DEF Items
  <2>2. AudioItem(before, after) = <<"CanSend">>
    BY <1>2 DEF AudioItem
  <2> QED BY <2>1, <2>2, OneItem
<1>3. CASE before # after /\ ~after
  <2>1. "CannotSend" \in Items
    BY DEF Items
  <2>2. AudioItem(before, after) = <<"CannotSend">>
    BY <1>3 DEF AudioItem
  <2> QED BY <2>1, <2>2, OneItem
<1> QED BY <1>1, <1>2, <1>3

-----------------------------------------------------------------------------
(* Types. *)

\* The part of the type invariant about the queue: it is bounded, because the
\* Connection pushes only when it is empty and the user mutes only when it is short.
ItemsOK == items \in Seq(Items) /\ Len(items) <= MaxItems + 3

\* One item in an empty queue.
LEMMA First ==
  ASSUME NEW x \in Items, items' = <<x>> PROVE ItemsOK'
BY OneItem, ConnectAssumption DEF ItemsOK

\* Items pushed behind one another.
LEMMA Pushed ==
  ASSUME NEW s \in Seq(Items), NEW t \in Seq(Items), NEW k \in Nat, NEW l \in Nat,
         Len(s) <= k, Len(t) <= l
  PROVE  s \o t \in Seq(Items) /\ Len(s \o t) \in Nat /\ Len(s \o t) <= k + l
<1>1. s \o t \in Seq(Items) /\ Len(s \o t) = Len(s) + Len(t)
  BY ConcatProperties
<1>2. Len(s) \in Nat /\ Len(t) \in Nat
  BY LenProperties
<1> QED BY <1>1, <1>2

LEMMA ItemsStep == TypeOK /\ [Next]_vars => ItemsOK'
<1> SUFFICES ASSUME TypeOK, [Next]_vars PROVE ItemsOK'
  OBVIOUS
<1> USE ConnectAssumption
<1>0. ItemsOK /\ CanSend \in BOOLEAN /\ CanSend' \in BOOLEAN
  BY DEF TypeOK, ItemsOK, CanSend
<1>1. {"Book", "CanSend", "Increasing", "Increased", "Temporarily"} \subseteq Items
  BY DEF Items
<1>2. ASSUME NEW b \in BOOLEAN, NEW c \in BOOLEAN
      PROVE  AudioItem(b, c) \in Seq(Items) /\ Len(AudioItem(b, c)) <= 1
  BY AudioItems
<1>3. /\ <<"Book">> \in Seq(Items) /\ Len(<<"Book">>) <= 1
      /\ <<"Temporarily">> \in Seq(Items) /\ Len(<<"Temporarily">>) <= 1
  BY <1>1, OneItem
<1>4. CASE UNCHANGED items
  BY <1>0, <1>4 DEF ItemsOK
<1>5. CASE Increased
  BY <1>1, <1>5, First DEF Increased
<1>6. CASE RaiseLevel
  BY <1>1, <1>4, <1>6, First DEF RaiseLevel
<1>7. CASE Connected
  <2>1. CASE options # {}
    <3>1. items' = <<"Book">> \o <<>>
      BY <1>7, <2>1 DEF Connected
    <3> QED BY <1>1, <1>3, <3>1, First, ConcatEmptySeq
  <2>2. CASE options = {}
    <3>1. items' = <<"Book">> \o <<"CanSend">>
      BY <1>7, <2>2 DEF Connected
    <3>2. /\ <<"Book">> \o <<"CanSend">> \in Seq(Items)
          /\ Len(<<"Book">> \o <<"CanSend">>) \in Nat /\ Len(<<"Book">> \o <<"CanSend">>) <= 1 + 1
      BY <1>1, <1>3, OneItem, Pushed
    <3> QED BY <3>1, <3>2 DEF ItemsOK
  <2> QED BY <2>1, <2>2
<1>8. CASE ConnectionLost
  BY <1>1, <1>4, <1>8, First DEF ConnectionLost
<1>9. CASE ServerStops
  <2>1. items' = <<"Book">> \o AudioItem(CanSend, FALSE) \o <<"Temporarily">>
    BY <1>9 DEF ServerStops
  <2> DEFINE s == <<"Book">> \o AudioItem(CanSend, FALSE)
  <2>2. s \in Seq(Items) /\ Len(s) \in Nat /\ Len(s) <= 1 + 1
    BY <1>0, <1>2, <1>3, Pushed
  <2>3. items' = s \o <<"Temporarily">>
    BY <2>1
  <2> HIDE DEF s
  <2>4. s \in Seq(Items) /\ Len(s) <= 2
    BY <2>2
  <2>5. /\ s \o <<"Temporarily">> \in Seq(Items) /\ Len(s \o <<"Temporarily">>) \in Nat
        /\ Len(s \o <<"Temporarily">>) <= 2 + 1
    BY <1>3, <2>4, Pushed
  <2> QED BY <2>3, <2>5 DEF ItemsOK
<1>10. ASSUME NEW after \in BOOLEAN, items' = <<"Book">> \o AudioItem(CanSend, after)
       PROVE  ItemsOK'
  <2>1. /\ <<"Book">> \o AudioItem(CanSend, after) \in Seq(Items)
        /\ Len(<<"Book">> \o AudioItem(CanSend, after)) \in Nat
        /\ Len(<<"Book">> \o AudioItem(CanSend, after)) <= 1 + 1
    BY <1>0, <1>2, <1>3, Pushed
  <2> QED BY <1>10, <2>1 DEF ItemsOK
<1>11. CASE ClientGone \/ Enterview \/ TalkChanges
  <2>1. CASE ClientGone
    <3>1. (options = {}) \in BOOLEAN /\ items' = <<"Book">> \o AudioItem(CanSend, options = {})
      BY <2>1 DEF ClientGone
    <3> QED BY <1>10, <3>1
  <2>2. CASE Enterview
    BY <1>0, <1>10, <2>2 DEF Enterview
  <2>3. CASE TalkChanges
    BY <1>0, <1>10, <2>3 DEF TalkChanges
  <2> QED BY <1>11, <2>1, <2>2, <2>3
<1>12. ASSUME NEW x \in Reasons, SetSilent(x) PROVE ItemsOK'
  <2> DEFINE b == IF self' = self THEN <<>> ELSE <<"Book">>
  <2>1. CASE items' = items \o b \o AudioItem(CanSend, CanSend')
    <3>1. items \in Seq(Items) /\ Len(items) \in Nat /\ Len(items) < MaxItems
      BY <1>0, <1>12, LenProperties DEF SetSilent, ItemsOK
    <3>2. /\ AudioItem(CanSend, CanSend') \in Seq(Items)
          /\ Len(AudioItem(CanSend, CanSend')) <= 1
      BY <1>0, <1>2
    <3>3. b \in Seq(Items) /\ Len(b) <= 1
      BY <1>3, NoItem
    <3> HIDE DEF b
    <3>4. items \o b \in Seq(Items) /\ Len(items \o b) <= MaxItems + 1
      BY <3>1, <3>3, Pushed
    <3>5. /\ items \o b \o AudioItem(CanSend, CanSend') \in Seq(Items)
          /\ Len(items \o b \o AudioItem(CanSend, CanSend')) \in Nat
          /\ Len(items \o b \o AudioItem(CanSend, CanSend')) <= MaxItems + 1 + 1
      BY <3>2, <3>4, Pushed
    <3> QED BY <2>1, <3>5 DEF ItemsOK
  <2> QED BY <1>4, <1>12, <2>1 DEF SetSilent
<1>13. CASE Take
  BY <1>0, <1>13, HeadTailProperties, LenProperties DEF Take, ItemsOK
<1> QED
  <2>1. CASE PollConnecting
    BY <1>4, <1>5, <2>1
    DEF PollConnecting, Wake, Resolved, NotResolved, AllFailed, PacketTimesOut,
        InitserverTimesOut, NextAddress
  <2>2. CASE UNCHANGED vars
    BY <1>4, <2>2 DEF vars
  <2> QED
    BY <1>4, <1>6, <1>7, <1>8, <1>9, <1>11, <1>12, <1>13, <2>1, <2>2
    DEF Next, SocketFails, NextAddress, ServerAnswers, Receive, BadAnswer, Refused, SocketDies,
        Disconnect

\* What a packet of the handshake makes the client send and wait for.
LEMMA Steps ==
  ASSUME TypeOK, NEW m \in Answers, phase \in Handshake
  PROVE  StepTo(m)[1] \in Handshake /\ StepTo(m)[2] \subseteq Packets
BY DEF StepTo, RestartSends, Handshake, Packets

LEMMA TypeInit == Init => TypeOK
<1> SUFFICES ASSUME Init PROVE TypeOK
  OBVIOUS
<1>1. items \in Seq(Items) /\ Len(items) <= MaxItems + 3
  BY NoItem, ConnectAssumption DEF Init
<1>2. /\ untried \in 0..MaxAddresses /\ level \in 0..MaxLevel
      /\ phase \in Phases /\ phase \notin Handshake
  BY ConnectAssumption DEF Init, Phases, Handshake
<1>3. waiting = {} /\ asked = {} /\ inbox = {}
  BY DEF Init
<1>4. /\ again \in BOOLEAN /\ timedOut \in BOOLEAN /\ seen \in BOOLEAN /\ talk \in BOOLEAN
      /\ subscribed \in BOOLEAN /\ started \in BOOLEAN /\ told \in BOOLEAN
      /\ left \in BOOLEAN
      /\ options \subseteq Reasons /\ self \subseteq Reasons /\ wants \subseteq Reasons
      /\ known \subseteq SUBSET Reasons
  BY DEF Init
<1> QED BY <1>1, <1>2, <1>3, <1>4 DEF TypeOK

\* A new attempt, and an attempt that goes on with the next address.
LEMMA Begins ==
  ASSUME NEW reconnect \in BOOLEAN, Attempt(reconnect)
  PROVE  /\ phase' \in Phases /\ phase' \notin Handshake /\ again' \in BOOLEAN
         /\ untried' \in 0..MaxAddresses /\ timedOut' \in BOOLEAN
         /\ waiting' = {} /\ asked' = {} /\ inbox' = {}
<1>1. untried' \in 0..MaxAddresses
  BY ConnectAssumption DEF Attempt, NoHandshake
<1> QED BY <1>1 DEF Attempt, NoHandshake, Phases, Handshake

LEMMA GoesOn ==
  ASSUME TypeOK, NEW kind, NextAddress(kind), ItemsOK' PROVE TypeOK'
<1>1. timedOut' \in BOOLEAN
  BY DEF NextAddress, TypeOK
<1>2. phase' \in Phases /\ phase' \notin Handshake /\ waiting' = {} /\ asked' = {} /\ inbox' = {}
  BY DEF NextAddress, NoHandshake, Phases, Handshake
<1> QED BY <1>1, <1>2 DEF NextAddress, own, book, app, TypeOK, ItemsOK

\* A book that begins, or is dropped.
LEMMA Afresh ==
  ASSUME TypeOK, NEW states \in SUBSET SUBSET Reasons, NewBook(states)
  PROVE  /\ options' \subseteq Reasons /\ self' \subseteq Reasons /\ known' \subseteq SUBSET Reasons
         /\ seen' \in BOOLEAN /\ talk' \in BOOLEAN /\ subscribed' \in BOOLEAN
BY DEF TypeOK, NewBook

\* The phase stays one of the phases, and what belongs to an attempt ends with it.
LEMMA TypeStep == TypeOK /\ [Next]_vars => TypeOK'
<1> SUFFICES ASSUME TypeOK, [Next]_vars PROVE TypeOK'
  OBVIOUS
<1> USE ConnectAssumption
<1>0. ItemsOK'
  BY ItemsStep
<1>e. {} \in SUBSET SUBSET Reasons
  OBVIOUS
<1> USE <1>0 DEF TypeOK, ItemsOK
<1>1. CASE Wake
  BY <1>1 DEF Wake, attempt, own, book, app, Phases, Handshake
<1>2. CASE Resolved
  BY <1>2 DEF Resolved, attempt, own, book, app, Phases, Handshake, Packets
<1>3. CASE NotResolved
  BY <1>3 DEF NotResolved, attempt, own, book, app, Phases, Handshake
<1>4. CASE AllFailed
  <2>1. CASE again /\ timedOut
    <3>1. Attempt(TRUE)
      BY <1>4, <2>1 DEF AllFailed
    <3> QED BY <1>4, <3>1, Begins DEF AllFailed, own, book, app
  <2>2. CASE ~(again /\ timedOut)
    <3>1. phase' = "over" /\ waiting' = {} /\ asked' = {} /\ inbox' = {}
      BY <1>4, <2>2 DEF AllFailed, Over, NoHandshake
    <3>2. UNCHANGED <<again, untried, timedOut, level, own, items, app>>
      BY <1>4, <2>2 DEF AllFailed
    <3> QED BY <3>1, <3>2 DEF own, book, app, Phases, Handshake
  <2> QED BY <2>1, <2>2
<1>5. CASE InitserverTimesOut \/ \E p \in Packets : PacketTimesOut(p)
  BY <1>5, GoesOn DEF PacketTimesOut, InitserverTimesOut
<1>6. CASE Increased
  BY <1>6, Begins DEF Increased, own, book, app
<1>7. CASE SocketFails
  BY <1>7, GoesOn DEF SocketFails
<1>8. ASSUME NEW m \in Answers, ServerAnswers(m) PROVE TypeOK'
  BY <1>8 DEF ServerAnswers, own, book, app, Answers
<1>9. ASSUME NEW m \in inbox, Receive(m) PROVE TypeOK'
  <2>1. m \in Answers
    OBVIOUS
  <2>2. StepTo(m)[1] \in Handshake /\ StepTo(m)[2] \subseteq Packets
    BY <1>9, <2>1, Steps DEF Receive
  <2> QED BY <1>9, <2>2 DEF Receive, own, book, app, Phases
<1>10. CASE BadAnswer
  BY <1>10, GoesOn DEF BadAnswer
<1>11. CASE Refused
  BY <1>11 DEF Refused, Over, NoHandshake, own, book, app, Phases, Handshake
<1>12. CASE RaiseLevel
  BY <1>12 DEF RaiseLevel, LevelTooLow, Over, NoHandshake, own, book, app, Phases, Handshake
<1>13. CASE Connected
  <2>1. waiting' = {} /\ asked' = {} /\ inbox' = {} /\ phase' = "connected"
    BY <1>13 DEF Connected, NoHandshake
  <2>2. {options} \in SUBSET SUBSET Reasons /\ NewBook({options})
    BY <1>13 DEF Connected
  <2>3. /\ options' \subseteq Reasons /\ self' \subseteq Reasons /\ known' \subseteq SUBSET Reasons
        /\ seen' \in BOOLEAN /\ talk' \in BOOLEAN /\ subscribed' \in BOOLEAN
    BY <2>2, Afresh
  <2>4. UNCHANGED <<again, untried, timedOut, level, app>>
    BY <1>13 DEF Connected
  <2> QED BY <2>1, <2>3, <2>4 DEF app, Phases, Handshake
<1>14. ASSUME NewBook({}), UNCHANGED <<level, app>>,
              \/ Attempt(TRUE)
              \/ Over /\ UNCHANGED <<again, untried, timedOut>>
       PROVE  TypeOK'
  <2>1. /\ options' \subseteq Reasons /\ self' \subseteq Reasons /\ known' \subseteq SUBSET Reasons
        /\ seen' \in BOOLEAN /\ talk' \in BOOLEAN /\ subscribed' \in BOOLEAN
    BY <1>e, <1>14, Afresh
  <2>2. CASE Attempt(TRUE)
    BY <1>14, <2>1, <2>2, Begins DEF app
  <2>3. CASE Over /\ UNCHANGED <<again, untried, timedOut>>
    BY <1>14, <2>1, <2>3 DEF Over, NoHandshake, app, Phases, Handshake
  <2> QED BY <1>14, <2>2, <2>3
<1>15. CASE ConnectionLost
  BY <1>14, <1>15 DEF ConnectionLost
<1>16. CASE SocketDies \/ ClientGone
  BY <1>14, <1>16 DEF SocketDies, ClientGone
<1>17. CASE ServerStops
  BY <1>14, <1>17 DEF ServerStops
<1>18. CASE Enterview \/ TalkChanges
  <2>1. CASE Enterview
    <3>1. self' \in known /\ known \subseteq SUBSET Reasons
      BY <2>1 DEF Enterview
    <3>2. /\ self' \subseteq Reasons /\ known' = {} /\ seen' = TRUE /\ talk' \in BOOLEAN
          /\ UNCHANGED <<phase, again, attempt, level, options, subscribed, app>>
      BY <2>1, <3>1 DEF Enterview
    <3> QED BY <3>2 DEF attempt, app
  <2>2. CASE TalkChanges
    BY <2>2 DEF TalkChanges, attempt, app
  <2> QED BY <1>18, <2>1, <2>2
<1>19. ASSUME NEW x \in Reasons, SetSilent(x) PROVE TypeOK'
  <2>1. wants' \subseteq Reasons
    BY <1>19 DEF SetSilent
  <2>2. options' \subseteq Reasons
    BY <1>19, <2>1 DEF SetSilent
  <2>3. self' \subseteq Reasons
    BY <1>19, <2>2 DEF SetSilent
  <2>4. known' \subseteq SUBSET Reasons
    BY <1>19, <2>2 DEF SetSilent
  <2>5. UNCHANGED <<phase, again, attempt, level, seen, talk, subscribed, started, told, left>>
    BY <1>19 DEF SetSilent
  <2> QED BY <2>1, <2>2, <2>3, <2>4, <2>5 DEF attempt
<1>20. CASE Disconnect
  BY <1>20 DEF Disconnect, attempt, own, book, Phases, Handshake
<1>21. CASE Take
  <2>1. told' \in BOOLEAN
    <3>1. told' = TRUE \/ told' = FALSE \/ told' = told
      BY <1>21 DEF Take
    <3> QED BY <3>1
  <2>2. started' \in BOOLEAN
    BY <1>21 DEF Take
  <2>3. subscribed' \in BOOLEAN
    <3>1. (phase \in Live) \in BOOLEAN
      OBVIOUS
    <3>2. subscribed' = (phase \in Live) \/ subscribed' = subscribed
      BY <1>21 DEF Take
    <3> QED BY <3>1, <3>2
  <2>4. UNCHANGED <<phase, again, attempt, level, options, seen, self, talk, known, wants, left>>
    BY <1>21 DEF Take
  <2> QED BY <2>1, <2>2, <2>3, <2>4 DEF attempt
<1>22. CASE UNCHANGED vars
  BY <1>22 DEF vars, attempt, own, book, app
<1> QED
  BY <1>1, <1>2, <1>3, <1>4, <1>5, <1>6, <1>7, <1>8, <1>9, <1>10, <1>11, <1>12, <1>13, <1>14,
     <1>15, <1>16, <1>17, <1>18, <1>19, <1>20, <1>21, <1>22
  DEF Next, PollConnecting

\* Types.
THEOREM ConnectTypeCorrect == Spec => []TypeOK
BY TypeInit, TypeStep, PTL DEF Spec

-----------------------------------------------------------------------------
(* What the application is told. *)

Words == {"CanSend", "CannotSend"}
Word(v) == IF v THEN "CanSend" ELSE "CannotSend"

\* What the application believes once it has taken the items s, if it believes t now:
\* the last word among them, or t.
Says(v, s, t) ==
  \/ \E i \in DOMAIN s : s[i] = Word(v) /\ \A j \in DOMAIN s : j > i => s[j] \notin Words
  \/ t = v /\ \A i \in DOMAIN s : s[i] \notin Words

\* The book's own client is muted and away as the options are, and so is what the
\* server will send of it: unless the user is faster than the server, who would be
\* told of the change while an older state is on its way.
BookAgrees ==
  /\ phase \in Live /\ seen => self = options
  /\ phase \in Live /\ ~seen => known = {options}

\* Taking every item tells whether audio is sent by a connection that is there; and
\* whoever is muted or away knows it, also while there is none, because the next
\* connection tells only who is neither.
ToldInv ==
  /\ phase \in Live => Says(CanSend, items, told)
  /\ options # {} => Says(FALSE, items, told)

\* Whoever has taken everything believes what it was told.
LEMMA SaysOfNone ==
  ASSUME NEW t \in BOOLEAN, NEW v \in BOOLEAN
  PROVE  Says(v, <<>>, t) <=> t = v
BY DEF Says

\* An item that is no word changes nothing, wherever it stands alone or last.
LEMMA SaysOfOther ==
  ASSUME NEW x \in Items \ Words, NEW t \in BOOLEAN
  PROVE  Says(t, <<x>>, t)
<1>1. DOMAIN <<x>> = 1..1 /\ <<x>>[1] = x
  BY OneItem
<1> QED BY <1>1 DEF Says

LEMMA SaysBefore ==
  ASSUME NEW s \in Seq(Items), NEW x \in Items \ Words, NEW v \in BOOLEAN, NEW t \in BOOLEAN,
         Says(v, s, t)
  PROVE  Says(v, s \o <<x>>, t)
<1> DEFINE u == s \o <<x>>
<1>1. /\ Len(s) \in Nat /\ DOMAIN s = 1..Len(s) /\ DOMAIN u = 1..Len(s) + 1
      /\ \A i \in 1..Len(s) : u[i] = s[i]
      /\ u[Len(s) + 1] = x
  <2>1. <<x>> \in Seq(Items) /\ Len(<<x>>) = 1 /\ <<x>>[1] = x
    BY OneItem
  <2>2. u \in Seq(Items) /\ Len(u) = Len(s) + 1 /\ Len(s) \in Nat
    BY <2>1, ConcatProperties, LenProperties
  <2>3. \A i \in 1..Len(s) + 1 : u[i] = IF i <= Len(s) THEN s[i] ELSE <<x>>[i - Len(s)]
    BY <2>1, ConcatProperties
  <2>4. u[Len(s) + 1] = <<x>>[1]
    BY <2>2, <2>3
  <2> QED BY <2>1, <2>2, <2>3, <2>4, LenProperties
<1> HIDE DEF u
<1>2. CASE \E i \in DOMAIN s : s[i] = Word(v) /\ \A j \in DOMAIN s : j > i => s[j] \notin Words
  <2>1. PICK i \in DOMAIN s : s[i] = Word(v) /\ \A j \in DOMAIN s : j > i => s[j] \notin Words
    BY <1>2
  <2>2. i \in DOMAIN u /\ u[i] = Word(v)
    BY <1>1, <2>1
  <2>3. \A j \in DOMAIN u : j > i => u[j] \notin Words
    BY <1>1, <2>1
  <2> QED BY <2>2, <2>3 DEF Says, u
<1>3. CASE t = v /\ \A i \in DOMAIN s : s[i] \notin Words
  <2>1. \A i \in DOMAIN u : u[i] \notin Words
    BY <1>1, <1>3
  <2> QED BY <1>3, <2>1 DEF Says, u
<1> QED BY <1>2, <1>3 DEF Says

\* A word at the end is the last.
LEMMA SaysLast ==
  ASSUME NEW s \in Seq(Items), NEW v \in BOOLEAN, NEW t
  PROVE  Says(v, s \o <<Word(v)>>, t)
<1> DEFINE x == Word(v)
<1> DEFINE u == s \o <<x>>
<1>1. x \in Items
  BY DEF Items, Word
<1>2. Len(s) \in Nat /\ DOMAIN u = 1..Len(s) + 1 /\ u[Len(s) + 1] = x
  <2>1. <<x>> \in Seq(Items) /\ Len(<<x>>) = 1 /\ <<x>>[1] = x
    BY <1>1, OneItem
  <2> HIDE DEF x
  <2>2. u \in Seq(Items) /\ Len(u) = Len(s) + 1 /\ Len(s) \in Nat
    BY <2>1, ConcatProperties, LenProperties
  <2>3. \A i \in 1..Len(s) + 1 : u[i] = IF i <= Len(s) THEN s[i] ELSE <<x>>[i - Len(s)]
    BY <2>1, ConcatProperties
  <2>4. u[Len(s) + 1] = <<x>>[1]
    BY <2>2, <2>3
  <2> QED BY <2>1, <2>2, <2>4, LenProperties
<1> HIDE DEF u
<1>3. Len(s) + 1 \in DOMAIN u /\ \A j \in DOMAIN u : ~(j > Len(s) + 1)
  BY <1>2
<1>4. Says(v, u, t)
  BY <1>2, <1>3 DEF Says
<1> QED BY <1>4 DEF u

\* The item for a change of can_send_audio says what it has become.
LEMMA SaysChange ==
  ASSUME NEW s \in Seq(Items), NEW before \in BOOLEAN, NEW after \in BOOLEAN, NEW t \in BOOLEAN,
         Says(before, s, t)
  PROVE  Says(after, s \o AudioItem(before, after), t)
<1>1. CASE before = after
  <2>1. s \o AudioItem(before, after) = s
    BY <1>1, ConcatEmptySeq DEF AudioItem
  <2> QED BY <1>1, <2>1
<1>2. CASE before # after
  <2>1. AudioItem(before, after) = <<Word(after)>>
    BY <1>2 DEF AudioItem, Word
  <2> QED BY <2>1, SaysLast
<1> QED BY <1>1, <1>2

\* Taking an item keeps what will be believed.
LEMMA SaysTail ==
  ASSUME NEW s \in Seq(Items), s # <<>>, NEW v \in BOOLEAN, NEW t \in BOOLEAN, NEW u \in BOOLEAN,
         Says(v, s, t),
         Head(s) = "CanSend" => u = TRUE, Head(s) = "CannotSend" => u = FALSE,
         Head(s) \notin Words => u = t
  PROVE  Says(v, Tail(s), u)
<1> DEFINE r == Tail(s)
<1>1. /\ Len(s) \in Nat \ {0} /\ DOMAIN s = 1..Len(s) /\ DOMAIN r = 1..Len(s) - 1
      /\ Head(s) = s[1] /\ \A i \in 1..Len(s) - 1 : r[i] = s[i + 1]
  BY HeadTailProperties, LenProperties, EmptySeq
<1> HIDE DEF r
<1>2. CASE t = v /\ \A i \in DOMAIN s : s[i] \notin Words
  <2>1. u = v /\ \A i \in DOMAIN r : r[i] \notin Words
    BY <1>1, <1>2
  <2> QED BY <2>1 DEF Says, r
<1>3. CASE \E i \in DOMAIN s : s[i] = Word(v) /\ \A j \in DOMAIN s : j > i => s[j] \notin Words
  <2>1. PICK i \in DOMAIN s : s[i] = Word(v) /\ \A j \in DOMAIN s : j > i => s[j] \notin Words
    BY <1>3
  <2>2. CASE i = 1
    <3>1. u = v
      BY <1>1, <2>1, <2>2 DEF Word
    <3>2. \A j \in DOMAIN r : r[j] \notin Words
      BY <1>1, <2>1, <2>2
    <3> QED BY <3>1, <3>2 DEF Says, r
  <2>3. CASE i # 1
    <3>1. i - 1 \in DOMAIN r /\ r[i - 1] = Word(v)
      BY <1>1, <2>1, <2>3
    <3>2. \A j \in DOMAIN r : j > i - 1 => r[j] \notin Words
      BY <1>1, <2>1, <2>3
    <3> QED BY <3>1, <3>2 DEF Says, r
  <2> QED BY <2>2, <2>3
<1> QED BY <1>2, <1>3 DEF Says

LEMMA BookInit == Init => BookAgrees
BY DEF Init, BookAgrees, Live

\* One step.  The options, the book's own client and what the server has of it change
\* together, as long as nobody changes the options before our client is in the book.
LEMMA BookStep ==
  ASSUME "early" \notin Faults
  PROVE  TypeOK /\ BookAgrees /\ [Next]_vars => BookAgrees'
<1> SUFFICES ASSUME TypeOK, BookAgrees, [Next]_vars PROVE BookAgrees'
  OBVIOUS
<1>1. CASE phase' \notin Live
  BY <1>1 DEF BookAgrees
<1>2. CASE phase \in Live /\ UNCHANGED <<options, seen, self, known>>
  BY <1>2 DEF BookAgrees
<1>3. CASE Connected
  BY <1>3 DEF Connected, NewBook, BookAgrees
<1>4. CASE Enterview
  <2>1. self' = options /\ options' = options /\ seen' = TRUE
    BY <1>4 DEF Enterview, BookAgrees
  <2> QED BY <2>1 DEF BookAgrees
<1>5. ASSUME NEW x \in Reasons, SetSilent(x), phase \in Live PROVE BookAgrees'
  <2>1. seen /\ seen' = seen /\ self = options
    BY <1>5 DEF SetSilent, BookAgrees
  <2>2. /\ options' = (options \ {x}) \cup (wants' \cap {x})
        /\ self' = (self \ Named(x)) \cup (options' \cap Named(x))
    BY <1>5, <2>1 DEF SetSilent
  <2>3. self' = options'
    BY <2>1, <2>2 DEF Named
  <2> QED BY <2>1, <2>3 DEF BookAgrees
<1>6. ASSUME NEW x \in Reasons, SetSilent(x) PROVE BookAgrees'
  <2>1. CASE phase \in Live
    BY <1>5, <1>6, <2>1
  <2>2. CASE phase \notin Live
    BY <1>1, <1>6, <2>2 DEF SetSilent
  <2> QED BY <2>1, <2>2
<1>7. CASE PollConnecting \/ SocketFails \/ BadAnswer \/ Refused \/ SocketDies
  BY <1>1, <1>7
  DEF PollConnecting, Wake, Resolved, NotResolved, AllFailed, PacketTimesOut, InitserverTimesOut,
      Increased, SocketFails, BadAnswer, Refused, SocketDies, NextAddress, Attempt, Over, Live
<1>8. CASE RaiseLevel \/ ConnectionLost \/ ServerStops \/ ClientGone
  BY <1>1, <1>8
  DEF RaiseLevel, ConnectionLost, ServerStops, ClientGone, Attempt, Over, Live
<1>9. ASSUME NEW m \in Answers, ServerAnswers(m) PROVE BookAgrees'
  BY <1>1, <1>9 DEF ServerAnswers, Live, Handshake
<1>10. ASSUME NEW m \in inbox, Receive(m) PROVE BookAgrees'
  <2>1. m \in Answers /\ phase \in Handshake
    BY <1>10 DEF TypeOK, Receive
  <2>2. phase' \in Handshake
    BY <1>10, <2>1, Steps DEF Receive
  <2> QED BY <1>1, <2>2 DEF Live, Handshake
<1>11. CASE TalkChanges
  BY <1>2, <1>11 DEF TalkChanges
<1>12. CASE Disconnect \/ Take \/ UNCHANGED vars
  <2>1. UNCHANGED <<options, seen, self, known>> /\ (phase' \in Live => phase \in Live)
    BY <1>12 DEF Disconnect, Take, vars, own, book, Live
  <2> QED BY <1>1, <1>2, <2>1
<1> QED
  BY <1>3, <1>4, <1>6, <1>7, <1>8, <1>9, <1>10, <1>11, <1>12 DEF Next

LEMMA ToldInit == Init => ToldInv
<1> SUFFICES ASSUME Init PROVE ToldInv
  OBVIOUS
<1>1. items = <<>> /\ told = FALSE /\ phase \notin Live
  BY DEF Init, Live
<1> QED BY <1>1, SaysOfNone DEF ToldInv

\* Whatever says nothing of audio, and does not bring a connection up or down
\* without ending it, keeps the invariant; an empty queue may get one item.
LEMMA Silent ==
  ASSUME TypeOK, ToldInv, UNCHANGED <<options, told>>,
         items' = items \/ (items = <<>> /\ \E x \in Items \ Words : items' = <<x>>),
         phase' \in Live => phase \in Live /\ UNCHANGED <<seen, self, talk>>
  PROVE  ToldInv'
<1>1. told \in BOOLEAN /\ CanSend \in BOOLEAN
  BY DEF TypeOK, CanSend
<1>2. ASSUME NEW v \in BOOLEAN, Says(v, items, told) PROVE Says(v, items', told')
  <2>1. CASE items' = items
    BY <1>2, <2>1
  <2>2. CASE items = <<>> /\ \E x \in Items \ Words : items' = <<x>>
    BY <1>1, <1>2, <2>2, SaysOfNone, SaysOfOther
  <2> QED BY <2>1, <2>2
<1>3. phase' \in Live => CanSend' = CanSend
  BY DEF CanSend
<1> QED BY <1>1, <1>2, <1>3 DEF ToldInv

\* One step.  What says something of audio: the connection comes up or down, our
\* client enters or leaves the book, what can be sent changes on the server, or the
\* user mutes or goes away.
LEMMA ToldStep == TypeOK /\ BookAgrees /\ BookAgrees' /\ ToldInv /\ [Next]_vars => ToldInv'
<1> SUFFICES ASSUME TypeOK, BookAgrees, BookAgrees', ToldInv, [Next]_vars PROVE ToldInv'
  OBVIOUS
<1>0. /\ items \in Seq(Items) /\ told \in BOOLEAN
      /\ CanSend \in BOOLEAN /\ CanSend' \in BOOLEAN
      /\ {"Book", "Temporarily", "Increasing", "Increased"} \subseteq Items \ Words
  BY DEF TypeOK, CanSend, Items, Words
<1>q. phase' \in Live /\ options' # {} => CanSend' = FALSE
  BY DEF BookAgrees, CanSend
<1>1. CASE PollConnecting \/ SocketFails \/ BadAnswer \/ Refused \/ SocketDies
  <2>1. UNCHANGED <<options, told>> /\ phase' \notin Live
    BY <1>1
    DEF PollConnecting, Wake, Resolved, NotResolved, AllFailed, PacketTimesOut, InitserverTimesOut,
        Increased, SocketFails, BadAnswer, Refused, SocketDies, NextAddress, Attempt, Over, NewBook,
        own, app, Live
  <2>2. items' = items \/ (items = <<>> /\ items' = <<"Increased">>)
    BY <1>1
    DEF PollConnecting, Wake, Resolved, NotResolved, AllFailed, PacketTimesOut, InitserverTimesOut,
        Increased, SocketFails, BadAnswer, Refused, SocketDies, NextAddress, Polls
  <2> QED BY <1>0, <2>1, <2>2, Silent
<1>2. ASSUME NEW m \in Answers, ServerAnswers(m) PROVE ToldInv'
  BY <1>2, Silent DEF ServerAnswers, own, book, app
<1>3. ASSUME NEW m \in inbox, Receive(m) PROVE ToldInv'
  <2>1. m \in Answers /\ phase \in Handshake
    BY <1>3 DEF TypeOK, Receive
  <2>2. phase' \in Handshake
    BY <1>3, <2>1, Steps DEF Receive
  <2> QED BY <1>3, <2>2, Silent DEF Receive, own, app, Live, Handshake
<1>4. CASE RaiseLevel
  BY <1>0, <1>4, Silent DEF RaiseLevel, Over, own, app, Live, Polls
<1>5. CASE ConnectionLost
  BY <1>0, <1>5, Silent DEF ConnectionLost, Over, Attempt, NewBook, app, Live, Polls
<1>6. CASE Disconnect
  BY <1>6, Silent DEF Disconnect, own, book, Live
<1>7. CASE UNCHANGED vars
  BY <1>7, Silent DEF vars, own, book, app
<1>8. CASE Connected
  <2>1. items = <<>> /\ UNCHANGED <<options, told>> /\ CanSend' = (options = {})
    BY <1>8 DEF Connected, NewBook, CanSend, Polls, app, Live
  <2>2. CASE options # {}
    <3>1. told = FALSE /\ items' = <<"Book">>
      <4>1. items' = <<"Book">> \o <<>>
        BY <1>8, <2>2 DEF Connected
      <4>2. <<"Book">> \in Seq(Items)
        BY <1>0, OneItem
      <4> QED BY <1>0, <2>1, <2>2, <4>1, <4>2, SaysOfNone, ConcatEmptySeq DEF ToldInv
    <3>2. Says(told, <<"Book">>, told)
      BY <1>0, SaysOfOther
    <3> QED BY <2>1, <2>2, <3>1, <3>2 DEF ToldInv
  <2>3. CASE options = {}
    <3>1. items' = <<"Book">> \o <<Word(TRUE)>> /\ <<"Book">> \in Seq(Items)
      BY <1>0, <1>8, <2>3, OneItem DEF Connected, Word
    <3>2. Says(TRUE, items', told')
      BY <3>1, SaysLast
    <3> QED BY <2>1, <2>3, <3>2 DEF ToldInv
  <2> QED BY <2>2, <2>3
<1>9. ASSUME NEW after \in BOOLEAN, items = <<>>, told' = told, phase \in Live,
             items' = <<"Book">> \o AudioItem(CanSend, after)
      PROVE  Says(after, items', told')
  <2>1. Says(CanSend, <<"Book">>, told) /\ <<"Book">> \in Seq(Items)
    BY <1>0, <1>9, SaysOfOther, SaysOfNone, OneItem DEF ToldInv
  <2> QED BY <1>0, <1>9, <2>1, SaysChange
<1>10. CASE ServerStops
  <2>1. /\ items = <<>> /\ UNCHANGED <<options, told>> /\ phase \in Live /\ phase' \notin Live
        /\ items' = <<"Book">> \o AudioItem(CanSend, FALSE) \o <<"Temporarily">>
    BY <1>10 DEF ServerStops, Polls, Attempt, NewBook, app, Live
  <2>2. Says(CanSend, <<"Book">>, told)
    BY <1>0, <2>1, SaysOfOther, SaysOfNone DEF ToldInv
  <2> DEFINE s == <<"Book">> \o AudioItem(CanSend, FALSE)
  <2>3. Says(FALSE, s, told)
    BY <1>0, <2>2, OneItem, SaysChange
  <2>4. s \in Seq(Items)
    BY <1>0, OneItem, AudioItems, ConcatProperties
  <2>5. items' = s \o <<"Temporarily">>
    BY <2>1
  <2> HIDE DEF s
  <2>6. Says(FALSE, s \o <<"Temporarily">>, told)
    BY <1>0, <2>3, <2>4, SaysBefore
  <2> QED BY <2>1, <2>5, <2>6 DEF ToldInv
<1>11. CASE ClientGone
  <2>1. /\ items = <<>> /\ told' = told /\ options' = options
        /\ phase \in Live /\ phase' \notin Live
        /\ items' = <<"Book">> \o AudioItem(CanSend, options = {})
    BY <1>11 DEF ClientGone, Polls, Over, NewBook, app, Live
  <2>2. (options = {}) \in BOOLEAN
    OBVIOUS
  <2>3. Says(options = {}, items', told')
    BY <1>9, <2>1, <2>2
  <2> QED BY <2>1, <2>3 DEF ToldInv
<1>12. CASE Enterview \/ TalkChanges
  <2>1. /\ items = <<>> /\ told' = told /\ options' = options /\ phase \in Live /\ phase' = phase
        /\ items' = <<"Book">> \o AudioItem(CanSend, CanSend')
    BY <1>12 DEF Enterview, TalkChanges, Polls, app
  <2>2. Says(CanSend', items', told')
    BY <1>0, <1>9, <2>1
  <2> QED BY <1>q, <2>1, <2>2 DEF ToldInv
<1>13. ASSUME NEW x \in Reasons, SetSilent(x) PROVE ToldInv'
  <2>1. CASE phase \notin Live
    BY <1>13, <2>1, Silent DEF SetSilent
  <2>2. CASE phase \in Live
    <3> DEFINE b == IF self' = self THEN <<>> ELSE <<"Book">>
    <3>1. /\ told' = told /\ phase' \in Live
          /\ items' = items \o b \o AudioItem(CanSend, CanSend')
      BY <1>13, <2>2 DEF SetSilent
    <3>2. items \o b \in Seq(Items) /\ Says(CanSend, items \o b, told)
      <4>1. Says(CanSend, items, told)
        BY <2>2 DEF ToldInv
      <4>2. CASE self' = self
        BY <1>0, <4>1, <4>2, ConcatEmptySeq
      <4>3. CASE self' # self
        BY <1>0, <4>1, <4>3, OneItem, SaysBefore, ConcatProperties
      <4> QED BY <4>2, <4>3
    <3> HIDE DEF b
    <3>3. Says(CanSend', items \o b \o AudioItem(CanSend, CanSend'), told)
      BY <1>0, <3>2, SaysChange
    <3>4. Says(CanSend', items', told')
      BY <3>1, <3>3
    <3> QED BY <1>q, <3>1, <3>4 DEF ToldInv
  <2> QED BY <2>1, <2>2
<1>14. CASE Take
  <2>1. /\ items # <<>> /\ items' = Tail(items) /\ UNCHANGED <<phase, options, seen, self, talk>>
        /\ Head(items) = "CanSend" => told' = TRUE
        /\ Head(items) = "CannotSend" => told' = FALSE
        /\ Head(items) \notin Words => told' = told
    BY <1>14 DEF Take, Words
  <2>2. told' \in BOOLEAN
    BY <1>0, <2>1 DEF Words
  <2>3. ASSUME NEW v \in BOOLEAN, Says(v, items, told) PROVE Says(v, items', told')
    BY <1>0, <2>1, <2>2, <2>3, SaysTail
  <2>4. CanSend' = CanSend
    BY <2>1 DEF CanSend
  <2> QED BY <1>0, <2>1, <2>3, <2>4 DEF ToldInv
<1> QED
  BY <1>1, <1>2, <1>3, <1>4, <1>5, <1>6, <1>7, <1>8, <1>10, <1>11, <1>12, <1>13, <1>14
  DEF Next

\* The last item taken says whether audio is sent (can_send_audio, poll_next), unless
\* the user mutes or goes away before the server has sent our own client.
THEOREM Told ==
  ASSUME "early" \notin Faults
  PROVE  Spec => []ToldWhileConnected
<1>1. TypeOK /\ ToldInv => ToldWhileConnected
  <2> SUFFICES ASSUME TypeOK, ToldInv, phase = "connected", items = <<>> PROVE told = CanSend
    BY DEF ToldWhileConnected
  <2>1. Says(CanSend, <<>>, told) /\ told \in BOOLEAN /\ CanSend \in BOOLEAN
    BY DEF ToldInv, TypeOK, CanSend, Live
  <2> QED BY <2>1, SaysOfNone
<1>2. Init => TypeOK /\ BookAgrees /\ ToldInv
  BY TypeInit, BookInit, ToldInit
<1>3. TypeOK /\ BookAgrees /\ ToldInv /\ [Next]_vars => (TypeOK /\ BookAgrees /\ ToldInv)'
  BY TypeStep, BookStep, ToldStep
<1> QED BY <1>1, <1>2, <1>3, PTL DEF Spec

=============================================================================
