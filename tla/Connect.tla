------------------------------ MODULE Connect -------------------------------
(***************************************************************************)
(* tsclientlib's Connection from the first address to the end of its event *)
(* stream: resolving the server's name (resolver.rs), the handshake with   *)
(* one address (tsproto client.rs), trying the next address, raising the   *)
(* identity level, connecting again after a timeout or a server stop       *)
(* (tsclientlib lib.rs), and the application that takes the stream's items *)
(* (api.rs, do_connect and the event loop).                                *)
(*                                                                         *)
(* The server is the environment: it answers what it was sent, as often    *)
(* and as late as it likes, or not at all.  Delivery of commands is module *)
(* Transport; here a packet of the handshake waits in the Resender until   *)
(* its answer removes it, and what waits too long ends the attempt.  Keys, *)
(* proofs and licences are one answer that is good or bad.                 *)
(*                                                                         *)
(* Whether audio is sent is read from the book's own client once the       *)
(* server has sent it, and from the options until then.                    *)
(***************************************************************************)
EXTENDS Naturals, Sequences, FiniteSets

CONSTANTS
  MaxAddresses, \* bound: addresses the resolver has for the server's name
  Needed,       \* identity levels servers ask for
  MaxLevel,     \* highest level increase_identity_level works for (20)
  MaxInbox,     \* bound: server packets on the way at a time
  MaxItems,     \* bound: items waiting when the user mutes
  Faults        \* what may happen, a subset of AllFaults

\* "early": the user mutes or goes away before the server has sent our own client.
AllFaults == {"socket", "bad", "refuse", "stop", "kick", "early"}

ASSUME ConnectAssumption ==
  /\ MaxAddresses \in Nat \ {0}
  /\ Needed \subseteq Nat /\ MaxLevel \in Nat
  /\ MaxInbox \in Nat /\ MaxItems \in Nat /\ Faults \subseteq AllFaults

VARIABLES
  phase,      \* ConnectionState, with the await point of the connecting future
  again,      \* the bool of ConnectionState::Connecting
  untried,    \* addresses the resolver may still yield in this attempt
  timedOut,   \* one of the addresses tried before failed with a timeout
  waiting,    \* handshake packets in the Resender's queues
  asked,      \* packets this attempt sent, what the server may answer
  inbox,      \* server packets on the way to this attempt's socket
  level,      \* level of the identity in ConnectOptions
  options,    \* ConnectOptions: why the client wants no audio sent, of Reasons
  seen,       \* the book has our own client
  self,       \* the same of the book's own client
  talk,       \* whether the book says our talk power is enough
  known,      \* until seen: the options the server has had of this connection
  items,      \* stream_items and the item poll_next returns
  subscribed, \* the server sends this connection the clients of all channels
  started,    \* the application: do_connect has its first BookEvents
  told,       \* the application: the last AudioEvent::CanSendAudio
  wants,      \* the user: muted, away
  left        \* history: the application has called disconnect

attempt == <<untried, timedOut, waiting, asked, inbox>>
book == <<seen, self, talk, known, subscribed>>
own == <<options, book>>
app == <<started, told, wants, left>>
vars == <<phase, again, attempt, level, own, items, app>>

Handshake == {"init1", "init3", "expand", "ek", "server"}
Phases == Handshake \cup
          {"sleep", "resolve", "increasing", "connected", "leaving", "over"}
Packets == {"init0", "init2", "init4", "clientek", "clientinit"}
Answers == {"Init1", "Init3", "Restart", "Expand", "BadExpand", "EkAck",
            "InitServer", "Refuse", "NeedLevel"}
Live == {"connected", "leaving"}
Reasons == {"muted", "away"}
Items == {"Book", "CanSend", "CannotSend", "Temporarily", "Increasing",
          "Increased"}

TypeOK ==
  /\ phase \in Phases /\ again \in BOOLEAN
  /\ untried \in 0 .. MaxAddresses
  /\ waiting \subseteq asked /\ asked \subseteq Packets
  /\ inbox \subseteq Answers
  /\ phase \notin Handshake => asked = {} /\ inbox = {}
  /\ level \in 0 .. MaxLevel
  /\ options \subseteq Reasons /\ self \subseteq Reasons /\ wants \subseteq Reasons
  /\ known \subseteq SUBSET Reasons /\ seen \in BOOLEAN /\ talk \in BOOLEAN
  /\ timedOut \in BOOLEAN /\ subscribed \in BOOLEAN
  /\ started \in BOOLEAN /\ told \in BOOLEAN
  /\ left \in BOOLEAN
  /\ items \in Seq(Items) /\ Len(items) <= MaxItems + 3

(***************************************************************************)
(* The connecting future.                                                  *)
(***************************************************************************)
Init ==
  /\ untried = MaxAddresses
  /\ phase = "resolve" /\ again = FALSE /\ timedOut = FALSE
  /\ waiting = {} /\ asked = {} /\ inbox = {}
  /\ level = 0 /\ options = {} /\ items = <<>>
  /\ seen = FALSE /\ self = {} /\ talk = TRUE /\ known = {} /\ subscribed = FALSE
  /\ started = FALSE /\ told = FALSE /\ wants = {}
  /\ left = FALSE

\* Everything the server knew of this socket is void for the next one.
NoHandshake == waiting' = {} /\ asked' = {} /\ inbox' = {}

\* Connection::connect is called: as a reconnection it first sleeps for 10 s.
Attempt(reconnect) ==
  /\ phase' = IF reconnect THEN "sleep" ELSE "resolve"
  /\ again' = reconnect
  /\ untried' = MaxAddresses /\ timedOut' = FALSE
  /\ NoHandshake

\* poll_next hands out the items it has before it does anything else.
Polls == items = <<>>

Over == phase' = "over" /\ NoHandshake

Wake ==
  /\ Polls /\ phase = "sleep" /\ phase' = "resolve"
  /\ UNCHANGED <<again, attempt, level, own, items, app>>

\* The resolver's stream (module Resolver) yields an address: connect_to binds
\* a socket and sends Init0.
Resolved ==
  /\ Polls /\ phase = "resolve" /\ untried > 0
  /\ untried' = untried - 1
  /\ phase' = "init1" /\ asked' = {"init0"} /\ waiting' = {"init0"}
  /\ UNCHANGED <<again, timedOut, inbox, level, own, items, app>>

\* It has no more addresses.
NotResolved ==
  /\ Polls /\ phase = "resolve" /\ untried > 0
  /\ untried' = 0
  /\ UNCHANGED <<phase, again, timedOut, waiting, asked, inbox, level, own,
                 items, app>>

\* poll_next, ConnectFailed: no address worked.  A reconnection starts over when
\* a handshake timed out; anything else is the stream's error.
AllFailed ==
  /\ Polls /\ phase = "resolve" /\ untried = 0
  /\ IF again /\ timedOut
       THEN Attempt(TRUE)
       ELSE Over /\ UNCHANGED <<again, untried, timedOut>>
  /\ UNCHANGED <<level, own, items, app>>

\* One address failed: connect goes on with the next one.
NextAddress(kind) ==
  /\ phase' = "resolve" /\ timedOut' = (timedOut \/ kind = "timeout")
  /\ NoHandshake
  /\ UNCHANGED <<again, untried, level, own, items, app>>

\* The Resender gives a packet up, or the 5 s for initserver are over.  Only
\* the former, and only before clientinit is sent, counts as a timeout later.
\* Each packet has its own time: one the server has answered is sent anew.
PacketTimesOut(p) ==
  /\ Polls /\ phase \in Handshake \ {"server"} /\ p \in waiting
  /\ NextAddress("timeout")

InitserverTimesOut == Polls /\ phase = "server" /\ NextAddress("other")

SocketFails ==
  /\ Polls /\ "socket" \in Faults /\ phase \in Handshake
  /\ NextAddress("other")

\* The server answers a packet it was sent, again if it is sent again.
ServerAnswers(m) ==
  /\ phase \in Handshake
  /\ \/ m = "Init1" /\ "init0" \in asked
     \/ m = "Init3" /\ "init2" \in asked
     \/ m = "Restart" /\ "init2" \in asked
     \/ m = "Expand" /\ "init4" \in asked
     \/ m = "BadExpand" /\ "init4" \in asked /\ "bad" \in Faults
     \/ m = "EkAck" /\ "clientek" \in asked
     \/ m = "InitServer" /\ "clientinit" \in asked
     \/ m = "Refuse" /\ "clientinit" \in asked /\ "refuse" \in Faults
     \/ m = "NeedLevel" /\ "clientinit" \in asked /\ Needed # {}
  /\ m \notin inbox /\ Cardinality(inbox) < MaxInbox
  /\ inbox' = inbox \cup {m}
  /\ UNCHANGED <<phase, again, untried, timedOut, waiting, asked, level, own,
                 items, app>>

\* What an answer removes from the Resender's queues (ack_packet of
\* InPacket and the special cases of PacketCodec::handle_udp_packet).
Acks(m) == CASE m = "Init1" -> {"init0"}
             [] m \in {"Init3", "Restart"} -> {"init2"}
             [] m \in {"Expand", "BadExpand"} -> {"init4"}
             [] m = "EkAck" -> {"clientek"}
             [] m = "InitServer" -> {"clientinit"}
             [] OTHER -> {}

\* What connect does with an answer: <<the next await point, what it sends>>.
\* After a restart the loop sends Init0 again.
RestartForgets(m) == IF m = "Restart" THEN <<"init1", {}>> ELSE <<"expand", {"init4"}>>
RestartSends(m) == IF m = "Restart" THEN <<"init1", {"init0"}>> ELSE <<"expand", {"init4"}>>

StepTo(m) ==
  CASE phase = "init1" /\ m = "Init1" -> <<"init3", {"init2"}>>
    [] phase = "init3" /\ m \in {"Init3", "Restart"} -> RestartSends(m)
    [] phase = "expand" /\ m = "Expand" -> <<"ek", {"clientek"}>>
    [] phase = "ek" /\ m = "EkAck" -> <<"server", {"clientinit"}>>
    [] OTHER -> <<phase, {}>>

\* A packet of the handshake arrives.  Init packets are refused once the keys
\* are there; the rest of what connect does not wait for is dropped.
Receive(m) ==
  /\ Polls /\ phase \in Handshake /\ m \in inbox
  /\ m \notin {"InitServer", "Refuse", "NeedLevel", "BadExpand"}
  /\ inbox' = inbox \ {m}
  /\ phase' = StepTo(m)[1]
  /\ asked' = asked \cup StepTo(m)[2]
  /\ waiting' = IF m \in {"Init1", "Init3", "Restart"} /\ phase \in {"ek", "server"}
                  THEN waiting
                  ELSE (waiting \ Acks(m)) \cup StepTo(m)[2]
  /\ UNCHANGED <<again, untried, timedOut, level, own, items, app>>

\* A wrong initivexpand2: a missing argument, a bad proof or licence, or not the
\* server that was asked for.
BadAnswer ==
  /\ Polls /\ phase = "expand" /\ "BadExpand" \in inbox
  /\ NextAddress("other")

\* wait_initserver: the error of clientinit.  It ends the whole attempt, not
\* only this address.
Refused ==
  /\ Polls /\ phase = "server" /\ "Refuse" \in inbox
  /\ Over
  /\ UNCHANGED <<again, untried, timedOut, level, own, items, app>>

\* poll_next, IdentityLevel: increase_identity_level starts the computation, or
\* the error ends the stream.
AnyLevel(n) == n <= MaxLevel
LevelTooLow(n) == n <= MaxLevel /\ level < n

RaiseLevel ==
  /\ Polls /\ phase = "server" /\ "NeedLevel" \in inbox
  /\ \E n \in Needed :
       \/ /\ LevelTooLow(n)
          /\ phase' = "increasing" /\ NoHandshake
          /\ items' = <<"Increasing">>
          /\ level' = n
       \/ /\ ~LevelTooLow(n)
          /\ Over /\ UNCHANGED <<items, level>>
  /\ UNCHANGED <<again, untried, timedOut, own, app>>

\* The thread is done: a first attempt with the better identity, whatever the
\* attempt that found the identity too weak was.
Increased ==
  /\ Polls /\ phase = "increasing"
  /\ Attempt(FALSE)
  /\ items' = <<"Increased">>
  /\ UNCHANGED <<level, own, app>>

\* can_send_audio: the book's own client, or the options until it is there.
CanSend == phase \in Live /\ IF seen THEN self = {} /\ talk ELSE options = {}

\* The item for a changed can_send_audio, from the code before and after.
OnlyGains(before, after) == IF ~before /\ after THEN <<"CanSend">> ELSE <<>>
AudioItem(before, after) ==
  IF before = after THEN <<>> ELSE IF after THEN <<"CanSend">> ELSE <<"CannotSend">>

\* A ConnectedConnection and its book begin, or are dropped with the connection.
NewBook(states) ==
  /\ seen' = FALSE /\ self' = {} /\ talk' = TRUE /\ known' = states
  /\ subscribed' = FALSE
  /\ UNCHANGED options

\* poll_next, the future is done: the connection starts with nothing subscribed
\* and a book without our client; an item tells only what the options allow.
Connected ==
  /\ Polls /\ phase = "server" /\ "InitServer" \in inbox
  /\ phase' = "connected" /\ NoHandshake
  /\ NewBook({options})
  /\ items' = <<"Book">> \o (IF options = {} THEN <<"CanSend">> ELSE <<>>)
  /\ UNCHANGED <<again, untried, timedOut, level, app>>

(***************************************************************************)
(* A connected Connection.                                                 *)
(***************************************************************************)
\* Slip: the timer of the disconnect is not set.
LostNotLeaving ==
  /\ phase = "connected" /\ Polls
  /\ Attempt(TRUE) /\ items' = <<"Temporarily">> /\ NewBook({})
  /\ UNCHANGED <<level, app>>

\* A packet was not acknowledged, or no ping was answered: the stream goes on
\* with a new attempt, or ends if the client was leaving.
ConnectionLost ==
  /\ phase \in Live /\ Polls
  /\ IF phase = "leaving"
       THEN Over /\ UNCHANGED <<again, untried, timedOut, items>>
       ELSE Attempt(TRUE) /\ items' = <<"Temporarily">>
  /\ NewBook({})
  /\ UNCHANGED <<level, app>>

SocketDies ==
  /\ "socket" \in Faults /\ phase \in Live /\ Polls
  /\ Over /\ NewBook({})
  /\ UNCHANGED <<again, untried, timedOut, level, items, app>>

\* handle_command: the server tells that it stops, and the client connects
\* again; it does not look at whether the application has disconnected.
ServerStops ==
  /\ "stop" \in Faults /\ phase \in Live /\ Polls
  /\ Attempt(TRUE)
  /\ items' = <<"Book">> \o AudioItem(CanSend, FALSE) \o <<"Temporarily">>
  /\ NewBook({})
  /\ UNCHANGED <<level, app>>

\* handle_command and Client::handle_command: our client has left, kicked,
\* banned or as it asked: the last items, then the end of the stream.  The book
\* without our client leaves can_send_audio to the options.
ClientGone ==
  /\ phase \in Live /\ Polls
  /\ phase = "leaving" \/ "kick" \in Faults
  /\ Over
  /\ items' = <<"Book">> \o AudioItem(CanSend, options = {})
  /\ NewBook({})
  /\ UNCHANGED <<again, untried, timedOut, level, app>>

\* Our own client comes into view, as the server has it: what clientinit said,
\* or what it has been told since.
Enterview ==
  /\ phase \in Live /\ ~seen /\ Polls
  /\ seen' = TRUE /\ self' \in known /\ talk' \in BOOLEAN /\ known' = {}
  /\ UNCHANGED <<phase, again, attempt, level, options, subscribed, app>>
  /\ items' = <<"Book">> \o AudioItem(CanSend, CanSend')

\* The server moves us, or changes what the channel needs.  What it says of our
\* own mute state later is ignored.
TalkChanges ==
  /\ phase \in Live /\ seen /\ Polls
  /\ talk' = ~talk
  /\ UNCHANGED <<phase, again, attempt, level, options, seen, self, known,
                 subscribed, app>>
  /\ items' = <<"Book">> \o AudioItem(CanSend, CanSend')

\* What a clientupdate that names r makes the book take over from the options:
\* the away message is compared whatever is named.
Named(r) == {r, "away"}

\* ts_set_muted, ts_set_away: Command::SetMuted (both ways at once) or SetAway.
\* update_on_outgoing_command sets the option, and the book's own client if it
\* is there; without a connection the command is lost.  Once it has disconnected
\* the event loop takes no commands, it only waits for the end of the stream.
SetSilent(r) ==
  /\ started /\ ~left /\ phase # "over" /\ Len(items) < MaxItems
  /\ phase \in Live /\ ~seen => "early" \in Faults
  /\ wants' = IF r \in wants THEN wants \ {r} ELSE wants \cup {r}
  /\ UNCHANGED <<phase, again, attempt, level, seen, talk, subscribed, started,
                 told, left>>
  /\ IF phase \in Live
       THEN /\ options' = (options \ {r}) \cup (wants' \cap {r})
            /\ known' = IF seen THEN known ELSE known \cup {options'}
            /\ self' = IF seen THEN (self \ Named(r)) \cup (options' \cap Named(r))
                       ELSE self
            /\ items' = items \o (IF self' = self THEN <<>> ELSE <<"Book">>)
                          \o AudioItem(CanSend, CanSend')
       ELSE UNCHANGED <<options, known, self, items>>

\* Connection::disconnect: nothing happens while it is not connected.
Disconnect ==
  /\ started /\ ~left /\ left' = TRUE
  /\ phase' = IF phase = "connected" THEN "leaving" ELSE phase
  /\ UNCHANGED <<again, attempt, level, own, items, started, told, wants>>

(***************************************************************************)
(* The application.                                                        *)
(***************************************************************************)
\* It takes the next item.  do_connect waits for the first BookEvents, then
\* subscribes to all channels; the event loop does so for no later one.
Take ==
  /\ items # <<>> /\ items' = Tail(items)
  /\ told' = CASE Head(items) = "CanSend" -> TRUE
               [] Head(items) = "CannotSend" -> FALSE
               [] OTHER -> told
  /\ IF Head(items) = "Book" /\ ~started
       THEN /\ started' = TRUE
            /\ subscribed' = (phase \in Live)
       ELSE UNCHANGED <<started, subscribed>>
  /\ UNCHANGED <<phase, again, attempt, level, options, seen, self, talk, known, wants,
                 left>>

PollConnecting ==
  \/ Wake \/ Resolved \/ NotResolved \/ AllFailed \/ Increased
  \/ InitserverTimesOut \/ \E p \in Packets : PacketTimesOut(p)

Next ==
  \/ PollConnecting
  \/ SocketFails
  \/ \E m \in Answers : ServerAnswers(m)
  \/ \E m \in inbox : Receive(m)
  \/ BadAnswer
  \/ Refused
  \/ RaiseLevel
  \/ Connected
  \/ ConnectionLost
  \/ SocketDies
  \/ ServerStops
  \/ ClientGone
  \/ Enterview
  \/ TalkChanges
  \/ \E r \in Reasons : SetSilent(r)
  \/ Disconnect
  \/ Take

Spec == Init /\ [][Next]_vars

\* The application polls the stream until it ends, takes its items, and every
\* timer the poll looks at goes off in time: the pause before a reconnection, each
\* packet's own, initserver's.  The resolver returns.  Of a client that is leaving
\* the ping timer's is strong fairness: a poll hands out items first, and the
\* server may cause some now and then.  Nothing is assumed of the server.
FairSpec ==
  /\ Spec
  /\ WF_vars(Wake) /\ WF_vars(Resolved \/ NotResolved) /\ WF_vars(AllFailed)
  /\ WF_vars(Increased) /\ WF_vars(InitserverTimesOut)
  /\ \A p \in Packets : WF_vars(PacketTimesOut(p))
  /\ SF_vars(ConnectionLost /\ phase = "leaving")
  /\ WF_vars(Take)

(***************************************************************************)
(* Properties.                                                             *)
(***************************************************************************)
\* While it is connected and the application has taken every item, the last
\* CanSendAudio item says whether audio is sent, though the code reads it from
\* the options, then from the book, and the server's word on our own state may
\* be an old one (can_send_audio and the five places that push the item agree).
ToldWhileConnected == phase = "connected" /\ items = <<>> => told = CanSend

\* As the comment of can_send_audio has it: "If this changes, the event is
\* emitted", and a temporary disconnect counts as a mute.
ToldAlways == phase # "over" /\ items = <<>> => told = CanSend

\* The server asks again and again to start the handshake over (step 127).
RestartedForever == []<><<Receive("Restart") /\ phase = "init3">>_vars

\* The handshake with one address ends, whatever the server answers, repeats or
\* leaves out, unless it starts it over for ever: connect waits for nothing but
\* what a timer ends (client.rs, connect; resend.rs, poll_resend).  connect itself
\* does not count the restarts.
HandshakeEnds == []<>(phase \notin Handshake) \/ RestartedForever

\* With the same exception a first connection comes to an end, also when servers
\* ask for higher identity levels: each increase is a real one
\* (increase_identity_level).
FirstEnds ==
  []<>(again \/ phase \in Live \cup {"over"}) \/ RestartedForever

\* After a disconnect the stream does not stay in the leaving state
\* (poll_ping: "No disconnect ack received" after 5 s).
LeavingEnds == phase = "leaving" ~> phase # "leaving"

\* Whenever the application has taken all items of a connection it sees the
\* clients of all channels (api.rs, DisconnectedTemporarily: "On reconnect the
\* library replays the whole roster as fresh additions").
SubscribedAgain == phase = "connected" /\ started /\ items = <<>> => subscribed

\* The connection is muted and away as the user chose.
MuteKept == phase = "connected" /\ seen => self = wants

\* A client that is leaving does not start a new attempt (disconnect, wait for
\* the end of the stream: "con.disconnect(options)").
LeavesForGood == [][phase = "leaving" => phase' # "sleep"]_vars
=============================================================================
