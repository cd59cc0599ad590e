-------------------------------- MODULE Book --------------------------------
(***************************************************************************)
(* The server as the user sees it: channels in their order, the clients in *)
(* view, the chat, and the sounds about them.  On its way to the widgets   *)
(* every notification passes                                               *)
(*                                                                         *)
(*   - tsclientlib's book (channels as in module ChannelTree, and clients  *)
(*     of the channels we are subscribed to), which is changed while the   *)
(*     event loop polls and yields one StreamItem per message;             *)
(*   - the event loop, which collects the items of one poll and handles    *)
(*     them together, the first one last, all against the book as it is    *)
(*     after the last of them;                                             *)
(*   - STATE.channels and STATE.clients, copied from the book at each      *)
(*     event, and pending_events.                                          *)
(*                                                                         *)
(* Notifications arrive once and in order (module Transport), so a change  *)
(* on the server and its notification are one step.  A temporary           *)
(* disconnect discards the book; the library reconnects and the server     *)
(* lists everything again.                                                 *)
(***************************************************************************)
EXTENDS ChannelTree, FiniteSets, Sequences, SequencesExt

CONSTANTS
  Others,    \* the other clients, by number
  MaxSteps,  \* bound: things that happen on the server
  MaxItems,  \* bound: items of one poll
  MaxDrops,  \* bound: temporary disconnects
  Mixes      \* bound: what happens in one behaviour, sets of "tree", "clients", "own", "text"

\* Our client has another number after each reconnect.
Own == 1..(MaxDrops + 1)

ASSUME BookAssumption ==
  /\ IsFiniteSet(Channels) /\ Channels = 1..Cardinality(Channels) /\ Cardinality(Channels) >= 2
  /\ IsFiniteSet(Others) /\ Others \subseteq Nat \ {0} /\ Others \cap Own = {}
  /\ MaxSteps \in Nat /\ MaxItems \in Nat \ {0} /\ MaxDrops \in Nat
  /\ Mixes \subseteq SUBSET {"tree", "clients", "own", "text"}

VARIABLES
  tree,       \* server: the children of each channel and of 0, in order
  made,       \* server: channels created so far
  at,         \* server: where each other client is, 0 for offline
  here,       \* server: our own channel
  granted,    \* server: the channels we are subscribed to
  up,         \* tsclientlib is connected
  subscribed, \* ConnectedConnection.subscribed
  asked,      \* subscriptions not yet answered, sets of channels
  me,         \* book.own_client
  book,       \* book.channels
  clients,    \* book.clients: the channel of each
  items,      \* StreamItems of this poll not yet handled
  armed,      \* SFX_ARMED
  channelsUi, \* STATE.channels
  clientsUi,  \* STATE.clients
  own,        \* STATE.own_client_id
  chat,       \* pending_events: the text messages
  mix,        \* bound: a member of Mixes
  steps,      \* bound
  drops,      \* bound
  texts,      \* history: messages sent to us
  due         \* history: what each client did, less the sounds about it;
              \* 0 stands for the channels

server  == <<tree, made, at, here, granted>>
library == <<up, subscribed, asked, me, book, clients>>
ui      == <<channelsUi, clientsUi, own, chat>>
bounds  == <<mix, steps, drops>>
vars    == <<server, library, items, ui, armed, bounds, texts, due>>

\* refresh_from_book: what the user interface is given of a channel.
Rows == [c \in DOMAIN book |-> [order |-> book[c].order, parent |-> book[c].parent]]

----------------------------------------------------------------------------
(* The server's tree.                                                      *)

Present == UNION {ToSet(tree[p]) : p \in DOMAIN tree}

ParentOf(c) == CHOOSE p \in DOMAIN tree : c \in ToSet(tree[p])

\* The sibling before the k-th place of s.
Before(s, k) == IF k = 1 THEN 0 ELSE s[k - 1]

OrderOf(c) == LET s == tree[ParentOf(c)] IN Before(s, CHOOSE k \in 1..Len(s) : s[k] = c)

\* The children of p without c, which is one of them.
Rid(p, c) == RemoveAt(tree[p], CHOOSE k \in 1..Len(tree[p]) : tree[p][k] = c)

\* c and the channels below it.
Below[c \in Channels] == {c} \union UNION {Below[x] : x \in ToSet(tree[c])}

NoBook == [x \in {} |-> Record(0, 0)]

\* The books the first n channels of a list lead to, whichever they are.
Listing[n \in 0..Cardinality(Present)] ==
  IF n = 0 THEN {NoBook}
  ELSE UNION {UNION {Added(b, c, OrderOf(c), ParentOf(c)) : c \in Present \ DOMAIN b} : b \in Listing[n - 1]}

\* The books a channel list leads to, in whatever order it is sent.
Listed == Listing[Cardinality(Present)]

NoClients == [x \in {} |-> 0]

\* Two channels below the root; we are in the first, another client may be in
\* either of them.
Init ==
  /\ tree = [p \in Channels \union {0} |-> IF p = 0 THEN <<1, 2>> ELSE <<>>] /\ made = 2
  /\ at \in [Others -> 0..2] /\ here = 1 /\ granted = {}
  /\ up = TRUE /\ subscribed = TRUE /\ asked = <<{1, 2}>> /\ me = 1
  /\ book \in Listed
  /\ clients = [x \in {1} \union {y \in Others : at[y] = 1} |-> 1]
  /\ items = <<>> /\ armed = FALSE
  /\ channelsUi = Rows /\ clientsUi = clients /\ own = 1 /\ chat = <<>>
  /\ mix \in Mixes /\ steps = 0 /\ drops = 0 /\ texts = 0
  /\ due = [x \in Others \union Own \union {0} |-> 0]

----------------------------------------------------------------------------
(* Messages of the server, their effect on the book, and the items they    *)
(* become.                                                                 *)

Happens(kind) ==
  /\ kind \in mix /\ steps < MaxSteps                         \* bound
  /\ steps' = steps + 1 /\ UNCHANGED <<mix, drops>>

\* who is a client, or 0 for the channels; from is where the client was.
Event(kind, who, from, how) == [kind |-> kind, who |-> who, from |-> from, how |-> how]

BookEvents(s) == [temp |-> FALSE, events |-> s]
Temporarily   == [temp |-> TRUE, events |-> <<>>]

OfChannels(how)   == <<BookEvents(<<Event("channel", 0, 0, how)>>)>>
Entered(S, how)   == IF S = {} THEN <<>>
                     ELSE <<BookEvents(SetToSeq({Event("in", x, 0, how) : x \in S}))>>
Left(S, c, how)   == IF S = {} THEN <<>>
                     ELSE <<BookEvents(SetToSeq({Event("out", x, c, how) : x \in S}))>>

\* Only a connected library is told anything.
Told(books, cl, its) ==
  IF up
  THEN /\ book' \in books /\ clients' = cl
       /\ items' = items \o its /\ Len(items') <= MaxItems       \* bound
  ELSE UNCHANGED <<book, clients, items>>

Earns(x) == due' = [due EXCEPT ![x] = @ + 1]

InView == granted \union {here}
There(c) == {x \in Others : at[x] = c}
Seen(S, c) == [x \in DOMAIN clients \union S |-> IF x \in S THEN c ELSE clients[x]]
Gone(S) == [x \in DOMAIN clients \ S |-> clients[x]]

\* Mutant: nothing is asked for.
AskNothing(c) == UNCHANGED asked

\* The library subscribes to a new channel.
Ask(c) == asked' = IF up /\ subscribed THEN Append(asked, {c}) ELSE asked

CreateChannel(p, k) ==
  /\ Happens("tree")
  /\ LET c == made + 1 IN
     /\ c \in Channels /\ p \in Present \union {0} /\ k \in 1..Len(tree[p]) + 1
     /\ made' = c /\ tree' = [tree EXCEPT ![p] = InsertAt(@, k, c)]
     /\ Told(Created(book, c, Before(tree[p], k), p), clients, OfChannels("changed"))
     /\ Ask(c)
  /\ Earns(0)
  /\ UNCHANGED <<at, here, granted, up, subscribed, me, ui, armed, texts>>

DeleteChannel(c) ==
  /\ Happens("tree")
  /\ c \in Present /\ tree[c] = <<>> /\ There(c) = {} /\ here # c
  /\ tree' = [tree EXCEPT ![ParentOf(c)] = Rid(ParentOf(c), c)]
  /\ granted' = granted \ {c} /\ asked' = [i \in DOMAIN asked |-> asked[i] \ {c}]
  /\ Told(Deleted(book, c), clients, OfChannels("changed"))
  /\ Earns(0)
  /\ UNCHANGED <<made, at, here, up, subscribed, me, ui, armed, texts>>

\* A move to the k-th place below p; below the same parent the server may call
\* it an edit of the order.
MoveChannel(c, p, k) ==
  /\ Happens("tree")
  /\ c \in Present /\ p \in (Present \union {0}) \ Below[c]
  /\ LET out == [tree EXCEPT ![ParentOf(c)] = Rid(ParentOf(c), c)]
         o   == Before(out[p], k)
     IN  /\ k \in 1..Len(out[p]) + 1
         /\ tree' = [out EXCEPT ![p] = InsertAt(@, k, c)]
         /\ \/ Told(Moved(book, c, o, p), clients, OfChannels("changed"))
            \/ p = ParentOf(c) /\ Told(Edited(book, c, o), clients, OfChannels("quiet"))
  /\ Earns(0)
  /\ UNCHANGED <<made, at, here, granted, up, subscribed, asked, me, ui, armed, texts>>

\* Name, topic, type, limits.
EditChannel(c) ==
  /\ Happens("tree")
  /\ c \in Present
  /\ Told({book}, clients, OfChannels("changed"))
  /\ Earns(0)
  /\ UNCHANGED <<server, up, subscribed, asked, me, ui, armed, texts>>

\* Another client connects, changes its channel or leaves; 0 is offline.
Go(x, d) ==
  /\ Happens("clients")
  /\ d \in Present \union {0} /\ d # at[x]
  /\ at' = [at EXCEPT ![x] = d]
  /\ LET how == IF at[x] = 0 THEN "connected" ELSE IF d = 0 THEN "quit" ELSE "moved" IN
     \/ /\ at[x] \in InView /\ d \in InView
        /\ Told({book}, Seen({x}, d), <<BookEvents(<<Event("move", x, at[x], how)>>)>>)
     \/ /\ at[x] \in InView /\ d \notin InView
        /\ Told({book}, Gone({x}), Left({x}, at[x], how))
     \/ /\ at[x] \notin InView /\ d \in InView
        /\ Told({book}, Seen({x}, d), Entered({x}, how))
     \/ /\ at[x] \notin InView /\ d \notin InView
        /\ UNCHANGED <<book, clients, items>>
  /\ Earns(x)
  /\ UNCHANGED <<tree, made, here, granted, up, subscribed, asked, me, ui, armed, texts>>

Subscribe(b, S)   == [c \in DOMAIN b |-> [b[c] EXCEPT !.subscribed = @ \/ c \in S]]
Unsubscribe(b, c) == [b EXCEPT ![c].subscribed = FALSE]

\* The server grants what was asked first: the clients there enter the view.
Grant ==
  /\ up /\ asked # <<>> /\ asked' = Tail(asked)
  /\ LET S   == Head(asked)
         new == {x \in Others : at[x] \in S \ InView}
     IN  /\ granted' = granted \union S
         /\ Told({Subscribe(book, S)}, [x \in DOMAIN clients \union new |-> IF x \in new THEN at[x] ELSE clients[x]],
                 OfChannels("quiet") \o Entered(new, "subscription"))
  /\ UNCHANGED <<tree, made, at, here, up, subscribed, me, ui, armed, bounds, texts, due>>

\* Mutant: the clients of a channel that is out of view stay in the book.
StayInBook(cl, c) == cl

\* channel_unsubscribe_fun
LeaveBook(cl, c) == [x \in {y \in DOMAIN cl : cl[y] # c} |-> cl[x]]

\* We are moved to channel d.  Its clients come into view; those of the channel
\* we leave go out of view unless we have subscribed to it.
OwnMove(d) ==
  /\ Happens("own")
  /\ up /\ d \in Present /\ d # here
  /\ here' = d
  /\ LET new   == IF d \in granted THEN {} ELSE There(d)
         cl    == Seen(new \union {me}, d)
         moved == <<BookEvents(<<Event("move", me, here, "moved")>>)>> \o Entered(new, "subscription")
     IN  IF here \in granted
         THEN Told({Subscribe(book, {d})}, cl, moved)
         ELSE Told({Unsubscribe(Subscribe(book, {d}), here)}, LeaveBook(cl, here),
                   moved \o OfChannels("quiet") \o Left(There(here), here, "unsubscribed"))
  /\ Earns(me)
  /\ UNCHANGED <<tree, made, at, granted, up, subscribed, asked, me, ui, armed, texts>>

Text ==
  /\ Happens("text")
  /\ up /\ texts' = texts + 1
  /\ Told({book}, clients, <<BookEvents(<<Event("text", texts + 1, 0, "")>>)>>)
  /\ UNCHANGED <<server, up, subscribed, asked, me, ui, armed, due>>

\* The connection is lost, or the server stops and says so.
Drop ==
  /\ up /\ drops < MaxDrops                                    \* bound
  /\ drops' = drops + 1 /\ up' = FALSE
  /\ book' = NoBook /\ clients' = NoClients /\ asked' = <<>>
  /\ \/ items' = items \o <<Temporarily>>
     \/ "own" \in mix /\ items' = items \o Left({me}, here, "stop") \o <<Temporarily>>
  /\ UNCHANGED <<server, subscribed, me, ui, armed, mix, steps, texts, due>>

\* The library has connected again: a new book, a new client number, the
\* channels and the clients of our channel listed from the start.
Reconnect ==
  /\ ~up
  /\ up' = TRUE /\ subscribed' = FALSE /\ granted' = {} /\ asked' = <<>>
  /\ me' = me + 1
  /\ book' \in Listed
  /\ clients' = [x \in {me + 1} \union There(here) |-> here]
  /\ items' = items \o OfChannels("quiet") \o Entered({me + 1} \union There(here), "subscription")
  /\ UNCHANGED <<tree, made, at, here, ui, armed, bounds, texts, due>>

----------------------------------------------------------------------------
(* The event loop.                                                         *)

OwnChannel == IF me \in DOMAIN clients THEN clients[me] ELSE 0

\* maybe_trigger_sfx: e is about a movement that touches our channel, by the
\* book as it is now.
Touches(e) ==
  LET now == IF e.who \in DOMAIN clients THEN clients[e.who] ELSE 0 IN
  \/ e.kind = "channel"
  \/ e.kind = "in" /\ e.who # me /\ e.how # "subscription" /\ now # 0 /\ now = OwnChannel
  \/ e.kind = "move" /\ now # 0 /\ now # e.from
       /\ (e.who = me \/ (e.from = OwnChannel) # (now = OwnChannel))
  \/ e.kind = "out" /\ e.who # me /\ e.from = OwnChannel

\* Mutant: every reason but the subscription has a sound.
AudibleUnlessListed(e) == e.how # "subscription"

Audible(e) == e.how \in {"changed", "moved", "connected", "quit"}

Sound(st, e) ==
  IF up /\ st.armed /\ Touches(e) /\ e.who \notin st.handled
  THEN [st EXCEPT !.due[e.who] = @ - (IF Audible(e) THEN 1 ELSE 0),
                  !.handled = IF e.who \in Others THEN @ \union {e.who} ELSE @]
  ELSE st

\* Mutant: a client that leaves changes no row.
RefreshUnlessLeft(st, e) ==
  IF up /\ e.kind # "out" THEN [st EXCEPT !.channelsUi = Rows, !.clientsUi = clients] ELSE st

\* Every event that is no message copies the book, when there is one.
Refresh(st, e) ==
  IF up /\ e.kind # "text" THEN [st EXCEPT !.channelsUi = Rows, !.clientsUi = clients] ELSE st

HandleEvent(st, e) ==
  IF e.kind = "text" THEN [st EXCEPT !.chat = Append(@, e.who)] ELSE Sound(Refresh(st, e), e)

\* The events of an item, one after the other.
HandleEvents(st, s) ==
  LET after[n \in 0..Len(s)] == IF n = 0 THEN st ELSE HandleEvent(after[n - 1], s[n])
  IN  after[Len(s)]

\* handle_event_item
HandleItem(st, item) ==
  IF item.temp THEN [st EXCEPT !.armed = FALSE]
  ELSE [HandleEvents([st EXCEPT !.handled = {}], item.events) EXCEPT !.armed = TRUE]

HandleItems(st, s) ==
  LET after[n \in 0..Len(s)] == IF n = 0 THEN st ELSE HandleItem(after[n - 1], s[n])
  IN  after[Len(s)]

\* The items of one poll: those drained after the first, then the first.
Handle ==
  /\ items # <<>>
  /\ LET st == HandleItems([armed |-> armed, due |-> due, handled |-> {}, chat |-> chat,
                            channelsUi |-> channelsUi, clientsUi |-> clientsUi],
                           Tail(items) \o <<Head(items)>>)
     IN  /\ armed' = st.armed /\ due' = st.due /\ chat' = st.chat
         /\ channelsUi' = st.channelsUi /\ clientsUi' = st.clientsUi
  /\ items' = <<>>
  /\ UNCHANGED <<server, library, own, bounds, texts>>

\* own_client_id_or_cache: a command that names our own client.
OwnCommand ==
  /\ up /\ own # me /\ own' = me
  /\ UNCHANGED <<server, library, items, channelsUi, clientsUi, chat, armed, bounds, texts, due>>

----------------------------------------------------------------------------
Notified ==
  \/ \E p \in Channels \union {0}, k \in 1..Cardinality(Channels) : CreateChannel(p, k)
  \/ \E c \in Channels : DeleteChannel(c) \/ EditChannel(c) \/ OwnMove(c)
  \/ \E c \in Channels, p \in Channels \union {0}, k \in 1..Cardinality(Channels) : MoveChannel(c, p, k)
  \/ \E x \in Others, d \in Channels \union {0} : Go(x, d)
  \/ Text

Next == Notified \/ Drop \/ Reconnect \/ Handle \/ OwnCommand \/ Grant

Spec == Init /\ [][Next]_vars

----------------------------------------------------------------------------
(* Properties.                                                             *)

\* The book has the channels of the server in the server's order: relinking
\* the siblings by itself, after a channel comes, goes, moves or is listed in
\* any order, it never loses or misplaces one.
TreeRight ==
  up => /\ DOMAIN book = Present
        /\ \A c \in Present : book[c].order = OrderOf(c) /\ book[c].parent = ParentOf(c)

\* The book has exactly the clients of the channels in our view, each in its
\* channel, and takes no channel for subscribed that is not.
ClientsRight ==
  up => /\ clients = [x \in {me} \union {y \in Others : at[y] \in InView} |-> IF x = me THEN here ELSE at[x]]
        /\ \A c \in Present : book[c].subscribed => c \in InView

\* When the loop has handled what it polled, the user interface has the book's
\* channels and clients, and every text once, in whatever order and batches
\* the items were handled.
CaughtUp ==
  items = <<>> =>
    /\ up => channelsUi = Rows /\ clientsUi = clients
    /\ Len(chat) = texts /\ ToSet(chat) = 1..texts

\* There are never more sounds about a client or the channels than things they
\* did: a subscription, the list after a connect or a reconnect, and a client
\* that only goes out of view are silent.  What tells them from the rest is the
\* kind of each event and where it puts the client; SFX_ARMED only takes sounds
\* away.  A notification makes one channel event here: the further ones of the
\* same notification, which batch_fired silences, are left out.
SoundsEarned == \A x \in DOMAIN due : due[x] >= 0

\* A channel out of our view is one whose subscription is asked for: none that
\* is created is overlooked, unless the connection has been lost since.
NoneOverlooked ==
  up /\ subscribed => Present \subseteq InView \union UNION {asked[i] : i \in DOMAIN asked}

\* The chat shows the messages in the order they were sent.
ChatInOrder == \A i, j \in 1..Len(chat) : i < j => chat[i] < chat[j]

\* STATE.own_client_id names our client.
OwnKnown == up => own = me

\* The widgets sort the children of a channel by their orders as numbers.
Shown(p) ==
  SetToSortSeq({c \in DOMAIN channelsUi : channelsUi[c].parent = p},
               LAMBDA x, y : channelsUi[x].order < channelsUi[y].order)

\* The tree is shown in the order the server has it.
ShownInOrder ==
  up /\ items = <<>> => \A p \in Present \union {0} : Shown(p) = tree[p]

=============================================================================
