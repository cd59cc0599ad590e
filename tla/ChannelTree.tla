----------------------------- MODULE ChannelTree -----------------------------
(***************************************************************************)
(* The channels of a server as tsclientlib's book keeps them: no list, but *)
(* a map in which every channel names its parent and, as its order, the    *)
(* sibling before it (0 for the first).  When the server adds, removes or  *)
(* moves one channel it says nothing of the siblings whose predecessor     *)
(* changes with it: the book relinks them by itself.                       *)
(*                                                                         *)
(* A book is a function from the channels known to [order, parent,         *)
(* subscribed].  The code changes the first channel of a hash map that     *)
(* fits, so an operation returns the set of books it may lead to.          *)
(***************************************************************************)
EXTENDS Naturals

CONSTANT Channels  (* channel ids; 0 is no channel *)

ASSUME ChannelsAssumption == Channels \subseteq Nat \ {0}

Record(order, parent) == [order |-> order, parent |-> parent, subscribed |-> FALSE]

With(book, c, r)  == [x \in DOMAIN book \union {c} |-> IF x = c THEN r ELSE book[x]]
Without(book, c)  == [x \in DOMAIN book \ {c} |-> book[x]]

\* The first channel that fits gets the order o.
Relink(book, fits, o) ==
  IF fits = {} THEN {book} ELSE {[book EXCEPT ![x].order = o] : x \in fits}

\* Mutant: the siblings of a channel that goes are not looked for.
UnlinkNothing(book, c, order) == {book}

\* channel_order_remove: the channel behind c gets c's predecessor.
Unlink(book, c, order) ==
  Relink(book, {x \in DOMAIN book : book[x].order = c /\ x # c}, order)

\* channel_order_insert: the channel that had c's predecessor comes behind c.
Link(book, c, order, parent) ==
  Relink(book, {x \in DOMAIN book : book[x].order = order /\ book[x].parent = parent /\ x # c}, c)

\* add_channel
Added(book, c, order, parent) ==
  {With(b, c, Record(order, parent)) : b \in Link(book, c, order, parent)}

\* ChannelCreated: channel_order_cc_fun links, then add_channel links again.
Created(book, c, order, parent) ==
  UNION {Added(b, c, order, parent) : b \in Link(book, c, order, parent)}

\* ChannelDeleted: remove_channel
Deleted(book, c) == Unlink(Without(book, c), c, book[c].order)

\* channel_order_move_fun
Reordered(book, c, order, parent) ==
  UNION {Link(b, c, order, parent) :
           b \in Unlink([book EXCEPT ![c].order = order], c, book[c].order)}

\* ChannelMoved: the functions of the rule run first, then parent is set.
Moved(book, c, order, parent) ==
  {[b EXCEPT ![c].parent = parent] : b \in Reordered(book, c, order, parent)}

\* ChannelEdited with an order: the parent is the one the book has.
Edited(book, c, order) == Reordered(book, c, order, book[c].parent)

----------------------------------------------------------------------------
(* What the orders are for: the siblings form chains.                      *)

\* A book is a function from some of the channels to records.
Records == [order : Nat, parent : Nat, subscribed : BOOLEAN]

Books == UNION {[S -> Records] : S \in SUBSET Channels}

\* The predecessor of a channel is a sibling, and no two siblings have the same.
Linked(book) ==
  /\ \A x \in DOMAIN book : book[x].order # 0 =>
       book[x].order \in DOMAIN book /\ book[book[x].order].parent = book[x].parent
  /\ \A x, y \in DOMAIN book :
       x # y /\ book[x].parent = book[y].parent => book[x].order # book[y].order

\* No channel is its own predecessor, over however many steps: the channels have
\* positions that grow along the orders.
Ranked(book, pos) ==
  /\ pos \in [DOMAIN book -> Nat]
  /\ \A x \in DOMAIN book : book[x].order # 0 => pos[book[x].order] < pos[x]

Chained(book) == Linked(book) /\ \E pos \in [DOMAIN book -> Nat] : Ranked(book, pos)

\* A place the server may name for c: first below a parent, or behind a child
\* of it.
Place(book, c, order, parent) ==
  order # 0 => order \in DOMAIN book \ {c} /\ book[order].parent = parent

=============================================================================
