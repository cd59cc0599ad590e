------------------------------ MODULE TreeProofs ------------------------------
(***************************************************************************)
(* Theorems about ChannelTree and Book, for every set of channels.         *)
(* Relinking keeps the siblings in chains: an operation takes a channel    *)
(* out of its chain (Removed), puts it into one (Inserted), or does both;  *)
(* in between the others are chained without it (Apart).  With that, the   *)
(* book of a connection follows the server's tree, and the clients and     *)
(* subscriptions follow the book.                                          *)
(***************************************************************************)
EXTENDS Book, SequenceTheorems, FiniteSetTheorems, WellFoundedInduction, TLAPS

\* The channels other than c are linked and ranked among themselves.
Apart(b, c, pos) ==
  LET others == DOMAIN b \ {c} IN
  /\ \A x \in others : b[x].order # 0 =>
       b[x].order \in others /\ b[b[x].order].parent = b[x].parent
  /\ \A x, y \in others : x # y /\ b[x].parent = b[y].parent => b[x].order # b[y].order
  /\ \A x \in others : pos[x] \in Nat
  /\ \A x \in others : b[x].order # 0 => pos[b[x].order] < pos[x]

\* b and d agree on the channels other than c.
Agree(b, d, c) ==
  /\ DOMAIN b \ {c} = DOMAIN d \ {c}
  /\ \A y \in DOMAIN b \ {c} : b[y].order = d[y].order /\ b[y].parent = d[y].parent

LEMMA BookTypes ==
  ASSUME NEW bk \in Books
  PROVE  /\ DOMAIN bk \subseteq Channels
         /\ \A x \in DOMAIN bk : bk[x] \in Records
         /\ \A x \in DOMAIN bk : bk[x].order \in Nat /\ bk[x].parent \in Nat /\ x \in Nat /\ x # 0
<1>1. PICK S \in SUBSET Channels : bk \in [S -> Records]
  BY DEF Books
<1>2. DOMAIN bk = S /\ \A x \in S : bk[x] \in Records
  BY <1>1
<1> QED BY <1>2, ChannelsAssumption DEF Records

\* e differs from d only in orders.
Reorders(e, d) ==
  /\ e \in Books /\ DOMAIN e = DOMAIN d
  /\ \A y \in DOMAIN d : e[y].parent = d[y].parent /\ e[y].subscribed = d[y].subscribed

\* One channel that fits, if there is one, has the order o.
Relinks(e, d, fits, o) ==
  /\ Reorders(e, d)
  /\ \/ fits = {} /\ e = d
     \/ \E x \in fits : \A y \in DOMAIN d : e[y].order = IF y = x THEN o ELSE d[y].order

LEMMA Relinked ==
  ASSUME NEW bk \in Books, NEW fits, fits \subseteq DOMAIN bk, NEW o \in Nat,
         NEW b \in Relink(bk, fits, o)
  PROVE  Relinks(b, bk, fits, o)
<1>1. CASE fits = {}
  <2>1. b = bk
    BY <1>1 DEF Relink
  <2> QED BY <1>1, <2>1 DEF Relinks, Reorders
<1>2. CASE fits # {}
  <2>1. PICK x \in fits : b = [bk EXCEPT ![x].order = o]
    BY <1>2 DEF Relink
  <2>2. DOMAIN b = DOMAIN bk /\ b = [y \in DOMAIN bk |-> b[y]]
    BY <2>1
  <2>3. \A y \in DOMAIN bk : bk[y] \in Records
    BY BookTypes
  <2>4. b[x] = [bk[x] EXCEPT !.order = o] /\ \A y \in DOMAIN bk \ {x} : b[y] = bk[y]
    BY <2>1
  <2>5. /\ b[x].order = o /\ b[x].parent = bk[x].parent /\ b[x].subscribed = bk[x].subscribed
        /\ b[x] \in Records
    BY <2>3, <2>4 DEF Records
  <2>6. \A y \in DOMAIN bk : b[y] \in Records
    BY <2>3, <2>4, <2>5
  <2>7. b \in Books
    <3>1. DOMAIN bk \in SUBSET Channels
      BY BookTypes
    <3>2. b \in [DOMAIN bk -> Records]
      BY <2>2, <2>6
    <3> QED BY <3>1, <3>2 DEF Books
  <2>8. Reorders(b, bk)
    BY <2>2, <2>4, <2>5, <2>7 DEF Reorders
  <2> QED BY <2>4, <2>5, <2>8 DEF Relinks
<1> QED BY <1>1, <1>2

\* channel_order_remove leaves the others chained without c.
LEMMA Removed ==
  ASSUME NEW bk \in Books, Chained(bk), NEW c \in DOMAIN bk,
         NEW d \in Books, Agree(d, bk, c), NEW b \in Unlink(d, c, bk[c].order)
  PROVE  /\ b \in Books /\ DOMAIN b = DOMAIN d
         /\ \A y \in DOMAIN d : b[y].parent = d[y].parent
         /\ c \in DOMAIN d => b[c].order = d[c].order
         /\ \E pos : Apart(b, c, pos)
<1> DEFINE fits == {x \in DOMAIN d : d[x].order = c /\ x # c}
           o == bk[c].order
<1>0. o \in Nat /\ c \in Nat \ {0}
  BY BookTypes
<1>1. /\ b \in Books /\ DOMAIN b = DOMAIN d
      /\ \A y \in DOMAIN d : b[y].parent = d[y].parent
      /\ \/ fits = {} /\ b = d
         \/ \E x \in fits : \A y \in DOMAIN d : b[y].order = IF y = x THEN o ELSE d[y].order
  <2>1. b \in Relink(d, fits, o)
    BY DEF Unlink
  <2> HIDE DEF fits, o
  <2>2. fits \subseteq DOMAIN d
    BY DEF fits
  <2>3. Relinks(b, d, fits, o)
    BY <2>1, <2>2, <1>0, Relinked
  <2> QED BY <2>3 DEF Relinks, Reorders
<1>2. PICK pos \in [DOMAIN bk -> Nat] : Ranked(bk, pos)
  BY DEF Chained
<1>3. Linked(bk)
  BY DEF Chained
<1> DEFINE others == DOMAIN bk \ {c}
<1>4. DOMAIN b \ {c} = others /\ DOMAIN d \ {c} = others
  BY <1>1 DEF Agree
<1>5. \A x \in others : d[x].order = bk[x].order /\ d[x].parent = bk[x].parent
                        /\ b[x].parent = bk[x].parent
  BY <1>1, <1>4 DEF Agree
<1>6. \A x \in others : b[x].order = IF bk[x].order = c THEN o ELSE bk[x].order
  <2>1. CASE fits = {} /\ b = d
    <3>1. \A x \in others : bk[x].order # c
      BY <2>1, <1>4, <1>5
    <3> QED BY <2>1, <3>1, <1>5
  <2>2. ASSUME NEW x \in fits, \A y \in DOMAIN d : b[y].order = IF y = x THEN o ELSE d[y].order
        PROVE  \A y \in others : b[y].order = IF bk[y].order = c THEN o ELSE bk[y].order
    <3>1. x \in others /\ bk[x].order = c
      BY <1>4, <1>5
    <3>2. \A y \in others : y # x => bk[y].order # c
      BY <3>1, <1>0, <1>3 DEF Linked
    <3> QED BY <2>2, <3>1, <3>2, <1>4, <1>5
  <2> QED BY <2>1, <2>2, <1>1
<1>7. \A x \in others : bk[x].order \in Nat /\ (bk[x].order # 0 => bk[x].order \in DOMAIN bk)
  BY <1>3, BookTypes DEF Linked
<1>8. o # 0 => o \in others /\ bk[o].parent = bk[c].parent /\ pos[o] < pos[c]
  BY <1>2, <1>3 DEF Linked, Ranked
<1>9. \A x \in others : bk[x].order = c => bk[x].parent = bk[c].parent /\ pos[c] < pos[x]
  BY <1>0, <1>2, <1>3 DEF Linked, Ranked
<1>10. \A x \in others : b[x].order # 0 => b[x].order \in others /\ b[b[x].order].parent = b[x].parent
  BY <1>3, <1>5, <1>6, <1>7, <1>8, <1>9 DEF Linked
<1>11. \A x, y \in others : x # y /\ b[x].parent = b[y].parent => b[x].order # b[y].order
  BY <1>3, <1>5, <1>6, <1>9 DEF Linked
<1>12. \A x \in others : b[x].order # 0 => pos[b[x].order] < pos[x]
  <2>1. \A x \in DOMAIN bk : pos[x] \in Nat
    BY <1>2
  <2>2. \A x \in others : bk[x].order # 0 => pos[bk[x].order] < pos[x]
    BY <1>2 DEF Ranked
  <2> QED BY <2>1, <2>2, <1>6, <1>7, <1>8, <1>9
<1>13. Apart(b, c, pos)
  BY <1>2, <1>4, <1>10, <1>11, <1>12 DEF Apart
<1>14. c \in DOMAIN d => b[c].order = d[c].order
  BY <1>1
<1> QED BY <1>1, <1>13, <1>14

\* channel_order_insert changes at most one channel, and afterwards none fits.
LEMMA Linking ==
  ASSUME NEW b \in Books, NEW c \in Channels, NEW pos, Apart(b, c, pos),
         NEW order \in Nat, NEW parent \in Nat, NEW e \in Link(b, c, order, parent)
  PROVE  /\ e \in Books /\ DOMAIN e = DOMAIN b
         /\ \A y \in DOMAIN b : e[y].parent = b[y].parent
         /\ \A y \in DOMAIN b \ {c} :
              e[y].order = IF b[y].order = order /\ b[y].parent = parent THEN c ELSE b[y].order
         /\ c \in DOMAIN b => e[c].order = b[c].order
<1> DEFINE fits == {x \in DOMAIN b : b[x].order = order /\ b[x].parent = parent /\ x # c}
<1>0. c \in Nat
  BY ChannelsAssumption
<1>1. /\ e \in Books /\ DOMAIN e = DOMAIN b
      /\ \A y \in DOMAIN b : e[y].parent = b[y].parent
      /\ \/ fits = {} /\ e = b
         \/ \E x \in fits : \A y \in DOMAIN b : e[y].order = IF y = x THEN c ELSE b[y].order
  <2>1. e \in Relink(b, fits, c)
    BY DEF Link
  <2> HIDE DEF fits
  <2>2. fits \subseteq DOMAIN b
    BY DEF fits
  <2>3. Relinks(e, b, fits, c)
    BY <2>1, <2>2, <1>0, Relinked
  <2> QED BY <2>3 DEF Relinks, Reorders
<1>2. \A x, y \in DOMAIN b \ {c} : x # y /\ b[x].parent = b[y].parent => b[x].order # b[y].order
  BY DEF Apart
<1>3. \A x, y \in fits : x = y
  BY <1>2
<1> QED BY <1>1, <1>3

\* channel_order_insert puts c into the chain of its place.
LEMMA Inserted ==
  ASSUME NEW b \in Books, NEW c \in Channels, NEW old, Apart(b, c, old),
         NEW order \in Nat, NEW parent \in Nat, Place(b, c, order, parent),
         NEW e \in Link(b, c, order, parent),
         NEW f \in Books, c \in DOMAIN f, Agree(f, e, c),
         f[c].order = order, f[c].parent = parent
  PROVE  Chained(f)
<1> DEFINE others == DOMAIN b \ {c}
           pos == [x \in DOMAIN f |->
                     IF x # c THEN 2 * old[x] + 2 ELSE IF order = 0 THEN 1 ELSE 2 * old[order] + 3]
           behind(x) == b[x].order = order /\ b[x].parent = parent
<1>0. c \in Nat \ {0} /\ \A x \in DOMAIN b : b[x].order \in Nat
  BY ChannelsAssumption, BookTypes
<1>1. /\ DOMAIN f = others \union {c}
      /\ \A x \in others : f[x].parent = b[x].parent
      /\ \A x \in others : f[x].order = IF behind(x) THEN c ELSE b[x].order
  <2>1. /\ DOMAIN e = DOMAIN b
        /\ \A y \in DOMAIN b : e[y].parent = b[y].parent
        /\ \A y \in others : e[y].order = IF behind(y) THEN c ELSE b[y].order
    BY Linking
  <2>2. DOMAIN f \ {c} = others
    BY <2>1 DEF Agree
  <2> QED BY <2>1, <2>2 DEF Agree
<1>2. /\ \A x \in others : b[x].order # 0 =>
           b[x].order \in others /\ b[b[x].order].parent = b[x].parent
      /\ \A x, y \in others : x # y /\ b[x].parent = b[y].parent => b[x].order # b[y].order
  BY DEF Apart
<1>3. order # 0 => order \in others /\ b[order].parent = parent
  BY DEF Place
<1>4. \A x \in others : b[x].order # c
  BY <1>0, <1>2
<1>5. Linked(f)
  <2>1. ASSUME NEW x \in DOMAIN f, f[x].order # 0
        PROVE  f[x].order \in DOMAIN f /\ f[f[x].order].parent = f[x].parent
    <3>1. CASE x = c
      <4>1. f[x].order \in others /\ b[f[x].order].parent = f[x].parent
        BY <2>1, <3>1, <1>3
      <4> QED BY <4>1, <1>1
    <3>2. CASE x \in others /\ behind(x)
      <4>1. f[x].order = c /\ f[x].parent = parent
        BY <3>2, <1>1
      <4> QED BY <4>1
    <3>3. CASE x \in others /\ ~behind(x)
      <4>1. f[x].order = b[x].order /\ f[x].parent = b[x].parent
        BY <3>3, <1>1
      <4>2. f[x].order \in others /\ b[f[x].order].parent = f[x].parent
        BY <2>1, <3>3, <4>1, <1>2
      <4> QED BY <4>2, <1>1
    <3> QED BY <3>1, <3>2, <3>3, <1>1
  <2>2. ASSUME NEW x \in DOMAIN f, NEW y \in DOMAIN f, x # y, f[x].parent = f[y].parent
        PROVE  f[x].order # f[y].order
    <3>1. CASE x \in others /\ y \in others
      BY <2>2, <3>1, <1>1, <1>2, <1>4
    <3>2. CASE x = c /\ y \in others
      BY <2>2, <3>2, <1>0, <1>1, <1>3
    <3>3. CASE y = c /\ x \in others
      BY <2>2, <3>3, <1>0, <1>1, <1>3
    <3> QED BY <2>2, <3>1, <3>2, <3>3, <1>1
  <2> QED BY <2>1, <2>2 DEF Linked
<1>6. /\ \A x \in others : old[x] \in Nat
      /\ \A x \in others : b[x].order # 0 => old[b[x].order] < old[x]
  BY DEF Apart
<1>7. pos \in [DOMAIN f -> Nat]
  <2>1. \A x \in DOMAIN f : (IF x # c THEN 2 * old[x] + 2 ELSE IF order = 0 THEN 1 ELSE 2 * old[order] + 3) \in Nat
    BY <1>1, <1>3, <1>6
  <2> QED BY <2>1
<1>8. ASSUME NEW x \in DOMAIN f, f[x].order # 0 PROVE pos[f[x].order] < pos[x]
  <2>1. CASE x = c
    <3>1. order \in others /\ f[x].order = order /\ order # c
      BY <1>3, <1>8, <2>1
    <3>2. pos[order] = 2 * old[order] + 2 /\ pos[c] = 2 * old[order] + 3
      BY <3>1, <1>1, <1>8, <2>1
    <3> QED BY <3>1, <3>2, <2>1, <1>6
  <2>2. CASE x \in others /\ behind(x)
    <3>1. f[x].order = c /\ pos[x] = 2 * old[x] + 2
      BY <2>2, <1>1
    <3>2. pos[c] = IF order = 0 THEN 1 ELSE 2 * old[order] + 3
      BY <1>1
    <3>3. order # 0 => old[order] < old[x]
      BY <2>2, <1>6
    <3> QED BY <3>1, <3>2, <3>3, <2>2, <1>3, <1>6
  <2>3. CASE x \in others /\ ~behind(x)
    <3>1. f[x].order = b[x].order /\ b[x].order \in others
      BY <2>3, <1>1, <1>2, <1>8
    <3>2. pos[x] = 2 * old[x] + 2 /\ pos[b[x].order] = 2 * old[b[x].order] + 2
      BY <2>3, <3>1, <1>1
    <3> QED BY <3>1, <3>2, <2>3, <1>6, <1>8
  <2> QED BY <2>1, <2>2, <2>3, <1>1
<1>9. Ranked(f, pos)
  BY <1>7, <1>8 DEF Ranked
<1> HIDE DEF pos
<1> QED BY <1>5, <1>7, <1>9 DEF Chained

\* A chained book without c is chained apart from c.
LEMMA ApartFromNew ==
  ASSUME NEW bk \in Books, Chained(bk), NEW c \in Channels \ DOMAIN bk
  PROVE  \E pos : Apart(bk, c, pos)
<1>1. PICK pos \in [DOMAIN bk -> Nat] : Ranked(bk, pos)
  BY DEF Chained
<1>2. DOMAIN bk \ {c} = DOMAIN bk
  OBVIOUS
<1>3. Apart(bk, c, pos)
  BY <1>1, <1>2 DEF Apart, Chained, Linked, Ranked
<1> QED BY <1>3

\* With and Without, on every channel.
LEMMA WithAgrees ==
  ASSUME NEW b \in Books, NEW c \in Channels,
         NEW r \in Records
  PROVE  /\ With(b, c, r) \in Books /\ DOMAIN With(b, c, r) = DOMAIN b \union {c}
         /\ Agree(With(b, c, r), b, c) /\ With(b, c, r)[c] = r
<1> DEFINE f == With(b, c, r)
<1>1. DOMAIN f = DOMAIN b \union {c} /\ f[c] = r
  BY DEF With
<1>2. \A y \in DOMAIN b \ {c} : f[y] = b[y]
  BY DEF With
<1>3. \A y \in DOMAIN b : b[y] \in Records
  BY BookTypes
<1>4. f \in [DOMAIN b \union {c} -> Records]
  BY <1>1, <1>2, <1>3 DEF With
<1>5. DOMAIN b \union {c} \in SUBSET Channels
  BY BookTypes
<1>6. f \in Books
  BY <1>4, <1>5 DEF Books
<1>7. Agree(f, b, c)
  BY <1>1, <1>2 DEF Agree
<1> QED BY <1>1, <1>6, <1>7

LEMMA WithoutAgrees ==
  ASSUME NEW bk \in Books, NEW c
  PROVE  /\ Without(bk, c) \in Books /\ DOMAIN Without(bk, c) = DOMAIN bk \ {c}
         /\ Agree(Without(bk, c), bk, c)
<1> DEFINE f == Without(bk, c)
<1>1. DOMAIN f = DOMAIN bk \ {c} /\ \A y \in DOMAIN bk \ {c} : f[y] = bk[y]
  BY DEF Without
<1>2. f \in [DOMAIN bk \ {c} -> Records]
  BY BookTypes DEF Without
<1>3. DOMAIN bk \ {c} \in SUBSET Channels
  BY BookTypes
<1>4. f \in Books
  BY <1>2, <1>3 DEF Books
<1> QED BY <1>1, <1>4 DEF Agree

\* A new channel is chained in, though channel_order_cc_fun and add_channel both
\* relink for it.
THEOREM CreatedChained ==
  ASSUME NEW bk \in Books, Chained(bk), NEW c \in Channels \ DOMAIN bk,
         NEW order \in Nat, NEW parent \in Nat, Place(bk, c, order, parent),
         NEW f \in Created(bk, c, order, parent)
  PROVE  Chained(f) /\ DOMAIN f = DOMAIN bk \union {c}
<1>1. PICK pos : Apart(bk, c, pos)
  BY ApartFromNew
<1>2. PICK b \in Link(bk, c, order, parent) : f \in Added(b, c, order, parent)
  BY DEF Created
<1>3. PICK e \in Link(b, c, order, parent) : f = With(e, c, Record(order, parent))
  BY <1>2 DEF Added
<1>4. /\ b \in Books /\ DOMAIN b = DOMAIN bk
      /\ \A y \in DOMAIN bk : b[y].parent = bk[y].parent
      /\ \A y \in DOMAIN bk \ {c} :
           b[y].order = IF bk[y].order = order /\ bk[y].parent = parent THEN c ELSE bk[y].order
  BY <1>1, Linking
<1>5. c # order
  BY ChannelsAssumption DEF Place
<1>6. {x \in DOMAIN b : b[x].order = order /\ b[x].parent = parent /\ x # c} = {}
  BY <1>4, <1>5
<1>7. e = b
  BY <1>3, <1>6 DEF Link, Relink
<1>8. /\ f \in Books /\ DOMAIN f = DOMAIN bk \union {c} /\ Agree(f, b, c)
      /\ f[c].order = order /\ f[c].parent = parent
  <2> DEFINE r == Record(order, parent)
  <2>1. r \in Records /\ r.order = order /\ r.parent = parent
    BY DEF Record, Records
  <2>2. f = With(b, c, r) /\ b \in Books /\ DOMAIN b = DOMAIN bk /\ c \in Channels
    BY <1>3, <1>4, <1>7
  <2> HIDE DEF r
  <2>3. /\ With(b, c, r) \in Books /\ DOMAIN With(b, c, r) = DOMAIN b \union {c}
        /\ Agree(With(b, c, r), b, c) /\ With(b, c, r)[c] = r
    BY <2>1, <2>2, WithAgrees
  <2> QED BY <2>1, <2>2, <2>3
<1> QED BY <1>1, <1>2, <1>8, Inserted

\* A channel that is deleted is taken out of its chain and no other is lost.
THEOREM DeletedChained ==
  ASSUME NEW bk \in Books, Chained(bk), NEW c \in DOMAIN bk, NEW f \in Deleted(bk, c)
  PROVE  Chained(f) /\ DOMAIN f = DOMAIN bk \ {c}
<1>1. f \in Unlink(Without(bk, c), c, bk[c].order)
  BY DEF Deleted
<1>2. /\ Without(bk, c) \in Books /\ DOMAIN Without(bk, c) = DOMAIN bk \ {c}
      /\ Agree(Without(bk, c), bk, c)
  BY WithoutAgrees
<1>3. DOMAIN f = DOMAIN bk \ {c} /\ \E pos : Apart(f, c, pos)
  BY <1>1, <1>2, Removed
<1>4. PICK pos : Apart(f, c, pos)
  BY <1>3
<1> DEFINE rank == [x \in DOMAIN f |-> pos[x]]
<1>5. DOMAIN f \ {c} = DOMAIN f
  BY <1>3
<1>6. rank \in [DOMAIN f -> Nat]
  BY <1>4, <1>5 DEF Apart
<1>7. Linked(f)
  BY <1>4, <1>5 DEF Apart, Linked
<1>8. Ranked(f, rank)
  BY <1>4, <1>5, <1>6 DEF Apart, Ranked
<1> QED BY <1>3, <1>6, <1>7, <1>8 DEF Chained

\* Taking a channel out and putting it in elsewhere, or where it was.
LEMMA ReorderedRecords ==
  ASSUME NEW bk \in Books, Chained(bk), NEW c \in DOMAIN bk,
         NEW order \in Nat, NEW parent \in Nat, Place(bk, c, order, parent),
         NEW e \in Reordered(bk, c, order, parent)
  PROVE  /\ e \in Books /\ DOMAIN e = DOMAIN bk
         /\ e[c].order = order /\ e[c].parent = bk[c].parent
         /\ \A f \in Books :
              Agree(f, e, c) /\ c \in DOMAIN f /\ f[c].order = order /\ f[c].parent = parent
              => Chained(f)
<1> DEFINE d == [bk EXCEPT ![c].order = order]
<1>0. c \in Channels /\ \A x \in DOMAIN bk : bk[x] \in Records
  BY BookTypes
<1>1. /\ DOMAIN d = DOMAIN bk /\ \A y \in DOMAIN bk \ {c} : d[y] = bk[y]
      /\ d[c] = [bk[c] EXCEPT !.order = order]
  OBVIOUS
<1>2. d[c].order = order /\ d[c].parent = bk[c].parent /\ d[c] \in Records
  BY <1>0, <1>1 DEF Records
<1>3. d \in Books /\ Agree(d, bk, c)
  <2>1. d \in [DOMAIN bk -> Records]
    BY <1>0, <1>1, <1>2
  <2>2. DOMAIN bk \in SUBSET Channels
    BY BookTypes
  <2>3. d \in Books
    BY <2>1, <2>2 DEF Books
  <2> QED BY <1>1, <2>3 DEF Agree
<1>4. PICK b \in Unlink(d, c, bk[c].order) : e \in Link(b, c, order, parent)
  BY DEF Reordered
<1> HIDE DEF d
<1>5. /\ b \in Books /\ DOMAIN b = DOMAIN bk /\ b[c].order = order
      /\ \A y \in DOMAIN bk : b[y].parent = d[y].parent
      /\ \E pos : Apart(b, c, pos)
  <2>1. DOMAIN d = DOMAIN bk /\ c \in DOMAIN d
    BY <1>1
  <2>2. /\ b \in Books /\ DOMAIN b = DOMAIN d /\ b[c].order = d[c].order
        /\ \A y \in DOMAIN d : b[y].parent = d[y].parent
        /\ \E pos : Apart(b, c, pos)
    BY <1>3, <2>1, Removed
  <2> QED BY <1>2, <2>1, <2>2
<1>6. PICK pos : Apart(b, c, pos)
  BY <1>5
<1>7. Place(b, c, order, parent)
  BY <1>1, <1>5 DEF Place
<1>8. /\ e \in Books /\ DOMAIN e = DOMAIN bk
      /\ e[c].order = order /\ e[c].parent = bk[c].parent
  BY <1>0, <1>2, <1>4, <1>5, <1>6, Linking
<1>9. ASSUME NEW f \in Books, Agree(f, e, c), c \in DOMAIN f, f[c].order = order, f[c].parent = parent
      PROVE  Chained(f)
  BY <1>0, <1>4, <1>5, <1>6, <1>7, <1>9, Inserted
<1> QED BY <1>8, <1>9

\* A move, to whatever place the server names, leaves the siblings chained on
\* both sides and c in that place.
THEOREM MovedChained ==
  ASSUME NEW bk \in Books, Chained(bk), NEW c \in DOMAIN bk,
         NEW order \in Nat, NEW parent \in Nat, Place(bk, c, order, parent),
         NEW f \in Moved(bk, c, order, parent)
  PROVE  Chained(f) /\ DOMAIN f = DOMAIN bk /\ f[c].order = order /\ f[c].parent = parent
<1>1. PICK e \in Reordered(bk, c, order, parent) : f = [e EXCEPT ![c].parent = parent]
  BY DEF Moved
<1>2. /\ e \in Books /\ DOMAIN e = DOMAIN bk /\ e[c].order = order
      /\ \A g \in Books :
           Agree(g, e, c) /\ c \in DOMAIN g /\ g[c].order = order /\ g[c].parent = parent
           => Chained(g)
  BY ReorderedRecords
<1>3. /\ DOMAIN f = DOMAIN e /\ f[c] = [e[c] EXCEPT !.parent = parent]
      /\ \A y \in DOMAIN e \ {c} : f[y] = e[y]
  BY <1>1, <1>2
<1>4. \A y \in DOMAIN e : e[y] \in Records
  BY <1>2, BookTypes
<1>5. f[c].order = order /\ f[c].parent = parent /\ f[c] \in Records
  BY <1>2, <1>3, <1>4 DEF Records
<1>6. f \in Books
  <2>1. f \in [DOMAIN e -> Records]
    BY <1>1, <1>3, <1>4, <1>5
  <2>2. DOMAIN e \in SUBSET Channels
    BY <1>2, BookTypes
  <2> QED BY <2>1, <2>2 DEF Books
<1>7. Agree(f, e, c)
  BY <1>3 DEF Agree
<1> QED BY <1>2, <1>3, <1>5, <1>6, <1>7

\* An edit of the order keeps the parent.
THEOREM EditedChained ==
  ASSUME NEW bk \in Books, Chained(bk), NEW c \in DOMAIN bk,
         NEW order \in Nat, Place(bk, c, order, bk[c].parent),
         NEW f \in Edited(bk, c, order)
  PROVE  Chained(f) /\ DOMAIN f = DOMAIN bk /\ f[c].order = order /\ f[c].parent = bk[c].parent
<1>1. f \in Reordered(bk, c, order, bk[c].parent) /\ bk[c].parent \in Nat
  BY BookTypes DEF Edited
<1>2. /\ f \in Books /\ DOMAIN f = DOMAIN bk
      /\ f[c].order = order /\ f[c].parent = bk[c].parent
      /\ \A g \in Books :
           Agree(g, f, c) /\ c \in DOMAIN g /\ g[c].order = order /\ g[c].parent = bk[c].parent
           => Chained(g)
  BY <1>1, ReorderedRecords
<1>3. Agree(f, f, c)
  BY DEF Agree
<1> QED BY <1>2, <1>3


----------------------------------------------------------------------------
(* The server's trees: each channel in one place, behind one sibling.      *)

Nodes == Channels \union {0}

Trees == [Nodes -> Seq(Channels)]

\* Every channel is in one place.
Once(t) ==
  \A p, q \in Nodes : \A i \in 1..Len(t[p]), j \in 1..Len(t[q]) : t[p][i] = t[q][j] => p = q /\ i = j

\* No channel is twice among the siblings.
Distinct(s) == \A i, j \in 1..Len(s) : s[i] = s[j] => i = j

\* x is in t, below p and behind o.
Has(t, x, o, p) == p \in Nodes /\ \E k \in 1..Len(t[p]) : t[p][k] = x /\ Before(t[p], k) = o

Placed(t) == UNION {ToSet(t[p]) : p \in Nodes}

\* t is s with e at the k-th place, or without its k-th place.
Widened(s, k, e, t) ==
  /\ t \in Seq(Channels) /\ Len(t) = Len(s) + 1
  /\ \A i \in 1..Len(t) : t[i] = IF i < k THEN s[i] ELSE IF i = k THEN e ELSE s[i - 1]
Narrowed(s, k, t) ==
  /\ t \in Seq(Channels) /\ Len(t) = Len(s) - 1
  /\ \A i \in 1..Len(t) : t[i] = IF i < k THEN s[i] ELSE s[i + 1]

LEMMA InsertedAt ==
  ASSUME NEW s \in Seq(Channels), NEW k \in Nat \ {0}, k <= Len(s) + 1, NEW e \in Channels, NEW t, t = InsertAt(s, k, e)
  PROVE  Widened(s, k, e, t)
<1> DEFINE a == SubSeq(s, 1, k - 1)
           b == SubSeq(s, k, Len(s))
<1>0. Len(s) \in Nat /\ k \in Nat /\ 1 <= k /\ k <= Len(s) + 1
  BY LenProperties
<1>1. a \in Seq(Channels) /\ Len(a) = k - 1 /\ \A i \in 1..k - 1 : a[i] = s[i]
  BY <1>0, SubSeqProperties
<1>2. b \in Seq(Channels) /\ Len(b) = Len(s) - k + 1 /\ \A i \in 1..Len(s) - k + 1 : b[i] = s[k + i - 1]
  BY <1>0, SubSeqProperties
<1>3. t = (a \o <<e>>) \o b
  BY DEF InsertAt
<1> HIDE DEF a, b
<1> DEFINE ae == a \o <<e>>
<1>4. <<e>> \in Seq(Channels) /\ Len(<<e>>) = 1 /\ <<e>>[1] = e
  OBVIOUS
<1>5. ae \in Seq(Channels) /\ Len(ae) = k /\ \A i \in 1..k : ae[i] = IF i < k THEN s[i] ELSE e
  BY <1>0, <1>1, <1>4, ConcatProperties
<1> HIDE DEF ae
<1>6. t = ae \o b
  BY <1>3 DEF ae
<1>7. t \in Seq(Channels) /\ Len(t) = Len(s) + 1
  <2>1. ae \o b \in Seq(Channels) /\ Len(ae \o b) = Len(ae) + Len(b)
    BY <1>2, <1>5, ConcatProperties, Zenon
  <2>2. k + (Len(s) - k + 1) = Len(s) + 1
    BY <1>0
  <2>3. Len(ae) + Len(b) = Len(s) + 1
    BY <1>2, <1>5, <2>2
  <2> QED BY <2>1, <2>3, <1>6
<1>c. \A i \in 1..Len(ae) + Len(b) : t[i] = IF i <= Len(ae) THEN ae[i] ELSE b[i - Len(ae)]
  <2>1. \A i \in 1..Len(ae) + Len(b) : (ae \o b)[i] = IF i <= Len(ae) THEN ae[i] ELSE b[i - Len(ae)]
    BY <1>2, <1>5, ConcatProperties
  <2> QED BY <2>1, <1>6
<1>8. ASSUME NEW i \in 1..Len(t) PROVE t[i] = IF i < k THEN s[i] ELSE IF i = k THEN e ELSE s[i - 1]
  <2>1. CASE i <= k
    BY <2>1, <1>0, <1>2, <1>5, <1>7, <1>c
  <2>2. CASE i > k
    <3>1. t[i] = b[i - k]
      BY <2>2, <1>0, <1>2, <1>5, <1>7, <1>c
    <3> DEFINE j == i - k
    <3>2. j \in 1..Len(s) - k + 1 /\ k + j - 1 = i - 1
      BY <2>2, <1>0, <1>7
    <3> HIDE DEF j
    <3>3. b[j] = s[i - 1]
      BY <1>2, <3>2
    <3>4. t[i] = b[j]
      BY <3>1 DEF j
    <3> QED BY <2>2, <3>3, <3>4, <1>0
  <2> QED BY <2>1, <2>2, <1>0, <1>7
<1> QED BY <1>7, <1>8 DEF Widened

LEMMA RemovedAt ==
  ASSUME NEW s \in Seq(Channels), NEW k \in 1..Len(s), NEW t, t = RemoveAt(s, k)
  PROVE  Narrowed(s, k, t)
<1> DEFINE a == SubSeq(s, 1, k - 1)
           b == SubSeq(s, k + 1, Len(s))
<1>0. Len(s) \in Nat /\ k \in Nat /\ 1 <= k /\ k <= Len(s)
  BY LenProperties
<1>1. a \in Seq(Channels) /\ Len(a) = k - 1 /\ \A i \in 1..k - 1 : a[i] = s[i]
  BY <1>0, SubSeqProperties
<1>2. b \in Seq(Channels) /\ Len(b) = Len(s) - k /\ \A i \in 1..Len(s) - k : b[i] = s[k + i]
  BY <1>0, SubSeqProperties
<1>3. t = a \o b
  BY DEF RemoveAt
<1> HIDE DEF a, b
<1>4. t \in Seq(Channels) /\ Len(t) = Len(s) - 1
  <2>1. a \o b \in Seq(Channels) /\ Len(a \o b) = Len(a) + Len(b)
    BY <1>1, <1>2, ConcatProperties, Zenon
  <2>2. (k - 1) + (Len(s) - k) = Len(s) - 1
    BY <1>0
  <2>3. Len(a) + Len(b) = Len(s) - 1
    BY <1>1, <1>2, <2>2
  <2> QED BY <2>1, <2>3, <1>3
<1>c. \A i \in 1..Len(a) + Len(b) : t[i] = IF i <= Len(a) THEN a[i] ELSE b[i - Len(a)]
  <2>1. \A i \in 1..Len(a) + Len(b) : (a \o b)[i] = IF i <= Len(a) THEN a[i] ELSE b[i - Len(a)]
    BY <1>1, <1>2, ConcatProperties
  <2> QED BY <2>1, <1>3
<1>5. ASSUME NEW i \in 1..Len(t) PROVE t[i] = IF i < k THEN s[i] ELSE s[i + 1]
  <2>0. i \in 1..Len(a) + Len(b) /\ Len(a) = k - 1
    BY <1>0, <1>1, <1>2, <1>4
  <2>1. CASE i < k
    BY <2>0, <2>1, <1>0, <1>1, <1>c
  <2>2. CASE i >= k
    <3>1. t[i] = b[i - (k - 1)]
      BY <2>0, <2>2, <1>0, <1>1, <1>c
    <3>2. i - (k - 1) \in 1..Len(s) - k /\ k + (i - (k - 1)) = i + 1
      BY <2>2, <1>0, <1>4
    <3>3. b[i - (k - 1)] = s[k + (i - (k - 1))]
      BY <1>2, <3>2
    <3> QED BY <2>2, <3>1, <3>2, <3>3, <1>0
  <2> QED BY <2>1, <2>2, <1>0, <1>4
<1> QED BY <1>4, <1>5 DEF Narrowed

\* What inserting and removing does to the order of the siblings s.
InsertedAs(s, k, c, v) ==
  /\ v \in Seq(Channels) /\ Distinct(v) /\ k \in 1..Len(v)
  /\ v[k] = c /\ Before(v, k) = Before(s, k)
  /\ \A j \in 1..Len(v) : j # k => \E i \in 1..Len(s) : v[j] = s[i]
  /\ \A i \in 1..Len(s) : \E j \in 1..Len(v) :
       v[j] = s[i] /\ Before(v, j) = IF i = k THEN c ELSE Before(s, i)
  /\ \A i \in 1..Len(s) : Before(s, i) = Before(s, k) => i = k

RemovedAs(s, k, v) ==
  /\ v \in Seq(Channels) /\ Distinct(v)
  /\ \A j \in 1..Len(v) : v[j] # s[k] /\ \E i \in 1..Len(s) : v[j] = s[i]
  /\ \A i \in 1..Len(s) : i # k => \E j \in 1..Len(v) :
       v[j] = s[i] /\ Before(v, j) = IF Before(s, i) = s[k] THEN Before(s, k) ELSE Before(s, i)

\* A channel is put to the k-th place among its siblings.
LEMMA InsertedOrder ==
  ASSUME NEW s \in Seq(Channels), NEW k \in Nat \ {0}, k <= Len(s) + 1, NEW c \in Channels,
         Distinct(s), \A i \in 1..Len(s) : s[i] # c
  PROVE  InsertedAs(s, k, c, InsertAt(s, k, c))
<1> DEFINE v == InsertAt(s, k, c)
<1>0. v = InsertAt(s, k, c)
  OBVIOUS
<1> HIDE DEF v
<1>1. /\ v \in Seq(Channels) /\ Len(v) = Len(s) + 1
      /\ \A i \in 1..Len(v) : v[i] = IF i < k THEN s[i] ELSE IF i = k THEN c ELSE s[i - 1]
  <2>1. Widened(s, k, c, v)
    BY <1>0, InsertedAt
  <2> QED BY <2>1 DEF Widened
<1>2. Len(s) \in Nat /\ k \in Nat /\ 1 <= k /\ k <= Len(s) + 1
  BY LenProperties
<1>3. /\ \A j \in 1..Len(s) + 1 : Before(s, j) = IF j = 1 THEN 0 ELSE s[j - 1]
      /\ \A j \in 1..Len(s) + 1 : Before(v, j) = IF j = 1 THEN 0 ELSE v[j - 1]
  BY DEF Before
<1>4. \A i \in 1..Len(s) : s[i] # 0
  BY ElementOfSeq, ChannelsAssumption
<1>5. k \in 1..Len(v) /\ v[k] = c /\ Before(v, k) = Before(s, k)
  <2>1. k \in 1..Len(v) /\ v[k] = c
    BY <1>1, <1>2
  <2>2. CASE k = 1
    BY <2>1, <2>2, <1>1, <1>3
  <2>3. CASE k # 1
    <3>1. k - 1 \in 1..Len(v) /\ k - 1 < k
      BY <1>1, <1>2, <2>3
    <3> QED BY <1>1, <1>2, <1>3, <2>1, <2>3, <3>1
  <2> QED BY <2>1, <2>2, <2>3
<1>6. ASSUME NEW j \in 1..Len(v), j # k PROVE \E i \in 1..Len(s) : v[j] = s[i]
  <2>1. CASE j < k
    <3>1. j \in 1..Len(s) /\ v[j] = s[j]
      BY <1>1, <1>2, <2>1
    <3> QED BY <3>1
  <2>2. CASE j > k
    <3>1. j - 1 \in 1..Len(s) /\ v[j] = s[j - 1]
      BY <1>1, <1>2, <2>2
    <3> QED BY <3>1
  <2>3. j < k \/ j > k
    BY <1>1, <1>2, <1>6
  <2> QED BY <2>1, <2>2, <2>3
<1>7. ASSUME NEW i \in 1..Len(s)
      PROVE  \E j \in 1..Len(v) : v[j] = s[i] /\ Before(v, j) = IF i = k THEN c ELSE Before(s, i)
  <2>1. CASE i < k
    <3>1. i \in 1..Len(v) /\ v[i] = s[i]
      BY <1>1, <1>2, <2>1
    <3>2. i # 1 => i - 1 \in 1..Len(v) /\ v[i - 1] = s[i - 1]
      BY <1>1, <1>2, <2>1
    <3>3. Before(v, i) = Before(s, i)
      BY <1>1, <1>2, <1>3, <3>1, <3>2
    <3> QED BY <1>2, <2>1, <3>1, <3>3
  <2>2. CASE i >= k
    <3> DEFINE j == i + 1
    <3>1. j \in 1..Len(v) /\ j > k /\ j # 1 /\ j - 1 = i
      BY <1>1, <1>2, <2>2
    <3> HIDE DEF j
    <3>2. v[j] = s[i]
      BY <1>1, <1>2, <3>1
    <3>3. Before(v, j) = v[i]
      BY <1>1, <1>3, <3>1
    <3>4. i = k => v[i] = c
      BY <1>5
    <3>5. i # k => i # 1 /\ v[i] = s[i - 1] /\ Before(s, i) = s[i - 1]
      BY <1>1, <1>2, <1>3, <2>2
    <3> QED BY <3>1, <3>2, <3>3, <3>4, <3>5
  <2> QED BY <1>2, <2>1, <2>2
<1>8. ASSUME NEW i \in 1..Len(v), NEW j \in 1..Len(v), i < j
      PROVE  v[i] # v[j]
  <2>1. CASE j < k
    <3>1. i \in 1..Len(s) /\ j \in 1..Len(s) /\ v[i] = s[i] /\ v[j] = s[j]
      BY <1>1, <1>2, <1>8, <2>1
    <3> QED BY <1>8, <3>1 DEF Distinct
  <2>2. CASE j = k
    <3>1. i \in 1..Len(s) /\ v[i] = s[i] /\ v[j] = c
      BY <1>1, <1>2, <1>8, <2>2
    <3> QED BY <1>8, <3>1 DEF Distinct
  <2>3. CASE j > k
    <3> DEFINE m == j - 1
    <3>1. m \in 1..Len(s) /\ v[j] = s[j - 1] /\ i <= m
      BY <1>1, <1>2, <1>8, <2>3
    <3>2. v[j] = s[m]
      BY <3>1
    <3> HIDE DEF m
    <3>3. CASE i < k
      <4>1. i \in 1..Len(s) /\ v[i] = s[i] /\ i # m
        BY <1>1, <1>2, <1>8, <2>3, <3>3 DEF m
      <4> QED BY <1>8, <3>1, <3>2, <4>1 DEF Distinct
    <3>4. CASE i = k
      BY <1>5, <1>8, <3>1, <3>2, <3>4
    <3>5. CASE i > k
      <4> DEFINE l == i - 1
      <4>1. l \in 1..Len(s) /\ v[i] = s[i - 1] /\ l # m
        BY <1>1, <1>2, <1>8, <2>3, <3>5 DEF m
      <4>2. v[i] = s[l]
        BY <4>1
      <4> HIDE DEF l
      <4> QED BY <1>8, <3>1, <3>2, <4>1, <4>2 DEF Distinct
    <3> QED BY <1>2, <3>3, <3>4, <3>5
  <2> QED BY <1>2, <2>1, <2>2, <2>3
<1>9. ASSUME NEW i \in 1..Len(s), Before(s, i) = Before(s, k)
      PROVE  i = k
  <2>1. i # 1 => i - 1 \in 1..Len(s) /\ Before(s, i) = s[i - 1] /\ s[i - 1] # 0
    BY <1>2, <1>3, <1>4
  <2>2. k # 1 => k - 1 \in 1..Len(s) /\ Before(s, k) = s[k - 1] /\ s[k - 1] # 0
    BY <1>2, <1>3, <1>4
  <2>3. (i = 1 => Before(s, i) = 0) /\ (k = 1 => Before(s, k) = 0)
    BY <1>2, <1>3
  <2>4. i # 1 /\ k # 1 => i - 1 = k - 1
    BY <1>9, <2>1, <2>2 DEF Distinct
  <2> QED BY <1>2, <1>9, <2>1, <2>2, <2>3, <2>4
<1>10. \A i, j \in 1..Len(v) : i < j \/ j < i \/ i = j
  BY <1>1, <1>2
<1>11. Distinct(v)
  BY <1>8, <1>10 DEF Distinct
<1> QED BY <1>0, <1>1, <1>5, <1>6, <1>7, <1>9, <1>11 DEF InsertedAs

\* The k-th of the siblings is taken out.
LEMMA RemovedOrder ==
  ASSUME NEW s \in Seq(Channels), NEW k \in 1..Len(s), Distinct(s)
  PROVE  RemovedAs(s, k, RemoveAt(s, k))
<1> DEFINE v == RemoveAt(s, k)
<1>0. v = RemoveAt(s, k)
  OBVIOUS
<1> HIDE DEF v
<1>1. /\ v \in Seq(Channels) /\ Len(v) = Len(s) - 1
      /\ \A i \in 1..Len(v) : v[i] = IF i < k THEN s[i] ELSE s[i + 1]
  <2>1. Narrowed(s, k, v)
    BY <1>0, RemovedAt
  <2> QED BY <2>1 DEF Narrowed
<1>2. Len(s) \in Nat /\ k \in Nat /\ 1 <= k /\ k <= Len(s)
  BY LenProperties
<1>3. /\ \A j \in 1..Len(s) : Before(s, j) = IF j = 1 THEN 0 ELSE s[j - 1]
      /\ \A j \in 1..Len(s) : Before(v, j) = IF j = 1 THEN 0 ELSE v[j - 1]
  BY DEF Before
<1>4. \A i \in 1..Len(s) : s[i] # 0
  BY ElementOfSeq, ChannelsAssumption
<1>5. ASSUME NEW j \in 1..Len(v)
      PROVE  \/ j < k /\ j \in 1..Len(s) /\ v[j] = s[j]
             \/ j >= k /\ j + 1 \in 1..Len(s) /\ j + 1 # k /\ v[j] = s[j + 1]
  BY <1>1, <1>2
<1>6. \A j \in 1..Len(v) : v[j] # s[k] /\ \E i \in 1..Len(s) : v[j] = s[i]
  BY <1>2, <1>5 DEF Distinct
<1>7. ASSUME NEW i \in 1..Len(s), i # k
      PROVE  \E j \in 1..Len(v) :
               v[j] = s[i] /\ Before(v, j) = IF Before(s, i) = s[k] THEN Before(s, k) ELSE Before(s, i)
  <2>0. Before(s, i) = s[k] <=> i = k + 1
    <3>1. i = 1 => Before(s, i) # s[k] /\ i # k + 1
      BY <1>2, <1>3, <1>4
    <3>2. i # 1 => i - 1 \in 1..Len(s) /\ Before(s, i) = s[i - 1] /\ (i = k + 1 <=> i - 1 = k)
      BY <1>2, <1>3
    <3> QED BY <3>1, <3>2 DEF Distinct
  <2>1. CASE i < k
    <3>1. i \in 1..Len(v) /\ v[i] = s[i] /\ i # k + 1
      BY <1>1, <1>2, <2>1
    <3>2. i # 1 => i - 1 \in 1..Len(v) /\ v[i - 1] = s[i - 1]
      BY <1>1, <1>2, <2>1
    <3>3. Before(v, i) = Before(s, i)
      BY <1>1, <1>2, <1>3, <3>1, <3>2
    <3> QED BY <2>0, <3>1, <3>3
  <2>2. CASE i > k
    <3> DEFINE j == i - 1
    <3>1. j \in 1..Len(v) /\ j >= k /\ j \in 1..Len(s) /\ j + 1 = i /\ i # 1 /\ j \in Nat
      BY <1>1, <1>2, <2>2
    <3>2. Before(s, i) = s[j]
      BY <1>3, <3>1
    <3> HIDE DEF j
    <3>3. v[j] = s[i]
      BY <1>1, <1>2, <3>1
    <3>4. CASE j = k
      <4>1. Before(v, j) = Before(s, k)
        <5>1. k # 1 => k - 1 \in 1..Len(v) /\ v[k - 1] = s[k - 1]
          BY <1>1, <1>2, <3>1, <3>4
        <5> QED BY <1>2, <1>3, <3>1, <3>4, <5>1
      <4> QED BY <3>1, <3>2, <3>3, <3>4, <4>1
    <3>5. CASE j # k
      <4>1. j # 1 /\ j - 1 \in 1..Len(v) /\ j - 1 >= k /\ (j - 1) + 1 = j
        BY <1>1, <1>2, <3>1, <3>5
      <4>2. v[j - 1] = s[j]
        <5> DEFINE m == j - 1
        <5>1. m \in 1..Len(v) /\ ~(m < k) /\ m + 1 = j
          BY <1>1, <1>2, <3>1, <4>1
        <5> HIDE DEF m
        <5>2. v[m] = s[j]
          BY <1>1, <5>1
        <5> QED BY <5>2 DEF m
      <4>3. Before(v, j) = s[j]
        BY <1>3, <3>1, <4>1, <4>2
      <4>4. s[j] # s[k]
        BY <3>1, <3>5 DEF Distinct
      <4> QED BY <3>1, <3>2, <3>3, <4>3, <4>4
    <3> QED BY <3>4, <3>5
  <2> QED BY <1>2, <1>7, <2>1, <2>2
<1>8. ASSUME NEW i \in 1..Len(v), NEW j \in 1..Len(v), v[i] = v[j] PROVE i = j
  BY <1>2, <1>5, <1>8 DEF Distinct
<1>9. Distinct(v)
  BY <1>8 DEF Distinct
<1> QED BY <1>0, <1>1, <1>6, <1>7, <1>9 DEF RemovedAs

\* What a tree is made of.
LEMMA TreeFacts ==
  ASSUME NEW t \in Trees, NEW p \in Nodes
  PROVE  /\ Len(t[p]) \in Nat /\ t[p] \in Seq(Channels)
         /\ \A k \in 1..Len(t[p]) : t[p][k] \in Channels /\ Before(t[p], k) \in Nodes /\ t[p][k] \in Placed(t)
         /\ \A k \in 1..Len(t[p]) : Before(t[p], k) = IF k = 1 THEN 0 ELSE t[p][k - 1]
         /\ \A k \in 1..Len(t[p]) : k # 1 => k - 1 \in 1..Len(t[p]) /\ t[p][k - 1] # 0
<1>1. t[p] \in Seq(Channels) /\ Len(t[p]) \in Nat
  BY LenProperties DEF Trees
<1>2. \A k \in 1..Len(t[p]) : t[p][k] \in Channels
  BY <1>1, ElementOfSeq
<1>3. \A k \in 1..Len(t[p]) : k # 1 => k - 1 \in 1..Len(t[p])
  BY <1>1
<1>4. \A k \in 1..Len(t[p]) : t[p][k] \in Placed(t)
  <2>1. DOMAIN t[p] = 1..Len(t[p])
    BY <1>1
  <2> QED BY <2>1 DEF Placed, ToSet
<1>5. 0 \notin Channels
  BY ChannelsAssumption
<1> QED BY <1>1, <1>2, <1>3, <1>4, <1>5 DEF Before, Nodes

\* A channel is in the tree when it is somewhere in it.
LEMMA PlacedHas ==
  ASSUME NEW t \in Trees, NEW x
  PROVE  /\ x \in Placed(t) <=> \E p \in Nodes : \E k \in 1..Len(t[p]) : t[p][k] = x
         /\ x \in Placed(t) <=> \E p \in Nodes : \E o \in Nodes : Has(t, x, o, p)
<1>1. \A p \in Nodes : DOMAIN t[p] = 1..Len(t[p])
  BY TreeFacts
<1>2. x \in Placed(t) <=> \E p \in Nodes : \E k \in 1..Len(t[p]) : t[p][k] = x
  BY <1>1 DEF Placed, ToSet
<1>3. ASSUME NEW p \in Nodes, NEW k \in 1..Len(t[p]), t[p][k] = x
      PROVE  \E o \in Nodes : Has(t, x, o, p)
  BY <1>3, TreeFacts DEF Has
<1> QED BY <1>2, <1>3 DEF Has

\* A channel has one place, and a place one channel.
LEMMA OnePlace ==
  ASSUME NEW t \in Trees, Once(t)
  PROVE  /\ \A x, o, p, o2, p2 : Has(t, x, o, p) /\ Has(t, x, o2, p2) => o = o2 /\ p = p2
         /\ \A x, y, o, p : Has(t, x, o, p) /\ Has(t, y, o, p) => x = y
         /\ \A x, o, p : Has(t, x, o, p) => x \in Channels /\ o \in Nodes /\ p \in Nodes /\ x \in Placed(t) /\ x # o
         /\ \A x, o, p : Has(t, x, o, p) /\ o # 0 => \E o2 \in Nodes : Has(t, o, o2, p)
<1>1. ASSUME NEW x, NEW o, NEW p, NEW o2, NEW p2, Has(t, x, o, p), Has(t, x, o2, p2)
      PROVE  o = o2 /\ p = p2
  BY <1>1 DEF Has, Once
<1>2. ASSUME NEW x, NEW y, NEW o, NEW p, Has(t, x, o, p), Has(t, y, o, p) PROVE x = y
  <2>1. PICK k \in 1..Len(t[p]) : t[p][k] = x /\ Before(t[p], k) = o
    BY <1>2 DEF Has
  <2>2. PICK j \in 1..Len(t[p]) : t[p][j] = y /\ Before(t[p], j) = o
    BY <1>2 DEF Has
  <2>3. p \in Nodes
    BY <1>2 DEF Has
  <2>4. /\ k = 1 => o = 0
        /\ k # 1 => k - 1 \in 1..Len(t[p]) /\ o = t[p][k - 1] /\ o # 0
    BY <2>1, <2>3, TreeFacts
  <2>5. /\ j = 1 => o = 0
        /\ j # 1 => j - 1 \in 1..Len(t[p]) /\ o = t[p][j - 1] /\ o # 0
    BY <2>2, <2>3, TreeFacts
  <2>6. k # 1 /\ j # 1 => k - 1 = j - 1
    BY <2>3, <2>4, <2>5 DEF Once
  <2>7. k = j
    BY <2>3, <2>4, <2>5, <2>6, TreeFacts
  <2> QED BY <2>1, <2>2, <2>7
<1>3. ASSUME NEW x, NEW o, NEW p, Has(t, x, o, p)
      PROVE  /\ x \in Channels /\ o \in Nodes /\ p \in Nodes /\ x \in Placed(t) /\ x # o
             /\ o # 0 => \E o2 \in Nodes : Has(t, o, o2, p)
  <2>1. p \in Nodes
    BY <1>3 DEF Has
  <2>2. PICK k \in 1..Len(t[p]) : t[p][k] = x /\ Before(t[p], k) = o
    BY <1>3 DEF Has
  <2>3. /\ x \in Channels /\ o \in Nodes /\ x \in Placed(t)
        /\ k = 1 => o = 0
        /\ k # 1 => k - 1 \in 1..Len(t[p]) /\ o = t[p][k - 1]
    BY <2>1, <2>2, TreeFacts
  <2>4. x # 0
    BY <2>3, ChannelsAssumption
  <2>5. x # o
    <3>1. CASE k = 1
      BY <2>3, <2>4, <3>1
    <3>2. CASE k # 1
      <4>1. k - 1 # k
        BY <2>1, <2>2, TreeFacts
      <4>2. k - 1 \in 1..Len(t[p]) /\ t[p][k - 1] # t[p][k]
        BY <2>1, <2>3, <3>2, <4>1 DEF Once
      <4> QED BY <2>2, <2>3, <3>2, <4>2
    <3> QED BY <3>1, <3>2
  <2>6. o # 0 => \E o2 \in Nodes : Has(t, o, o2, p)
    <3>1. ASSUME k # 1 PROVE \E o2 \in Nodes : Has(t, o, o2, p)
      <4>1. k - 1 \in 1..Len(t[p]) /\ o = t[p][k - 1] /\ Before(t[p], k - 1) \in Nodes
        BY <2>1, <2>3, <3>1, TreeFacts
      <4> QED BY <2>1, <4>1 DEF Has
    <3> QED BY <2>3, <3>1
  <2> QED BY <2>1, <2>3, <2>5, <2>6
<1> QED BY <1>1, <1>2, <1>3

\* The places of the others, once c is below p behind o, or was taken out from
\* behind o.
PutIn(t, u, c, o, p) ==
  \A x, o2, q : Has(t, x, o2, q) => Has(u, x, IF o2 = o /\ q = p THEN c ELSE o2, q)

TakenOut(t, u, c, o) ==
  \A x, o2, q : Has(t, x, o2, q) /\ x # c => Has(u, x, IF o2 = c THEN o ELSE o2, q)

\* The server's steps from t to u: c comes below p behind o, or goes from there.
Inserts(t, u, c, o, p) ==
  /\ t \in Trees /\ Once(t) /\ u \in Trees /\ Once(u)
  /\ c \in Channels \ Placed(t) /\ Placed(u) = Placed(t) \union {c} /\ Has(u, c, o, p) /\ PutIn(t, u, c, o, p)

Removes(t, u, c, o, p) ==
  /\ t \in Trees /\ Once(t) /\ u \in Trees /\ Once(u)
  /\ c \in Placed(t) /\ Placed(u) = Placed(t) \ {c} /\ Has(t, c, o, p) /\ TakenOut(t, u, c, o)

\* A channel is put to the k-th place below p.
LEMMA TreeInserted ==
  ASSUME NEW t \in Trees, Once(t), NEW c \in Channels \ Placed(t), NEW p \in Nodes,
         NEW k \in 1..Len(t[p]) + 1, NEW u, u = [t EXCEPT ![p] = InsertAt(t[p], k, c)]
  PROVE  Inserts(t, u, c, Before(t[p], k), p)
<1> DEFINE s == t[p]
           v == InsertAt(s, k, c)
<1>0. s \in Seq(Channels) /\ k \in Nat \ {0} /\ k <= Len(s) + 1 /\ c \in Channels
  BY TreeFacts
<1>s. s = t[p] /\ v = InsertAt(s, k, c) /\ u = [t EXCEPT ![p] = v]
  OBVIOUS
<1> HIDE DEF s, v
<1>1. /\ \A q \in Nodes : \A j \in 1..Len(t[q]) : t[q][j] # c
      /\ \A i \in 1..Len(s) : s[i] # c
  BY <1>s, PlacedHas
<1>2. Distinct(s)
  BY <1>s DEF Once, Distinct
<1>i. InsertedAs(s, k, c, v)
  BY <1>0, <1>1, <1>2, <1>s, InsertedOrder
<1>3. /\ v \in Seq(Channels) /\ k \in 1..Len(v)
      /\ v[k] = c /\ Before(v, k) = Before(s, k)
      /\ \A j \in 1..Len(v) : j # k => \E i \in 1..Len(s) : v[j] = s[i]
      /\ \A i \in 1..Len(s) : \E j \in 1..Len(v) :
           v[j] = s[i] /\ Before(v, j) = IF i = k THEN c ELSE Before(s, i)
      /\ Distinct(v)
      /\ \A i \in 1..Len(s) : Before(s, i) = Before(s, k) => i = k
  BY <1>i DEF InsertedAs
<1>4. u \in Trees /\ u[p] = v /\ \A q \in Nodes \ {p} : u[q] = t[q]
  BY <1>3, <1>s DEF Trees
<1>5. \A q \in Nodes \ {p} : \A i \in 1..Len(t[q]), j \in 1..Len(v) : t[q][i] # v[j]
  <2>1. ASSUME NEW q \in Nodes \ {p}, NEW i \in 1..Len(t[q]), NEW j \in 1..Len(v), t[q][i] = v[j]
        PROVE  FALSE
    <3>1. j # k
      BY <1>1, <1>3, <2>1
    <3>2. PICK l \in 1..Len(s) : v[j] = s[l]
      BY <1>3, <3>1
    <3> QED BY <1>s, <2>1, <3>2 DEF Once
  <2> QED BY <2>1
<1>6. Once(u)
  <2>1. ASSUME NEW q \in Nodes, NEW r \in Nodes, NEW i \in 1..Len(u[q]), NEW j \in 1..Len(u[r]), u[q][i] = u[r][j]
        PROVE  q = r /\ i = j
    <3>1. CASE q # p /\ r # p
      BY <1>4, <2>1, <3>1 DEF Once
    <3>2. CASE q # p /\ r = p
      BY <1>4, <1>5, <2>1, <3>2
    <3>3. CASE q = p /\ r # p
      BY <1>4, <1>5, <2>1, <3>3
    <3>4. CASE q = p /\ r = p
      BY <1>3, <1>4, <2>1, <3>4 DEF Distinct
    <3> QED BY <3>1, <3>2, <3>3, <3>4
  <2> QED BY <2>1 DEF Once
<1>7. Has(u, c, Before(t[p], k), p)
  <2>1. v[k] = c /\ Before(v, k) = Before(s, k) /\ k \in 1..Len(v)
    BY <1>3
  <2> QED BY <1>4, <1>s, <2>1 DEF Has
<1>8. ASSUME NEW x, NEW o, NEW q, Has(t, x, o, q)
      PROVE  Has(u, x, IF o = Before(t[p], k) /\ q = p THEN c ELSE o, q)
  <2>1. q \in Nodes
    BY <1>8 DEF Has
  <2>2. PICK i \in 1..Len(t[q]) : t[q][i] = x /\ Before(t[q], i) = o
    BY <1>8 DEF Has
  <2>3. CASE q # p
    BY <1>4, <2>1, <2>2, <2>3 DEF Has
  <2>4. CASE q = p
    <3>1. i \in 1..Len(s) /\ s[i] = x /\ Before(s, i) = o
      BY <1>s, <2>2, <2>4
    <3>2. PICK j \in 1..Len(v) : v[j] = x /\ Before(v, j) = IF i = k THEN c ELSE o
      BY <1>3, <3>1
    <3>3. i = k <=> o = Before(t[p], k)
      BY <1>3, <1>s, <3>1
    <3> QED BY <1>4, <2>1, <2>4, <3>2, <3>3 DEF Has
  <2> QED BY <2>3, <2>4
<1>9. Placed(u) = Placed(t) \union {c}
  <2>1. ASSUME NEW x, x \in Placed(u) PROVE x \in Placed(t) \union {c}
    <3>1. PICK q \in Nodes : \E j \in 1..Len(u[q]) : u[q][j] = x
      BY <1>4, <2>1, PlacedHas
    <3>2. PICK j \in 1..Len(u[q]) : u[q][j] = x
      BY <3>1
    <3>3. CASE q # p
      BY <1>4, <3>2, <3>3, PlacedHas
    <3>4. CASE q = p /\ j = k
      BY <1>3, <1>4, <3>2, <3>4
    <3>5. CASE q = p /\ j # k
      <4>1. PICK i \in 1..Len(s) : x = s[i]
        BY <1>3, <1>4, <3>2, <3>5
      <4> QED BY <1>s, <4>1, PlacedHas
    <3> QED BY <3>3, <3>4, <3>5
  <2>2. ASSUME NEW x, x \in Placed(t) \/ x = c PROVE x \in Placed(u)
    <3>1. \E q, o : Has(u, x, o, q)
      <4>1. CASE x = c
        BY <1>7, <4>1
      <4>2. CASE x \in Placed(t)
        <5>1. PICK q \in Nodes, o \in Nodes : Has(t, x, o, q)
          BY <4>2, PlacedHas
        <5> QED BY <1>8, <5>1
      <4> QED BY <2>2, <4>1, <4>2
    <3>2. PICK q, o : Has(u, x, o, q)
      BY <3>1
    <3>3. \E j \in 1..Len(u[q]) : u[q][j] = x
      BY <3>2 DEF Has
    <3> QED BY <1>4, <3>2, <3>3, PlacedHas DEF Has
  <2> QED BY <2>1, <2>2
<1>10. PutIn(t, u, c, Before(t[p], k), p)
  BY <1>8 DEF PutIn
<1> QED BY <1>4, <1>6, <1>7, <1>9, <1>10 DEF Inserts

\* The k-th channel below p is taken out.
LEMMA TreeRemoved ==
  ASSUME NEW t \in Trees, Once(t), NEW p \in Nodes, NEW k \in 1..Len(t[p]),
         NEW u, u = [t EXCEPT ![p] = RemoveAt(t[p], k)]
  PROVE  Removes(t, u, t[p][k], Before(t[p], k), p)
<1> DEFINE s == t[p]
           v == RemoveAt(s, k)
           c == s[k]
<1>0. s \in Seq(Channels) /\ k \in 1..Len(s)
  BY TreeFacts
<1>s. s = t[p] /\ v = RemoveAt(s, k) /\ u = [t EXCEPT ![p] = v] /\ c = s[k] /\ c = t[p][k]
  OBVIOUS
<1> HIDE DEF s, v, c
<1>2. Distinct(s)
  BY <1>s DEF Once, Distinct
<1>r. RemovedAs(s, k, v)
  BY <1>0, <1>2, <1>s, RemovedOrder
<1>3. /\ v \in Seq(Channels)
      /\ \A j \in 1..Len(v) : v[j] # s[k] /\ \E i \in 1..Len(s) : v[j] = s[i]
      /\ \A i \in 1..Len(s) : i # k => \E j \in 1..Len(v) :
           v[j] = s[i] /\ Before(v, j) = IF Before(s, i) = s[k] THEN Before(s, k) ELSE Before(s, i)
      /\ Distinct(v)
  BY <1>r DEF RemovedAs
<1>4. u \in Trees /\ u[p] = v /\ \A q \in Nodes \ {p} : u[q] = t[q]
  BY <1>3, <1>s DEF Trees
<1>5. \A q \in Nodes \ {p} : \A i \in 1..Len(t[q]) : t[q][i] # c /\ \A j \in 1..Len(v) : t[q][i] # v[j]
  <2>1. \A q \in Nodes \ {p} : \A i \in 1..Len(t[q]) : \A l \in 1..Len(s) : t[q][i] # s[l]
    BY <1>s DEF Once
  <2> QED BY <1>0, <1>3, <1>s, <2>1
<1>6. Once(u)
  <2>1. ASSUME NEW q \in Nodes, NEW r \in Nodes, NEW i \in 1..Len(u[q]), NEW j \in 1..Len(u[r]), u[q][i] = u[r][j]
        PROVE  q = r /\ i = j
    <3>1. CASE q # p /\ r # p
      BY <1>4, <2>1, <3>1 DEF Once
    <3>2. CASE q # p /\ r = p
      BY <1>4, <1>5, <2>1, <3>2
    <3>3. CASE q = p /\ r # p
      BY <1>4, <1>5, <2>1, <3>3
    <3>4. CASE q = p /\ r = p
      BY <1>3, <1>4, <2>1, <3>4 DEF Distinct
    <3> QED BY <3>1, <3>2, <3>3, <3>4
  <2> QED BY <2>1 DEF Once
<1>7. Has(t, c, Before(t[p], k), p)
  BY <1>0, <1>s DEF Has
<1>8. ASSUME NEW x, NEW o, NEW q, Has(t, x, o, q), x # c
      PROVE  Has(u, x, IF o = c THEN Before(t[p], k) ELSE o, q)
  <2>1. q \in Nodes
    BY <1>8 DEF Has
  <2>2. PICK i \in 1..Len(t[q]) : t[q][i] = x /\ Before(t[q], i) = o
    BY <1>8 DEF Has
  <2>3. CASE q # p
    <3>1. o # c
      <4>1. i = 1 => o = 0
        BY <2>1, <2>2, TreeFacts
      <4>2. i # 1 => i - 1 \in 1..Len(t[q]) /\ o = t[q][i - 1]
        BY <2>1, <2>2, TreeFacts
      <4>3. c # 0
        BY <1>0, <1>s, TreeFacts, ChannelsAssumption
      <4> QED BY <1>5, <2>1, <2>3, <4>1, <4>2, <4>3
    <3> QED BY <1>4, <2>1, <2>2, <2>3, <3>1 DEF Has
  <2>4. CASE q = p
    <3>1. i \in 1..Len(s) /\ s[i] = x /\ Before(s, i) = o /\ i # k
      BY <1>s, <1>8, <2>2, <2>4
    <3>2. PICK j \in 1..Len(v) :
            v[j] = s[i] /\ Before(v, j) = IF Before(s, i) = s[k] THEN Before(s, k) ELSE Before(s, i)
      BY <1>3, <3>1
    <3>3. v[j] = x /\ Before(v, j) = IF o = c THEN Before(t[p], k) ELSE o
      BY <1>s, <3>1, <3>2
    <3> QED BY <1>4, <2>1, <2>4, <3>3 DEF Has
  <2> QED BY <2>3, <2>4
<1>9. Placed(u) = Placed(t) \ {c}
  <2>1. ASSUME NEW x, x \in Placed(u) PROVE x \in Placed(t) \ {c}
    <3>1. PICK q \in Nodes : \E j \in 1..Len(u[q]) : u[q][j] = x
      BY <1>4, <2>1, PlacedHas
    <3>2. PICK j \in 1..Len(u[q]) : u[q][j] = x
      BY <3>1
    <3>3. CASE q # p
      BY <1>4, <1>5, <3>2, <3>3, PlacedHas
    <3>4. CASE q = p
      <4>1. x # c /\ \E i \in 1..Len(s) : x = s[i]
        BY <1>3, <1>4, <1>s, <3>2, <3>4
      <4> QED BY <1>s, <4>1, PlacedHas
    <3> QED BY <3>3, <3>4
  <2>2. ASSUME NEW x, x \in Placed(t), x # c PROVE x \in Placed(u)
    <3>1. PICK q \in Nodes, o \in Nodes : Has(t, x, o, q)
      BY <2>2, PlacedHas
    <3>2. \E o2 : Has(u, x, o2, q)
      BY <1>8, <2>2, <3>1
    <3> QED BY <1>4, <3>2, PlacedHas DEF Has
  <2> QED BY <2>1, <2>2
<1>10. TakenOut(t, u, c, Before(t[p], k))
  BY <1>8 DEF TakenOut
<1>11. c \in Placed(t)
  BY <1>0, <1>s, TreeFacts
<1> QED BY <1>4, <1>6, <1>7, <1>9, <1>10, <1>11, <1>s DEF Removes

----------------------------------------------------------------------------
(* The book follows the tree.                                              *)

\* b has the channels of t other than c, each in its place.
Follows(b, t, c) == \A x \in DOMAIN b \ {c} : Has(t, x, b[x].order, b[x].parent)

LEMMA NodesNat == Nodes \subseteq Nat /\ 0 \in Nodes /\ Channels \subseteq Nodes /\ 0 \notin Channels
BY ChannelsAssumption DEF Nodes

\* channel_order_remove follows the server in taking c out.
LEMMA Unlinked ==
  ASSUME NEW t, NEW u, NEW c, NEW o, NEW p, Removes(t, u, c, o, p),
         NEW d \in Books, Follows(d, t, c), NEW e \in Unlink(d, c, o)
  PROVE  Reorders(e, d) /\ Follows(e, u, c) /\ (c \in DOMAIN d => e[c].order = d[c].order)
<1> DEFINE fits == {x \in DOMAIN d : d[x].order = c /\ x # c}
<1>2. t \in Trees /\ Once(t) /\ Has(t, c, o, p) /\ TakenOut(t, u, c, o)
  BY DEF Removes
<1>0. o \in Nodes /\ o \in Nat /\ c \in Channels /\ c # 0
  BY <1>2, OnePlace, NodesNat
<1>1. Reorders(e, d) /\ (\/ fits = {} /\ e = d
                         \/ \E x \in fits : \A y \in DOMAIN d : e[y].order = IF y = x THEN o ELSE d[y].order)
  <2>1. e \in Relink(d, fits, o)
    BY DEF Unlink
  <2> HIDE DEF fits
  <2>2. fits \subseteq DOMAIN d
    BY DEF fits
  <2>3. Relinks(e, d, fits, o)
    BY <2>1, <2>2, <1>0, Relinked
  <2> QED BY <2>3 DEF Relinks
<1>3. \A x \in fits : Has(t, x, c, p)
  <2>1. ASSUME NEW x \in fits PROVE Has(t, x, c, p)
    <3>1. Has(t, x, c, d[x].parent)
      BY DEF Follows
    <3>2. \E o2 \in Nodes : Has(t, c, o2, d[x].parent)
      BY <1>0, <1>2, <3>1, OnePlace
    <3>3. d[x].parent = p
      BY <1>2, <3>2, OnePlace
    <3> QED BY <3>1, <3>3
  <2> QED BY <2>1
<1>4. \A x, y \in fits : x = y
  BY <1>2, <1>3, OnePlace
<1>5. \A x \in DOMAIN d \ {c} : e[x].order = IF d[x].order = c THEN o ELSE d[x].order
  <2>1. CASE fits = {} /\ e = d
    BY <2>1
  <2>2. ASSUME NEW x \in fits, \A y \in DOMAIN d : e[y].order = IF y = x THEN o ELSE d[y].order
        PROVE  \A y \in DOMAIN d \ {c} : e[y].order = IF d[y].order = c THEN o ELSE d[y].order
    <3>1. \A y \in DOMAIN d \ {c} : d[y].order = c <=> y = x
      BY <1>4
    <3> QED BY <2>2, <3>1
  <2> QED BY <1>1, <2>1, <2>2
<1>6. c \in DOMAIN d => e[c].order = d[c].order
  BY <1>1
<1>7. Follows(e, u, c)
  <2>1. ASSUME NEW x \in DOMAIN e \ {c} PROVE Has(u, x, e[x].order, e[x].parent)
    <3>1. x \in DOMAIN d \ {c} /\ e[x].parent = d[x].parent /\ Has(t, x, d[x].order, d[x].parent)
      BY <1>1 DEF Reorders, Follows
    <3> QED BY <1>2, <1>5, <3>1 DEF TakenOut
  <2> QED BY <2>1 DEF Follows
<1> QED BY <1>1, <1>6, <1>7

\* channel_order_insert follows the server in putting c in.
LEMMA LinkedIn ==
  ASSUME NEW t, NEW u, NEW c, NEW o, NEW p, Inserts(t, u, c, o, p),
         NEW d \in Books, Follows(d, t, c), NEW e \in Link(d, c, o, p)
  PROVE  Reorders(e, d) /\ Follows(e, u, c) /\ (c \in DOMAIN d => e[c].order = d[c].order)
<1> DEFINE fits == {x \in DOMAIN d : d[x].order = o /\ d[x].parent = p /\ x # c}
<1>2. t \in Trees /\ Once(t) /\ PutIn(t, u, c, o, p) /\ c \in Channels
  BY DEF Inserts
<1>0. c \in Nat
  BY <1>2, NodesNat
<1>1. Reorders(e, d) /\ (\/ fits = {} /\ e = d
                         \/ \E x \in fits : \A y \in DOMAIN d : e[y].order = IF y = x THEN c ELSE d[y].order)
  <2>1. e \in Relink(d, fits, c)
    BY DEF Link
  <2> HIDE DEF fits
  <2>2. fits \subseteq DOMAIN d
    BY DEF fits
  <2>3. Relinks(e, d, fits, c)
    BY <2>1, <2>2, <1>0, Relinked
  <2> QED BY <2>3 DEF Relinks
<1>3. \A x \in fits : Has(t, x, o, p)
  BY DEF Follows
<1>4. \A x, y \in fits : x = y
  BY <1>2, <1>3, OnePlace
<1>5. \A x \in DOMAIN d \ {c} : e[x].order = IF d[x].order = o /\ d[x].parent = p THEN c ELSE d[x].order
  <2>1. CASE fits = {} /\ e = d
    BY <2>1
  <2>2. ASSUME NEW x \in fits, \A y \in DOMAIN d : e[y].order = IF y = x THEN c ELSE d[y].order
        PROVE  \A y \in DOMAIN d \ {c} : e[y].order = IF d[y].order = o /\ d[y].parent = p THEN c ELSE d[y].order
    <3>1. \A y \in DOMAIN d \ {c} : d[y].order = o /\ d[y].parent = p <=> y = x
      BY <1>4
    <3> QED BY <2>2, <3>1
  <2> QED BY <1>1, <2>1, <2>2
<1>6. c \in DOMAIN d => e[c].order = d[c].order
  BY <1>1
<1>7. Follows(e, u, c)
  <2>1. ASSUME NEW x \in DOMAIN e \ {c} PROVE Has(u, x, e[x].order, e[x].parent)
    <3>1. x \in DOMAIN d \ {c} /\ e[x].parent = d[x].parent /\ Has(t, x, d[x].order, d[x].parent)
      BY <1>1 DEF Reorders, Follows
    <3> QED BY <1>2, <1>5, <3>1 DEF PutIn
  <2> QED BY <2>1 DEF Follows
<1> QED BY <1>1, <1>6, <1>7

\* b has exactly the channels of t, each in its place.
Right(b, t) ==
  /\ b \in Books /\ DOMAIN b = Placed(t)
  /\ \A x \in Placed(t) : Has(t, x, b[x].order, b[x].parent)

\* f takes no channel for subscribed that b does not.
NoMore(f, b) == \A x \in DOMAIN f : f[x].subscribed => x \in DOMAIN b /\ b[x].subscribed

\* A tree that c has been put into.
LEMMA RightWith ==
  ASSUME NEW u \in Trees, NEW c, NEW o, NEW p, Has(u, c, o, p),
         NEW f \in Books, DOMAIN f = Placed(u), Follows(f, u, c),
         c \in DOMAIN f => f[c].order = o /\ f[c].parent = p
  PROVE  Right(f, u)
BY DEF Right, Follows

\* A new channel.
LEMMA CreatedRight ==
  ASSUME NEW t, NEW u, NEW c, NEW o, NEW p, Inserts(t, u, c, o, p),
         NEW bk, Right(bk, t), NEW f \in Created(bk, c, o, p)
  PROVE  Right(f, u) /\ NoMore(f, bk)
<1>0. /\ u \in Trees /\ Once(u) /\ Placed(u) = Placed(t) \union {c} /\ Has(u, c, o, p)
      /\ c \in Channels /\ c \notin Placed(t)
  BY DEF Inserts
<1>1. o \in Nat /\ p \in Nat /\ bk \in Books
  BY <1>0, OnePlace, NodesNat DEF Right
<1>2. Follows(bk, t, c)
  BY DEF Right, Follows
<1>3. PICK e \in Link(bk, c, o, p) : f \in Added(e, c, o, p)
  BY DEF Created
<1>4. Reorders(e, bk) /\ Follows(e, u, c)
  BY <1>1, <1>2, <1>3, LinkedIn
<1>5. PICK g \in Link(e, c, o, p) : f = With(g, c, Record(o, p))
  BY <1>3 DEF Added
<1>6. {x \in DOMAIN e : e[x].order = o /\ e[x].parent = p /\ x # c} = {}
  <2>1. \A x \in DOMAIN e \ {c} : Has(u, x, e[x].order, e[x].parent)
    BY <1>4 DEF Follows
  <2> QED BY <1>0, <2>1, OnePlace
<1>7. g = e
  BY <1>5, <1>6 DEF Link, Relink
<1> DEFINE r == Record(o, p)
<1>8. r \in Records /\ r.order = o /\ r.parent = p /\ r.subscribed = FALSE
  BY <1>1 DEF Record, Records
<1>9. f = With(e, c, r)
  BY <1>5, <1>7
<1> HIDE DEF r
<1>10. e \in Books /\ DOMAIN e = Placed(t)
  BY <1>4 DEF Reorders, Right
<1>11. f \in Books /\ DOMAIN f = Placed(u) /\ f[c] = r
  BY <1>0, <1>8, <1>9, <1>10, WithAgrees
<1>12. \A x \in DOMAIN e \ {c} : f[x] = e[x]
  BY <1>9 DEF With
<1>13. Follows(f, u, c)
  BY <1>0, <1>4, <1>10, <1>11, <1>12 DEF Follows
<1>14. Right(f, u)
  BY <1>0, <1>8, <1>11, <1>13, RightWith
<1>15. NoMore(f, bk)
  <2>1. ASSUME NEW x \in DOMAIN f, f[x].subscribed PROVE x \in DOMAIN bk /\ bk[x].subscribed
    <3>1. x # c
      BY <1>8, <1>11, <2>1
    <3>2. x \in DOMAIN e \ {c} /\ f[x] = e[x]
      BY <1>0, <1>10, <1>11, <1>12, <3>1
    <3> QED BY <1>4, <2>1, <3>2 DEF Reorders
  <2> QED BY <2>1 DEF NoMore
<1> QED BY <1>14, <1>15

\* A channel that goes.
LEMMA DeletedRight ==
  ASSUME NEW t, NEW u, NEW c, NEW o, NEW p, Removes(t, u, c, o, p),
         NEW bk, Right(bk, t), NEW f \in Deleted(bk, c)
  PROVE  Right(f, u) /\ NoMore(f, bk)
<1> DEFINE d == Without(bk, c)
<1>0. t \in Trees /\ Once(t) /\ u \in Trees /\ Placed(u) = Placed(t) \ {c} /\ Has(t, c, o, p) /\ c \in Placed(t)
  BY DEF Removes
<1>1. bk[c].order = o
  BY <1>0, OnePlace DEF Right
<1>2. f \in Unlink(d, c, o)
  BY <1>1 DEF Deleted
<1>3. d \in Books /\ DOMAIN d = DOMAIN bk \ {c} /\ \A x \in DOMAIN d : d[x] = bk[x]
  BY WithoutAgrees DEF Right, Without
<1>4. Follows(d, t, c)
  BY <1>3 DEF Right, Follows
<1> HIDE DEF d
<1>5. Reorders(f, d) /\ Follows(f, u, c)
  BY <1>2, <1>3, <1>4, Unlinked
<1>6. f \in Books /\ DOMAIN f = Placed(u)
  BY <1>0, <1>3, <1>5 DEF Reorders, Right
<1>7. Right(f, u)
  BY <1>0, <1>5, <1>6 DEF Right, Follows
<1>8. NoMore(f, bk)
  BY <1>3, <1>5 DEF NoMore, Reorders
<1> QED BY <1>7, <1>8

\* A channel that is taken out and put in elsewhere.
LEMMA ReorderedFollows ==
  ASSUME NEW t, NEW u, NEW w, NEW c, NEW b, NEW p, Removes(t, u, c, b, p),
         NEW o, NEW q, Inserts(u, w, c, o, q), NEW bk, Right(bk, t), NEW f \in Reordered(bk, c, o, q)
  PROVE  /\ w \in Trees /\ Placed(w) = Placed(t) /\ Has(w, c, o, q)
         /\ Follows(f, w, c) /\ Reorders(f, bk)
         /\ f[c].order = o /\ bk[c].parent = p /\ c \in DOMAIN bk
<1>1. /\ t \in Trees /\ Once(t) /\ Placed(u) = Placed(t) \ {c} /\ Has(t, c, b, p) /\ c \in Placed(t)
  BY DEF Removes
<1>2. /\ w \in Trees /\ Once(w) /\ Placed(w) = Placed(u) \union {c} /\ Has(w, c, o, q)
  BY DEF Inserts
<1>3. o \in Nat /\ bk \in Books /\ c \in DOMAIN bk
  <2>1. o \in Nodes
    BY <1>2, OnePlace
  <2> QED BY <1>1, <2>1, NodesNat DEF Right
<1>4. bk[c].order = b /\ bk[c].parent = p
  BY <1>1, OnePlace DEF Right
<1> DEFINE d == [bk EXCEPT ![c].order = o]
<1>5. PICK e \in Unlink(d, c, bk[c].order) : f \in Link(e, c, o, q)
  BY DEF Reordered
<1>6. Reorders(d, bk) /\ d[c].order = o /\ \A x \in DOMAIN bk \ {c} : d[x] = bk[x]
  <2>0. \A x \in DOMAIN bk : bk[x] \in Records
    BY <1>3, BookTypes
  <2>1. DOMAIN d = DOMAIN bk /\ \A x \in DOMAIN bk \ {c} : d[x] = bk[x]
    OBVIOUS
  <2>2. d[c] = [bk[c] EXCEPT !.order = o]
    BY <1>3
  <2>3. /\ d[c] \in Records /\ d[c].order = o
        /\ d[c].parent = bk[c].parent /\ d[c].subscribed = bk[c].subscribed
    BY <1>3, <2>0, <2>2 DEF Records
  <2>4. d \in [DOMAIN bk -> Records]
    BY <2>0, <2>1, <2>3
  <2> HIDE DEF d
  <2>5. DOMAIN bk \in SUBSET Channels
    BY <1>3, BookTypes
  <2>6. d \in Books
    BY <2>4, <2>5 DEF Books
  <2> QED BY <2>1, <2>3, <2>6 DEF Reorders
<1> HIDE DEF d
<1>7. d \in Books /\ Follows(d, t, c)
  BY <1>6 DEF Reorders, Follows, Right
<1>8. e \in Unlink(d, c, b)
  BY <1>4, <1>5
<1>9. Reorders(e, d) /\ Follows(e, u, c) /\ (c \in DOMAIN d => e[c].order = d[c].order)
  BY <1>7, <1>8, Unlinked
<1>10. e \in Books
  BY <1>9 DEF Reorders
<1>11. Reorders(f, e) /\ Follows(f, w, c) /\ (c \in DOMAIN e => f[c].order = e[c].order)
  BY <1>5, <1>9, <1>10, LinkedIn
<1>12. Reorders(f, bk) /\ f[c].order = o
  BY <1>3, <1>6, <1>9, <1>11 DEF Reorders
<1>13. Placed(w) = Placed(t)
  BY <1>1, <1>2
<1> QED BY <1>2, <1>3, <1>4, <1>11, <1>12, <1>13

\* A channel that is moved.
LEMMA MovedRight ==
  ASSUME NEW t, NEW u, NEW w, NEW c, NEW b, NEW p, Removes(t, u, c, b, p),
         NEW o, NEW q, Inserts(u, w, c, o, q), NEW bk, Right(bk, t), NEW f \in Moved(bk, c, o, q)
  PROVE  Right(f, w) /\ NoMore(f, bk)
<1>1. PICK e \in Reordered(bk, c, o, q) : f = [e EXCEPT ![c].parent = q]
  BY DEF Moved
<1>2. /\ w \in Trees /\ Placed(w) = Placed(t) /\ Has(w, c, o, q)
      /\ Follows(e, w, c) /\ Reorders(e, bk)
      /\ e[c].order = o /\ bk[c].parent = p /\ c \in DOMAIN bk
  BY <1>1, ReorderedFollows
<1>3. q \in Nat
  <2>1. Once(w)
    BY DEF Inserts
  <2> QED BY <1>2, <2>1, OnePlace, NodesNat
<1>4. e \in Books /\ DOMAIN e = Placed(w) /\ c \in DOMAIN e
  BY <1>2 DEF Reorders, Right
<1>5. \A x \in DOMAIN e : e[x] \in Records
  BY <1>4, BookTypes
<1>6. DOMAIN f = DOMAIN e /\ \A x \in DOMAIN e \ {c} : f[x] = e[x]
  BY <1>1
<1>7. f[c] = [e[c] EXCEPT !.parent = q]
  BY <1>1, <1>4
<1>8. f[c] \in Records /\ f[c].order = o /\ f[c].parent = q /\ f[c].subscribed = e[c].subscribed
  BY <1>2, <1>3, <1>4, <1>5, <1>7 DEF Records
<1>9. f \in Books
  <2>1. f \in [DOMAIN e -> Records]
    BY <1>1, <1>5, <1>6, <1>8
  <2>2. DOMAIN e \in SUBSET Channels
    BY <1>4, BookTypes
  <2> QED BY <2>1, <2>2 DEF Books
<1>10. Follows(f, w, c)
  BY <1>2, <1>6 DEF Follows
<1>11. Right(f, w)
  BY <1>2, <1>4, <1>6, <1>8, <1>9, <1>10, RightWith
<1>12. NoMore(f, bk)
  BY <1>2, <1>6, <1>8 DEF NoMore, Reorders
<1> QED BY <1>11, <1>12

\* A move below the same parent, sent as an edit.
LEMMA EditedRight ==
  ASSUME NEW t, NEW u, NEW w, NEW c, NEW b, NEW p, Removes(t, u, c, b, p),
         NEW o, Inserts(u, w, c, o, p), NEW bk, Right(bk, t), NEW f \in Edited(bk, c, o)
  PROVE  Right(f, w) /\ NoMore(f, bk)
<1>0. t \in Trees /\ Once(t) /\ Has(t, c, b, p) /\ c \in Placed(t)
  BY DEF Removes
<1>1. bk[c].parent = p
  BY <1>0, OnePlace DEF Right
<1>2. f \in Reordered(bk, c, o, p)
  BY <1>1 DEF Edited
<1>3. /\ w \in Trees /\ Placed(w) = Placed(t) /\ Has(w, c, o, p)
      /\ Follows(f, w, c) /\ Reorders(f, bk)
      /\ f[c].order = o /\ c \in DOMAIN bk
  BY <1>2, ReorderedFollows
<1>4. f \in Books /\ DOMAIN f = Placed(w) /\ f[c].parent = p
  BY <1>1, <1>3 DEF Reorders, Right
<1>5. Right(f, w)
  BY <1>3, <1>4, RightWith
<1>6. NoMore(f, bk)
  BY <1>3 DEF NoMore, Reorders
<1> QED BY <1>5, <1>6

----------------------------------------------------------------------------
(* The channel list.                                                       *)

\* The tree of the server is one, and the places it names are those of Has.
LEMMA PlaceNamed ==
  ASSUME tree \in Trees, Once(tree)
  PROVE  /\ Present = Placed(tree)
         /\ \A x, o, p : Has(tree, x, o, p) => ParentOf(x) = p /\ OrderOf(x) = o
<1>1. DOMAIN tree = Nodes
  BY DEF Trees
<1>2. Present = Placed(tree)
  BY <1>1 DEF Present, Placed
<1>3. ASSUME NEW x, NEW o, NEW p, Has(tree, x, o, p) PROVE ParentOf(x) = p /\ OrderOf(x) = o
  <2>1. p \in Nodes
    BY <1>3 DEF Has
  <2>2. PICK k \in 1..Len(tree[p]) : tree[p][k] = x /\ Before(tree[p], k) = o
    BY <1>3 DEF Has
  <2>3. \A q \in Nodes : x \in ToSet(tree[q]) <=> \E j \in 1..Len(tree[q]) : tree[q][j] = x
    <3>1. \A q \in Nodes : DOMAIN tree[q] = 1..Len(tree[q])
      BY TreeFacts
    <3> QED BY <3>1 DEF ToSet
  <2>4. \A q \in Nodes : x \in ToSet(tree[q]) <=> q = p
    BY <2>1, <2>2, <2>3 DEF Once
  <2>5. ParentOf(x) = p
    BY <1>1, <2>1, <2>4 DEF ParentOf
  <2>6. \A j \in 1..Len(tree[p]) : tree[p][j] = x <=> j = k
    BY <2>1, <2>2 DEF Once
  <2>7. (CHOOSE j \in 1..Len(tree[p]) : tree[p][j] = x) = k
    BY <2>2, <2>6
  <2> QED BY <2>2, <2>5, <2>7 DEF OrderOf
<1> QED BY <1>2, <1>3

\* A set of naturals has a least one.
LEMMA Least ==
  ASSUME NEW T, T \subseteq Nat, T # {} PROVE \E x \in T : \A y \in T : x <= y
<1>1. IsWellFoundedOn(OpToRel(<, Nat), Nat)
  BY NatLessThanWellFounded
<1>2. PICK x \in T : \A y \in T : ~(<<y, x>> \in OpToRel(<, Nat))
  BY <1>1, WFMin
<1>3. \A y \in T : ~(y < x)
  BY <1>2 DEF OpToRel
<1> QED BY <1>3

\* The next channel of a list, added to one of the books.
NextListed(books) ==
  UNION {UNION {Added(b, c, OrderOf(c), ParentOf(c)) : c \in Present \ DOMAIN b} : b \in books}

IsListing(f, m) == f = [n \in 0..m |-> IF n = 0 THEN {NoBook} ELSE NextListed(f[n - 1])]

\* Listing is the function its definition says it is.
LEMMA ListingDefined ==
  ASSUME NEW N \in Nat PROVE \E f : IsListing(f, N)
<1> DEFINE T == {m \in Nat : ~\E f : IsListing(f, m)}
<1>1. SUFFICES ASSUME T # {} PROVE FALSE
  OBVIOUS
<1>2. PICK m \in T : \A y \in T : m <= y
  BY <1>1, Least
<1>3. CASE m = 0
  <2> DEFINE f == [n \in 0..0 |-> {NoBook}]
  <2>1. f = [n \in 0..0 |-> IF n = 0 THEN {NoBook} ELSE NextListed(f[n - 1])]
    OBVIOUS
  <2> HIDE DEF f
  <2> QED BY <1>3, <2>1 DEF IsListing
<1>4. CASE m # 0
  <2>1. m - 1 \in Nat /\ m - 1 \notin T
    BY <1>2, <1>4
  <2>2. PICK f : IsListing(f, m - 1)
    BY <2>1
  <2> DEFINE g == [n \in 0..m |-> IF n = m THEN NextListed(f[m - 1]) ELSE f[n]]
  <2>3. ASSUME NEW n \in 0..m
        PROVE  g[n] = IF n = 0 THEN {NoBook} ELSE NextListed(g[n - 1])
    <3>1. CASE n = m
      <4>1. m - 1 \in 0..m /\ m - 1 # m
        BY <1>2, <2>1
      <4>2. g[m - 1] = f[m - 1] /\ g[m] = NextListed(f[m - 1])
        BY <1>2, <4>1
      <4> QED BY <1>4, <3>1, <4>2
    <3>2. CASE n # m
      <4>1. n \in 0..m - 1 /\ (n # 0 => n - 1 \in 0..m /\ n - 1 # m)
        BY <1>2, <2>1, <3>2
      <4>2. f[n] = IF n = 0 THEN {NoBook} ELSE NextListed(f[n - 1])
        BY <2>2, <4>1 DEF IsListing
      <4>3. g[n] = f[n] /\ (n # 0 => g[n - 1] = f[n - 1])
        BY <3>2, <4>1
      <4> QED BY <4>2, <4>3
    <3> QED BY <3>1, <3>2
  <2>4. g = [n \in 0..m |-> g[n]]
    OBVIOUS
  <2> HIDE DEF g
  <2>5. g = [n \in 0..m |-> IF n = 0 THEN {NoBook} ELSE NextListed(g[n - 1])]
    BY <2>3, <2>4
  <2> QED BY <1>2, <2>5 DEF IsListing
<1> QED BY <1>3, <1>4

LEMMA ListingSteps ==
  ASSUME Cardinality(Present) \in Nat PROVE IsListing(Listing, Cardinality(Present))
<1>1. \E f : IsListing(f, Cardinality(Present))
  BY ListingDefined
<1>2. \E f : f = [n \in 0..Cardinality(Present) |->
                    IF n = 0 THEN {NoBook}
                    ELSE UNION {UNION {Added(b, c, OrderOf(c), ParentOf(c)) : c \in Present \ DOMAIN b} : b \in f[n - 1]}]
  BY <1>1 DEF IsListing, NextListed
<1>3. Listing = [n \in 0..Cardinality(Present) |->
                    IF n = 0 THEN {NoBook}
                    ELSE UNION {UNION {Added(b, c, OrderOf(c), ParentOf(c)) : c \in Present \ DOMAIN b} : b \in Listing[n - 1]}]
  BY <1>2, Zenon DEF Listing
<1> QED BY <1>3 DEF IsListing, NextListed

\* The first n channels of a list are as the server has them.
ListedSoFar(b, n) ==
  /\ b \in Books /\ DOMAIN b \subseteq Present /\ Cardinality(DOMAIN b) = n
  /\ \A x \in DOMAIN b : /\ Has(tree, x, b[x].order, b[x].parent) /\ ~b[x].subscribed

LEMMA ListedNext ==
  ASSUME tree \in Trees, Once(tree), IsFiniteSet(Present), NEW n \in Nat,
         NEW b, ListedSoFar(b, n), NEW c \in Present \ DOMAIN b,
         NEW e \in Added(b, c, OrderOf(c), ParentOf(c))
  PROVE  ListedSoFar(e, n + 1)
<1> DEFINE o == OrderOf(c)
           p == ParentOf(c)
<1>1. Has(tree, c, o, p) /\ Present = Placed(tree)
  <2>1. Present = Placed(tree)
    BY PlaceNamed
  <2>2. PICK q \in Nodes, l \in Nodes : Has(tree, c, l, q)
    BY <2>1, PlacedHas
  <2> QED BY <2>1, <2>2, PlaceNamed
<1>2. o \in Nat /\ p \in Nat /\ c \in Channels
  BY <1>1, OnePlace, NodesNat
<1> HIDE DEF o, p
<1>3. PICK g \in Link(b, c, o, p) : e = With(g, c, Record(o, p))
  BY DEF Added, o, p
<1>4. {x \in DOMAIN b : b[x].order = o /\ b[x].parent = p /\ x # c} = {}
  BY <1>1, OnePlace DEF ListedSoFar
<1>5. g = b
  BY <1>3, <1>4 DEF Link, Relink
<1> DEFINE r == Record(o, p)
<1>6. r \in Records /\ r.order = o /\ r.parent = p /\ ~r.subscribed
  BY <1>2 DEF Record, Records
<1>7. e = With(b, c, r)
  BY <1>3, <1>5
<1> HIDE DEF r
<1>8. e \in Books /\ DOMAIN e = DOMAIN b \union {c} /\ e[c] = r
  BY <1>2, <1>6, <1>7, WithAgrees DEF ListedSoFar
<1>9. \A x \in DOMAIN b : e[x] = b[x]
  BY <1>7 DEF With
<1>10. Cardinality(DOMAIN e) = n + 1
  <2>1. IsFiniteSet(DOMAIN b)
    BY FS_Subset DEF ListedSoFar
  <2>2. Cardinality(DOMAIN b \union {c}) = Cardinality(DOMAIN b) + 1
    BY <2>1, FS_AddElement
  <2> QED BY <1>8, <2>2 DEF ListedSoFar
<1>11. \A x \in DOMAIN e : Has(tree, x, e[x].order, e[x].parent) /\ ~e[x].subscribed
  BY <1>1, <1>6, <1>8, <1>9 DEF ListedSoFar
<1> QED BY <1>8, <1>10, <1>11 DEF ListedSoFar

LEMMA ListedInOrder ==
  ASSUME tree \in Trees, Once(tree), IsFiniteSet(Present), NEW n \in 0..Cardinality(Present)
  PROVE  \A b \in Listing[n] : ListedSoFar(b, n)
<1>0. Cardinality(Present) \in Nat
  BY FS_CardinalityType
<1> DEFINE N == Cardinality(Present)
           T == {m \in 0..N : ~\A b \in Listing[m] : ListedSoFar(b, m)}
<1>1. SUFFICES ASSUME T # {} PROVE FALSE
  OBVIOUS
<1>2. PICK m \in T : \A y \in T : m <= y
  <2>1. T \subseteq Nat
    BY <1>0
  <2> QED BY <1>1, <2>1, Least
<1>3. \A i \in 0..N : Listing[i] = IF i = 0 THEN {NoBook} ELSE NextListed(Listing[i - 1])
  BY <1>0, ListingSteps DEF IsListing
<1>4. CASE m = 0
  <2>1. Listing[0] = {NoBook}
    BY <1>0, <1>3
  <2>2. NoBook \in Books /\ DOMAIN NoBook = {}
    <3>1. NoBook \in [{} -> Records] /\ {} \in SUBSET Channels
      BY DEF NoBook
    <3> QED BY <3>1 DEF Books
  <2>3. ListedSoFar(NoBook, 0)
    BY <2>2, FS_EmptySet DEF ListedSoFar
  <2> QED BY <1>2, <1>4, <2>1, <2>3
<1>5. CASE m # 0
  <2>1. m - 1 \in 0..N /\ m - 1 \in Nat /\ m - 1 \notin T /\ (m - 1) + 1 = m
    BY <1>0, <1>2, <1>5
  <2>2. \A b \in Listing[m - 1] : ListedSoFar(b, m - 1)
    BY <2>1
  <2>3. Listing[m] = NextListed(Listing[m - 1])
    BY <1>2, <1>3, <1>5
  <2>4. ASSUME NEW e \in Listing[m] PROVE ListedSoFar(e, m)
    <3>0. PICK b \in Listing[m - 1] : \E c \in Present \ DOMAIN b : e \in Added(b, c, OrderOf(c), ParentOf(c))
      BY <2>3 DEF NextListed
    <3>1. PICK c \in Present \ DOMAIN b : e \in Added(b, c, OrderOf(c), ParentOf(c))
      BY <3>0
    <3>2. ListedSoFar(e, (m - 1) + 1)
      BY <2>1, <2>2, <3>1, ListedNext
    <3> QED BY <2>1, <3>2
  <2> QED BY <1>2, <2>4
<1> QED BY <1>4, <1>5

\* In whatever order the channels are sent, the book comes out right.
LEMMA ListedRight ==
  ASSUME tree \in Trees, Once(tree), IsFiniteSet(Present), NEW b \in Listed
  PROVE  Right(b, tree) /\ \A x \in DOMAIN b : ~b[x].subscribed
<1>1. Cardinality(Present) \in Nat
  BY FS_CardinalityType
<1>2. ListedSoFar(b, Cardinality(Present))
  BY <1>1, ListedInOrder DEF Listed
<1>3. DOMAIN b = Present
  BY <1>2, FS_Subset DEF ListedSoFar
<1>4. Present = Placed(tree)
  BY PlaceNamed
<1> QED BY <1>2, <1>3, <1>4 DEF ListedSoFar, Right

----------------------------------------------------------------------------
(* The invariants of Book.                                                 *)

TreeInv ==
  /\ tree \in Trees /\ Once(tree)
  /\ made \in Nat /\ \A x \in Placed(tree) : x <= made

\* Where everybody is, and what we have asked for.
ViewInv ==
  /\ at \in [Others -> Nodes] /\ here \in Placed(tree) /\ granted \subseteq Channels
  /\ asked \in Seq(SUBSET Channels)

\* Our client's number is one of Own.
NumberInv ==
  /\ up \in BOOLEAN /\ me \in Nat /\ drops \in Nat /\ 1 <= me /\ drops <= MaxDrops
  /\ me <= IF up THEN drops + 1 ELSE drops

BookInv == up => Right(book, tree) /\ \A c \in Placed(tree) : book[c].subscribed => c \in InView

\* The clients in our view, each in its channel.
InRoster == [x \in {me} \union {y \in Others : at[y] \in InView} |-> IF x = me THEN here ELSE at[x]]

ClientsInv == up => clients = InRoster

\* The channel we are in is one we have asked for as well.
AskedInv ==
  up /\ subscribed => Placed(tree) \subseteq granted \union UNION {asked[i] : i \in DOMAIN asked}

ServerInv == TreeInv /\ ViewInv /\ NumberInv

LEMMA FinitelyMany ==
  ASSUME TreeInv
  PROVE  /\ Present = Placed(tree) /\ Placed(tree) \subseteq Channels /\ IsFiniteSet(Present)
         /\ \A c \in Placed(tree) :
              ParentOf(c) \in Nodes /\ \E k \in 1..Len(tree[ParentOf(c)]) :
                tree[ParentOf(c)][k] = c /\ Rid(ParentOf(c), c) = RemoveAt(tree[ParentOf(c)], k)
<1>1. Present = Placed(tree)
  BY PlaceNamed DEF TreeInv
<1>2. ASSUME NEW c \in Placed(tree)
      PROVE  /\ c \in Channels /\ ParentOf(c) \in Nodes
             /\ \E k \in 1..Len(tree[ParentOf(c)]) :
                  tree[ParentOf(c)][k] = c /\ Rid(ParentOf(c), c) = RemoveAt(tree[ParentOf(c)], k)
  <2>1. PICK p \in Nodes, o \in Nodes : Has(tree, c, o, p)
    BY PlacedHas DEF TreeInv
  <2>2. ParentOf(c) = p /\ c \in Channels
    BY <2>1, PlaceNamed, OnePlace DEF TreeInv
  <2>3. \E k \in 1..Len(tree[p]) : tree[p][k] = c
    BY <2>1 DEF Has
  <2> DEFINE k == CHOOSE j \in 1..Len(tree[p]) : tree[p][j] = c
  <2>4. k \in 1..Len(tree[p]) /\ tree[p][k] = c
    BY <2>3
  <2>5. Rid(p, c) = RemoveAt(tree[p], k)
    BY DEF Rid
  <2> HIDE DEF k
  <2> QED BY <2>1, <2>2, <2>4, <2>5
<1>3. IsFiniteSet(Present)
  BY <1>1, <1>2, FS_Subset, BookAssumption
<1> QED BY <1>1, <1>2, <1>3

LEMMA CreateStep ==
  ASSUME TreeInv, NEW p \in Nodes, NEW k, CreateChannel(p, k)
  PROVE  /\ Inserts(tree, tree', made + 1, Before(tree[p], k), p) /\ made' = made + 1
         /\ Told(Created(book, made + 1, Before(tree[p], k), p), clients, OfChannels("changed"))
<1> DEFINE c == made + 1
<1>1. /\ c \in Channels /\ k \in 1..Len(tree[p]) + 1 /\ made' = c
      /\ tree' = [tree EXCEPT ![p] = InsertAt(tree[p], k, c)]
      /\ Told(Created(book, c, Before(tree[p], k), p), clients, OfChannels("changed"))
  BY DEF CreateChannel
<1>2. c \notin Placed(tree)
  BY DEF TreeInv
<1> HIDE DEF c
<1>3. Inserts(tree, tree', c, Before(tree[p], k), p)
  BY <1>1, <1>2, TreeInserted DEF TreeInv
<1> QED BY <1>1, <1>3 DEF c

LEMMA DeleteStep ==
  ASSUME TreeInv, NEW c, DeleteChannel(c)
  PROVE  \E o, p : Removes(tree, tree', c, o, p)
<1>1. c \in Placed(tree) /\ tree' = [tree EXCEPT ![ParentOf(c)] = Rid(ParentOf(c), c)]
  BY FinitelyMany DEF DeleteChannel
<1> DEFINE p == ParentOf(c)
<1>2. PICK k \in 1..Len(tree[p]) : tree[p][k] = c /\ Rid(p, c) = RemoveAt(tree[p], k)
  BY <1>1, FinitelyMany
<1>3. p \in Nodes /\ tree' = [tree EXCEPT ![p] = Rid(p, c)]
  BY <1>1, FinitelyMany
<1> HIDE DEF p
<1>4. tree' = [tree EXCEPT ![p] = RemoveAt(tree[p], k)]
  BY <1>2, <1>3
<1>5. Removes(tree, tree', c, Before(tree[p], k), p)
  BY <1>2, <1>3, <1>4, TreeRemoved DEF TreeInv
<1> QED BY <1>5

LEMMA MoveStep ==
  ASSUME TreeInv, NEW c, NEW p \in Nodes, NEW k, MoveChannel(c, p, k)
  PROVE  \E u, b, p0, o :
           /\ Removes(tree, u, c, b, p0) /\ Inserts(u, tree', c, o, p)
           /\ \/ Told(Moved(book, c, o, p), clients, OfChannels("changed"))
              \/ p = p0 /\ Told(Edited(book, c, o), clients, OfChannels("quiet"))
<1> DEFINE p0 == ParentOf(c)
           u == [tree EXCEPT ![p0] = Rid(p0, c)]
           o == Before(u[p], k)
<1>1. /\ c \in Placed(tree) /\ k \in 1..Len(u[p]) + 1
      /\ tree' = [u EXCEPT ![p] = InsertAt(u[p], k, c)]
      /\ \/ Told(Moved(book, c, o, p), clients, OfChannels("changed"))
         \/ p = p0 /\ Told(Edited(book, c, o), clients, OfChannels("quiet"))
  BY FinitelyMany DEF MoveChannel
<1>2. PICK j \in 1..Len(tree[p0]) : tree[p0][j] = c /\ Rid(p0, c) = RemoveAt(tree[p0], j)
  BY <1>1, FinitelyMany
<1>3. p0 \in Nodes
  BY <1>1, FinitelyMany
<1>4. u = [tree EXCEPT ![p0] = RemoveAt(tree[p0], j)]
  BY <1>2
<1> HIDE DEF p0, u
<1>5. Removes(tree, u, c, Before(tree[p0], j), p0)
  BY <1>2, <1>3, <1>4, TreeRemoved DEF TreeInv
<1>6. u \in Trees /\ Once(u) /\ c \in Channels \ Placed(u)
  <2>1. c \in Channels
    BY <1>1, FinitelyMany
  <2> QED BY <1>5, <2>1 DEF Removes
<1>7. Inserts(u, tree', c, o, p)
  BY <1>1, <1>6, TreeInserted
<1> HIDE DEF o
<1> QED BY <1>1, <1>5, <1>7

\* The steps of the server's tree.
LEMMA TreeKept ==
  ASSUME TreeInv, [Next]_vars PROVE TreeInv' /\ Present' = Placed(tree')
<1>0. SUFFICES TreeInv'
  <2>1. TreeInv' => DOMAIN tree' = Nodes
    BY DEF TreeInv, Trees
  <2> QED BY <2>1 DEF Present, Placed
<1>1. ASSUME NEW p \in Nodes, NEW k, CreateChannel(p, k) PROVE TreeInv'
  <2>1. Inserts(tree, tree', made + 1, Before(tree[p], k), p) /\ made' = made + 1
    BY <1>1, CreateStep
  <2>2. tree' \in Trees /\ Once(tree') /\ Placed(tree') = Placed(tree) \union {made + 1}
    BY <2>1 DEF Inserts
  <2>3. \A x \in Placed(tree) : x \in Nat
    BY FinitelyMany, NodesNat
  <2> QED BY <2>1, <2>2, <2>3 DEF TreeInv
<1>2. ASSUME NEW c, DeleteChannel(c) PROVE TreeInv'
  <2>1. PICK o, p : Removes(tree, tree', c, o, p)
    BY <1>2, DeleteStep
  <2>2. tree' \in Trees /\ Once(tree') /\ Placed(tree') \subseteq Placed(tree)
    BY <2>1 DEF Removes
  <2>3. made' = made
    BY <1>2 DEF DeleteChannel
  <2> QED BY <2>2, <2>3 DEF TreeInv
<1>3. ASSUME NEW c, NEW p \in Nodes, NEW k, MoveChannel(c, p, k) PROVE TreeInv'
  <2>1. PICK u, b, p0, o : Removes(tree, u, c, b, p0) /\ Inserts(u, tree', c, o, p)
    BY <1>3, MoveStep
  <2>2. tree' \in Trees /\ Once(tree') /\ Placed(tree') = Placed(tree)
    BY <2>1 DEF Removes, Inserts
  <2>3. made' = made
    BY <1>3 DEF MoveChannel
  <2> QED BY <2>2, <2>3 DEF TreeInv
<1>4. CASE \/ \E c \in Channels : EditChannel(c) \/ OwnMove(c)
           \/ \E x \in Others, d \in Nodes : Go(x, d)
           \/ Text \/ Drop \/ Reconnect \/ Handle \/ OwnCommand \/ Grant \/ UNCHANGED vars
  <2>1. tree' = tree /\ made' = made
    BY <1>4 DEF EditChannel, OwnMove, Go, Text, Drop, Reconnect, Handle, OwnCommand, Grant, vars, server
  <2> QED BY <2>1 DEF TreeInv
<1> QED BY <1>1, <1>2, <1>3, <1>4 DEF Next, Notified, Nodes

\* The steps of our client's number.
LEMMA NumberKept ==
  ASSUME NumberInv, [Next]_vars PROVE NumberInv'
<1>0. MaxDrops \in Nat
  BY BookAssumption
<1>1. CASE Drop
  <2>1. up /\ drops < MaxDrops /\ drops' = drops + 1 /\ up' = FALSE /\ me' = me
    BY <1>1 DEF Drop
  <2>2. me \in Nat /\ drops \in Nat /\ 1 <= me /\ me <= drops + 1
    BY <2>1 DEF NumberInv
  <2>3. drops + 1 \in Nat /\ drops + 1 <= MaxDrops
    BY <1>0, <2>1, <2>2
  <2> QED BY <2>1, <2>2, <2>3 DEF NumberInv
<1>2. CASE Reconnect
  BY <1>2 DEF Reconnect, NumberInv, bounds
<1>3. CASE \/ Notified \/ Handle \/ OwnCommand \/ Grant \/ UNCHANGED vars
  <2>1. up' = up /\ me' = me /\ drops' = drops
    BY <1>3 DEF Notified, CreateChannel, DeleteChannel, MoveChannel, EditChannel, OwnMove, Go, Text,
       Happens, Handle, OwnCommand, Grant, vars, library, bounds
  <2> QED BY <2>1 DEF NumberInv
<1> QED BY <1>1, <1>2, <1>3 DEF Next

\* Our client is none of the others.
LEMMA MeAlone ==
  ASSUME NumberInv PROVE me \notin Others /\ ((up \/ me < drops + 1) => me \in Own)
BY BookAssumption DEF NumberInv, Own

\* The steps of who is where, and of the subscriptions.
LEMMA ViewKept ==
  ASSUME TreeInv, ViewInv, [Next]_vars PROVE ViewInv'
<1>0. Placed(tree) \subseteq Channels /\ Present = Placed(tree) /\ Placed(tree) \subseteq Nodes /\ 0 \in Nodes
  BY FinitelyMany, NodesNat
<1>1. ASSUME NEW p \in Nodes, NEW k, CreateChannel(p, k) PROVE ViewInv'
  <2>1. Placed(tree') = Placed(tree) \union {made + 1} /\ made + 1 \in Channels
    BY <1>1, CreateStep DEF Inserts
  <2>2. at' = at /\ here' = here /\ granted' = granted /\ Ask(made + 1)
    BY <1>1 DEF CreateChannel
  <2>3. asked' \in Seq(SUBSET Channels)
    BY <2>1, <2>2 DEF Ask, ViewInv
  <2> QED BY <2>1, <2>2, <2>3 DEF ViewInv
<1>2. ASSUME NEW c, DeleteChannel(c) PROVE ViewInv'
  <2>1. Placed(tree') = Placed(tree) \ {c}
    BY <1>2, DeleteStep DEF Removes
  <2>2. /\ at' = at /\ here' = here /\ here # c /\ granted' = granted \ {c}
        /\ asked' = [i \in DOMAIN asked |-> asked[i] \ {c}]
    BY <1>2 DEF DeleteChannel
  <2>3. asked' \in Seq(SUBSET Channels)
    <3>1. asked \in [1..Len(asked) -> SUBSET Channels] /\ Len(asked) \in Nat
      BY DEF ViewInv
    <3>2. asked' \in [1..Len(asked) -> SUBSET Channels]
      BY <2>2, <3>1
    <3> QED BY <3>1, <3>2, SeqDef
  <2> QED BY <2>1, <2>2, <2>3 DEF ViewInv
<1>3. ASSUME NEW c, NEW p \in Nodes, NEW k, MoveChannel(c, p, k) PROVE ViewInv'
  <2>1. Placed(tree') = Placed(tree)
    BY <1>3, MoveStep DEF Removes, Inserts
  <2>2. at' = at /\ here' = here /\ granted' = granted /\ asked' = asked
    BY <1>3 DEF MoveChannel
  <2> QED BY <2>1, <2>2 DEF ViewInv
<1>4. CASE Grant
  <2>1. /\ tree' = tree /\ at' = at /\ here' = here /\ granted' = granted \union Head(asked)
        /\ asked # <<>> /\ asked' = Tail(asked)
    BY <1>4 DEF Grant
  <2>2. Head(asked) \subseteq Channels /\ asked' \in Seq(SUBSET Channels)
    BY <2>1, HeadTailProperties DEF ViewInv
  <2> QED BY <2>1, <2>2 DEF ViewInv
<1>5. ASSUME NEW d \in Channels, OwnMove(d) PROVE ViewInv'
  BY <1>0, <1>5 DEF OwnMove, ViewInv
<1>6. ASSUME NEW x \in Others, NEW d \in Nodes, Go(x, d) PROVE ViewInv'
  BY <1>6 DEF Go, ViewInv
<1>7. CASE Drop \/ Reconnect
  <2>1. /\ tree' = tree /\ at' = at /\ here' = here /\ asked' = <<>>
        /\ granted' = granted \/ granted' = {}
    BY <1>7 DEF Drop, Reconnect, server
  <2> QED BY <2>1 DEF ViewInv
<1>8. CASE Text \/ Handle \/ OwnCommand \/ UNCHANGED vars \/ \E c \in Channels : EditChannel(c)
  <2>1. tree' = tree /\ at' = at /\ here' = here /\ granted' = granted /\ asked' = asked
    BY <1>8 DEF Text, Handle, OwnCommand, EditChannel, vars, server, library
  <2> QED BY <2>1 DEF ViewInv
<1> QED BY <1>1, <1>2, <1>3, <1>4, <1>5, <1>6, <1>7, <1>8 DEF Next, Notified, Nodes

\* The steps of what we have asked for.
LEMMA AskedKept ==
  ASSUME ServerInv, AskedInv, [Next]_vars PROVE AskedInv'
<1>i. TreeInv /\ ViewInv
  BY DEF ServerInv
<1>1. ASSUME NEW p \in Nodes, NEW k, CreateChannel(p, k) PROVE AskedInv'
  <2>1. Placed(tree') = Placed(tree) \union {made + 1} /\ made + 1 \in Channels
    BY <1>i, <1>1, CreateStep DEF Inserts
  <2>2. granted' = granted /\ Ask(made + 1) /\ up' = up /\ subscribed' = subscribed
    BY <1>1 DEF CreateChannel
  <2>3. SUFFICES ASSUME up, subscribed, NEW x \in Placed(tree'), x \notin granted'
                 PROVE  \E i \in DOMAIN asked' : x \in asked'[i]
    BY <2>2 DEF AskedInv
  <2>4. asked' = Append(asked, {made + 1}) /\ asked \in Seq(SUBSET Channels)
    BY <1>i, <2>2, <2>3 DEF Ask, ViewInv
  <2>5. /\ Len(asked) \in Nat /\ DOMAIN asked = 1..Len(asked) /\ DOMAIN asked' = 1..Len(asked) + 1
        /\ asked'[Len(asked) + 1] = {made + 1}
        /\ \A i \in 1..Len(asked) : asked'[i] = asked[i]
    <3>1. {made + 1} \in SUBSET Channels
      BY <2>1
    <3> QED BY <2>4, <3>1, AppendProperties
  <2>6. CASE x = made + 1
    <3>1. Len(asked) + 1 \in DOMAIN asked'
      BY <2>5
    <3> QED BY <2>5, <2>6, <3>1
  <2>7. CASE x # made + 1
    <3>1. PICK i \in DOMAIN asked : x \in asked[i]
      BY <2>1, <2>2, <2>3, <2>7 DEF AskedInv
    <3>2. i \in DOMAIN asked' /\ asked'[i] = asked[i]
      BY <2>5, <3>1
    <3> QED BY <3>1, <3>2
  <2> QED BY <2>6, <2>7
<1>2. ASSUME NEW c, DeleteChannel(c) PROVE AskedInv'
  <2>1. Placed(tree') = Placed(tree) \ {c}
    BY <1>i, <1>2, DeleteStep DEF Removes
  <2>2. /\ up' = up /\ subscribed' = subscribed /\ granted' = granted \ {c}
        /\ asked' = [i \in DOMAIN asked |-> asked[i] \ {c}]
    BY <1>2 DEF DeleteChannel
  <2>3. SUFFICES ASSUME up, subscribed, NEW x \in Placed(tree'), x \notin granted'
                 PROVE  \E i \in DOMAIN asked' : x \in asked'[i]
    BY <2>2 DEF AskedInv
  <2>4. PICK i \in DOMAIN asked : x \in asked[i]
    BY <2>1, <2>2, <2>3 DEF AskedInv
  <2> QED BY <2>1, <2>2, <2>3, <2>4
<1>3. ASSUME NEW c, NEW p \in Nodes, NEW k, MoveChannel(c, p, k) PROVE AskedInv'
  <2>1. Placed(tree') = Placed(tree)
    BY <1>i, <1>3, MoveStep DEF Removes, Inserts
  <2>2. up' = up /\ subscribed' = subscribed /\ granted' = granted /\ asked' = asked
    BY <1>3 DEF MoveChannel
  <2> QED BY <2>1, <2>2 DEF AskedInv
<1>4. CASE Grant
  <2>1. /\ tree' = tree /\ granted' = granted \union Head(asked) /\ up' = up /\ subscribed' = subscribed
        /\ asked # <<>> /\ asked' = Tail(asked) /\ asked \in Seq(SUBSET Channels)
    BY <1>i, <1>4 DEF Grant, ViewInv
  <2>2. SUFFICES ASSUME up, subscribed, NEW x \in Placed(tree), x \notin granted'
                 PROVE  \E i \in DOMAIN asked' : x \in asked'[i]
    BY <2>1 DEF AskedInv
  <2>3. PICK i \in DOMAIN asked : x \in asked[i]
    BY <2>1, <2>2 DEF AskedInv
  <2>4. /\ Len(asked) \in Nat /\ DOMAIN asked = 1..Len(asked) /\ Head(asked) = asked[1]
        /\ DOMAIN asked' = 1..Len(asked) - 1
        /\ \A j \in 1..Len(asked) - 1 : asked'[j] = asked[j + 1]
    BY <2>1, HeadTailProperties
  <2>5. i # 1
    BY <2>1, <2>2, <2>3, <2>4
  <2> DEFINE j == i - 1
  <2>6. j \in 1..Len(asked) - 1 /\ j + 1 = i
    BY <2>3, <2>4, <2>5
  <2> HIDE DEF j
  <2> QED BY <2>3, <2>4, <2>6
<1>5. CASE \/ Text \/ Handle \/ OwnCommand \/ UNCHANGED vars
           \/ \E c \in Channels : EditChannel(c) \/ OwnMove(c)
           \/ \E x \in Others, d \in Nodes : Go(x, d)
  <2>1. tree' = tree /\ up' = up /\ subscribed' = subscribed /\ granted' = granted /\ asked' = asked
    BY <1>5 DEF Text, Handle, OwnCommand, EditChannel, OwnMove, Go, vars, server, library
  <2> QED BY <2>1 DEF AskedInv
<1>6. CASE Drop
  BY <1>6 DEF Drop, AskedInv
<1>7. CASE Reconnect
  BY <1>7 DEF Reconnect, AskedInv
<1> QED BY <1>1, <1>2, <1>3, <1>4, <1>5, <1>6, <1>7 DEF Next, Notified, Nodes

\* Only what subscribing says changes.
LEMMA SubscribeRight ==
  ASSUME NEW b, NEW t, Right(b, t), NEW S
  PROVE  /\ Right(Subscribe(b, S), t)
         /\ \A c \in Placed(t) : Subscribe(b, S)[c].subscribed => b[c].subscribed \/ c \in S
<1> DEFINE f == Subscribe(b, S)
<1>1. b \in Books /\ DOMAIN b = Placed(t) /\ DOMAIN b \in SUBSET Channels /\ \A x \in DOMAIN b : b[x] \in Records
  BY BookTypes DEF Right
<1>2. DOMAIN f = DOMAIN b /\ \A x \in DOMAIN b : f[x] = [b[x] EXCEPT !.subscribed = @ \/ x \in S]
  BY DEF Subscribe
<1>3. f = [x \in DOMAIN b |-> f[x]]
  BY DEF Subscribe
<1> HIDE DEF f
<1>4. ASSUME NEW x \in DOMAIN b
      PROVE  /\ f[x] \in Records /\ f[x].order = b[x].order /\ f[x].parent = b[x].parent
             /\ f[x].subscribed = (b[x].subscribed \/ x \in S)
  <2>1. b[x] \in Records /\ f[x] = [b[x] EXCEPT !.subscribed = @ \/ x \in S]
    BY <1>1, <1>2
  <2>2. /\ f[x].order = b[x].order /\ f[x].parent = b[x].parent
        /\ f[x].subscribed = (b[x].subscribed \/ x \in S)
    BY <2>1 DEF Records
  <2>3. f[x] \in Records
    BY <2>1 DEF Records
  <2> QED BY <2>2, <2>3
<1>5. f \in Books
  <2>1. f \in [DOMAIN b -> Records]
    BY <1>3, <1>4
  <2> QED BY <1>1, <2>1 DEF Books
<1>6. Right(f, t)
  BY <1>1, <1>2, <1>4, <1>5 DEF Right
<1> QED BY <1>1, <1>4, <1>6 DEF f

LEMMA UnsubscribeRight ==
  ASSUME NEW b, NEW t, Right(b, t), NEW c \in Placed(t)
  PROVE  /\ Right(Unsubscribe(b, c), t) /\ ~Unsubscribe(b, c)[c].subscribed
         /\ \A x \in Placed(t) : Unsubscribe(b, c)[x].subscribed => b[x].subscribed
<1> DEFINE f == Unsubscribe(b, c)
<1>1. b \in Books /\ DOMAIN b = Placed(t) /\ DOMAIN b \in SUBSET Channels /\ \A x \in DOMAIN b : b[x] \in Records
  BY BookTypes DEF Right
<1>2. DOMAIN f = DOMAIN b /\ \A x \in DOMAIN b : x # c => f[x] = b[x]
  BY DEF Unsubscribe
<1>3. f[c] = [b[c] EXCEPT !.subscribed = FALSE]
  BY <1>1 DEF Unsubscribe
<1>4. f = [x \in DOMAIN b |-> f[x]]
  BY DEF Unsubscribe
<1> HIDE DEF f
<1>5. f[c] \in Records /\ f[c].order = b[c].order /\ f[c].parent = b[c].parent /\ f[c].subscribed = FALSE
  <2>1. b[c] \in Records
    BY <1>1
  <2> QED BY <1>3, <2>1 DEF Records
<1>6. f \in Books
  <2>1. f \in [DOMAIN b -> Records]
    BY <1>1, <1>2, <1>4, <1>5
  <2> QED BY <1>1, <2>1 DEF Books
<1>7. Right(f, t)
  BY <1>1, <1>2, <1>5, <1>6 DEF Right
<1> QED BY <1>1, <1>2, <1>5, <1>7 DEF f

\* What a message does to the book, while there is one.
LEMMA BookKept ==
  ASSUME ServerInv, BookInv, [Next]_vars PROVE BookInv'
<1>i. TreeInv /\ ViewInv
  BY DEF ServerInv
<1>p. Present = Placed(tree) /\ Placed(tree) \subseteq Channels /\ IsFiniteSet(Present)
  BY <1>i, FinitelyMany
\* A step that leaves the view or adds to it, and subscribes no channel.
<1>a. ASSUME up' = up, up => Right(book', tree') /\ NoMore(book', book), InView \cap Placed(tree') \subseteq InView'
      PROVE  BookInv'
  <2>1. SUFFICES ASSUME up' PROVE Right(book', tree') /\ \A c \in Placed(tree') : book'[c].subscribed => c \in InView'
    BY DEF BookInv
  <2>2. Right(book, tree) /\ Right(book', tree') /\ NoMore(book', book)
    BY <1>a, <2>1 DEF BookInv
  <2>3. ASSUME NEW c \in Placed(tree'), book'[c].subscribed PROVE c \in InView'
    <3>1. c \in DOMAIN book /\ book[c].subscribed
      BY <2>2, <2>3 DEF NoMore, Right
    <3>2. c \in InView
      BY <1>a, <2>1, <2>2, <3>1 DEF BookInv, Right
    <3> QED BY <1>a, <2>3, <3>2
  <2> QED BY <2>2, <2>3
<1>1. ASSUME NEW p \in Nodes, NEW k, CreateChannel(p, k) PROVE BookInv'
  <2>1. /\ Inserts(tree, tree', made + 1, Before(tree[p], k), p)
        /\ Told(Created(book, made + 1, Before(tree[p], k), p), clients, OfChannels("changed"))
    BY <1>i, <1>1, CreateStep
  <2>2. up' = up /\ granted' = granted /\ here' = here
    BY <1>1 DEF CreateChannel
  <2>3. ASSUME up PROVE Right(book', tree') /\ NoMore(book', book)
    <3>1. book' \in Created(book, made + 1, Before(tree[p], k), p)
      BY <2>1, <2>3 DEF Told
    <3>2. Right(book, tree)
      BY <2>3 DEF BookInv
    <3> QED BY <2>1, <3>1, <3>2, CreatedRight
  <2>4. InView' = InView
    BY <2>2 DEF InView
  <2> QED BY <1>a, <2>2, <2>3, <2>4
<1>2. ASSUME NEW c, DeleteChannel(c) PROVE BookInv'
  <2>1. PICK o, p : Removes(tree, tree', c, o, p)
    BY <1>i, <1>2, DeleteStep
  <2>2. up' = up /\ granted' = granted \ {c} /\ here' = here /\ Told(Deleted(book, c), clients, OfChannels("changed"))
    BY <1>2 DEF DeleteChannel
  <2>3. ASSUME up PROVE Right(book', tree') /\ NoMore(book', book)
    <3>1. book' \in Deleted(book, c)
      BY <2>2, <2>3 DEF Told
    <3>2. Right(book, tree)
      BY <2>3 DEF BookInv
    <3> QED BY <2>1, <3>1, <3>2, DeletedRight
  <2>4. InView \cap Placed(tree') \subseteq InView'
    BY <2>1, <2>2 DEF InView, Removes
  <2> QED BY <1>a, <2>2, <2>3, <2>4
<1>3. ASSUME NEW c, NEW p \in Nodes, NEW k, MoveChannel(c, p, k) PROVE BookInv'
  <2>1. PICK u, b, p0, o : /\ Removes(tree, u, c, b, p0) /\ Inserts(u, tree', c, o, p)
                           /\ \/ Told(Moved(book, c, o, p), clients, OfChannels("changed"))
                              \/ p = p0 /\ Told(Edited(book, c, o), clients, OfChannels("quiet"))
    BY <1>i, <1>3, MoveStep
  <2>2. up' = up /\ granted' = granted /\ here' = here
    BY <1>3 DEF MoveChannel
  <2>3. ASSUME up PROVE Right(book', tree') /\ NoMore(book', book)
    <3>1. Right(book, tree)
      BY <2>3 DEF BookInv
    <3>2. CASE book' \in Moved(book, c, o, p)
      BY <2>1, <3>1, <3>2, MovedRight
    <3>3. CASE p = p0 /\ book' \in Edited(book, c, o)
      BY <2>1, <3>1, <3>3, EditedRight
    <3> QED BY <2>1, <2>3, <3>2, <3>3 DEF Told
  <2>4. InView' = InView
    BY <2>2 DEF InView
  <2> QED BY <1>a, <2>2, <2>3, <2>4
<1>4. CASE \/ Text \/ Handle \/ OwnCommand \/ UNCHANGED vars
           \/ \E c \in Channels : EditChannel(c)
           \/ \E x \in Others, d \in Nodes : Go(x, d)
  <2>1. tree' = tree /\ up' = up /\ granted' = granted /\ here' = here /\ book' = book
    BY <1>4 DEF Text, Handle, OwnCommand, EditChannel, Go, Told, vars, server, library
  <2>2. up => Right(book', tree') /\ NoMore(book', book)
    BY <2>1 DEF BookInv, NoMore
  <2>3. InView' = InView
    BY <2>1 DEF InView
  <2> QED BY <1>a, <2>1, <2>2, <2>3
<1>5. CASE Grant
  <2>1. /\ tree' = tree /\ up /\ up' = up /\ here' = here /\ granted' = granted \union Head(asked)
        /\ book' = Subscribe(book, Head(asked))
    BY <1>5 DEF Grant, Told
  <2>2. Right(book, tree) /\ \A c \in Placed(tree) : book[c].subscribed => c \in InView
    BY <2>1 DEF BookInv
  <2>3. Right(book', tree) /\ \A c \in Placed(tree) : book'[c].subscribed => book[c].subscribed \/ c \in Head(asked)
    BY <2>1, <2>2, SubscribeRight
  <2> QED BY <2>1, <2>2, <2>3 DEF BookInv, InView
<1>6. ASSUME NEW d \in Channels, OwnMove(d) PROVE BookInv'
  <2>1. /\ tree' = tree /\ up /\ up' = up /\ here' = d /\ granted' = granted
        /\ \/ here \in granted /\ book' = Subscribe(book, {d})
           \/ here \notin granted /\ book' = Unsubscribe(Subscribe(book, {d}), here)
    BY <1>6 DEF OwnMove, Told
  <2>2. Right(book, tree) /\ \A c \in Placed(tree) : book[c].subscribed => c \in InView
    BY <2>1 DEF BookInv
  <2> DEFINE b == Subscribe(book, {d})
  <2>3. Right(b, tree) /\ \A c \in Placed(tree) : b[c].subscribed => book[c].subscribed \/ c = d
    BY <2>2, SubscribeRight
  <2> HIDE DEF b
  <2>4. CASE here \in granted
    <3>1. book' = b
      BY <2>1, <2>4 DEF b
    <3> QED BY <2>1, <2>2, <2>3, <2>4, <3>1 DEF BookInv, InView
  <2>5. CASE here \notin granted
    <3>1. book' = Unsubscribe(b, here)
      BY <2>1, <2>5 DEF b
    <3>2. /\ Right(book', tree) /\ ~book'[here].subscribed
          /\ \A c \in Placed(tree) : book'[c].subscribed => b[c].subscribed
      BY <1>i, <2>3, <3>1, UnsubscribeRight DEF ViewInv
    <3> QED BY <2>1, <2>2, <2>3, <2>5, <3>2 DEF BookInv, InView
  <2> QED BY <2>4, <2>5
<1>7. CASE Drop
  BY <1>7 DEF Drop, BookInv
<1>8. CASE Reconnect
  <2>1. tree' = tree /\ book' \in Listed
    BY <1>8 DEF Reconnect
  <2>2. Right(book', tree) /\ \A c \in DOMAIN book' : ~book'[c].subscribed
    BY <1>i, <1>p, <2>1, ListedRight DEF TreeInv
  <2> QED BY <2>1, <2>2 DEF BookInv, Right
<1> QED BY <1>1, <1>2, <1>3, <1>4, <1>5, <1>6, <1>7, <1>8 DEF Next, Notified, Nodes

\* What a message does to the clients, while there is one.
LEMMA ClientsKept ==
  ASSUME ServerInv, ClientsInv, [Next]_vars PROVE ClientsInv'
<1>i. TreeInv /\ ViewInv /\ NumberInv
  BY DEF ServerInv
<1>p. Present = Placed(tree) /\ Placed(tree) \subseteq Channels
  BY <1>i, FinitelyMany
<1>m. me \notin Others /\ 0 \notin Channels
  BY <1>i, MeAlone, NodesNat
<1>v. InView \subseteq Channels /\ 0 \notin InView
  BY <1>i, <1>m, <1>p DEF ViewInv, InView
<1>1. ASSUME UNCHANGED <<up, me, at, here, clients>>, \A y \in Others : at[y] \in InView <=> at[y] \in InView'
      PROVE  ClientsInv'
  BY <1>1 DEF ClientsInv, InRoster
<1>2. ASSUME NEW p, NEW k, CreateChannel(p, k) PROVE ClientsInv'
  <2>1. UNCHANGED <<up, me, at, here, granted, clients>>
    BY <1>2 DEF CreateChannel, Told
  <2> QED BY <1>1, <2>1 DEF InView
<1>3. ASSUME NEW c, DeleteChannel(c) PROVE ClientsInv'
  <2>1. /\ UNCHANGED <<up, me, at, here, clients>> /\ granted' = granted \ {c} /\ here # c
        /\ There(c) = {}
    BY <1>3 DEF DeleteChannel, Told
  <2>2. \A y \in Others : at[y] # c
    BY <2>1 DEF There
  <2> QED BY <1>1, <2>1, <2>2 DEF InView
<1>4. ASSUME NEW c, NEW p, NEW k, MoveChannel(c, p, k) PROVE ClientsInv'
  <2>1. UNCHANGED <<up, me, at, here, granted, clients>>
    BY <1>4 DEF MoveChannel, Told
  <2> QED BY <1>1, <2>1 DEF InView
<1>5. CASE \/ Text \/ Handle \/ OwnCommand \/ UNCHANGED vars \/ \E c \in Channels : EditChannel(c)
  <2>1. UNCHANGED <<up, me, at, here, granted, clients>>
    BY <1>5 DEF Text, Handle, OwnCommand, EditChannel, Told, vars, server, library
  <2> QED BY <1>1, <2>1 DEF InView
<1>6. ASSUME NEW x \in Others, NEW d \in Nodes, Go(x, d) PROVE ClientsInv'
  <2>1. /\ UNCHANGED <<up, me, here, granted>> /\ at' = [at EXCEPT ![x] = d] /\ InView' = InView
    BY <1>6 DEF Go, InView
  <2>2. SUFFICES ASSUME up PROVE clients' = InRoster'
    BY <2>1 DEF ClientsInv
  <2>3. clients = InRoster
    BY <2>2 DEF ClientsInv
  <2>4. at'[x] = d /\ (\A y \in Others \ {x} : at'[y] = at[y]) /\ x # me
    BY <1>i, <1>m, <2>1 DEF ViewInv
  <2>5. CASE d \in InView
    <3>1. clients' = Seen({x}, d)
      BY <1>6, <2>2, <2>5 DEF Go, Told
    <3>2. DOMAIN clients \union {x} = {me} \union {y \in Others : at'[y] \in InView}
      BY <2>3, <2>4, <2>5 DEF InRoster
    <3>3. \A y \in DOMAIN clients \union {x} :
            (IF y \in {x} THEN d ELSE clients[y]) = IF y = me THEN here ELSE at'[y]
      BY <2>3, <2>4 DEF InRoster
    <3>4. InRoster' = [y \in {me} \union {z \in Others : at'[z] \in InView} |-> IF y = me THEN here ELSE at'[y]]
      BY <2>1 DEF InRoster
    <3> QED BY <3>1, <3>2, <3>3, <3>4 DEF Seen
  <2>6. CASE d \notin InView
    <3>1. InRoster' = [y \in {me} \union {z \in Others : at'[z] \in InView} |-> IF y = me THEN here ELSE at'[y]]
      BY <2>1 DEF InRoster
    <3>2. CASE at[x] \in InView
      <4>1. clients' = Gone({x})
        BY <1>6, <2>2, <2>6, <3>2 DEF Go, Told
      <4>2. DOMAIN clients \ {x} = {me} \union {y \in Others : at'[y] \in InView}
        BY <2>3, <2>4, <2>6 DEF InRoster
      <4>3. \A y \in DOMAIN clients \ {x} : clients[y] = IF y = me THEN here ELSE at'[y]
        BY <2>3, <2>4 DEF InRoster
      <4> QED BY <3>1, <4>1, <4>2, <4>3 DEF Gone
    <3>3. CASE at[x] \notin InView
      <4>1. clients' = clients
        BY <1>6, <2>6, <3>3 DEF Go, Told
      <4>2. {y \in Others : at[y] \in InView} = {y \in Others : at'[y] \in InView}
        BY <2>4, <2>6, <3>3
      <4>3. \A y \in {me} \union {z \in Others : at[z] \in InView} :
              (IF y = me THEN here ELSE at[y]) = IF y = me THEN here ELSE at'[y]
        BY <2>4, <3>3
      <4> QED BY <2>3, <3>1, <4>1, <4>2, <4>3 DEF InRoster
    <3> QED BY <3>2, <3>3
  <2> QED BY <2>5, <2>6
<1>7. CASE Grant
  <2> DEFINE S == Head(asked)
             new == {x \in Others : at[x] \in S \ InView}
  <2>1. /\ up /\ UNCHANGED <<up, me, at, here>> /\ granted' = granted \union S
        /\ clients' = [x \in DOMAIN clients \union new |-> IF x \in new THEN at[x] ELSE clients[x]]
    BY <1>7 DEF Grant, Told
  <2>2. clients = InRoster
    BY <2>1 DEF ClientsInv
  <2>3. InView' = InView \union S
    BY <2>1 DEF InView
  <2> HIDE DEF S
  <2>4. DOMAIN clients \union new = {me} \union {y \in Others : at[y] \in InView'}
    BY <2>2, <2>3 DEF InRoster
  <2>5. \A x \in DOMAIN clients \union new :
          (IF x \in new THEN at[x] ELSE clients[x]) = IF x = me THEN here ELSE at[x]
    BY <1>m, <2>2 DEF InRoster
  <2>6. InRoster' = [x \in {me} \union {y \in Others : at[y] \in InView'} |-> IF x = me THEN here ELSE at[x]]
    BY <2>1 DEF InRoster
  <2> HIDE DEF new
  <2> QED BY <2>1, <2>4, <2>5, <2>6 DEF ClientsInv
<1>8. ASSUME NEW d \in Channels, OwnMove(d) PROVE ClientsInv'
  <2> DEFINE new == IF d \in granted THEN {} ELSE There(d)
             cl == Seen(new \union {me}, d)
  <2>1. /\ up /\ UNCHANGED <<up, me, at, granted>> /\ here' = d /\ d # here
        /\ here \in granted => clients' = cl
        /\ here \notin granted => clients' = LeaveBook(cl, here)
    BY <1>8 DEF OwnMove, Told
  <2>2. clients = InRoster
    BY <2>1 DEF ClientsInv
  <2>3. InView' = granted \union {d} /\ InView = granted \union {here}
    BY <2>1 DEF InView
  <2>4. DOMAIN cl = {me} \union {y \in Others : at[y] \in granted \union {here, d}}
    BY <2>2, <2>3 DEF InRoster, Seen, There
  <2>5. \A x \in DOMAIN cl : cl[x] = IF x = me THEN d ELSE at[x]
    <3>1. \A x \in Others : x \in new => at[x] = d
      BY DEF There
    <3>2. \A x \in DOMAIN cl : cl[x] = IF x \in new \union {me} THEN d ELSE clients[x]
      BY DEF Seen
    <3>3. new \subseteq Others
      BY DEF There
    <3>4. \A x \in DOMAIN cl : x \in new \union {me} \/ x \in DOMAIN clients
      BY DEF Seen
    <3>5. \A x \in DOMAIN clients : clients[x] = IF x = me THEN here ELSE at[x]
      BY <2>2 DEF InRoster
    <3> HIDE DEF cl, new
    <3> QED BY <1>m, <3>1, <3>2, <3>3, <3>4, <3>5
  <2>6. InRoster' = [x \in {me} \union {y \in Others : at[y] \in granted \union {d}} |-> IF x = me THEN d ELSE at[x]]
    BY <2>1, <2>3 DEF InRoster
  <2>7. cl = [x \in DOMAIN cl |-> cl[x]]
    BY DEF Seen
  <2> HIDE DEF cl, new
  <2>8. CASE here \in granted
    <3>1. DOMAIN cl = {me} \union {y \in Others : at[y] \in granted \union {d}}
      BY <2>4, <2>8
    <3> QED BY <2>1, <2>5, <2>6, <2>7, <2>8, <3>1 DEF ClientsInv
  <2>9. CASE here \notin granted
    <3>1. clients' = [x \in {y \in DOMAIN cl : cl[y] # here} |-> cl[x]]
      BY <2>1, <2>9 DEF LeaveBook
    <3>2. {y \in DOMAIN cl : cl[y] # here} = {me} \union {y \in Others : at[y] \in granted \union {d}}
      BY <1>m, <2>1, <2>4, <2>5, <2>9
    <3>3. \A x \in {y \in DOMAIN cl : cl[y] # here} : cl[x] = IF x = me THEN d ELSE at[x]
      BY <2>5
    <3> QED BY <2>6, <3>1, <3>2, <3>3 DEF ClientsInv
  <2> QED BY <2>8, <2>9
<1>9. CASE Drop
  BY <1>9 DEF Drop, ClientsInv
<1>10. CASE Reconnect
  <2>1. /\ UNCHANGED <<at, here>> /\ granted' = {} /\ me' = me + 1
        /\ clients' = [x \in {me'} \union There(here) |-> here]
    BY <1>10 DEF Reconnect
  <2>2. There(here) = {y \in Others : at[y] \in InView'}
    BY <2>1 DEF There, InView
  <2>3. InRoster' = [x \in {me'} \union {y \in Others : at[y] \in InView'} |-> IF x = me' THEN here ELSE at[x]]
    BY <2>1 DEF InRoster
  <2>4. \A x \in {me'} \union There(here) : here = IF x = me' THEN here ELSE at[x]
    BY DEF There
  <2> QED BY <2>1, <2>2, <2>3, <2>4 DEF ClientsInv
<1> QED BY <1>2, <1>3, <1>4, <1>5, <1>6, <1>7, <1>8, <1>9, <1>10 DEF Next, Notified, Nodes

----------------------------------------------------------------------------
(* The theorems of Book.                                                   *)

LEMMA BookInit ==
  ASSUME Init PROVE ServerInv /\ BookInv /\ ClientsInv /\ AskedInv
<1>1. 1 \in Channels /\ 2 \in Channels /\ MaxDrops \in Nat /\ 0 \notin Channels
  <2>1. Cardinality(Channels) \in Nat
    BY BookAssumption, FS_CardinalityType
  <2>2. Channels = 1..Cardinality(Channels) /\ Cardinality(Channels) >= 2 /\ MaxDrops \in Nat
    BY BookAssumption
  <2>3. 1 \in 1..Cardinality(Channels) /\ 2 \in 1..Cardinality(Channels)
    BY <2>1, <2>2
  <2> QED BY <2>2, <2>3, NodesNat
<1>2. tree \in Trees
  <2>1. <<1, 2>> \in Seq(Channels) /\ <<>> \in Seq(Channels)
    BY <1>1
  <2>2. tree = [p \in Nodes |-> IF p = 0 THEN <<1, 2>> ELSE <<>>]
    BY DEF Init, Nodes
  <2> QED BY <2>1, <2>2 DEF Trees
<1>3. \A p \in Nodes : tree[p] = IF p = 0 THEN <<1, 2>> ELSE <<>>
  BY DEF Init, Nodes
<1>4. \A p \in Nodes : \A k \in 1..Len(tree[p]) : p = 0 /\ (k = 1 \/ k = 2) /\ tree[p][k] = k
  BY <1>3
<1>5. Once(tree)
  BY <1>4 DEF Once
<1>6. Placed(tree) = {1, 2}
  <2>1. \A x : x \in Placed(tree) <=> \E p \in Nodes : \E k \in 1..Len(tree[p]) : tree[p][k] = x
    BY <1>2, PlacedHas
  <2>2. \A x \in Placed(tree) : x = 1 \/ x = 2
    BY <1>4, <2>1
  <2>3. 0 \in Nodes /\ tree[0] = <<1, 2>>
    BY <1>3, NodesNat
  <2>4. 1 \in 1..Len(tree[0]) /\ 2 \in 1..Len(tree[0]) /\ tree[0][1] = 1 /\ tree[0][2] = 2
    BY <2>3
  <2>5. 1 \in Placed(tree) /\ 2 \in Placed(tree)
    BY <2>1, <2>3, <2>4
  <2> QED BY <2>2, <2>5
<1>7. TreeInv
  <2>1. made = 2
    BY DEF Init
  <2>2. 1 <= made /\ 2 <= made
    BY <2>1
  <2>3. {1, 2} \subseteq 1..made /\ 2 \in Nat
    BY <2>1
  <2> QED BY <1>1, <1>2, <1>5, <1>6, <2>1, <2>2, <2>3 DEF TreeInv
<1>8. ViewInv
  <2>1. at \in [Others -> Nodes]
    <3>1. 0..2 \subseteq Nodes
      BY <1>1, NodesNat
    <3> QED BY <3>1 DEF Init
  <2>2. asked \in Seq(SUBSET Channels)
    <3>1. {1, 2} \in SUBSET Channels
      BY <1>1
    <3> QED BY <3>1 DEF Init
  <2> QED BY <1>6, <2>1, <2>2 DEF ViewInv, Init
<1>9. NumberInv
  BY <1>1 DEF NumberInv, Init
<1>10. BookInv
  <2>1. book \in Listed /\ IsFiniteSet(Present)
    BY <1>7, FinitelyMany DEF Init
  <2>2. Right(book, tree) /\ \A x \in DOMAIN book : ~book[x].subscribed
    BY <1>2, <1>5, <2>1, ListedRight
  <2> QED BY <2>2 DEF BookInv, Right
<1>11. ClientsInv
  <2>1. InView = {1} /\ me = 1 /\ here = 1
    BY DEF Init, InView
  <2>2. clients = [x \in {1} \union {y \in Others : at[y] = 1} |-> 1]
    BY DEF Init
  <2>3. {y \in Others : at[y] = 1} = {y \in Others : at[y] \in InView}
    BY <2>1
  <2>4. \A x \in {me} \union {y \in Others : at[y] \in InView} : 1 = IF x = me THEN here ELSE at[x]
    BY <2>1
  <2> QED BY <2>1, <2>2, <2>3, <2>4 DEF ClientsInv, InRoster
<1>12. AskedInv
  <2>1. 1 \in DOMAIN asked /\ asked[1] = {1, 2}
    BY DEF Init
  <2> QED BY <1>6, <2>1 DEF AskedInv
<1> QED BY <1>7, <1>8, <1>9, <1>10, <1>11, <1>12 DEF ServerInv

\* The server's part of the state, the book and the roster.
THEOREM BookInvariant == Spec => [](ServerInv /\ BookInv /\ ClientsInv /\ AskedInv)
<1>1. Init => ServerInv /\ BookInv /\ ClientsInv /\ AskedInv
  BY BookInit
<1>2. ASSUME ServerInv, BookInv, ClientsInv, AskedInv, [Next]_vars
      PROVE  ServerInv' /\ BookInv' /\ ClientsInv' /\ AskedInv'
  <2>1. ServerInv'
    BY <1>2, TreeKept, ViewKept, NumberKept DEF ServerInv
  <2> QED BY <1>2, <2>1, BookKept, ClientsKept, AskedKept
<1> QED BY <1>1, <1>2, PTL DEF Spec

\* The book has the channels of the server in the server's order, whatever
\* order they are listed in and however they come, go and move.
THEOREM BookRight == Spec => []TreeRight
<1>1. ServerInv /\ BookInv => TreeRight
  <2>1. SUFFICES ASSUME ServerInv, BookInv, up
                 PROVE  /\ DOMAIN book = Present
                        /\ \A c \in Present : book[c].order = OrderOf(c) /\ book[c].parent = ParentOf(c)
    BY DEF TreeRight
  <2>2. tree \in Trees /\ Once(tree) /\ Right(book, tree) /\ Present = Placed(tree)
    BY <2>1, FinitelyMany DEF BookInv, ServerInv, TreeInv
  <2> QED BY <2>2, PlaceNamed DEF Right
<1> QED BY <1>1, BookInvariant, PTL

\* The book has exactly the clients of the channels in our view, each in its
\* channel, and takes no channel for subscribed that is not.
THEOREM RosterRight == Spec => []ClientsRight
<1>1. ServerInv /\ BookInv /\ ClientsInv => ClientsRight
  <2>1. ServerInv => Present = Placed(tree)
    BY FinitelyMany DEF ServerInv
  <2> QED BY <2>1 DEF ClientsRight, BookInv, ClientsInv, InRoster
<1> QED BY <1>1, BookInvariant, PTL

\* No channel that is created is overlooked: while the first connection lasts,
\* each is subscribed to or its subscription is under way, the one we are in too.
THEOREM NoChannelOverlooked == Spec => []NoneOverlooked
<1>1. ServerInv /\ AskedInv => NoneOverlooked
  <2>1. ServerInv => Present = Placed(tree)
    BY FinitelyMany DEF ServerInv
  <2> QED BY <2>1 DEF NoneOverlooked, AskedInv, InView
<1> QED BY <1>1, BookInvariant, PTL


----------------------------------------------------------------------------
(* The items of a batch.                                                   *)

Whos == Others \union Own \union {0}

Hows == {"changed", "quiet", "moved", "connected", "quit", "subscription", "unsubscribed", "stop"}

Events ==
  [kind : {"channel", "in", "move", "out"}, who : Whos, from : Nat, how : Hows]
    \union [kind : {"text"}, who : Nat, from : {0}, how : {""}]

Items == [temp : BOOLEAN, events : Seq(Events)]

\* An item that copies the book, one that is a message, one with a sound about x.
Copies(it) == ~it.temp /\ \E j \in DOMAIN it.events : it.events[j].kind # "text"
IsText(it) == \E j \in DOMAIN it.events : it.events[j].kind = "text"
Sounds(it, x) ==
  \E j \in DOMAIN it.events :
    it.events[j].kind # "text" /\ it.events[j].who = x /\ Audible(it.events[j])

\* Only events without a sound come several in an item.
Shaped(it) ==
  /\ it \in Items /\ (IsText(it) => ~it.temp)
  /\ \/ Len(it.events) = 1
     \/ \A j \in DOMAIN it.events : it.events[j].kind # "text" /\ ~Audible(it.events[j])

\* The number of the message that item i is.
TextOf(it) == it.events[1].who

Sounding(s, x) == {i \in 1..Len(s) : Sounds(s[i], x)}

ItemInv ==
  /\ items \in Seq(Items) /\ \A i \in 1..Len(items) : Shaped(items[i])
  /\ armed \in BOOLEAN

\* The user interface has the book's rows, or will be given them.
UiInv ==
  up => \/ channelsUi = Rows /\ clientsUi = clients
        \/ \E i \in 1..Len(items) : Copies(items[i])

Holds(s, e) == \E j \in 1..Len(s) : s[j] = e

\* Every message is in the chat or in an item, once.
ChatInv ==
  /\ texts \in Nat /\ chat \in Seq(1..texts) /\ Distinct(chat)
  /\ \A i \in 1..Len(items) : IsText(items[i]) =>
       TextOf(items[i]) \in 1..texts /\ ~Holds(chat, TextOf(items[i]))
  /\ \A i, j \in 1..Len(items) :
       IsText(items[i]) /\ IsText(items[j]) /\ TextOf(items[i]) = TextOf(items[j]) => i = j
  /\ \A k \in 1..texts :
       Holds(chat, k) \/ \E i \in 1..Len(items) : IsText(items[i]) /\ TextOf(items[i]) = k

\* What is to be heard has been earned.
DueInv ==
  /\ due \in [Whos -> Int]
  /\ \A x \in Whos : Cardinality(Sounding(items, x)) <= due[x]

\* What a batch is worked off on: what the user interface has or is given.
States ==
  [armed : BOOLEAN, due : [Whos -> Int], handled : SUBSET Others, chat : Seq(Nat),
   channelsUi : {channelsUi, Rows}, clientsUi : {clientsUi, clients}]

\* Steps in a row: there is one way to do them,
Steps(F, n, X) == F \in [(1..n) \X X -> X]
Row(f, n, X, x, F) == f \in [0..n -> X] /\ f[0] = x /\ \A k \in 1..n : f[k] = F[<<k, f[k - 1]>>]

LEMMA InARow ==
  ASSUME NEW n \in Nat, NEW X, NEW x \in X, NEW F, Steps(F, n, X)
  PROVE  \E f : Row(f, n, X, x, F)
<1> DEFINE Runs(m) == {f \in [0..m -> X] : f[0] = x /\ \A k \in 1..m : f[k] = F[<<k, f[k - 1]>>]}
           Short == {m \in 0..n : Runs(m) = {}}
<1>1. Runs(0) # {}
  <2>1. [k \in 0..0 |-> x] \in Runs(0)
    OBVIOUS
  <2> QED BY <2>1
<1>2. ASSUME NEW m \in Nat, m < n, Runs(m) # {} PROVE Runs(m + 1) # {}
  <2>1. PICK f \in [0..m -> X] : f[0] = x /\ \A k \in 1..m : f[k] = F[<<k, f[k - 1]>>]
    BY <1>2
  <2>2. f[m] \in X /\ m + 1 \in 1..n
    BY <1>2
  <2> DEFINE e == F[<<m + 1, f[m]>>]
  <2>3. e \in X
    BY <2>2 DEF Steps
  <2> DEFINE g == [k \in 0..m+1 |-> IF k = m + 1 THEN e ELSE f[k]]
  <2>4. g \in [0..m+1 -> X]
    BY <2>1, <2>3
  <2>5. g[0] = x
    BY <1>2, <2>1
  <2>6. ASSUME NEW k \in 1..m+1 PROVE g[k] = F[<<k, g[k - 1]>>]
    <3>1. CASE k = m + 1
      <4>1. g[k] = e /\ g[k - 1] = f[m]
        BY <1>2, <3>1
      <4> QED BY <3>1, <4>1
    <3>2. CASE k # m + 1
      <4>1. k \in 1..m /\ g[k] = f[k] /\ g[k - 1] = f[k - 1]
        BY <1>2, <3>2
      <4> QED BY <2>1, <4>1
    <3> QED BY <3>1, <3>2
  <2> HIDE DEF g
  <2> QED BY <2>4, <2>5, <2>6
<1>3. Short = {}
  <2> SUFFICES ASSUME Short # {} PROVE FALSE
    OBVIOUS
  <2>0. Short \subseteq Nat
    OBVIOUS
  <2>1. PICK m \in Short : \A l \in Short : m <= l
    BY <2>0, Least
  <2>2. m # 0 /\ m \in 0..n /\ Runs(m) = {}
    BY <1>1
  <2>3. m - 1 \in 0..n /\ ~(m <= m - 1)
    BY <2>2
  <2>4. Runs(m - 1) # {}
    BY <2>1, <2>3
  <2> HIDE DEF Runs
  <2>5. Runs((m - 1) + 1) # {}
    BY <1>2, <2>2, <2>3, <2>4
  <2> QED BY <2>2, <2>5
<1>4. PICK f \in Runs(n) : TRUE
  <2>1. n \in 0..n /\ n \notin Short
    BY <1>3
  <2> HIDE DEF Runs
  <2> QED BY <2>1
<1>5. f \in [0..n -> X] /\ f[0] = x /\ \A k \in 1..n : f[k] = F[<<k, f[k - 1]>>]
  BY <1>4
<1> QED BY <1>5 DEF Row

\* and what each keeps, all keep.
LEMMA StepByStep ==
  ASSUME NEW n \in Nat, NEW h, NEW G, h[0] \in G[0],
         \A k \in 1..n : h[k - 1] \in G[k - 1] => h[k] \in G[k]
  PROVE  h[n] \in G[n]
<1> DEFINE Bad == {k \in 0..n : h[k] \notin G[k]}
<1>1. Bad = {}
  <2> SUFFICES ASSUME Bad # {} PROVE FALSE
    OBVIOUS
  <2>0. Bad \subseteq Nat
    OBVIOUS
  <2>1. PICK k \in Bad : \A l \in Bad : k <= l
    BY <2>0, Least
  <2>2. k # 0 /\ k \in 1..n /\ h[k] \notin G[k]
    OBVIOUS
  <2>3. k - 1 \in 0..n /\ ~(k <= k - 1)
    BY <2>2
  <2>4. h[k - 1] \in G[k - 1]
    BY <2>1, <2>3
  <2> QED BY <2>2, <2>4
<1> QED BY <1>1

\* The same for the events of an item,
EventKeeps(e, P, Q) == \A t \in States : HandleEvent(t, e) \in States /\ (t \in P => HandleEvent(t, e) \in Q)

LEMMA EventsKeep ==
  ASSUME NEW s, Len(s) \in Nat, NEW st \in States, NEW G, st \in G[0],
         \A k \in 1..Len(s) : EventKeeps(s[k], G[k - 1], G[k])
  PROVE  HandleEvents(st, s) \in States /\ HandleEvents(st, s) \in G[Len(s)]
<1> DEFINE n == Len(s)
           F == [p \in (1..n) \X States |-> HandleEvent(p[2], s[p[1]])]
           body(h) == [k \in 0..n |-> IF k = 0 THEN st ELSE HandleEvent(h[k - 1], s[k])]
           after == CHOOSE h : h = body(h)
<1>1. n \in Nat
  OBVIOUS
<1>2. \A k \in 1..n : \A t \in States : HandleEvent(t, s[k]) \in States
  BY DEF EventKeeps
<1>3. Steps(F, n, States)
  BY <1>2 DEF Steps
<1>4. HandleEvents(st, s) = after[n]
  BY DEF HandleEvents
<1>5. PICK f \in [0..n -> States] : f[0] = st /\ \A k \in 1..n : f[k] = F[<<k, f[k - 1]>>]
  <2> HIDE DEF F, n
  <2>1. \E f : Row(f, n, States, st, F)
    BY <1>1, <1>3, InARow
  <2> QED BY <2>1 DEF Row
<1>6. \A k \in 1..n : f[k] = HandleEvent(f[k - 1], s[k])
  <2>1. ASSUME NEW k \in 1..n PROVE <<k, f[k - 1]>> \in (1..n) \X States
    BY <1>1, <1>5
  <2> QED BY <1>5, <2>1
<1>7. f = body(f)
  BY <1>5, <1>6
<1>8. after = body(after)
  <2> HIDE DEF body
  <2> QED BY <1>7
<1>9. after[0] = st /\ \A k \in 1..n : after[k] = HandleEvent(after[k - 1], s[k])
  <2> HIDE DEF after
  <2> QED BY <1>1, <1>8
<1> HIDE DEF after, body, F
<1> DEFINE H == [k \in 0..n |-> States \cap G[k]]
<1>10. after[0] \in H[0]
  BY <1>1, <1>9
<1>11. ASSUME NEW k \in 1..n, after[k - 1] \in H[k - 1] PROVE after[k] \in H[k]
  <2>1. k \in 0..n /\ k - 1 \in 0..n
    BY <1>1
  <2>2. after[k - 1] \in States /\ after[k - 1] \in G[k - 1]
    BY <1>11, <2>1
  <2>3. after[k] = HandleEvent(after[k - 1], s[k])
    BY <1>9
  <2> QED BY <2>1, <2>2, <2>3 DEF EventKeeps
<1>12. after[n] \in H[n]
  <2> HIDE DEF H, n
  <2> QED BY <1>1, <1>10, <1>11, StepByStep
<1>13. n \in 0..n
  BY <1>1
<1> QED BY <1>4, <1>12, <1>13

\* and for the items of a batch.
ItemKeeps(it, P, Q) == \A t \in States : HandleItem(t, it) \in States /\ (t \in P => HandleItem(t, it) \in Q)

LEMMA ItemsKeep ==
  ASSUME NEW s, Len(s) \in Nat, NEW st \in States, NEW G, st \in G[0],
         \A k \in 1..Len(s) : ItemKeeps(s[k], G[k - 1], G[k])
  PROVE  HandleItems(st, s) \in States /\ HandleItems(st, s) \in G[Len(s)]
<1> DEFINE n == Len(s)
           F == [p \in (1..n) \X States |-> HandleItem(p[2], s[p[1]])]
           body(h) == [k \in 0..n |-> IF k = 0 THEN st ELSE HandleItem(h[k - 1], s[k])]
           after == CHOOSE h : h = body(h)
<1>1. n \in Nat
  OBVIOUS
<1>2. \A k \in 1..n : \A t \in States : HandleItem(t, s[k]) \in States
  BY DEF ItemKeeps
<1>3. Steps(F, n, States)
  BY <1>2 DEF Steps
<1>4. HandleItems(st, s) = after[n]
  BY DEF HandleItems
<1>5. PICK f \in [0..n -> States] : f[0] = st /\ \A k \in 1..n : f[k] = F[<<k, f[k - 1]>>]
  <2> HIDE DEF F, n
  <2>1. \E f : Row(f, n, States, st, F)
    BY <1>1, <1>3, InARow
  <2> QED BY <2>1 DEF Row
<1>6. \A k \in 1..n : f[k] = HandleItem(f[k - 1], s[k])
  <2>1. ASSUME NEW k \in 1..n PROVE <<k, f[k - 1]>> \in (1..n) \X States
    BY <1>1, <1>5
  <2> QED BY <1>5, <2>1
<1>7. f = body(f)
  BY <1>5, <1>6
<1>8. after = body(after)
  <2> HIDE DEF body
  <2> QED BY <1>7
<1>9. after[0] = st /\ \A k \in 1..n : after[k] = HandleItem(after[k - 1], s[k])
  <2> HIDE DEF after
  <2> QED BY <1>1, <1>8
<1> HIDE DEF after, body, F
<1> DEFINE H == [k \in 0..n |-> States \cap G[k]]
<1>10. after[0] \in H[0]
  BY <1>1, <1>9
<1>11. ASSUME NEW k \in 1..n, after[k - 1] \in H[k - 1] PROVE after[k] \in H[k]
  <2>1. k \in 0..n /\ k - 1 \in 0..n
    BY <1>1
  <2>2. after[k - 1] \in States /\ after[k - 1] \in G[k - 1]
    BY <1>11, <2>1
  <2>3. after[k] = HandleItem(after[k - 1], s[k])
    BY <1>9
  <2> QED BY <2>1, <2>2, <2>3 DEF ItemKeeps
<1>12. after[n] \in H[n]
  <2> HIDE DEF H, n
  <2> QED BY <1>1, <1>10, <1>11, StepByStep
<1>13. n \in 0..n
  BY <1>1
<1> QED BY <1>4, <1>12, <1>13

\* An event copies the book or is a message, and makes no sound but its own.
Done(t, e, r) ==
  /\ r \in States
  /\ e.kind # "text" => /\ r.chat = t.chat
                        /\ up => r.channelsUi = Rows /\ r.clientsUi = clients
  /\ e.kind = "text" => /\ r.chat = Append(t.chat, e.who)
                        /\ r.channelsUi = t.channelsUi /\ r.clientsUi = t.clientsUi
  /\ \A x \in Whos : \/ r.due[x] = t.due[x]
                     \/ e.kind # "text" /\ e.who = x /\ Audible(e) /\ r.due[x] = t.due[x] - 1

LEMMA EventDone ==
  ASSUME NEW t \in States, NEW e \in Events PROVE Done(t, e, HandleEvent(t, e))
<1>0. /\ t.armed \in BOOLEAN /\ t.due \in [Whos -> Int] /\ t.handled \in SUBSET Others
      /\ t.chat \in Seq(Nat) /\ t.channelsUi \in {channelsUi, Rows} /\ t.clientsUi \in {clientsUi, clients}
  BY DEF States
<1>1. CASE e.kind = "text"
  <2> DEFINE r == [t EXCEPT !.chat = Append(@, e.who)]
  <2>1. HandleEvent(t, e) = r
    BY <1>1 DEF HandleEvent
  <2>2. e.who \in Nat
    BY <1>1 DEF Events
  <2>3. Append(t.chat, e.who) \in Seq(Nat)
    BY <1>0, <2>2
  <2>4. r \in States
    BY <1>0, <2>3 DEF States
  <2>5. r.chat = Append(t.chat, e.who) /\ r.channelsUi = t.channelsUi /\ r.clientsUi = t.clientsUi /\ r.due = t.due
    BY DEF States
  <2> HIDE DEF r
  <2> QED BY <1>1, <2>1, <2>4, <2>5 DEF Done
<1>2. CASE e.kind # "text"
  <2>1. e.who \in Whos
    BY <1>2 DEF Events
  <2> DEFINE a == Refresh(t, e)
             r == Sound(a, e)
  <2>2. /\ a \in States /\ a.chat = t.chat /\ a.due = t.due
        /\ up => a.channelsUi = Rows /\ a.clientsUi = clients
    <3>1. CASE up
      <4>1. a = [t EXCEPT !.channelsUi = Rows, !.clientsUi = clients]
        BY <1>2, <3>1 DEF Refresh
      <4>2. a \in States
        BY <1>0, <4>1 DEF States
      <4> QED BY <4>1, <4>2 DEF States
    <3>2. CASE ~up
      BY <3>2 DEF Refresh
    <3> QED BY <3>1, <3>2
  <2> HIDE DEF a
  <2>3. /\ r \in States /\ r.chat = a.chat /\ r.channelsUi = a.channelsUi /\ r.clientsUi = a.clientsUi
        /\ \A x \in Whos : r.due[x] = a.due[x] \/ (e.who = x /\ Audible(e) /\ r.due[x] = a.due[x] - 1)
    <3>1. CASE up /\ a.armed /\ Touches(e) /\ e.who \notin a.handled
      <4> DEFINE n == IF Audible(e) THEN 1 ELSE 0
                 d == [a.due EXCEPT ![e.who] = @ - n]
                 h == IF e.who \in Others THEN a.handled \union {e.who} ELSE a.handled
      <4>1. r = [a EXCEPT !.due = d, !.handled = h]
        BY <2>2, <3>1 DEF Sound, States
      <4>2. a.due \in [Whos -> Int] /\ a.handled \in SUBSET Others
        BY <2>2 DEF States
      <4>0. n \in Int /\ (n = 0 \/ (Audible(e) /\ n = 1))
        <5>1. n = 0 \/ (Audible(e) /\ n = 1)
          BY Zenon
        <5>2. n = 0 \/ n = 1
          BY <5>1, Zenon
        <5> HIDE DEF n
        <5>3. n \in Int
          BY <5>2
        <5> QED BY <5>1, <5>3
      <4> HIDE DEF n
      <4>3. d \in [Whos -> Int] /\ h \in SUBSET Others
        <5>1. h \in SUBSET Others
          BY <4>2
        <5>2. a.due[e.who] - n \in Int
          BY <2>1, <4>0, <4>2
        <5> QED BY <4>2, <5>1, <5>2
      <4>4. \A x \in Whos : d[x] = a.due[x] \/ (e.who = x /\ Audible(e) /\ d[x] = a.due[x] - 1)
        <5>1. \A x \in Whos : d[x] = IF x = e.who THEN a.due[x] - n ELSE a.due[x]
          BY <4>2
        <5>2. \A x \in Whos : a.due[x] \in Int
          BY <4>2
        <5> HIDE DEF d
        <5>3. CASE n = 0
          <6>1. \A x \in Whos : d[x] = a.due[x]
            BY <5>1, <5>2, <5>3
          <6> QED BY <6>1, Zenon
        <5>4. CASE Audible(e) /\ n = 1
          <6>1. \A x \in Whos : d[x] = a.due[x] \/ (e.who = x /\ d[x] = a.due[x] - 1)
            BY <5>1, <5>2, <5>4
          <6> QED BY <5>4, <6>1, Zenon
        <5> QED BY <4>0, <5>3, <5>4, Zenon
      <4> HIDE DEF d, h
      <4>5. r \in States
        BY <2>2, <4>1, <4>3 DEF States
      <4>6. r.chat = a.chat /\ r.channelsUi = a.channelsUi /\ r.clientsUi = a.clientsUi /\ r.due = d
        BY <2>2, <4>1 DEF States
      <4> QED BY <4>4, <4>5, <4>6
    <3>2. CASE ~(up /\ a.armed /\ Touches(e) /\ e.who \notin a.handled)
      <4>1. r = a
        BY <3>2, Zenon DEF Sound
      <4> HIDE DEF r
      <4>2. \A x \in Whos : r.due[x] = a.due[x]
        BY <4>1, Zenon
      <4> QED BY <2>2, <4>1, <4>2, Zenon
    <3> QED BY <3>1, <3>2
  <2>4. HandleEvent(t, e) = r
    BY <1>2 DEF HandleEvent, a
  <2> HIDE DEF r
  <2> QED BY <1>2, <2>2, <2>3, <2>4 DEF Done
<1> QED BY <1>1, <1>2

\* An item copies the book, if anything does, and makes one sound at the most.
Fresh(t) == t.channelsUi = Rows /\ t.clientsUi = clients

Worked(t, it, r) ==
  /\ r \in States
  /\ r.chat = IF IsText(it) THEN Append(t.chat, TextOf(it)) ELSE t.chat
  /\ up /\ (Fresh(t) \/ Copies(it)) => Fresh(r)
  /\ \A x \in Whos : r.due[x] = t.due[x] \/ (Sounds(it, x) /\ r.due[x] = t.due[x] - 1)

LEMMA EventsWorked ==
  ASSUME NEW t \in States, NEW it, Shaped(it), ~it.temp
  PROVE  Worked(t, it, HandleEvents(t, it.events))
<1> DEFINE s == it.events
           r == HandleEvents(t, s)
<1>1. s \in Seq(Events) /\ Len(s) \in Nat /\ DOMAIN s = 1..Len(s) /\ \A k \in 1..Len(s) : s[k] \in Events
  BY DEF Shaped, Items
<1>2. \A k \in 1..Len(s) : \A u \in States : Done(u, s[k], HandleEvent(u, s[k]))
  BY <1>1, EventDone
<1>3. CASE Len(s) = 1
  <2> DEFINE e == s[1]
             G == [k \in 0..1 |-> IF k = 0 THEN {t} ELSE {u \in States : Done(t, e, u)}]
  <2>1. \A u \in States : Done(u, e, HandleEvent(u, e))
    BY <1>2, <1>3
  <2>2. \A u \in States : HandleEvent(u, e) \in States
    BY <2>1 DEF Done
  <2>3. HandleEvent(t, e) \in {u \in States : Done(t, e, u)}
    BY <2>1, <2>2
  <2>4. EventKeeps(e, {t}, {u \in States : Done(t, e, u)})
    BY <2>2, <2>3 DEF EventKeeps
  <2>5. \A k \in 1..Len(s) : EventKeeps(s[k], G[k - 1], G[k])
    <3>1. G[0] = {t} /\ G[1] = {u \in States : Done(t, e, u)}
      OBVIOUS
    <3> HIDE DEF G
    <3>2. ASSUME NEW k \in 1..Len(s) PROVE k = 1 /\ k - 1 = 0 /\ s[k] = e
      BY <1>3
    <3> HIDE DEF e
    <3> QED BY <2>4, <3>1, <3>2
  <2>6. t \in G[0] /\ G[Len(s)] = {u \in States : Done(t, e, u)}
    BY <1>3
  <2> HIDE DEF G
  <2>7. r \in G[Len(s)]
    <3> HIDE DEF s
    <3> QED BY <1>1, <2>5, <2>6, EventsKeep
  <2>8. Done(t, e, r)
    BY <2>6, <2>7
  <2>9. IsText(it) <=> e.kind = "text"
    BY <1>1, <1>3 DEF IsText
  <2>10. Copies(it) <=> e.kind # "text"
    BY <1>1, <1>3 DEF Copies
  <2>11. \A x : Sounds(it, x) <=> e.kind # "text" /\ e.who = x /\ Audible(e)
    BY <1>1, <1>3 DEF Sounds
  <2>12. TextOf(it) = e.who
    BY DEF TextOf
  <2> HIDE DEF e, r, s
  <2>13. r \in States
    BY <2>8 DEF Done
  <2>14. r.chat = IF IsText(it) THEN Append(t.chat, TextOf(it)) ELSE t.chat
    BY <2>8, <2>9, <2>12 DEF Done
  <2>15. up /\ (Fresh(t) \/ Copies(it)) => Fresh(r)
    BY <2>8, <2>10 DEF Done, Fresh
  <2>16. \A x \in Whos : r.due[x] = t.due[x] \/ (Sounds(it, x) /\ r.due[x] = t.due[x] - 1)
    BY <2>8, <2>11 DEF Done
  <2> QED BY <2>13, <2>14, <2>15, <2>16 DEF Worked, r, s
<1>4. CASE \A j \in DOMAIN s : s[j].kind # "text" /\ ~Audible(s[j])
  <2> DEFINE Right0(u, k) == /\ u.chat = t.chat /\ \A x \in Whos : u.due[x] = t.due[x]
                             /\ up /\ (Fresh(t) \/ k > 0) => Fresh(u)
             G == [k \in 0..Len(s) |-> {u \in States : Right0(u, k)}]
  <2>1. t \in G[0]
    <3>1. Right0(t, 0)
      OBVIOUS
    <3> HIDE DEF Right0
    <3> QED BY <1>1, <3>1
  <2>2. ASSUME NEW k \in 1..Len(s) PROVE EventKeeps(s[k], G[k - 1], G[k])
    <3>1. s[k].kind # "text" /\ ~Audible(s[k])
      BY <1>1, <1>4
    <3>2. \A u \in States : Done(u, s[k], HandleEvent(u, s[k]))
      BY <1>2
    <3>3. \A u \in States : HandleEvent(u, s[k]) \in States
      BY <3>2 DEF Done
    <3>4. ASSUME NEW u \in States, Right0(u, k - 1) PROVE Right0(HandleEvent(u, s[k]), k)
      <4> DEFINE v == HandleEvent(u, s[k])
      <4>1. Done(u, s[k], v)
        BY <3>2
      <4> HIDE DEF v
      <4>2. v.chat = u.chat /\ (up => Fresh(v))
        BY <3>1, <4>1 DEF Done, Fresh
      <4>3. \A x \in Whos : v.due[x] = u.due[x]
        BY <3>1, <4>1 DEF Done
      <4>4. Right0(v, k)
        BY <3>4, <4>2, <4>3
      <4> QED BY <4>4 DEF v
    <3> HIDE DEF Right0
    <3>5. k \in 0..Len(s) /\ k - 1 \in 0..Len(s)
      BY <1>1
    <3>6. G[k - 1] = {u \in States : Right0(u, k - 1)} /\ G[k] = {u \in States : Right0(u, k)}
      BY <3>5
    <3> HIDE DEF G
    <3> QED BY <3>3, <3>4, <3>6 DEF EventKeeps
  <2>3. r \in G[Len(s)]
    <3> HIDE DEF s, G
    <3> QED BY <1>1, <2>1, <2>2, EventsKeep
  <2>4. r \in States /\ Right0(r, Len(s))
    <3> HIDE DEF Right0, r
    <3> QED BY <1>1, <2>3
  <2>5. ~IsText(it)
    BY <1>4 DEF IsText
  <2>6. Copies(it) => Len(s) > 0
    BY <1>1 DEF Copies
  <2> HIDE DEF r
  <2>7. r.chat = IF IsText(it) THEN Append(t.chat, TextOf(it)) ELSE t.chat
    BY <2>4, <2>5
  <2>8. up /\ (Fresh(t) \/ Copies(it)) => Fresh(r)
    BY <2>4, <2>6
  <2>9. \A x \in Whos : r.due[x] = t.due[x] \/ (Sounds(it, x) /\ r.due[x] = t.due[x] - 1)
    BY <2>4
  <2> QED BY <2>4, <2>7, <2>8, <2>9 DEF Worked, r, s
<1> QED BY <1>3, <1>4 DEF Shaped

LEMMA ItemWorked ==
  ASSUME NEW t \in States, NEW it, Shaped(it)
  PROVE  Worked(t, it, HandleItem(t, it))
<1>1. CASE it.temp
  <2> DEFINE r == [t EXCEPT !.armed = FALSE]
  <2>1. HandleItem(t, it) = r
    BY <1>1 DEF HandleItem
  <2>2. r \in States /\ r.chat = t.chat /\ r.due = t.due /\ r.channelsUi = t.channelsUi /\ r.clientsUi = t.clientsUi
    BY DEF States
  <2>3. ~IsText(it) /\ ~Copies(it)
    BY <1>1 DEF Shaped, Copies
  <2> HIDE DEF r
  <2> QED BY <2>1, <2>2, <2>3 DEF Worked, Fresh
<1>2. CASE ~it.temp
  <2> DEFINE u == [t EXCEPT !.handled = {}]
             v == HandleEvents(u, it.events)
             r == [v EXCEPT !.armed = TRUE]
  <2>1. u \in States /\ u.chat = t.chat /\ u.due = t.due /\ u.channelsUi = t.channelsUi /\ u.clientsUi = t.clientsUi
    BY DEF States
  <2>2. Worked(u, it, v)
    <3> HIDE DEF u
    <3> QED BY <1>2, <2>1, EventsWorked
  <2>3. v \in States
    BY <2>2 DEF Worked
  <2>4. HandleItem(t, it) = r
    BY <1>2 DEF HandleItem
  <2> HIDE DEF u, v
  <2>5. r \in States /\ r.chat = v.chat /\ r.due = v.due /\ r.channelsUi = v.channelsUi /\ r.clientsUi = v.clientsUi
    BY <2>3 DEF States
  <2> HIDE DEF r
  <2> QED BY <2>1, <2>2, <2>4, <2>5 DEF Worked, Fresh
<1> QED BY <1>1, <1>2

\* The items as they are worked off, the first one last.
Batch == Tail(items) \o <<Head(items)>>

Turn(k) == IF k = Len(items) THEN 1 ELSE k + 1

Begun == [armed |-> armed, due |-> due, handled |-> {}, chat |-> chat,
          channelsUi |-> channelsUi, clientsUi |-> clientsUi]

LEMMA Batched ==
  ASSUME items \in Seq(Items), items # <<>>
  PROVE  /\ Len(items) \in Nat /\ Len(items) > 0 /\ Len(Batch) = Len(items)
         /\ \A k \in 1..Len(items) : Turn(k) \in 1..Len(items) /\ Batch[k] = items[Turn(k)]
<1> DEFINE n == Len(items)
           a == Tail(items)
           h == Head(items)
<1>1. n \in Nat /\ n > 0
  <2>1. Len(items) \in Nat
    BY LenProperties
  <2> QED BY <2>1, EmptySeq
<1>2. h \in Items /\ h = items[1] /\ a \in Seq(Items) /\ Len(a) = n - 1 /\ \A k \in 1..n - 1 : a[k] = items[k + 1]
  BY HeadTailProperties
<1> HIDE DEF n, a, h
<1>3. <<h>> \in Seq(Items) /\ Len(<<h>>) = 1 /\ <<h>>[1] = h
  BY <1>2
<1>4. Batch = a \o <<h>>
  BY DEF Batch, a, h
<1>5. /\ Len(a \o <<h>>) = Len(a) + 1
      /\ \A k \in 1..Len(a) + 1 : (a \o <<h>>)[k] = IF k <= Len(a) THEN a[k] ELSE <<h>>[k - Len(a)]
  BY <1>2, <1>3, ConcatProperties
<1>6. Len(Batch) = n
  BY <1>1, <1>2, <1>4, <1>5
<1>7. ASSUME NEW k \in 1..n PROVE Turn(k) \in 1..n /\ Batch[k] = items[Turn(k)]
  <2>1. Batch[k] = IF k <= n - 1 THEN a[k] ELSE <<h>>[k - (n - 1)]
    BY <1>1, <1>2, <1>4, <1>5
  <2>2. CASE k = n
    <3>1. ~(k <= n - 1) /\ k - (n - 1) = 1 /\ Turn(k) = 1 /\ 1 \in 1..n
      BY <1>1, <2>2 DEF Turn, n
    <3> QED BY <1>2, <1>3, <2>1, <3>1
  <2>3. CASE k # n
    <3>1. k <= n - 1 /\ k \in 1..n - 1 /\ Turn(k) = k + 1 /\ k + 1 \in 1..n
      BY <1>1, <2>3 DEF Turn, n
    <3> QED BY <1>2, <2>1, <3>1
  <2> QED BY <2>2, <2>3
<1> QED BY <1>1, <1>6, <1>7 DEF n

\* What the items keep one by one.
KeptWorking(P, Q, it) == \A t, r \in States : t \in P /\ Worked(t, it, r) => r \in Q

LEMMA BatchWorked ==
  ASSUME ItemInv, items # <<>>, Begun \in States, NEW G, Begun \in G[0],
         \A k \in 1..Len(items) : KeptWorking(G[k - 1], G[k], Batch[k])
  PROVE  HandleItems(Begun, Batch) \in States /\ HandleItems(Begun, Batch) \in G[Len(items)]
<1>1. Len(items) \in Nat /\ Len(Batch) = Len(items) /\ \A k \in 1..Len(items) : Shaped(Batch[k])
  BY Batched DEF ItemInv
<1>2. ASSUME NEW k \in 1..Len(items) PROVE ItemKeeps(Batch[k], G[k - 1], G[k])
  <2>1. \A t \in States : Worked(t, Batch[k], HandleItem(t, Batch[k]))
    BY <1>1, ItemWorked
  <2>2. \A t \in States : HandleItem(t, Batch[k]) \in States
    BY <2>1 DEF Worked
  <2>3. KeptWorking(G[k - 1], G[k], Batch[k])
    OBVIOUS
  <2> QED BY <2>1, <2>2, <2>3 DEF ItemKeeps, KeptWorking
<1> QED BY <1>1, <1>2, ItemsKeep

Ended == HandleItems(Begun, Batch)

LEMMA HandleStep ==
  ASSUME ItemInv, ChatInv, DueInv, Handle
  PROVE  /\ items # <<>> /\ items' = <<>> /\ Begun \in States /\ Ended \in States
         /\ armed' = Ended.armed /\ due' = Ended.due /\ chat' = Ended.chat
         /\ channelsUi' = Ended.channelsUi /\ clientsUi' = Ended.clientsUi
         /\ up' = up /\ book' = book /\ clients' = clients /\ texts' = texts
<1>1. chat \in Seq(Nat)
  <2>1. texts \in Nat /\ chat \in Seq(1..texts)
    BY DEF ChatInv
  <2>2. 1..texts \subseteq Nat
    BY <2>1
  <2> QED BY <2>1, <2>2, SeqMonotonic
<1>2. Begun \in States
  <2>1. armed \in BOOLEAN /\ due \in [Whos -> Int] /\ {} \in SUBSET Others
    BY DEF ItemInv, DueInv
  <2> QED BY <1>1, <2>1 DEF States, Begun
<1>3. /\ items # <<>> /\ items' = <<>>
      /\ armed' = Ended.armed /\ due' = Ended.due /\ chat' = Ended.chat
      /\ channelsUi' = Ended.channelsUi /\ clientsUi' = Ended.clientsUi
  BY DEF Handle, Ended, Begun, Batch
<1>4. up' = up /\ book' = book /\ clients' = clients /\ texts' = texts
  BY DEF Handle, library
<1>5. Ended \in States
  <2> DEFINE G == [k \in 0..Len(items) |-> States]
  <2>1. Len(items) \in Nat /\ \A k \in 0..Len(items) : G[k] = States
    BY <1>3, Batched DEF ItemInv
  <2>2. Begun \in G[0]
    BY <1>2, <2>1
  <2>3. \A k \in 1..Len(items) : KeptWorking(G[k - 1], G[k], Batch[k])
    BY <2>1 DEF KeptWorking
  <2> HIDE DEF G
  <2> QED BY <1>2, <1>3, <2>2, <2>3, BatchWorked DEF Ended
<1> QED BY <1>2, <1>3, <1>4, <1>5

\* After a batch the user interface has what the book has.
LEMMA UiHandled ==
  ASSUME ItemInv, ChatInv, DueInv, UiInv, Handle PROVE UiInv'
<1> DEFINE n == Len(items)
           Is(t, k) == up /\ (Fresh(Begun) \/ \E m \in 1..k : Copies(Batch[m])) => Fresh(t)
           G == [k \in 0..n |-> {t \in States : Is(t, k)}]
<1>1. /\ n \in Nat /\ n > 0
      /\ \A k \in 1..n : Turn(k) \in 1..n /\ Batch[k] = items[Turn(k)]
  BY HandleStep, Batched DEF ItemInv
<1>2. Begun \in G[0]
  <2>1. Is(Begun, 0)
    <3>1. 1..0 = {}
      OBVIOUS
    <3> QED BY <3>1
  <2> HIDE DEF Is
  <2> QED BY <1>1, <2>1, HandleStep
<1>3. ASSUME NEW k \in 1..n PROVE KeptWorking(G[k - 1], G[k], Batch[k])
  <2>1. ASSUME NEW t \in States, NEW r \in States, Is(t, k - 1), Worked(t, Batch[k], r) PROVE Is(r, k)
    <3>1. up /\ (Fresh(t) \/ Copies(Batch[k])) => Fresh(r)
      BY <2>1 DEF Worked
    <3>2. \A m \in 1..k : m = k \/ m \in 1..k - 1
      BY <1>1
    <3> QED BY <2>1, <3>1, <3>2
  <2> HIDE DEF Is
  <2>2. G[k - 1] = {t \in States : Is(t, k - 1)} /\ G[k] = {t \in States : Is(t, k)}
    BY <1>1
  <2> HIDE DEF G
  <2> QED BY <2>1, <2>2 DEF KeptWorking
<1>4. Ended \in G[n]
  <2> HIDE DEF G
  <2> QED BY <1>2, <1>3, HandleStep, BatchWorked DEF Ended
<1>5. Is(Ended, n)
  <2> HIDE DEF Is
  <2> QED BY <1>1, <1>4
<1>6. SUFFICES ASSUME up PROVE channelsUi' = Rows' /\ clientsUi' = clients'
  BY HandleStep DEF UiInv
<1>7. Rows' = Rows
  BY HandleStep DEF Rows
<1>8. CASE \E i \in 1..n : Copies(items[i])
  <2>1. PICK i \in 1..n : Copies(items[i])
    BY <1>8
  <2> DEFINE m == IF i = 1 THEN n ELSE i - 1
  <2>2. m \in 1..n /\ Turn(m) = i
    BY <1>1 DEF Turn
  <2> HIDE DEF m
  <2>3. Copies(Batch[m])
    BY <1>1, <2>1, <2>2
  <2> QED BY <1>5, <1>6, <1>7, <2>2, <2>3, HandleStep DEF Fresh
<1>9. CASE channelsUi = Rows /\ clientsUi = clients
  <2>1. Fresh(Begun)
    BY <1>9 DEF Fresh, Begun
  <2> QED BY <1>5, <1>6, <1>7, <2>1, HandleStep DEF Fresh
<1> QED BY <1>6, <1>8, <1>9 DEF UiInv

\* t holds e as well.
Gains(t, s, e, S) == t \in Seq(S) /\ Distinct(t) /\ \A x : Holds(t, x) <=> Holds(s, x) \/ x = e

LEMMA HoldsAppended ==
  ASSUME NEW S, NEW s \in Seq(S), Distinct(s), NEW e \in S, ~Holds(s, e)
  PROVE  Gains(Append(s, e), s, e, S)
<1> DEFINE t == Append(s, e)
<1>1. /\ Len(s) \in Nat /\ t \in Seq(S) /\ Len(t) = Len(s) + 1
      /\ \A i \in 1..Len(s) : t[i] = s[i]
      /\ t[Len(s) + 1] = e
  BY AppendProperties
<1> HIDE DEF t
<1>2. \A i \in 1..Len(t) : i = Len(s) + 1 \/ i \in 1..Len(s)
  BY <1>1
<1>3. Distinct(t)
  BY <1>1, <1>2 DEF Distinct, Holds
<1>4. ASSUME NEW x, Holds(t, x) PROVE Holds(s, x) \/ x = e
  BY <1>1, <1>2, <1>4 DEF Holds
<1>5. ASSUME NEW x, Holds(s, x) \/ x = e PROVE Holds(t, x)
  <2>1. Len(s) + 1 \in 1..Len(t) /\ \A i \in 1..Len(s) : i \in 1..Len(t)
    BY <1>1
  <2> QED BY <1>1, <1>5, <2>1 DEF Holds
<1> QED BY <1>1, <1>3, <1>4, <1>5 DEF Gains, t

\* After a batch the chat has every message.
LEMMA ChatHandled ==
  ASSUME ItemInv, ChatInv, DueInv, Handle PROVE ChatInv'
<1> DEFINE n == Len(items)
           In(m, k) == \E i \in 1..k : IsText(Batch[i]) /\ TextOf(Batch[i]) = m
           Is(c, k) == /\ c \in Seq(1..texts) /\ Distinct(c)
                       /\ \A m \in 1..texts : Holds(c, m) <=> Holds(chat, m) \/ In(m, k)
           G == [k \in 0..n |-> {t \in States : Is(t.chat, k)}]
<1>1. /\ n \in Nat /\ n > 0
      /\ \A k \in 1..n : Turn(k) \in 1..n /\ Batch[k] = items[Turn(k)]
  BY HandleStep, Batched DEF ItemInv
<1>2. Begun \in G[0]
  <2>1. Is(chat, 0)
    <3>1. \A m : ~In(m, 0)
      OBVIOUS
    <3> HIDE DEF In
    <3> QED BY <3>1 DEF ChatInv
  <2> HIDE DEF Is
  <2>2. Begun.chat = chat
    BY DEF Begun
  <2> QED BY <1>1, <2>1, <2>2, HandleStep
<1>3. ASSUME NEW k \in 1..n PROVE KeptWorking(G[k - 1], G[k], Batch[k])
  <2>0. k \in 0..n /\ k - 1 \in 0..n
    BY <1>1
  <2>1. ASSUME NEW t \in States, NEW r \in States, Is(t.chat, k - 1), Worked(t, Batch[k], r) PROVE Is(r.chat, k)
    <3> DEFINE e == TextOf(Batch[k])
    <3>1. \A m : In(m, k) <=> In(m, k - 1) \/ (IsText(Batch[k]) /\ m = e)
      <4>1. \A i : i \in 1..k <=> i = k \/ i \in 1..k - 1
        BY <1>1
      <4> QED BY <4>1
    <3>2. CASE ~IsText(Batch[k])
      <4>1. r.chat = t.chat
        BY <2>1, <3>2 DEF Worked
      <4>2. \A m : In(m, k) <=> In(m, k - 1)
        BY <3>1, <3>2
      <4> HIDE DEF In
      <4> QED BY <2>1, <4>1, <4>2
    <3>3. CASE IsText(Batch[k])
      <4>1. r.chat = Append(t.chat, e)
        BY <2>1, <3>3 DEF Worked
      <4>2. e \in 1..texts /\ ~Holds(chat, e)
        BY <1>1, <3>3 DEF ChatInv
      <4>3. ~In(e, k - 1)
        <5>1. ASSUME NEW i \in 1..k - 1, IsText(Batch[i]), TextOf(Batch[i]) = e PROVE FALSE
          <6>1. i \in 1..n /\ i # k /\ Turn(i) # Turn(k)
            BY <1>1 DEF Turn
          <6> QED BY <1>1, <3>3, <5>1, <6>1 DEF ChatInv
        <5> QED BY <5>1
      <4> HIDE DEF e, In
      <4>4. ~Holds(t.chat, e)
        BY <2>1, <4>2, <4>3
      <4>5. t.chat \in Seq(1..texts) /\ Distinct(t.chat)
        BY <2>1
      <4>6. r.chat \in Seq(1..texts) /\ Distinct(r.chat) /\ \A x : Holds(r.chat, x) <=> Holds(t.chat, x) \/ x = e
        <5>1. Gains(r.chat, t.chat, e, 1..texts)
          BY <4>1, <4>2, <4>4, <4>5, HoldsAppended
        <5> QED BY <5>1 DEF Gains
      <4> QED BY <2>1, <3>1, <3>3, <4>6
    <3> QED BY <3>2, <3>3
  <2> HIDE DEF Is
  <2>2. G[k - 1] = {t \in States : Is(t.chat, k - 1)} /\ G[k] = {t \in States : Is(t.chat, k)}
    BY <2>0
  <2> HIDE DEF G
  <2> QED BY <2>1, <2>2 DEF KeptWorking
<1>4. Ended \in G[n]
  <2> HIDE DEF G
  <2> QED BY <1>2, <1>3, HandleStep, BatchWorked DEF Ended
<1>5. Is(chat', n)
  <2> HIDE DEF Is
  <2> QED BY <1>1, <1>4, HandleStep
<1>6. ASSUME NEW m \in 1..texts PROVE Holds(chat', m)
  <2>1. CASE Holds(chat, m)
    <3> HIDE DEF In
    <3> QED BY <1>5, <2>1
  <2>2. CASE ~Holds(chat, m)
    <3>1. PICK i \in 1..n : IsText(items[i]) /\ TextOf(items[i]) = m
      BY <2>2 DEF ChatInv
    <3> DEFINE k == IF i = 1 THEN n ELSE i - 1
    <3>2. k \in 1..n /\ Turn(k) = i
      BY <1>1 DEF Turn
    <3> HIDE DEF k
    <3>3. In(m, n)
      BY <1>1, <3>1, <3>2
    <3> HIDE DEF In
    <3> QED BY <1>5, <3>3
  <2> QED BY <2>1, <2>2
<1>7. Len(items') = 0 /\ texts' = texts /\ texts \in Nat
  BY HandleStep DEF ChatInv
<1> HIDE DEF In
<1> QED BY <1>5, <1>6, <1>7 DEF ChatInv

LEMMA SoundingFinite ==
  ASSUME NEW s, Len(s) \in Nat, NEW x
  PROVE  IsFiniteSet(Sounding(s, x)) /\ Cardinality(Sounding(s, x)) \in Nat
<1>1. IsFiniteSet(1..Len(s)) /\ Sounding(s, x) \subseteq 1..Len(s)
  BY FS_Interval DEF Sounding
<1>2. IsFiniteSet(Sounding(s, x))
  BY <1>1, FS_Subset
<1> QED BY <1>2, FS_CardinalityType

\* After a batch all sounds have been made, each on account of its item.
LEMMA DueHandled ==
  ASSUME ItemInv, ChatInv, DueInv, Handle PROVE DueInv'
<1> DEFINE n == Len(items)
           Rest(x, k) == {m \in 1..n : m > k /\ Sounds(Batch[m], x)}
           Is(t, k) == \A x \in Whos : Cardinality(Rest(x, k)) <= t.due[x]
           G == [k \in 0..n |-> {t \in States : Is(t, k)}]
<1>1. /\ n \in Nat /\ n > 0
      /\ \A k \in 1..n : Turn(k) \in 1..n /\ Batch[k] = items[Turn(k)]
  BY HandleStep, Batched DEF ItemInv
<1>2. \A x, k : IsFiniteSet(Rest(x, k)) /\ Cardinality(Rest(x, k)) \in Nat
  <2>1. IsFiniteSet(1..n)
    BY <1>1, FS_Interval
  <2>2. ASSUME NEW x, NEW k PROVE IsFiniteSet(Rest(x, k))
    <3>1. Rest(x, k) \subseteq 1..n
      OBVIOUS
    <3> HIDE DEF Rest, n
    <3> QED BY <2>1, <3>1, FS_Subset
  <2> HIDE DEF Rest, n
  <2> QED BY <2>2, FS_CardinalityType
<1>3. ASSUME NEW x \in Whos PROVE Cardinality(Rest(x, 0)) <= Cardinality(Sounding(items, x))
  <2> DEFINE S == Rest(x, 0)
             T == Sounding(items, x)
             f == [m \in S |-> Turn(m)]
  <2>1. \A m \in S : Turn(m) \in T
    BY <1>1 DEF Sounding
  <2>2. \A l, m \in S : Turn(l) = Turn(m) => l = m
    BY <1>1 DEF Turn
  <2>3. IsFiniteSet(T)
    BY <1>1, SoundingFinite
  <2> HIDE DEF S, T
  <2>4. f \in Injection(S, T)
    BY <2>1, <2>2 DEF Injection, IsInjective
  <2>5. Cardinality(S) <= Cardinality(T)
    BY <2>3, <2>4, FS_Injection
  <2> QED BY <2>5 DEF S, T
<1>4. Begun \in G[0]
  <2>1. Is(Begun, 0)
    <3>1. Begun.due = due
      BY DEF Begun
    <3>2. \A x \in Whos : Cardinality(Sounding(items, x)) <= due[x] /\ due[x] \in Int /\ Cardinality(Sounding(items, x)) \in Nat
      BY <1>1, SoundingFinite DEF DueInv
    <3> HIDE DEF Rest
    <3> QED BY <1>2, <1>3, <3>1, <3>2
  <2> HIDE DEF Is
  <2> QED BY <1>1, <2>1, HandleStep
<1>5. ASSUME NEW k \in 1..n PROVE KeptWorking(G[k - 1], G[k], Batch[k])
  <2>0. k \in 0..n /\ k - 1 \in 0..n
    BY <1>1
  <2>1. ASSUME NEW t \in States, NEW r \in States, Is(t, k - 1), Worked(t, Batch[k], r) PROVE Is(r, k)
    <3>1. SUFFICES ASSUME NEW x \in Whos PROVE Cardinality(Rest(x, k)) <= r.due[x]
      OBVIOUS
    <3>2. t.due[x] \in Int /\ r.due[x] \in Int
      BY DEF States
    <3>3. Cardinality(Rest(x, k - 1)) <= t.due[x]
      BY <2>1
    <3>4. r.due[x] = t.due[x] \/ (Sounds(Batch[k], x) /\ r.due[x] = t.due[x] - 1)
      BY <2>1 DEF Worked
    <3>5. k \notin Rest(x, k)
      BY <1>1
    <3>6. CASE Sounds(Batch[k], x)
      <4>1. Rest(x, k - 1) = Rest(x, k) \union {k}
        BY <1>1, <3>6
      <4> HIDE DEF Rest
      <4>2. Cardinality(Rest(x, k - 1)) = Cardinality(Rest(x, k)) + 1
        BY <1>2, <3>5, <4>1, FS_AddElement
      <4> QED BY <1>2, <3>2, <3>3, <3>4, <4>2
    <3>7. CASE ~Sounds(Batch[k], x)
      <4>1. Rest(x, k - 1) = Rest(x, k)
        <5>1. \A m \in 1..n : m > k - 1 <=> m > k \/ m = k
          BY <1>1
        <5> QED BY <3>7, <5>1
      <4> HIDE DEF Rest
      <4> QED BY <3>3, <3>4, <3>7, <4>1
    <3> QED BY <3>6, <3>7
  <2> HIDE DEF Is
  <2>2. G[k - 1] = {t \in States : Is(t, k - 1)} /\ G[k] = {t \in States : Is(t, k)}
    BY <2>0
  <2> HIDE DEF G
  <2> QED BY <2>1, <2>2 DEF KeptWorking
<1>6. Ended \in G[n]
  <2> HIDE DEF G
  <2> QED BY <1>4, <1>5, HandleStep, BatchWorked DEF Ended
<1>7. Ended \in States /\ Is(Ended, n)
  <2> HIDE DEF Is
  <2> QED BY <1>1, <1>6
<1>8. \A x \in Whos : 0 <= Ended.due[x]
  <2>1. \A x : Rest(x, n) = {}
    BY <1>1
  <2> HIDE DEF Rest
  <2> QED BY <1>7, <2>1, FS_EmptySet
<1>9. \A x : Cardinality(Sounding(<<>>, x)) = 0
  <2>1. \A x : Sounding(<<>>, x) = {}
    BY DEF Sounding
  <2> QED BY <2>1, FS_EmptySet
<1>10. due' \in [Whos -> Int]
  BY <1>7, HandleStep DEF States
<1>11. items' = <<>> /\ due' = Ended.due
  BY HandleStep
<1>12. \A x \in Whos : Cardinality(Sounding(items', x)) <= due'[x]
  BY <1>8, <1>9, <1>11
<1> QED BY <1>10, <1>12 DEF DueInv, Sounding, Sounds, Whos, Own, Audible

\* Items that are no messages and have the sounds of W, a client or nobody, in
\* the first of them.
News(its, W) ==
  /\ its \in Seq(Items)
  /\ \A i \in 1..Len(its) : Shaped(its[i]) /\ ~IsText(its[i])
  /\ \A i \in 1..Len(its) : \A x : Sounds(its[i], x) => i = 1 /\ x \in W

Copying(its) == \E i \in 1..Len(its) : Copies(its[i])

\* v is s and t.
Joins(v, s, t) ==
  /\ v \in Seq(Items) /\ Len(s) \in Nat /\ Len(t) \in Nat /\ Len(v) = Len(s) + Len(t)
  /\ \A i \in 1..Len(s) : i \in 1..Len(v) /\ v[i] = s[i]
  /\ \A i \in 1..Len(t) : Len(s) + i \in 1..Len(v) /\ v[Len(s) + i] = t[i]
  /\ \A i \in 1..Len(v) : i \in 1..Len(s) \/ (i > Len(s) /\ i - Len(s) \in 1..Len(t) /\ v[i] = t[i - Len(s)])

LEMMA Joined ==
  ASSUME NEW s \in Seq(Items), NEW t \in Seq(Items) PROVE Joins(s \o t, s, t)
<1> DEFINE v == s \o t
<1>1. Len(s) \in Nat /\ Len(t) \in Nat
  BY LenProperties
<1>2. /\ v \in Seq(Items) /\ Len(v) = Len(s) + Len(t)
      /\ \A i \in 1..Len(s) + Len(t) : v[i] = IF i <= Len(s) THEN s[i] ELSE t[i - Len(s)]
  BY ConcatProperties
<1> HIDE DEF v
<1>3. \A i \in 1..Len(s) : i \in 1..Len(v) /\ v[i] = s[i]
  BY <1>1, <1>2
<1>4. ASSUME NEW i \in 1..Len(t) PROVE Len(s) + i \in 1..Len(v) /\ v[Len(s) + i] = t[i]
  <2> DEFINE k == Len(s) + i
  <2>1. k \in 1..Len(s) + Len(t) /\ ~(k <= Len(s)) /\ k - Len(s) = i
    BY <1>1
  <2> HIDE DEF k
  <2>2. v[k] = t[i]
    BY <1>2, <2>1
  <2> QED BY <1>2, <2>1, <2>2 DEF k
<1>5. ASSUME NEW i \in 1..Len(v), i \notin 1..Len(s)
      PROVE  i > Len(s) /\ i - Len(s) \in 1..Len(t) /\ v[i] = t[i - Len(s)]
  BY <1>1, <1>2, <1>5
<1> QED BY <1>1, <1>2, <1>3, <1>4, <1>5 DEF Joins, v

LEMMA NewsJoined ==
  ASSUME NEW s, NEW t, NEW W, News(s, W), News(t, {})
  PROVE  News(s \o t, W) /\ (Copying(s) \/ Copying(t) => Copying(s \o t))
<1> DEFINE v == s \o t
<1>1. Joins(v, s, t)
  BY Joined DEF News
<1> HIDE DEF v
<1>2. \A i \in 1..Len(v) : (i \in 1..Len(s) /\ v[i] = s[i]) \/ \E j \in 1..Len(t) : v[i] = t[j]
  BY <1>1 DEF Joins
<1>3. \A i \in 1..Len(v) : Shaped(v[i]) /\ ~IsText(v[i])
  BY <1>2 DEF News
<1>4. \A i \in 1..Len(v) : \A x : Sounds(v[i], x) => i = 1 /\ x \in W
  BY <1>2 DEF News
<1>5. Copying(s) \/ Copying(t) => Copying(v)
  BY <1>1 DEF Joins, Copying
<1> QED BY <1>1, <1>3, <1>4, <1>5 DEF News, Joins, v

LEMMA NewsNone == News(<<>>, {})
<1>1. <<>> \in Seq(Items) /\ Len(<<>>) = 0
  BY EmptySeq
<1>2. 1..0 = {}
  OBVIOUS
<1> QED BY <1>1, <1>2 DEF News

\* One item.
LEMMA NewsOne ==
  ASSUME NEW it, Shaped(it), ~IsText(it), NEW W, \A x : Sounds(it, x) => x \in W
  PROVE  News(<<it>>, W) /\ (Copies(it) => Copying(<<it>>))
<1> DEFINE s == <<it>>
<1>1. s \in Seq(Items) /\ Len(s) = 1 /\ s[1] = it
  BY DEF Shaped
<1> HIDE DEF s
<1>2. \A i \in 1..Len(s) : i = 1 /\ s[i] = it
  BY <1>1
<1>3. 1 \in 1..Len(s)
  BY <1>1
<1> QED BY <1>1, <1>2, <1>3 DEF News, Copying, s

LEMMA EventItem ==
  ASSUME NEW e \in Events, e.kind # "text"
  PROVE  /\ News(<<BookEvents(<<e>>)>>, {e.who}) /\ Copying(<<BookEvents(<<e>>)>>)
         /\ ~Audible(e) => News(<<BookEvents(<<e>>)>>, {})
<1> DEFINE it == BookEvents(<<e>>)
           s == <<e>>
<1>1. s \in Seq(Events) /\ Len(s) = 1 /\ s[1] = e /\ DOMAIN s = {1}
  OBVIOUS
<1> HIDE DEF s
<1>2. it = [temp |-> FALSE, events |-> s]
  BY DEF BookEvents, s
<1> HIDE DEF it
<1>3. it \in Items /\ ~it.temp /\ it.events = s
  BY <1>1, <1>2 DEF Items
<1>4. ~IsText(it) /\ Copies(it)
  BY <1>1, <1>3 DEF IsText, Copies
<1>5. Shaped(it)
  BY <1>1, <1>3, <1>4 DEF Shaped
<1>6. \A x : Sounds(it, x) => x = e.who /\ Audible(e)
  BY <1>1, <1>3 DEF Sounds
<1>7. News(<<it>>, {e.who}) /\ Copying(<<it>>)
  <2>1. \A x : Sounds(it, x) => x \in {e.who}
    BY <1>6
  <2> QED BY <1>4, <1>5, <2>1, NewsOne
<1>8. ASSUME ~Audible(e) PROVE News(<<it>>, {})
  <2>1. \A x : Sounds(it, x) => x \in {}
    BY <1>6, <1>8
  <2> QED BY <1>4, <1>5, <2>1, NewsOne
<1> QED BY <1>7, <1>8 DEF it, s

LEMMA ListedOnce ==
  ASSUME NEW T, IsFiniteSet(T)
  PROVE  SetToSeq(T) \in [1..Cardinality(T) -> T] /\ Cardinality(T) \in Nat
<1>1. Cardinality(T) \in Nat /\ ExistsBijection(1..Cardinality(T), T)
  BY FS_CardinalityType
<1>2. PICK f \in [1..Cardinality(T) -> T] : IsInjective(f)
  BY <1>1 DEF ExistsBijection, Bijection, Injection, IsInjective
<1> QED BY <1>1, <1>2 DEF SetToSeq

\* Events that come together have no sound.
LEMMA SilentItem ==
  ASSUME NEW T, IsFiniteSet(T), T \subseteq Events, \A e \in T : e.kind # "text" /\ ~Audible(e)
  PROVE  News(<<BookEvents(SetToSeq(T))>>, {})
<1> DEFINE s == SetToSeq(T)
           it == BookEvents(s)
<1>1. s \in Seq(Events) /\ \A j \in DOMAIN s : s[j] \in T
  <2>1. s \in [1..Cardinality(T) -> T] /\ Cardinality(T) \in Nat
    BY ListedOnce
  <2> HIDE DEF s
  <2> QED BY <2>1
<1> HIDE DEF s
<1>2. it \in Items /\ ~it.temp /\ it.events = s
  BY <1>1 DEF Items, BookEvents
<1> HIDE DEF it
<1>3. \A j \in DOMAIN it.events : it.events[j].kind # "text" /\ ~Audible(it.events[j])
  BY <1>1, <1>2
<1>4. ~IsText(it) /\ Shaped(it)
  BY <1>2, <1>3 DEF IsText, Shaped
<1>5. \A x : Sounds(it, x) => x \in {}
  BY <1>3 DEF Sounds
<1> QED BY <1>4, <1>5, NewsOne DEF it, s

LEMMA TemporarilyNews == News(<<Temporarily>>, {})
<1>1. Temporarily \in Items /\ Temporarily.temp /\ Temporarily.events = <<>>
  BY EmptySeq DEF Items, Temporarily
<1>2. DOMAIN Temporarily.events = {}
  BY <1>1
<1>3. ~IsText(Temporarily) /\ Shaped(Temporarily)
  BY <1>1, <1>2 DEF IsText, Shaped
<1>4. \A x : Sounds(Temporarily, x) => x \in {}
  BY <1>2 DEF Sounds
<1> QED BY <1>3, <1>4, NewsOne

Typed(e, kind, x, how) ==
  /\ e \in Events /\ e.kind = kind /\ e.who = x /\ e.kind # "text"
  /\ Audible(e) => how \in {"changed", "moved", "connected", "quit"}

LEMMA EventTyped ==
  ASSUME NEW kind \in {"channel", "in", "move", "out"}, NEW x \in Whos, NEW c \in Nat, NEW how \in Hows
  PROVE  Typed(Event(kind, x, c, how), kind, x, how)
  BY DEF Typed, Event, Events, Audible

LEMMA ChannelNews ==
  /\ News(OfChannels("changed"), {0}) /\ Copying(OfChannels("changed"))
  /\ News(OfChannels("quiet"), {}) /\ Copying(OfChannels("quiet"))
<1>1. 0 \in Whos /\ 0 \in Nat
  BY DEF Whos
<1>2. News(OfChannels("changed"), {0}) /\ Copying(OfChannels("changed"))
  <2> DEFINE e == Event("channel", 0, 0, "changed")
  <2>0. "channel" \in {"channel", "in", "move", "out"} /\ "changed" \in Hows
    BY DEF Hows
  <2>1. Typed(e, "channel", 0, "changed")
    BY <1>1, <2>0, EventTyped
  <2>2. OfChannels("changed") = <<BookEvents(<<e>>)>>
    BY DEF OfChannels
  <2> HIDE DEF e
  <2> QED BY <2>1, <2>2, EventItem DEF Typed
<1>3. News(OfChannels("quiet"), {}) /\ Copying(OfChannels("quiet"))
  <2> DEFINE e == Event("channel", 0, 0, "quiet")
  <2>0. "channel" \in {"channel", "in", "move", "out"} /\ "quiet" \in Hows
    BY DEF Hows
  <2>1. Typed(e, "channel", 0, "quiet")
    BY <1>1, <2>0, EventTyped
  <2>2. OfChannels("quiet") = <<BookEvents(<<e>>)>>
    BY DEF OfChannels
  <2> HIDE DEF e
  <2>3. ~Audible(e)
    BY <2>1 DEF Typed
  <2> QED BY <2>1, <2>2, <2>3, EventItem DEF Typed
<1> QED BY <1>2, <1>3

\* The events of the clients S, one each.
LEMMA ClientEvents ==
  ASSUME NEW S \in SUBSET (Whos), IsFiniteSet(S), NEW kind \in {"in", "out"}, NEW c \in Nat,
         NEW how \in {"subscription", "unsubscribed", "stop"}
  PROVE  News(<<BookEvents(SetToSeq({Event(kind, x, c, how) : x \in S}))>>, {})
<1> DEFINE T == {Event(kind, x, c, how) : x \in S}
           f == [x \in S |-> Event(kind, x, c, how)]
<1>1. \A e \in T : e \in Events /\ e.kind # "text" /\ ~Audible(e)
  <2>1. how \in Hows /\ how \notin {"changed", "moved", "connected", "quit"}
    BY DEF Hows
  <2>2. kind \in {"channel", "in", "move", "out"}
    OBVIOUS
  <2>3. \A x \in S : Typed(Event(kind, x, c, how), kind, x, how)
    BY <2>1, <2>2, EventTyped
  <2> QED BY <2>1, <2>3 DEF Typed
<1>2. f \in Surjection(S, T)
  BY DEF Surjection
<1>3. IsFiniteSet(T)
  <2> HIDE DEF T, f
  <2> QED BY <1>2, FS_Surjection
<1> HIDE DEF T
<1>4. News(<<BookEvents(SetToSeq(T))>>, {})
  BY <1>1, <1>3, SilentItem
<1> QED BY <1>4 DEF T

LEMMA EnteredNews ==
  ASSUME NEW S \in SUBSET Whos, IsFiniteSet(S), NEW c \in Nat, NEW how \in {"unsubscribed", "stop"}
  PROVE  News(Entered(S, "subscription"), {}) /\ News(Left(S, c, how), {})
<1>1. 0 \in Nat /\ "in" \in {"in", "out"} /\ "out" \in {"in", "out"}
  OBVIOUS
<1>2. News(<<BookEvents(SetToSeq({Event("in", x, 0, "subscription") : x \in S}))>>, {})
  BY <1>1, ClientEvents
<1>3. News(<<BookEvents(SetToSeq({Event("out", x, c, how) : x \in S}))>>, {})
  <2>1. how \in {"subscription", "unsubscribed", "stop"}
    OBVIOUS
  <2> QED BY <1>1, <2>1, ClientEvents
<1> QED BY <1>2, <1>3, NewsNone DEF Entered, Left

\* The event of one client.
LEMMA ClientEvent ==
  ASSUME NEW x \in Whos, NEW kind \in {"in", "out"}, NEW c \in Nat, NEW how \in Hows
  PROVE  LET its == <<BookEvents(SetToSeq({Event(kind, y, c, how) : y \in {x}}))>> IN
         News(its, {x}) /\ Copying(its)
<1> DEFINE e == Event(kind, x, c, how)
           s == SetToSeq({e})
<1>1. {Event(kind, y, c, how) : y \in {x}} = {e}
  OBVIOUS
<1>2. e \in Events /\ e.kind # "text" /\ e.who = x
  <2>1. kind \in {"channel", "in", "move", "out"}
    OBVIOUS
  <2>2. Typed(e, kind, x, how)
    BY <2>1, EventTyped
  <2> QED BY <2>2 DEF Typed
<1> HIDE DEF e
<1>3. s = <<e>>
  <2>1. IsFiniteSet({e}) /\ Cardinality({e}) = 1
    BY FS_Singleton
  <2>2. s \in [1..1 -> {e}]
    BY <2>1, ListedOnce
  <2> HIDE DEF s
  <2>3. s = [i \in 1..1 |-> e]
    BY <2>2
  <2>4. <<e>> = [i \in 1..1 |-> e]
    OBVIOUS
  <2> QED BY <2>3, <2>4
<1>4. News(<<BookEvents(s)>>, {x}) /\ Copying(<<BookEvents(s)>>)
  BY <1>2, <1>3, EventItem
<1> QED BY <1>1, <1>4

BatchInv == ItemInv /\ UiInv /\ ChatInv /\ DueInv

\* What a message adds to the batch, and to what has been done.
Queued(its) ==
  /\ items' = items \o its /\ armed' = armed
  /\ chat' = chat /\ channelsUi' = channelsUi /\ clientsUi' = clientsUi

Earned(W) ==
  /\ due' \in [Whos -> Int]
  /\ \A x \in Whos : due[x] <= due'[x] /\ (x \in W => due[x] + 1 <= due'[x])

Shows(its) == up' => (up /\ Rows' = Rows /\ clients' = clients) \/ Copying(its)

LEMMA UiAdded ==
  ASSUME UiInv, NEW its, Joins(items', items, its), Queued(its), Shows(its) PROVE UiInv'
<1> SUFFICES ASSUME up'
             PROVE  \/ channelsUi' = Rows' /\ clientsUi' = clients'
                    \/ \E i \in 1..Len(items') : Copies(items'[i])
  BY DEF UiInv, Copies
<1>1. CASE Copying(its)
  <2>1. PICK i \in 1..Len(its) : Copies(its[i])
    BY <1>1 DEF Copying
  <2> QED BY <2>1 DEF Joins
<1>2. CASE up /\ Rows' = Rows /\ clients' = clients
  <2>1. CASE \E i \in 1..Len(items) : Copies(items[i])
    BY <2>1 DEF Joins
  <2>2. CASE channelsUi = Rows /\ clientsUi = clients
    BY <1>2, <2>2 DEF Queued
  <2> QED BY <1>2, <2>1, <2>2 DEF UiInv
<1> QED BY <1>1, <1>2 DEF Shows

LEMMA DueAdded ==
  ASSUME DueInv, Len(items) \in Nat, NEW its, NEW W, Earned(W), Joins(items', items, its),
         \A i \in 1..Len(its) : \A x : Sounds(its[i], x) => i = 1 /\ x \in W
  PROVE  DueInv'
<1>1. ASSUME NEW x \in Whos PROVE Cardinality(Sounding(items', x)) <= due'[x]
  <2> DEFINE S == Sounding(items, x)
             T == Sounding(items', x)
             k == Len(items) + 1
  <2>0. \A i \in T : i \in S \/ (i = k /\ x \in W)
    <3>1. ASSUME NEW i \in 1..Len(items'), Sounds(items'[i], x), i \notin 1..Len(items) PROVE i = k /\ x \in W
      <4> DEFINE j == i - Len(items)
      <4>1. j \in 1..Len(its) /\ items'[i] = its[j]
        BY <3>1 DEF Joins
      <4>2. j = 1 => i = k
        OBVIOUS
      <4> HIDE DEF j
      <4> QED BY <3>1, <4>1, <4>2
    <3> QED BY <3>1 DEF Sounding, Joins
  <2>1. IsFiniteSet(S) /\ Cardinality(S) \in Nat
    BY SoundingFinite
  <2>2. Cardinality(S) <= due[x] /\ due[x] \in Int /\ due'[x] \in Int
    BY DEF DueInv, Earned
  <2> HIDE DEF S, T, k
  <2>3. IsFiniteSet(S \union {k}) /\ Cardinality(S \union {k}) \in Nat /\ Cardinality(S \union {k}) <= Cardinality(S) + 1
    <3>1. /\ IsFiniteSet(S \union {k})
          /\ Cardinality(S \union {k}) = IF k \in S THEN Cardinality(S) ELSE Cardinality(S) + 1
      BY <2>1, FS_AddElement
    <3> QED BY <2>1, <3>1
  <2>4. CASE x \in W
    <3>1. T \subseteq S \union {k}
      BY <2>0
    <3>2. IsFiniteSet(T) /\ Cardinality(T) <= Cardinality(S \union {k})
      BY <2>3, <3>1, FS_Subset
    <3>3. Cardinality(T) \in Nat
      BY <3>2, FS_CardinalityType
    <3>4. due[x] + 1 <= due'[x]
      BY <2>4 DEF Earned
    <3>5. Cardinality(T) <= due'[x]
      BY <2>1, <2>2, <2>3, <3>2, <3>3, <3>4
    <3> QED BY <3>5 DEF T
  <2>5. CASE x \notin W
    <3>1. T \subseteq S
      BY <2>0, <2>5
    <3>2. IsFiniteSet(T) /\ Cardinality(T) <= Cardinality(S)
      BY <2>1, <3>1, FS_Subset
    <3>3. Cardinality(T) \in Nat
      BY <3>2, FS_CardinalityType
    <3>4. due[x] <= due'[x]
      BY DEF Earned
    <3>5. Cardinality(T) <= due'[x]
      BY <2>1, <2>2, <3>2, <3>3, <3>4
    <3> QED BY <3>5 DEF T
  <2> QED BY <2>4, <2>5
<1> QED BY <1>1 DEF DueInv, Earned, Sounding, Sounds, Whos, Own, Audible

LEMMA NewsAdded ==
  ASSUME BatchInv, NEW its, NEW W, News(its, W), Queued(its), Earned(W), Shows(its), texts' = texts
  PROVE  BatchInv'
<1>1. Joins(items', items, its) /\ Len(items) \in Nat
  BY Joined, LenProperties DEF BatchInv, ItemInv, News, Queued
<1>2. \A i \in 1..Len(items') : (i \in 1..Len(items) /\ items'[i] = items[i]) \/ \E j \in 1..Len(its) : items'[i] = its[j]
  BY <1>1 DEF Joins
<1>3. ItemInv'
  <2>1. \A i \in 1..Len(items') : Shaped(items'[i])
    BY <1>2 DEF News, BatchInv, ItemInv
  <2> QED BY <1>1, <2>1 DEF ItemInv, BatchInv, Joins, Queued, Shaped, IsText, Audible, Items, Events, Whos, Own, Hows
<1>4. UiInv'
  BY <1>1, UiAdded DEF BatchInv
<1>5. DueInv'
  BY <1>1, DueAdded DEF BatchInv, News
<1>6. ChatInv'
  <2>0. ChatInv
    BY DEF BatchInv
  <2>1. \A i \in 1..Len(items') : IsText(items'[i]) => i \in 1..Len(items) /\ items'[i] = items[i]
    BY <1>2 DEF News
  <2>2. \A i \in 1..Len(items) : i \in 1..Len(items') /\ items'[i] = items[i]
    BY <1>1 DEF Joins
  <2>3. chat' = chat /\ texts' = texts
    BY DEF Queued
  <2>4. \A i \in 1..Len(items') : IsText(items'[i]) =>
          TextOf(items'[i]) \in 1..texts /\ ~Holds(chat, TextOf(items'[i]))
    BY <2>0, <2>1 DEF ChatInv
  <2>5. \A i, j \in 1..Len(items') :
          IsText(items'[i]) /\ IsText(items'[j]) /\ TextOf(items'[i]) = TextOf(items'[j]) => i = j
    BY <2>0, <2>1 DEF ChatInv
  <2>6. \A k \in 1..texts :
          Holds(chat, k) \/ \E i \in 1..Len(items') : IsText(items'[i]) /\ TextOf(items'[i]) = k
    BY <2>0, <2>2 DEF ChatInv
  <2> QED BY <2>0, <2>3, <2>4, <2>5, <2>6 DEF ChatInv, IsText, TextOf, Holds, Distinct
<1> QED BY <1>3, <1>4, <1>5, <1>6 DEF BatchInv

LEMMA Unqueued ==
  ASSUME items \in Seq(Items) PROVE items \o <<>> = items
BY ConcatEmptySeq

LEMMA EarnsOne ==
  ASSUME DueInv, NEW x \in Whos, Earns(x) PROVE Earned({x})
<1>1. due \in [Whos -> Int] /\ due' = [due EXCEPT ![x] = due[x] + 1]
  BY DEF DueInv, Earns
<1>2. due' \in [Whos -> Int]
  BY <1>1
<1>3. \A y \in Whos : due[y] <= due'[y] /\ (y = x => due[y] + 1 <= due'[y])
  BY <1>1
<1> QED BY <1>2, <1>3 DEF Earned

LEMMA EarnsNone ==
  ASSUME DueInv, due' = due PROVE Earned({})
BY DEF DueInv, Earned

\* The widgets are given nothing.
Unseen == UNCHANGED <<channelsUi, clientsUi, chat, armed, texts>>

\* What the library is told.
LEMMA ToldKept ==
  ASSUME BatchInv, NEW its, NEW W, News(its, W), Copying(its), NEW books, NEW cl, Told(books, cl, its),
         Earned(W), Unseen, up' = up
  PROVE  BatchInv'
<1>1. armed' = armed /\ chat' = chat /\ channelsUi' = channelsUi /\ clientsUi' = clientsUi /\ texts' = texts
  BY DEF Unseen
<1>2. CASE up
  <2>1. Queued(its) /\ Shows(its)
    BY <1>1, <1>2 DEF Told, Queued, Shows
  <2> QED BY <1>1, <2>1, NewsAdded
<1>3. CASE ~up
  <2>1. items' = items \o <<>>
    BY <1>3, Unqueued DEF Told, BatchInv, ItemInv
  <2>2. Queued(<<>>) /\ Shows(<<>>)
    BY <1>1, <1>3, <2>1 DEF Queued, Shows
  <2>3. Earned({})
    BY DEF Earned
  <2> QED BY <1>1, <2>2, <2>3, NewsNone, NewsAdded
<1> QED BY <1>2, <1>3

\* Nothing happens to the batch.
LEMMA BatchSame ==
  ASSUME BatchInv, items' = items, Unseen, up' = up, book' = book, clients' = clients,
         NEW W, Earned(W)
  PROVE  BatchInv'
<1>1. Queued(<<>>) /\ Shows(<<>>) /\ texts' = texts
  BY Unqueued DEF Queued, Shows, Unseen, Rows, BatchInv, ItemInv
<1>2. Earned({})
  BY DEF Earned
<1> QED BY <1>1, <1>2, NewsNone, NewsAdded

\* A message waits in the batch.
LEMMA TextQueued ==
  ASSUME BatchInv, Text PROVE BatchInv'
<1> DEFINE e == Event("text", texts + 1, 0, "")
           s == <<e>>
           it == BookEvents(s)
           n == Len(items)
<1>1. /\ items' = items \o <<it>> /\ texts' = texts + 1
      /\ up' = up /\ book' = book /\ clients' = clients /\ armed' = armed /\ due' = due
      /\ chat' = chat /\ channelsUi' = channelsUi /\ clientsUi' = clientsUi
  <2>1. items' = items \o <<it>> /\ book' \in {book} /\ clients' = clients
    BY DEF Text, Told
  <2> QED BY <2>1 DEF Text, ui
<1>2. texts \in Nat /\ items \in Seq(Items)
  BY DEF BatchInv, ItemInv, ChatInv
<1>3. e \in Events /\ e.kind = "text" /\ e.who = texts + 1
  BY <1>2 DEF Event, Events
<1> HIDE DEF e
<1>4. s \in Seq(Events) /\ Len(s) = 1 /\ s[1] = e /\ DOMAIN s = {1}
  BY <1>3
<1> HIDE DEF s
<1>5. it \in Items /\ ~it.temp /\ it.events = s
  BY <1>4 DEF BookEvents, Items
<1> HIDE DEF it
<1>6. IsText(it) /\ Shaped(it) /\ TextOf(it) = texts + 1 /\ \A x : ~Sounds(it, x)
  BY <1>3, <1>4, <1>5 DEF IsText, Shaped, TextOf, Sounds
<1>7. /\ n \in Nat /\ items' \in Seq(Items) /\ Len(items') = n + 1 /\ items'[n + 1] = it
      /\ \A i \in 1..n : items'[i] = items[i]
  <2>1. items' = Append(items, it)
    BY <1>1, <1>2, <1>5, AppendIsConcat
  <2> QED BY <1>2, <1>5, <2>1, AppendProperties
<1> HIDE DEF n
<1>8. \A i \in 1..Len(items') : (i \in 1..n /\ items'[i] = items[i]) \/ (i = n + 1 /\ items'[i] = it)
  BY <1>7
<1>9. n + 1 \in 1..Len(items') /\ \A i \in 1..n : i \in 1..Len(items')
  BY <1>7
<1>10. ItemInv'
  <2>1. \A i \in 1..Len(items') : Shaped(items'[i])
    BY <1>6, <1>8 DEF BatchInv, ItemInv, n
  <2> QED BY <1>1, <1>7, <2>1 DEF BatchInv, ItemInv, Shaped, IsText, Audible, Items, Events, Whos, Own, Hows
<1>11. UiInv'
  <2>1. CASE up /\ \E i \in 1..n : Copies(items[i])
    <3>1. PICK i \in 1..n : Copies(items[i])
      BY <2>1
    <3>2. i \in 1..Len(items') /\ Copies(items'[i])
      BY <1>7, <1>9, <3>1
    <3> QED BY <3>2 DEF UiInv, Copies
  <2>2. CASE up => channelsUi = Rows /\ clientsUi = clients
    BY <1>1, <2>2 DEF UiInv, Rows
  <2> QED BY <2>1, <2>2 DEF BatchInv, UiInv, n
<1>12. DueInv'
  <2>1. \A x \in Whos : Sounding(items', x) = Sounding(items, x)
    <3>1. \A i \in 1..Len(items'), x \in Whos : Sounds(items'[i], x) => i \in 1..n /\ items'[i] = items[i]
      BY <1>6, <1>8
    <3> QED BY <1>7, <1>9, <3>1 DEF Sounding, n
  <2> QED BY <1>1, <2>1 DEF BatchInv, DueInv, Sounding, Sounds, Whos, Own, Audible
<1>13. ChatInv'
  <2>0. ChatInv
    BY DEF BatchInv
  <2>1. \A i \in 1..n : IsText(items[i]) => TextOf(items[i]) \in 1..texts /\ ~Holds(chat, TextOf(items[i]))
    BY <2>0 DEF ChatInv, n
  <2>2. texts + 1 \in Nat /\ chat \in Seq(1..texts+1) /\ ~Holds(chat, texts + 1)
    <3>1. chat \in Seq(1..texts) /\ 1..texts \subseteq 1..texts+1 /\ texts + 1 \notin 1..texts
      BY <1>2, <2>0 DEF ChatInv
    <3>2. chat \in Seq(1..texts+1)
      BY <3>1, SeqMonotonic
    <3>3. \A j \in 1..Len(chat) : chat[j] \in 1..texts
      BY <3>1, ElementOfSeq
    <3> QED BY <1>2, <3>1, <3>2, <3>3 DEF Holds
  <2>3. \A i \in 1..Len(items') : IsText(items'[i]) =>
          TextOf(items'[i]) \in 1..texts+1 /\ ~Holds(chat, TextOf(items'[i]))
    <3>1. 1..texts \subseteq 1..texts+1 /\ texts + 1 \in 1..texts+1
      BY <1>2
    <3> QED BY <1>6, <1>8, <2>1, <2>2, <3>1
  <2>4. \A i, j \in 1..Len(items') :
          IsText(items'[i]) /\ IsText(items'[j]) /\ TextOf(items'[i]) = TextOf(items'[j]) => i = j
    <3>1. texts + 1 \notin 1..texts
      BY <1>2
    <3>2. \A i \in 1..n : IsText(items[i]) => TextOf(items[i]) # texts + 1
      BY <2>1, <3>1
    <3>3. \A i, j \in 1..n : IsText(items[i]) /\ IsText(items[j]) /\ TextOf(items[i]) = TextOf(items[j]) => i = j
      BY <2>0 DEF ChatInv, n
    <3> QED BY <1>6, <1>8, <3>2, <3>3
  <2>5. ASSUME NEW k \in 1..texts+1
        PROVE  Holds(chat, k) \/ \E i \in 1..Len(items') : IsText(items'[i]) /\ TextOf(items'[i]) = k
    <3>1. CASE k = texts + 1
      BY <1>6, <1>7, <1>9, <3>1
    <3>2. CASE k # texts + 1
      <4>1. k \in 1..texts
        BY <1>2, <3>2
      <4>2. Holds(chat, k) \/ \E i \in 1..n : IsText(items[i]) /\ TextOf(items[i]) = k
        BY <2>0, <4>1 DEF ChatInv, n
      <4> QED BY <1>7, <1>9, <4>2
    <3> QED BY <3>1, <3>2
  <2>6. Distinct(chat)
    BY <2>0 DEF ChatInv
  <2>7. texts' \in Nat /\ chat' \in Seq(1..texts')
    BY <1>1, <2>2
  <2>8. /\ \A i \in 1..Len(items') : IsText(items'[i]) =>
             TextOf(items'[i]) \in 1..texts' /\ ~Holds(chat', TextOf(items'[i]))
        /\ \A k \in 1..texts' :
             Holds(chat', k) \/ \E i \in 1..Len(items') : IsText(items'[i]) /\ TextOf(items'[i]) = k
    BY <1>1, <2>3, <2>5
  <2>9. Distinct(chat')
    BY <1>1, <2>6
  <2> QED BY <2>4, <2>7, <2>8, <2>9 DEF ChatInv, IsText, TextOf, Holds, Distinct
<1> QED BY <1>10, <1>11, <1>12, <1>13 DEF BatchInv

LEMMA Copied ==
  ASSUME NEW s, NEW t, NEW W, News(s, W), Copying(s), News(t, {})
  PROVE  News(s \o t, W) /\ Copying(s \o t)
BY NewsJoined

\* Only clients there are come into view or go.
LEMMA Clients ==
  ASSUME ServerInv
  PROVE  /\ 0 \in Whos /\ (up => me \in Whos) /\ (~up => me + 1 \in Whos)
         /\ \A T \in SUBSET Others : T \in SUBSET Whos /\ IsFiniteSet(T)
         /\ \A c : There(c) \in SUBSET Others
         /\ here \in Nat /\ \A x \in Others : at[x] \in Nat
<1>1. (up => me \in Own) /\ (~up => me + 1 \in Own)
  BY BookAssumption DEF ServerInv, NumberInv, Own
<1>2. \A T \in SUBSET Others : IsFiniteSet(T)
  BY FS_Subset, BookAssumption
<1>3. here \in Nat /\ \A x \in Others : at[x] \in Nat
  BY FinitelyMany, NodesNat DEF ServerInv, ViewInv
<1> QED BY <1>1, <1>2, <1>3 DEF Whos, There

\* The steps of the batch.
LEMMA BatchKept ==
  ASSUME ServerInv, BatchInv, [Next]_vars PROVE BatchInv'
<1>d. DueInv
  BY DEF BatchInv
<1>1. ASSUME NEW W, Earned(W), Unseen, up' = up, NEW its, News(its, W), Copying(its),
             \E books, cl : Told(books, cl, its)
      PROVE  BatchInv'
  BY <1>1, ToldKept
<1>2. ASSUME NEW p, NEW k, CreateChannel(p, k) PROVE BatchInv'
  <2>1. Unseen /\ up' = up /\ Earns(0) /\ \E books, cl : Told(books, cl, OfChannels("changed"))
    BY <1>2 DEF CreateChannel, Unseen, ui
  <2> QED BY <1>d, <1>1, <2>1, Clients, ChannelNews, EarnsOne
<1>3. ASSUME NEW c, DeleteChannel(c) \/ EditChannel(c) PROVE BatchInv'
  <2>1. Unseen /\ up' = up /\ Earns(0) /\ \E books, cl : Told(books, cl, OfChannels("changed"))
    BY <1>3 DEF DeleteChannel, EditChannel, Unseen, ui
  <2> QED BY <1>d, <1>1, <2>1, Clients, ChannelNews, EarnsOne
<1>4. ASSUME NEW c, NEW p, NEW k, MoveChannel(c, p, k) PROVE BatchInv'
  <2>1. /\ Unseen /\ up' = up /\ Earns(0)
        /\ \/ \E books, cl : Told(books, cl, OfChannels("changed"))
           \/ \E books, cl : Told(books, cl, OfChannels("quiet"))
    BY <1>4 DEF MoveChannel, Unseen, ui
  <2>2. Earned({0})
    BY <1>d, <2>1, Clients, EarnsOne
  <2>3. Earned({})
    BY <2>2 DEF Earned
  <2> QED BY <1>1, <2>1, <2>2, <2>3, ChannelNews
<1>5. ASSUME NEW x \in Others, NEW d \in Nodes, Go(x, d) PROVE BatchInv'
  <2> DEFINE how == IF at[x] = 0 THEN "connected" ELSE IF d = 0 THEN "quit" ELSE "moved"
             Moves == <<BookEvents(<<Event("move", x, at[x], how)>>)>>
  <2>1. Unseen /\ up' = up /\ Earns(x) /\ x \in Whos /\ at[x] \in Nat /\ how \in Hows
    <3>1. x \in Whos /\ at[x] \in Nat
      BY Clients DEF Whos
    <3> QED BY <1>5, <3>1 DEF Go, Unseen, ui, Hows
  <2>2. Earned({x})
    BY <1>d, <2>1, EarnsOne
  <2>3. \/ \E books, cl : Told(books, cl, Moves)
        \/ \E books, cl : Told(books, cl, Left({x}, at[x], how))
        \/ \E books, cl : Told(books, cl, Entered({x}, how))
        \/ UNCHANGED <<book, clients, items>>
    BY <1>5 DEF Go
  <2> HIDE DEF how
  <2>4. News(Moves, {x}) /\ Copying(Moves)
    <3>1. "move" \in {"channel", "in", "move", "out"}
      OBVIOUS
    <3>2. Typed(Event("move", x, at[x], how), "move", x, how)
      BY <2>1, <3>1, EventTyped
    <3> QED BY <3>2, EventItem DEF Typed
  <2> HIDE DEF Moves
  <2>5. News(Left({x}, at[x], how), {x}) /\ Copying(Left({x}, at[x], how))
    <3>1. "out" \in {"in", "out"} /\ {x} # {}
      OBVIOUS
    <3> QED BY <2>1, <3>1, ClientEvent DEF Left
  <2>6. News(Entered({x}, how), {x}) /\ Copying(Entered({x}, how))
    <3>1. "in" \in {"in", "out"} /\ {x} # {} /\ 0 \in Nat
      OBVIOUS
    <3> QED BY <2>1, <3>1, ClientEvent DEF Entered
  <2>7. CASE UNCHANGED <<book, clients, items>>
    BY <2>1, <2>2, <2>7, BatchSame
  <2> QED BY <1>1, <2>1, <2>2, <2>3, <2>4, <2>5, <2>6, <2>7
<1>6. CASE Grant
  <2> DEFINE new == {x \in Others : at[x] \in Head(asked) \ InView}
  <2>1. /\ Unseen /\ up' = up /\ due' = due
        /\ \E books, cl : Told(books, cl, OfChannels("quiet") \o Entered(new, "subscription"))
    BY <1>6 DEF Grant, Unseen, ui
  <2>2. new \in SUBSET Others
    OBVIOUS
  <2> HIDE DEF new
  <2>3. News(Entered(new, "subscription"), {})
    BY <2>2, Clients, EnteredNews
  <2>4. LET its == OfChannels("quiet") \o Entered(new, "subscription") IN News(its, {}) /\ Copying(its)
    BY <2>3, ChannelNews, Copied
  <2> QED BY <1>d, <1>1, <2>1, <2>4, EarnsNone
<1>7. ASSUME NEW d, OwnMove(d) PROVE BatchInv'
  <2> DEFINE new == IF d \in granted THEN {} ELSE There(d)
             Moves == <<BookEvents(<<Event("move", me, here, "moved")>>)>>
             moved == Moves \o Entered(new, "subscription")
             gone == Left(There(here), here, "unsubscribed")
  <2>1. /\ Unseen /\ up /\ up' = up /\ Earns(me)
        /\ \/ \E books, cl : Told(books, cl, moved)
           \/ \E books, cl : Told(books, cl, moved \o OfChannels("quiet") \o gone)
    BY <1>7 DEF OwnMove, Unseen, ui
  <2>2. me \in Whos /\ here \in Nat /\ new \in SUBSET Others /\ There(here) \in SUBSET Others
    BY <2>1, Clients
  <2> HIDE DEF new
  <2>3. Earned({me})
    BY <1>d, <2>1, <2>2, EarnsOne
  <2>4. News(Moves, {me}) /\ Copying(Moves)
    <3>1. "move" \in {"channel", "in", "move", "out"} /\ "moved" \in Hows
      BY DEF Hows
    <3>2. Typed(Event("move", me, here, "moved"), "move", me, "moved")
      BY <2>2, <3>1, EventTyped
    <3> QED BY <3>2, EventItem DEF Typed
  <2> HIDE DEF Moves
  <2>5. News(Entered(new, "subscription"), {})
    BY <2>2, Clients, EnteredNews
  <2>6. News(gone, {})
    BY <2>2, Clients, EnteredNews
  <2>7. News(moved, {me}) /\ Copying(moved)
    BY <2>4, <2>5, Copied
  <2> HIDE DEF moved, gone
  <2>8. News(moved \o OfChannels("quiet"), {me}) /\ Copying(moved \o OfChannels("quiet"))
    BY <2>7, ChannelNews, Copied
  <2>9. News(moved \o OfChannels("quiet") \o gone, {me}) /\ Copying(moved \o OfChannels("quiet") \o gone)
    BY <2>6, <2>8, Copied
  <2> QED BY <1>1, <2>1, <2>3, <2>7, <2>9
<1>8. CASE Text
  BY <1>8, TextQueued
<1>9. CASE Drop
  <2> DEFINE gone == Left({me}, here, "stop")
             lost == <<Temporarily>>
  <2>1. /\ Unseen /\ up /\ up' = FALSE /\ due' = due
        /\ items' = items \o lost \/ items' = items \o gone \o lost
    BY <1>9 DEF Drop, Unseen, ui
  <2>2. News(gone, {}) /\ News(lost, {})
    <3>1. {me} \in SUBSET Whos /\ IsFiniteSet({me}) /\ here \in Nat
      BY <2>1, Clients, FS_Singleton
    <3> QED BY <3>1, EnteredNews, TemporarilyNews
  <2> HIDE DEF gone, lost
  <2>3. News(gone \o lost, {})
    BY <2>2, NewsJoined
  <2>4. items \o gone \o lost = items \o (gone \o lost)
    BY <2>2, ConcatAssociative DEF BatchInv, ItemInv, News
  <2>5. PICK its : News(its, {}) /\ items' = items \o its
    BY <2>1, <2>2, <2>3, <2>4
  <2>6. Queued(its) /\ Shows(its) /\ texts' = texts
    BY <2>1, <2>5 DEF Queued, Shows, Unseen
  <2> QED BY <1>d, <2>1, <2>5, <2>6, EarnsNone, NewsAdded
<1>10. CASE Reconnect
  <2> DEFINE new == {me + 1} \union There(here)
             its == OfChannels("quiet") \o Entered(new, "subscription")
  <2>1. /\ Unseen /\ ~up /\ due' = due
        /\ items' = items \o OfChannels("quiet") \o Entered(new, "subscription")
    BY <1>10 DEF Reconnect, Unseen, ui
  <2>2. new \in SUBSET Whos /\ IsFiniteSet(new)
    <3>1. me + 1 \in Whos /\ There(here) \in SUBSET Whos /\ IsFiniteSet(There(here))
      BY <2>1, Clients
    <3> QED BY <3>1, FS_Singleton, FS_Union
  <2> HIDE DEF new
  <2>3. News(Entered(new, "subscription"), {})
    <3>1. 0 \in Nat /\ "stop" \in {"unsubscribed", "stop"}
      OBVIOUS
    <3> QED BY <2>2, <3>1, EnteredNews
  <2>4. News(its, {}) /\ Copying(its)
    BY <2>3, ChannelNews, Copied
  <2>5. items' = items \o its
    <3>1. items \in Seq(Items) /\ OfChannels("quiet") \in Seq(Items) /\ Entered(new, "subscription") \in Seq(Items)
      BY <2>3, ChannelNews DEF BatchInv, ItemInv, News
    <3> QED BY <2>1, <3>1, ConcatAssociative
  <2> HIDE DEF its
  <2>6. Queued(its) /\ Shows(its) /\ texts' = texts
    BY <2>1, <2>4, <2>5 DEF Queued, Shows, Unseen
  <2> QED BY <1>d, <2>1, <2>4, <2>6, EarnsNone, NewsAdded
<1>11. CASE Handle
  <2>1. ItemInv /\ UiInv /\ ChatInv /\ DueInv
    BY DEF BatchInv
  <2>2. ItemInv'
    <3>1. items' = <<>> /\ armed' = Ended.armed /\ Ended \in States
      BY <1>11, <2>1, HandleStep
    <3>2. armed' \in BOOLEAN
      BY <3>1 DEF States
    <3>3. items' \in Seq(Items) /\ Len(items') = 0
      BY <3>1, EmptySeq
    <3> QED BY <3>2, <3>3 DEF ItemInv, Shaped, IsText, Audible, Items, Events, Whos, Own, Hows
  <2> QED BY <1>11, <2>1, <2>2, UiHandled, ChatHandled, DueHandled DEF BatchInv
<1>12. CASE OwnCommand \/ UNCHANGED vars
  <2>1. Unseen /\ items' = items /\ up' = up /\ book' = book /\ clients' = clients /\ due' = due
    BY <1>12 DEF OwnCommand, vars, ui, library, Unseen
  <2> QED BY <1>d, <2>1, EarnsNone, BatchSame
<1> QED BY <1>2, <1>3, <1>4, <1>5, <1>6, <1>7, <1>8, <1>9, <1>10, <1>11, <1>12 DEF Next, Notified, Nodes

LEMMA BatchInit ==
  ASSUME Init PROVE BatchInv
<1>1. /\ items = <<>> /\ armed = FALSE /\ chat = <<>> /\ texts = 0
      /\ channelsUi = Rows /\ clientsUi = clients /\ due = [x \in Whos |-> 0]
  BY DEF Init, Whos
<1>2. items \in Seq(Items) /\ Len(items) = 0 /\ chat \in Seq(1..0) /\ Len(chat) = 0
  BY <1>1, EmptySeq
<1>3. ItemInv /\ UiInv /\ ChatInv
  <2>1. 1..0 = {}
    OBVIOUS
  <2> QED BY <1>1, <1>2, <2>1 DEF ItemInv, UiInv, ChatInv, Distinct
<1>4. DueInv
  <2>1. ASSUME NEW x \in Whos PROVE Cardinality(Sounding(items, x)) <= due[x]
    <3>1. Sounding(items, x) = {}
      BY <1>2 DEF Sounding
    <3> QED BY <1>1, <3>1, FS_EmptySet
  <2> QED BY <1>1, <2>1 DEF DueInv
<1> QED BY <1>3, <1>4 DEF BatchInv

\* The invariant of the batch: the user interface has the book's rows or an item
\* that brings them is waiting, every message is in the chat or in an item, once,
\* and the sounds of the items waiting have all been earned.
THEOREM BatchInvariant == Spec => [](ServerInv /\ BatchInv)
<1>1. Init => BatchInv
  BY BatchInit
<1>2. ServerInv /\ BatchInv /\ [Next]_vars => BatchInv'
  BY BatchKept
<1>3. Spec => []ServerInv
  <2>1. ServerInv /\ BookInv /\ ClientsInv /\ AskedInv => ServerInv
    OBVIOUS
  <2> QED BY <2>1, BookInvariant, PTL
<1> QED BY <1>1, <1>2, <1>3, PTL DEF Spec

\* The chat of k messages in which each is found once.
LEMMA EachOnce ==
  ASSUME NEW k \in Nat, NEW s \in Seq(1..k), Distinct(s), \A m \in 1..k : Holds(s, m)
  PROVE  Len(s) = k /\ ToSet(s) = 1..k
<1>1. Len(s) \in Nat /\ s \in [1..Len(s) -> 1..k] /\ DOMAIN s = 1..Len(s)
  OBVIOUS
<1>2. s \in Bijection(1..Len(s), 1..k)
  BY <1>1 DEF Bijection, Injection, Surjection, IsInjective, Distinct, Holds
<1>3. IsFiniteSet(1..Len(s)) /\ Cardinality(1..Len(s)) = Len(s) /\ Cardinality(1..k) = k
  <2>1. ASSUME NEW m \in Nat PROVE IsFiniteSet(1..m) /\ Cardinality(1..m) = m
    BY FS_Interval
  <2> QED BY <1>1, <2>1
<1>4. Cardinality(1..Len(s)) = Cardinality(1..k)
  BY <1>2, <1>3, FS_Bijection DEF ExistsBijection
<1>5. ToSet(s) = 1..k
  BY <1>1 DEF ToSet, Holds
<1> QED BY <1>3, <1>4, <1>5

\* When the event loop has worked off its batch, the user interface has the
\* channels and the clients of the book, and every message once, in whatever
\* order the items of the batch were handled.
THEOREM UiCaughtUp == Spec => []CaughtUp
<1>1. ServerInv /\ BatchInv => CaughtUp
  <2> SUFFICES ASSUME BatchInv, items = <<>> PROVE
         /\ up => channelsUi = Rows /\ clientsUi = clients
         /\ Len(chat) = texts /\ ToSet(chat) = 1..texts
    BY DEF CaughtUp
  <2>1. Len(items) = 0 /\ 1..0 = {}
    BY EmptySeq
  <2>2. up => channelsUi = Rows /\ clientsUi = clients
    BY <2>1 DEF BatchInv, UiInv
  <2>3. texts \in Nat /\ chat \in Seq(1..texts) /\ Distinct(chat) /\ \A k \in 1..texts : Holds(chat, k)
    BY <2>1 DEF BatchInv, ChatInv
  <2> QED BY <2>2, <2>3, EachOnce
<1> QED BY <1>1, BatchInvariant, PTL

\* Nobody hears of a client, or of the channels, more often than something
\* happened to them.
THEOREM SoundsTrue == Spec => []SoundsEarned
<1>1. ServerInv /\ BatchInv => SoundsEarned
  <2> SUFFICES ASSUME BatchInv, NEW x \in DOMAIN due PROVE due[x] >= 0
    BY DEF SoundsEarned
  <2>1. x \in Whos /\ due[x] \in Int /\ Cardinality(Sounding(items, x)) <= due[x]
    BY DEF BatchInv, DueInv
  <2>2. Cardinality(Sounding(items, x)) \in Nat
    <3>1. Len(items) \in Nat
      BY LenProperties DEF BatchInv, ItemInv
    <3> QED BY <3>1, SoundingFinite
  <2> QED BY <2>1, <2>2
<1> QED BY <1>1, BatchInvariant, PTL

=============================================================================
