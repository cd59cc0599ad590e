----------------------------- MODULE Transport ------------------------------
(***************************************************************************)
(* The reliable command channel of tsproto: the Resender of the sending    *)
(* end (resend.rs), the PacketCodec of the receiving end                   *)
(* (packet_codec.rs) and the parts of connection.rs both use.  The         *)
(* receiving end runs the same code, as in the library's client and        *)
(* server; between them is a UDP network that loses, delays and reorders.  *)
(* A packet arrives twice when it was sent twice.                          *)
(*                                                                         *)
(* Packets are numbered 0, 1, 2, ... in the order encode_packet makes      *)
(* them; the wire carries only the number modulo IdSpace (65536 in the     *)
(* code), the quotient is the generation both ends work out.  Command      *)
(* packets only: Init packets belong to the handshake, CommandLow has a    *)
(* queue of its own and is never sent by the application.  Times are       *)
(* abstracted to the order of the events: a retransmission timer may have  *)
(* run out at any moment, the 30 s after which a packet is given up have   *)
(* passed when it was sent MaxTries times (in the code they run from when  *)
(* it was handed to the Resender, whether it was sent since or not), and   *)
(* the congestion window is any number in 1 .. MaxWindow whenever the code *)
(* computes it.  A command that is too long once it is put together        *)
(* (MAX_FRAGMENTS_LENGTH), does not decompress or does not parse ends the  *)
(* connection in the code; the sending end makes no such commands.         *)
(***************************************************************************)
EXTENDS Integers, Sequences, FiniteSets, SequencesExt

CONSTANTS
  IdSpace,    \* number of packet ids (u16 in the code)
  QueueLen,   \* MAX_QUEUE_LEN: how far ahead a packet may be kept
  Start,      \* packets exchanged before the behaviour starts
  MaxSend,    \* bound: packets sent
  MaxSize,    \* bound: fragments of one command
  MaxWindow,  \* bound of the congestion window
  MaxTries,   \* sends of one packet before it is given up
  PingCount,  \* PING_COUNT: unanswered pings before the peer is dead
  Faults      \* what the network may do, a subset of {"lose", "die"}

ASSUME TransportAssumption ==
  /\ {IdSpace, QueueLen, MaxSend, MaxSize, MaxWindow, MaxTries, PingCount}
        \subseteq Nat \ {0}
  /\ Start \in Nat
  /\ QueueLen <= (IdSpace - 1) \div 2
  /\ Faults \subseteq {"lose", "die"}

VARIABLES
  sent,      \* history: the commands handed to send_packet, as packet numbers
  out,       \* outgoing_p_ids[Command]: the next packet number
  full,      \* full_send_queue[Command]: packets not acknowledged yet
  queue,     \* send_queue: packets (re)sent when their time comes
  index,     \* send_queue_indices[Command]
  order,     \* packets of full and queue with their tries, by time of last send
  acked,     \* greatest id of a StreamItem::AckPacket so far, -1 for none
  status,    \* of the sending end: "connected" or "failed" (poll_next gave Err)
  pings,     \* last_pings: pings sent since something was received
  next,      \* incoming_p_ids[Command] of the receiving end
  rqueue,    \* receive_queue: packets that came too early
  frag,      \* fragmented_queue: fragments of the command being put together
  delivered, \* history: the commands the receiving end's stream handed out
  peer,      \* the receiving end: "up", "failed" (poll_next gave Err) or "dead"
  net,       \* command packets on the way
  acks       \* acks on the way back: the acknowledged packet ids

senderVars == <<sent, out, full, queue, index, order, acked, status, pings>>
receiverVars == <<next, rqueue, frag, delivered, peer>>
vars == <<senderVars, receiverVars, net, acks>>

Id(n) == n % IdSpace
Gen(n) == n \div IdSpace

\* The PartialPacketId of a send record as one number.  encode_packet passes
\* the generation of the *next* id to OutUdpPacket::new, so the last id of a
\* generation is filed under the following generation.
Key(n) == Gen(n + 1) * IdSpace + Id(n)

TypeOK ==
  /\ out \in Start .. Start + MaxSend
  /\ full \subseteq Start .. out - 1
  /\ {queue, net} \subseteq SUBSET (Start .. out - 1)
  /\ \A e \in ToSet(order) : e.n \in full \cup queue /\ e.tries \in 0 .. MaxTries
  /\ Len(order) = Cardinality(full \cup queue)
  /\ \A n \in full : Key(n) < index => n \in queue
  /\ status \in {"connected", "failed"} /\ peer \in {"up", "failed", "dead"}
  /\ pings \in 0 .. PingCount
  /\ next \in Start .. out
  /\ ToSet(rqueue) \subseteq next - MaxSend .. out - 1
  /\ acks \subseteq 0 .. IdSpace - 1

Init ==
  /\ sent = <<>> /\ out = Start /\ full = {} /\ queue = {} /\ index = 0
  /\ order = <<>> /\ acked = -1 /\ status = "connected" /\ pings = 0
  /\ next = Start /\ rqueue = <<>> /\ frag = <<>> /\ delivered = <<>>
  /\ peer = "up" /\ net = {} /\ acks = {}

(***************************************************************************)
(* Sending end.                                                            *)
(***************************************************************************)
Tries(n) == order[CHOOSE i \in DOMAIN order : order[i].n = n].tries

\* fill_up_send_queue for a window of w: the packets of f with the least keys
\* from i on fill q up.  (A packet that is queued twice because send_packet
\* moved the index back is kept once here: its second copy is one more send,
\* which only adds a copy of it on the network.)
Taken(q, f, i, w) ==
  {n \in f : /\ Key(n) >= i
             /\ Cardinality({m \in f : Key(m) >= i /\ Key(m) < Key(n)})
                  < w - Cardinality(q)}
Filled(q, f, i, w) == q \cup Taken(q, f, i, w)
Advanced(q, f, i, w) ==
  LET t == Taken(q, f, i, w) IN
    IF t = {} THEN i ELSE 1 + CHOOSE k \in {Key(n) : n \in t} :
                                \A m \in t : Key(m) <= k

FillUp(q, f, i) ==
  \E w \in 1 .. MaxWindow : /\ queue' = Filled(q, f, i, w)
                            /\ index' = Advanced(q, f, i, w)

\* Rebuilding with the index left where it was.
RebuildKeepsIndex(f) ==
  \E w \in 1 .. MaxWindow : /\ queue' = Filled({}, f, index, w)
                            /\ index' = Advanced({}, f, index, w)

\* rebuild_send_queue: start again from the oldest packet not acknowledged.
Rebuild(f) == FillUp({}, f, 0)

Kept(o, s) == SelectSeq(o, LAMBDA e : e.n \in s)

\* Connection::send_packet: the command is encoded into one packet or, when it
\* is too long for one, into several, and each is put into the send queue.
\* Here the packets of one command are added in one go, as send_packet does
\* without polling in between.
Send(size) ==
  /\ status = "connected"
  /\ out + size <= Start + MaxSend
  /\ LET new == [i \in 1 .. size |-> out + i - 1] IN
       /\ sent' = Append(sent, new)
       /\ out' = out + size
       /\ full' = full \cup ToSet(new)
       /\ order' = order \o [i \in 1 .. size |-> [n |-> new[i], tries |-> 0]]
       /\ LET least == CHOOSE k \in {Key(n) : n \in ToSet(new)} \cup {index} :
                         \A m \in ToSet(new) : k <= Key(m) /\ k <= index
          IN  FillUp(queue, full', least)
  /\ UNCHANGED <<acked, status, pings, receiverVars, net, acks>>

\* SendRecordId's order: packets never sent come first, then the one sent
\* longest ago.
Due(q) ==
  LET fresh == {n \in q : Tries(n) = 0}
      from == IF fresh # {} THEN fresh ELSE q
  IN  order[CHOOSE i \in DOMAIN order :
              /\ order[i].n \in from
              /\ \A j \in 1 .. i - 1 : order[j].n \notin from].n

\* poll_resend, the head of the queue was acknowledged meanwhile.
PopAcked ==
  /\ status = "connected" /\ queue # {} /\ Due(queue) \notin full
  /\ FillUp(queue \ {Due(queue)}, full, index)
  /\ order' = Kept(order, full \cup queue')
  /\ UNCHANGED <<sent, out, full, acked, status, pings, receiverVars, net,
                 acks>>

Stamped(n) ==
  Append(Kept(order, (full \cup queue) \ {n}), [n |-> n, tries |-> Tries(n) + 1])

\* poll_resend, the head was never sent.
Transmit ==
  /\ status = "connected" /\ queue # {} /\ Due(queue) \in full
  /\ Tries(Due(queue)) = 0
  /\ net' = net \cup {Due(queue)}
  /\ order' = Stamped(Due(queue))
  /\ UNCHANGED <<sent, out, full, queue, index, acked, status, pings,
                 receiverVars, acks>>

\* poll_resend, the head's retransmission timer ran out.
Resend ==
  /\ status = "connected" /\ queue # {} /\ Due(queue) \in full
  /\ Tries(Due(queue)) \in 1 .. MaxTries - 1
  /\ net' = net \cup {Due(queue)}
  /\ Rebuild(full)
  /\ order' = Kept(Stamped(Due(queue)), full \cup queue')
  /\ UNCHANGED <<sent, out, full, acked, status, pings, receiverVars, acks>>

\* poll_resend, "Packet was not acked": the stream ends with an error.
GiveUp ==
  /\ status = "connected" /\ queue # {} /\ Due(queue) \in full
  /\ Tries(Due(queue)) = MaxTries
  /\ status' = "failed"
  /\ UNCHANGED <<sent, out, full, queue, index, order, acked, pings,
                 receiverVars, net, acks>>

PollResend == PopAcked \/ Transmit \/ Resend \/ GiveUp

\* No command waits for its ack.
Quiet == full = {}

\* The pings start over instead of ending the connection.
PollPingForgets ==
  /\ status = "connected" /\ Quiet
  /\ pings' = (pings + 1) % (PingCount + 1) /\ UNCHANGED status
  /\ UNCHANGED <<sent, out, full, queue, index, order, acked, receiverVars,
                 net, acks>>

\* poll_ping while connected: a ping is sent when nothing is waiting for an ack
\* and nothing was received for a second; after PingCount pings in a row the
\* stream ends with "Server did not respond to pings".  The answer to a ping is
\* Pong below.  The code keeps the ids of the pings and asks whether PingCount of
\* them follow each other; at the turn of the ping ids they do not, and the end
\* comes some pings later.
PollPing ==
  /\ status = "connected" /\ Quiet
  /\ IF pings < PingCount
       THEN pings' = pings + 1 /\ UNCHANGED status
       ELSE status' = "failed" /\ UNCHANGED pings
  /\ UNCHANGED <<sent, out, full, queue, index, order, acked, receiverVars,
                 net, acks>>

\* ack_packet for packet id i: the acknowledged packet, found from the first
\* packet of the queue and i alone.
FirstOf(f) == CHOOSE n \in f : \A m \in f : Key(n) <= Key(m)

AckedKey(i) ==
  LET f == Key(FirstOf(full)) IN
    IF f % IdSpace = i THEN f
    ELSE (f \div IdSpace + (IF i < f % IdSpace THEN 1 ELSE 0)) * IdSpace + i

\* An ack that acknowledges everything up to its id.
AckedSoFar(i) == {n \in full : Key(n) <= AckedKey(i)}

\* The records ack_packet removes.
Acknowledged(i) == {n \in full : Key(n) = AckedKey(i)}

\* The id of the AckPacket item, when the first packet is acknowledged: one
\* less than the next packet waiting, or than the next packet to be sent.
AckItem(i) ==
  LET rest == full \ {FirstOf(full)} IN
    (IF rest = {} THEN out ELSE Key(FirstOf(rest))) - 1

ReceiveAck(i) ==
  /\ status = "connected" /\ i \in acks
  /\ IF full = {} THEN UNCHANGED <<full, acked, order>>
     ELSE /\ full' = full \ Acknowledged(i)
          /\ order' = Kept(order, full' \cup queue)
          /\ acked' = IF Id(FirstOf(full)) = i /\ AckItem(i) > acked
                        THEN AckItem(i) ELSE acked
  /\ pings' = 0
  /\ acks' = acks \ {i}
  /\ UNCHANGED <<sent, out, queue, index, status, receiverVars, net>>

\* The answer to a ping, while the other end is alive.
Pong ==
  /\ status = "connected" /\ peer = "up" /\ pings > 0
  /\ pings' = 0
  /\ UNCHANGED <<sent, out, full, queue, index, order, acked, status,
                 receiverVars, net, acks>>

(***************************************************************************)
(* Receiving end.                                                          *)
(***************************************************************************)
\* in_receive_window: how far the id of n is ahead of the next expected one;
\* the window is half of all ids.  Within it the packet is decrypted with the
\* generation its id then has, which fails for any other packet.
Offset(n) == (Id(n) - Id(next)) % IdSpace
InWindow(n) == Offset(n) < (IdSpace - 1) \div 2
Decrypts(n) == next + Offset(n) = n

\* A packet that is one ahead passes for the next one.
OrderLax(n) == Offset(n) <= 1

\* handle_command_packet's cur_next == id.
InOrder(n) == Offset(n) = 0

\* The position of the first packet of q with the id of number k, 0 for none.
Position(q, k) ==
  LET at == {i \in DOMAIN q : Id(q[i]) = Id(k)}
  IN  IF at = {} THEN 0 ELSE CHOOSE i \in at : \A j \in at : i <= j

\* The flag FRAGMENTED: the first and the last packet of a split command.
Fragmented(n) ==
  \E c \in ToSet(sent) : Len(c) > 1 /\ n \in {c[1], c[Len(c)]}

\* Packet n is the next: a command of its own, or the first, a middle or the last
\* part of a split one.  s is the receiving end, a record of its variables.
Assemble(s, n) ==
  LET whole == Fragmented(n) <=> s.frag # <<>>
  IN  [next |-> s.next + 1, queue |-> s.queue,
       frag |-> IF whole THEN <<>> ELSE Append(s.frag, n),
       delivered |-> IF whole THEN Append(s.delivered, Append(s.frag, n))
                     ELSE s.delivered]

\* One round of the loop: the packet that is next leaves the queue, if it is kept.
Round(s) ==
  LET at == Position(s.queue, s.next)
  IN  IF at = 0 THEN s
      ELSE Assemble([s EXCEPT !.queue = RemoveAt(@, at)], s.queue[at])

\* The receiving end after n rounds.
Rounds(s, n) ==
  LET after[k \in 0 .. n] == IF k = 0 THEN s ELSE Round(after[k - 1])
  IN  after[n]

ReceivingEnd ==
  [next |-> next, queue |-> rqueue, frag |-> frag, delivered |-> delivered]

\* In order: the packet is handled, and those kept that follow without a gap.
TakeInOrder(n) ==
  LET r == Rounds(Assemble(ReceivingEnd, n), Len(rqueue))
  IN  /\ next' = r.next /\ rqueue' = r.queue
      /\ frag' = r.frag /\ delivered' = r.delivered
      /\ UNCHANGED peer

\* Too early: it is kept, or the connection ends when it is too far ahead.  A
\* packet that is kept already is kept once more.
KeepForLater(n) ==
  /\ Offset(n) < QueueLen
  /\ rqueue' = Append(rqueue, n)
  /\ UNCHANGED <<next, frag, delivered, peer>>

TooFarAhead(n) ==
  /\ Offset(n) >= QueueLen
  /\ peer' = "failed"
  /\ UNCHANGED <<next, rqueue, frag, delivered>>

\* PacketCodec::handle_udp_packet for a command packet.  An error that does not
\* end the connection changes nothing; a packet from before the window is
\* acknowledged again, since its first ack may be lost.
Receive(n) ==
  /\ peer = "up" /\ n \in net
  /\ net' = net \ {n}
  /\ \/ /\ InWindow(n) /\ Decrypts(n)
        /\ \/ InOrder(n) /\ TakeInOrder(n)
           \/ ~InOrder(n) /\ KeepForLater(n)
        /\ acks' = acks \cup {Id(n)}
     \/ /\ InWindow(n) /\ Decrypts(n) /\ ~InOrder(n) /\ TooFarAhead(n)
        /\ UNCHANGED acks
     \/ /\ InWindow(n) /\ ~Decrypts(n)
        /\ UNCHANGED <<receiverVars, acks>>
     \/ /\ ~InWindow(n)
        /\ acks' = acks \cup {Id(n)}
        /\ UNCHANGED receiverVars
  /\ UNCHANGED senderVars

(***************************************************************************)
(* Network.                                                                *)
(***************************************************************************)
Lose ==
  /\ "lose" \in Faults
  /\ \/ \E n \in net : net' = net \ {n} /\ UNCHANGED acks
     \/ \E i \in acks : acks' = acks \ {i} /\ UNCHANGED net
  /\ UNCHANGED <<senderVars, receiverVars>>

\* The other end, or the way to it, is gone for good.
Die ==
  /\ "die" \in Faults /\ peer = "up"
  /\ peer' = "dead" /\ net' = {} /\ acks' = {}
  /\ UNCHANGED <<senderVars, next, rqueue, frag, delivered>>

Next ==
  \/ \E size \in 1 .. MaxSize : Send(size)
  \/ PollResend
  \/ PollPing
  \/ \E i \in acks : ReceiveAck(i)
  \/ Pong
  \/ \E n \in net : Receive(n)
  \/ Lose
  \/ Die

Spec == Init /\ [][Next]_vars

\* The client's event loop polls the stream whenever one of its timers fires.
FairSpec == Spec /\ WF_vars(PollResend) /\ WF_vars(PollPing)

(***************************************************************************)
(* Properties.                                                             *)
(***************************************************************************)
\* Commands come out once each and in the order they were sent, also when the
\* packet ids start over (docs of handle_command_packet: "They have to be
\* handled in the right order").
Fifo == INSTANCE Channel
          WITH Command <- {[i \in 1 .. size |-> first + i - 1] :
                             size \in 1 .. MaxSize, first \in Start .. Start + MaxSend},
               broken <- status = "failed"
FifoOrder == Fifo!Spec

\* A packet the sender no longer repeats was received by the other end: an ack
\* is never taken for the ack of another packet (resend.rs, ack_packet).
NotForgotten ==
  \A n \in Start .. out - 1 : n \in full \/ n < next \/ n \in ToSet(rqueue)

\* Whoever waits for the packet id that send_packet returned gets an AckPacket
\* item that covers it, unless the connection ends (connection.rs,
\* send_packet; client.rs, wait_for_ack).
LastPacket(k) == sent[k][Len(sent[k])]
Waited ==
  \A k \in 1 .. MaxSend :
    k <= Len(sent) ~> \/ status = "failed"
                      \/ k <= Len(sent) /\ acked >= Key(LastPacket(k))

\* Every command is delivered, unless the connection ends with an error at one
\* of the ends or the other end is gone (poll_resend repeats it until then).
EachDelivered ==
  \A k \in 1 .. MaxSend :
    k <= Len(sent) ~> k <= Len(delivered) \/ status = "failed" \/ peer # "up"

\* A peer that is gone is noticed: by the pings when nothing is waiting for an
\* ack, by the resends otherwise (poll_ping and poll_resend share the work).
DeadPeerNoticed == peer # "up" ~> status = "failed"
=============================================================================
