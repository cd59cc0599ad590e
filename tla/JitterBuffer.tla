---------------------------- MODULE JitterBuffer -----------------------------
(***************************************************************************)
(* The jitter buffer of one speaker.  The event loop decodes each packet   *)
(* and places its frame in a ring (decode_to_client_buffer); the audio     *)
(* callback plays one frame per 20 ms slot; the maintenance task lists the *)
(* buffers the callback may read and removes the idle ones.                *)
(*                                                                         *)
(* A frame is its position n in the speaker's stream; the packet carries   *)
(* n % W only.  One Tick is one slot of 20 ms: the speaker sends at most   *)
(* one frame in it and the callback plays at most one.  The constants      *)
(* carry the code's names and are scaled down for model checking; u32 and  *)
(* u64 arithmetic is that of the code, with U for 2^32.                    *)
(***************************************************************************)
EXTENDS Integers, FiniteSets

CONSTANTS
  W,           (* packet ids are u16: W = 2^16                             *)
  U,           (* sequence numbers are u32: U = 2^32                       *)
  SLOTS,       (* JITTER_SLOTS                                             *)
  DELAY,       (* TARGET_DELAY                                             *)
  LEAD,        (* REBASE_LEAD                                              *)
  MaxDistance, (* the sanity check's 1000 frames                           *)
  MaxBehind,   (* the realignment's 4096 slots                             *)
  Idle,        (* 10 s without a packet: the buffer may be removed         *)
  Start,       (* the first frame of the speaker the client receives       *)
  Frames,      (* bound: frames sent                                       *)
  MaxSlot,     (* bound: slots played                                      *)
  Pauses,      (* lengths, in slots, of the silences between frames        *)
  Latency,     (* slots a packet may be under way                          *)
  Lossy,       (* the frames that may be lost                              *)
  Slow,        (* the frames that later ones may overtake                  *)
  Restarts,    (* bound: rebuilds of the output stream                     *)
  Swift        (* TRUE: no packet is decoded between the few instructions  *)
               (* of a rebuild                                             *)

ASSUME JitterAssumption ==
  /\ W \in Nat \ {0} /\ W % 2 = 0 /\ U \in Nat \ {0} /\ U % W = 0
  /\ SLOTS \in Nat \ {0} /\ DELAY \in Nat \ {0} /\ LEAD \in Nat \ {0}
  /\ MaxDistance \in Nat /\ MaxBehind \in Nat /\ Idle \in Nat
  /\ Start \in 0..W-1 /\ Frames \in Nat /\ MaxSlot \in Nat
  /\ Pauses \subseteq Nat /\ Latency \in Nat /\ Lossy \subseteq Nat /\ Slow \subseteq Nat
  /\ Restarts \in Nat
  /\ Swift \in BOOLEAN

VARIABLES
  next,    \* the speaker's next frame
  silence, \* slots of the current pause still to come
  spoke,   \* the speaker's turn in this slot: "no", "sent" or "silent"
  flight,  \* packets under way, with the slots they have been
  slot,    \* PLAYED_SAMPLES / FRAME_SIZE
  live,    \* the speaker has a buffer in CLIENT_BUFFERS
  base,    \* base_pair: base_seq ...
  at,      \* ... and base_slot
  wseq,    \* write_seq
  ring,    \* slots: the frame in each, or none
  idle,    \* slots since last_packet
  listed,  \* the speaker is in ACTIVE_CLIENT_IDS
  zeroing, \* a rebuild has cleared the buffers, not yet PLAYED_SAMPLES
  rebuilt, \* rebuilds so far
  heard,   \* history: the last frame played
  due      \* history: frames received for a listed buffer, not yet played

speaker == <<next, silence, spoke>>
buffer  == <<live, base, at, wseq, ring, idle>>
rebuild == <<zeroing, rebuilt>>
history == <<heard, due>>
vars    == <<speaker, flight, slot, buffer, listed, rebuild, history>>

none  == -1
Stream == Start..(Start + Frames - 1)
Empty == [i \in 0..SLOTS-1 |-> none]

TypeOK ==
  /\ next \in Start..(Start + Frames) /\ silence \in Nat /\ spoke \in {"no", "sent", "silent"}
  /\ flight \subseteq [n : Stream, age : 0..Latency]
  /\ slot \in 0..MaxSlot /\ live \in BOOLEAN
  /\ base \in 0..U-1 /\ at \in Nat /\ wseq \in 0..U-1
  /\ ring \in [0..SLOTS-1 -> Stream \union {none}] /\ idle \in 0..Idle
  /\ listed \in BOOLEAN /\ zeroing \in BOOLEAN /\ rebuilt \in 0..Restarts
  /\ heard \in Stream \union {none} /\ due \subseteq Stream

Init ==
  /\ next = Start /\ silence = 0 /\ spoke = "no" /\ flight = {}
  /\ slot = 0 /\ live = FALSE /\ base = 0 /\ at = 0 /\ wseq = 0 /\ ring = Empty /\ idle = 0
  /\ listed = FALSE /\ zeroing = FALSE /\ rebuilt = 0
  /\ heard = none /\ due = {}

----------------------------------------------------------------------------
(* Sequence numbers.                                                       *)

\* seq.wrapping_sub(base) as i16
Signed(d) == IF d % W < W \div 2 THEN d % W ELSE (d % W) - W

UnwrapSeq(seq, b) ==
  LET delta == Signed(seq - b) IN
  IF delta < 0 /\ delta > -(W \div 2) THEN (b + W + delta) % U ELSE (b + delta) % U

\* forward.min(backward)
Distance(g, h) == IF (g - h) % U < (h - g) % U THEN (g - h) % U ELSE (h - g) % U

----------------------------------------------------------------------------
(* The speaker and the network.                                            *)

Send ==
  /\ spoke = "no" /\ silence = 0 /\ next < Start + Frames
  /\ flight' = flight \union {[n |-> next, age |-> 0]}
  /\ next' = next + 1 /\ spoke' = "sent"
  /\ UNCHANGED <<silence, slot, buffer, listed, rebuild, history>>

\* A pause of k slots follows the frame just sent.
Pause(k) ==
  /\ spoke = "sent" /\ silence = 0 /\ next < Start + Frames
  /\ silence' = k
  /\ UNCHANGED <<next, spoke, flight, slot, buffer, listed, rebuild, history>>

Silent ==
  /\ spoke = "no" /\ (silence > 0 \/ next = Start + Frames)
  /\ silence' = IF silence > 0 THEN silence - 1 ELSE 0
  /\ spoke' = "silent"
  /\ UNCHANGED <<next, flight, slot, buffer, listed, rebuild, history>>

Lose(p) ==
  /\ p.n \in Lossy /\ flight' = flight \ {p}
  /\ UNCHANGED <<speaker, slot, buffer, listed, rebuild, history>>

----------------------------------------------------------------------------
(* decode_to_client_buffer.                                                *)

\* Mutant: the ring is not mapped to the new base.
RehomedNot(nb) == ring

\* The frames that keep a place when the mapping moves from base to nb.
Rehomed(nb) ==
  [d \in 0..SLOTS-1 |->
     LET kept == {i \in 0..SLOTS-1 : ring[i] # none /\ (base + i - nb) % U = d}
     IN  IF kept = {} THEN none ELSE ring[CHOOSE i \in kept : TRUE]]

Place(g, n, b, a, r) ==
  /\ base' = b /\ at' = a
  /\ ring' = [r EXCEPT ![((g - b) % U) % SLOTS] = n]
  /\ wseq' = g /\ live' = TRUE /\ idle' = 0

\* The first packet makes a buffer and its mapping.
First(p) ==
  /\ ~live
  /\ LET b == UnwrapSeq(p.n % W, 0)
     IN  Place(UnwrapSeq(p.n % W, b % W), p.n, b, slot + DELAY, Empty)

TooFar(g) == wseq # 0 /\ Distance(g, wseq) > MaxDistance

\* How far the reader is ahead of frame g.
Behind(g) == slot - at + base - g

\* Mutant: a writer that is ahead counts as behind.
OvertakenEarly(g) == wseq # 0 /\ g > wseq /\ Behind(g) < MaxBehind

\* The reader has genuinely overtaken the writer.
Overtaken(g) == wseq # 0 /\ g > wseq /\ Behind(g) >= LEAD /\ Behind(g) < MaxBehind

Later(p) ==
  /\ live
  /\ LET g == UnwrapSeq(p.n % W, base % W) IN
     \/ TooFar(g) /\ UNCHANGED buffer
     \/ ~TooFar(g) /\ Overtaken(g) /\ Place(g, p.n, g, slot + DELAY, Rehomed(g))
     \/ ~TooFar(g) /\ ~Overtaken(g) /\ Place(g, p.n, base, at, ring)

Arrive(p) ==
  /\ Swift => ~zeroing
  /\ \A q \in flight : q.n < p.n => q.n \in Slow
  /\ flight' = flight \ {p}
  /\ First(p) \/ Later(p)
  /\ due' = IF listed THEN due \union {p.n} ELSE due
  /\ UNCHANGED <<speaker, slot, listed, rebuild, heard>>

----------------------------------------------------------------------------
(* The audio callback.                                                     *)

Expected == slot - at + base

Readable == listed /\ live /\ base # 0 /\ Expected >= 0 /\ wseq >= Expected

Tick ==
  /\ spoke # "no" /\ ~zeroing
  /\ \A p \in flight : p.age < Latency
  /\ slot < MaxSlot                                            \* bound
  /\ LET i == (slot - at) % SLOTS IN
     \/ /\ Readable /\ ring[i] # none
        /\ heard' = ring[i] /\ due' = due \ {ring[i]}
        /\ ring' = [ring EXCEPT ![i] = none]
     \/ /\ ~(Readable /\ ring[i] # none)
        /\ UNCHANGED <<heard, due, ring>>
  /\ slot' = slot + 1 /\ spoke' = "no"
  /\ flight' = {[n |-> p.n, age |-> p.age + 1] : p \in flight}
  /\ idle' = IF live /\ idle < Idle THEN idle + 1 ELSE idle
  /\ UNCHANGED <<next, silence, live, base, at, wseq, listed, rebuild>>

----------------------------------------------------------------------------
(* The maintenance task and restart_output_stream.                         *)

Snapshot ==
  /\ listed # live
  /\ listed' = live
  /\ UNCHANGED <<speaker, flight, slot, buffer, rebuild, history>>

CleanUp ==
  /\ live /\ idle = Idle
  /\ live' = FALSE /\ base' = 0 /\ at' = 0 /\ wseq' = 0 /\ ring' = Empty /\ idle' = 0
  /\ UNCHANGED <<speaker, flight, slot, listed, rebuild, history>>

\* A rebuild drops the stream and clears the buffers, then PLAYED_SAMPLES.
RebuildClears ==
  /\ rebuilt < Restarts /\ ~zeroing                            \* bound
  /\ zeroing' = TRUE /\ rebuilt' = rebuilt + 1
  /\ live' = FALSE /\ base' = 0 /\ at' = 0 /\ wseq' = 0 /\ ring' = Empty /\ idle' = 0
  /\ due' = {}
  /\ UNCHANGED <<speaker, flight, slot, listed, heard>>

RebuildZeroes ==
  /\ zeroing
  /\ zeroing' = FALSE /\ slot' = 0 /\ listed' = FALSE
  /\ UNCHANGED <<speaker, flight, buffer, rebuilt, history>>

----------------------------------------------------------------------------
Next ==
  \/ Send \/ Silent \/ Tick \/ Snapshot \/ CleanUp \/ RebuildClears \/ RebuildZeroes
  \/ \E k \in Pauses : Pause(k)
  \/ \E p \in flight : Lose(p) \/ Arrive(p)

Spec == Init /\ [][Next]_vars

----------------------------------------------------------------------------
(* Properties.                                                             *)

\* Every frame received in order for a speaker the callback knows is in the ring
\* until it is played, and it is played in time: none is discarded, overwritten,
\* re-homed away or passed by, whatever the frames before it that are lost.
Kept ==
  /\ due \ Slow \subseteq {ring[i] : i \in 0..SLOTS-1}
  /\ Cardinality(due \ Slow) <= DELAY + LEAD + Latency

\* Whatever is lost, late or rebuilt, a frame in the ring is in its own place
\* under the current mapping, and none is from before it: it is the moment of
\* playing that a realignment moves, never a frame to another's place.
Placed ==
  \A i \in 0..SLOTS-1 : ring[i] # none => ring[i] >= base /\ (ring[i] - base) % SLOTS = i

\* A speaker is heard in the order of its frames: a frame that came too late is
\* skipped, it is not played after a newer one.
InOrder == [][heard' >= heard]_heard

=============================================================================
