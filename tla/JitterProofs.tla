----------------------------- MODULE JitterProofs ----------------------------
(***************************************************************************)
(* Proofs about module JitterBuffer: its type invariant, and that every    *)
(* frame of the ring is in its own place as long as packet ids do not pass *)
(* half a turn, whatever packets are lost, overtaken or decoded in the     *)
(* middle of a rebuild.                                                    *)
(***************************************************************************)
EXTENDS JitterBuffer, TLAPS

-----------------------------------------------------------------------------
(* Arithmetic of wrapping numbers. *)

LEMMA ModRange == ASSUME NEW k \in Nat \ {0}, NEW x \in Int PROVE x % k \in 0..k-1
OBVIOUS

LEMMA PacketId == ASSUME NEW x \in Int PROVE x % W \in Int
<1>1. W \in Nat \ {0} /\ x % W \in 0..W-1
  BY JitterAssumption, ModRange
<1> QED BY <1>1

LEMMA ModSmall == ASSUME NEW k \in Nat \ {0}, NEW x \in 0..k-1 PROVE x % k = x
OBVIOUS

LEMMA ModNegative ==
  ASSUME NEW k \in Nat \ {0}, NEW x \in Int, -k <= x, x < 0 PROVE x % k = x + k
OBVIOUS

\* A remainder is no more than the number, and moves with it while it stays one.
LEMMA ModShift ==
  ASSUME NEW k \in Nat \ {0}, NEW x \in Nat, NEW e \in Int, NEW i \in 0..k-1, x % k = i,
         0 <= i - e, i - e < k
  PROVE  i <= x /\ (x - e) % k = i - e
<1>1. i <= x
  OBVIOUS
<1>2. (x - e) % k = i - e
  OBVIOUS
<1> QED BY <1>1, <1>2

LEMMA Halves == ASSUME NEW k \in Nat, k % 2 = 0 PROVE k \div 2 \in Nat /\ 2 * (k \div 2) = k
OBVIOUS

\* A sequence number is one of u32, whatever the packet id.
LEMMA UnwrapRange ==
  ASSUME NEW seq \in Int, NEW b \in Int
  PROVE  UnwrapSeq(seq, b) \in 0..U-1
<1>1. W \in Nat \ {0} /\ U \in Nat \ {0}
  BY JitterAssumption
<1>2. (seq - b) % W \in 0..W-1
  BY <1>1, ModRange
<1> DEFINE delta == Signed(seq - b)
<1>3. delta \in Int
  BY <1>1, <1>2 DEF Signed
<1> HIDE DEF delta
<1>4. (b + W + delta) % U \in 0..U-1 /\ (b + delta) % U \in 0..U-1
  <2>1. b + W + delta \in Int /\ b + delta \in Int
    BY <1>1, <1>3
  <2> QED BY <1>1, <2>1, ModRange
<1>5. UnwrapSeq(seq, b) = (b + W + delta) % U \/ UnwrapSeq(seq, b) = (b + delta) % U
  BY DEF UnwrapSeq, delta
<1> QED BY <1>4, <1>5

-----------------------------------------------------------------------------
(* Types. *)

LEMMA TypeInit == Init => TypeOK
<1> SUFFICES ASSUME Init PROVE TypeOK
  OBVIOUS
<1>1. next \in Start..(Start + Frames) /\ silence \in Nat /\ slot \in 0..MaxSlot
  BY JitterAssumption DEF Init
<1>2. base \in 0..U-1 /\ at \in Nat /\ wseq \in 0..U-1 /\ idle \in 0..Idle /\ rebuilt \in 0..Restarts
  BY JitterAssumption DEF Init
<1>3. ring \in [0..SLOTS-1 -> Stream \union {none}]
  BY DEF Init, Empty
<1> QED BY <1>1, <1>2, <1>3 DEF Init, TypeOK

\* A frame placed at a number of u32, in a ring of frames.
LEMMA PlaceTypes ==
  ASSUME NEW g \in 0..U-1, NEW n \in Stream, NEW b \in 0..U-1, NEW a \in Nat,
         NEW r \in [0..SLOTS-1 -> Stream \union {none}], Place(g, n, b, a, r)
  PROVE  /\ base' \in 0..U-1 /\ at' \in Nat /\ wseq' \in 0..U-1 /\ live' = TRUE
         /\ ring' \in [0..SLOTS-1 -> Stream \union {none}] /\ idle' \in 0..Idle
BY JitterAssumption DEF Place

LEMMA RehomedTypes ==
  ASSUME TypeOK, NEW nb
  PROVE  Rehomed(nb) \in [0..SLOTS-1 -> Stream \union {none}]
<1> SUFFICES ASSUME NEW d \in 0..SLOTS-1
             PROVE  LET kept == {i \in 0..SLOTS-1 : ring[i] # none /\ (base + i - nb) % U = d}
                    IN  (IF kept = {} THEN none ELSE ring[CHOOSE i \in kept : TRUE])
                          \in Stream \union {none}
  BY DEF Rehomed
<1> DEFINE kept == {i \in 0..SLOTS-1 : ring[i] # none /\ (base + i - nb) % U = d}
<1>1. kept # {} => (CHOOSE i \in kept : TRUE) \in 0..SLOTS-1
  OBVIOUS
<1> QED BY <1>1 DEF TypeOK

LEMMA TypeStep == TypeOK /\ [Next]_vars => TypeOK'
<1> SUFFICES ASSUME TypeOK, [Next]_vars PROVE TypeOK'
  OBVIOUS
<1> USE JitterAssumption DEF TypeOK
<1>0. 0 \in 0..U-1 /\ 0 \in 0..Idle /\ 0 \in 0..MaxSlot /\ 0 \in Nat
  OBVIOUS
<1>1. CASE Send
  <2>1. next \in Stream /\ next' \in Start..(Start + Frames)
    BY <1>1 DEF Send, Stream
  <2>2. flight' \subseteq [n : Stream, age : 0..Latency]
    BY <1>1, <2>1 DEF Send
  <2> QED BY <1>1, <2>1, <2>2 DEF Send, buffer, rebuild, history
<1>2. CASE Silent
  BY <1>2 DEF Silent, buffer, rebuild, history
<1>3. CASE Tick
  <2>1. flight' \subseteq [n : Stream, age : 0..Latency]
    BY <1>3 DEF Tick
  <2>2. (slot - at) % SLOTS \in 0..SLOTS-1
    BY ModRange
  <2>3. /\ heard' \in Stream \union {none} /\ due' \subseteq Stream
        /\ ring' \in [0..SLOTS-1 -> Stream \union {none}]
    BY <1>3, <2>2 DEF Tick
  <2>4. slot' \in 0..MaxSlot /\ idle' \in 0..Idle /\ spoke' = "no"
    BY <1>3 DEF Tick
  <2> QED BY <1>3, <2>1, <2>3, <2>4 DEF Tick, rebuild
<1>4. CASE Snapshot
  BY <1>4 DEF Snapshot, speaker, buffer, rebuild, history
<1>5. CASE CleanUp
  <2>1. ring' \in [0..SLOTS-1 -> Stream \union {none}]
    BY <1>5 DEF CleanUp, Empty
  <2> QED BY <1>0, <1>5, <2>1 DEF CleanUp, speaker, rebuild, history
<1>6. CASE RebuildClears
  <2>1. ring' \in [0..SLOTS-1 -> Stream \union {none}] /\ rebuilt' \in 0..Restarts
    BY <1>6 DEF RebuildClears, Empty
  <2> QED BY <1>0, <1>6, <2>1 DEF RebuildClears, speaker
<1>7. CASE RebuildZeroes
  BY <1>0, <1>7 DEF RebuildZeroes, speaker, buffer, history
<1>8. ASSUME NEW k \in Pauses, Pause(k) PROVE TypeOK'
  BY <1>8 DEF Pause, buffer, rebuild, history
<1>9. ASSUME NEW p \in flight, Lose(p) PROVE TypeOK'
  BY <1>9 DEF Lose, speaker, buffer, rebuild, history
<1>10. ASSUME NEW p \in flight, Arrive(p) PROVE TypeOK'
  <2>1. p.n \in Stream /\ p.n \in Int /\ p.n % W \in Int /\ base % W \in Int
    <3>1. p.n \in Stream /\ p.n \in Int /\ base \in Int
      BY DEF Stream
    <3> QED BY <3>1, PacketId
  <2>2. /\ base' \in 0..U-1 /\ at' \in Nat /\ wseq' \in 0..U-1 /\ live' \in BOOLEAN
        /\ ring' \in [0..SLOTS-1 -> Stream \union {none}] /\ idle' \in 0..Idle
    <3>1. CASE First(p)
      <4> DEFINE b == UnwrapSeq(p.n % W, 0)
                 g == UnwrapSeq(p.n % W, b % W)
      <4>1. b \in 0..U-1
        BY <2>1, UnwrapRange
      <4>2. g \in 0..U-1
        <5>1. b % W \in Int
          BY <4>1, PacketId
        <5> HIDE DEF b
        <5> QED BY <2>1, <5>1, UnwrapRange
      <4>3. Place(g, p.n, b, slot + DELAY, Empty)
        BY <3>1 DEF First
      <4>4. Empty \in [0..SLOTS-1 -> Stream \union {none}] /\ slot + DELAY \in Nat
        BY DEF Empty
      <4> HIDE DEF b, g
      <4> QED BY <2>1, <4>1, <4>2, <4>3, <4>4, PlaceTypes
    <3>2. CASE Later(p)
      <4> DEFINE g == UnwrapSeq(p.n % W, base % W)
      <4>1. g \in 0..U-1
        BY <2>1, UnwrapRange
      <4>2. \/ UNCHANGED buffer
            \/ Place(g, p.n, g, slot + DELAY, Rehomed(g))
            \/ Place(g, p.n, base, at, ring)
        BY <3>2 DEF Later
      <4>3. slot + DELAY \in Nat /\ Rehomed(g) \in [0..SLOTS-1 -> Stream \union {none}]
        BY RehomedTypes
      <4> HIDE DEF g
      <4> QED BY <2>1, <4>1, <4>2, <4>3, PlaceTypes DEF buffer
    <3> QED BY <1>10, <3>1, <3>2 DEF Arrive
  <2>3. flight' \subseteq flight /\ due' \subseteq Stream
    BY <1>10, <2>1 DEF Arrive
  <2> QED BY <1>10, <2>2, <2>3 DEF Arrive, speaker, rebuild
<1>11. CASE UNCHANGED vars
  BY <1>11 DEF vars, speaker, buffer, rebuild, history
<1> QED
  BY <1>1, <1>2, <1>3, <1>4, <1>5, <1>6, <1>7, <1>8, <1>9, <1>10, <1>11 DEF Next

\* Sequence numbers stay in u32, the ring holds frames, and the counters stay in
\* their bounds.
THEOREM JitterTypeCorrect == Spec => []TypeOK
BY TypeInit, TypeStep, PTL DEF Spec

-----------------------------------------------------------------------------
(* The place of a frame. *)

\* A speaker whose packet ids neither turn over nor pass the half turn, whose
\* negative in an i16 is itself: either is taken for another number.  The sizes are
\* those of the code: 1000 frames are less than half a turn, 64 slots less than one,
\* a turn of ids much less than one of sequence numbers.
HalfTurn ==
  /\ Start > 0 /\ Start + Frames <= W /\ W \div 2 \notin Stream
  /\ 2 * MaxDistance <= W /\ SLOTS <= W /\ 2 * W <= U

\* A buffer maps from a frame of the speaker, and no frame it took is before that one.
BufferInv ==
  /\ live => base \in Stream /\ wseq \in Stream /\ base <= wseq
  /\ Placed

\* What the constants say, without division.
LEMMA Sizes ==
  ASSUME HalfTurn
  PROVE  \E h \in Nat \ {0} :
           /\ W \div 2 = h /\ W = 2 * h /\ U \in Nat /\ 4 * h <= U /\ SLOTS \in 1..2 * h
           /\ MaxDistance \in 0..h
           /\ \A n \in Stream : n \in 1..2 * h - 1
           /\ \A n, m \in Stream : n - m < h /\ m - n < h
           /\ \A n \in Stream : n # h
<1> DEFINE h == W \div 2
<1>1. h \in Nat /\ 2 * h = W
  BY JitterAssumption, Halves
<1>2. W \in Nat \ {0} /\ U \in Nat /\ SLOTS \in Nat \ {0} /\ MaxDistance \in Nat /\ Start \in Nat /\ Frames \in Nat
  BY JitterAssumption
<1>3. h \notin Stream
  BY DEF HalfTurn
<1> HIDE DEF h
<1>4. Start > h \/ Start + Frames - 1 < h
  BY <1>1, <1>2, <1>3 DEF Stream
<1>5. \A n \in Stream : n \in Int /\ Start <= n /\ n <= Start + Frames - 1
  BY <1>2 DEF Stream
<1>6. \A n, m \in Stream : n - m < h /\ m - n < h
  BY <1>1, <1>2, <1>4, <1>5 DEF HalfTurn
<1>7. \A n \in Stream : n \in 1..2 * h - 1 /\ n # h
  BY <1>1, <1>2, <1>3, <1>5 DEF HalfTurn
<1>8. h \in Nat \ {0} /\ 4 * h <= U /\ SLOTS \in 1..2 * h /\ MaxDistance \in 0..h
  BY <1>1, <1>2 DEF HalfTurn
<1>9. W \div 2 = h
  BY DEF h
<1> QED BY <1>1, <1>2, <1>6, <1>7, <1>8, <1>9

\* A packet id is unwrapped to its frame, unless the frame is before the base: then
\* to one a turn later, which the sanity check discards.
LEMMA Unwrapped ==
  ASSUME HalfTurn, NEW n \in Stream, NEW b \in Stream
  PROVE  UnwrapSeq(n % W, b % W) = IF b <= n THEN n ELSE n + W
<1>1. PICK h \in Nat \ {0} :
        /\ W \div 2 = h /\ W = 2 * h /\ U \in Nat /\ 4 * h <= U
        /\ n \in 1..2 * h - 1 /\ b \in 1..2 * h - 1 /\ n - b < h /\ b - n < h
  BY Sizes
<1>2. n % W = n /\ b % W = b
  BY <1>1, ModSmall
<1>3. CASE b <= n
  <2>1. (n - b) % W = n - b
    BY <1>1, <1>3, ModSmall
  <2>2. Signed(n - b) = n - b
    BY <1>1, <1>3, <2>1 DEF Signed
  <2>3. (b + (n - b)) % U = n
    BY <1>1, ModSmall
  <2>4. ~(n - b < 0)
    BY <1>1, <1>3
  <2> QED BY <1>2, <1>3, <2>2, <2>3, <2>4 DEF UnwrapSeq
<1>4. CASE ~(b <= n)
  <2>1. (n - b) % W = n - b + W
    BY <1>1, <1>4, ModNegative
  <2>2. Signed(n - b) = n - b
    BY <1>1, <1>4, <2>1 DEF Signed
  <2>3. (b + W + (n - b)) % U = n + W
    BY <1>1, ModSmall
  <2>4. n - b < 0 /\ n - b > -(W \div 2)
    BY <1>1, <1>4
  <2> QED BY <1>2, <1>4, <2>2, <2>3, <2>4 DEF UnwrapSeq
<1> QED BY <1>3, <1>4

\* The first packet of a buffer is unwrapped to its frame.
LEMMA UnwrappedFirst ==
  ASSUME HalfTurn, NEW n \in Stream
  PROVE  UnwrapSeq(n % W, 0) = n
<1>1. PICK h \in Nat \ {0} :
        /\ W \div 2 = h /\ W = 2 * h /\ U \in Nat /\ 4 * h <= U
        /\ n \in 1..2 * h - 1 /\ n # h
  BY Sizes
<1>2. n % W = n
  BY <1>1, ModSmall
<1>3. n - 0 = n /\ 0 + W + (n - W) = n /\ 0 + n = n /\ n % U = n
  BY <1>1, ModSmall
<1>4. CASE n < h
  <2>1. Signed(n) = n /\ ~(n < 0)
    BY <1>1, <1>2, <1>4 DEF Signed
  <2> QED BY <1>2, <1>3, <2>1 DEF UnwrapSeq
<1>5. CASE n > h
  <2>1. Signed(n) = n - W /\ n - W < 0 /\ n - W > -(W \div 2)
    BY <1>1, <1>2, <1>5 DEF Signed
  <2> QED BY <1>2, <1>3, <2>1 DEF UnwrapSeq
<1> QED BY <1>1, <1>4, <1>5

\* A frame from before the base is discarded.
LEMMA LateDiscarded ==
  ASSUME HalfTurn, NEW n \in Stream, wseq \in Stream, n < wseq
  PROVE  TooFar(n + W)
<1>1. PICK h \in Nat \ {0} :
        /\ W = 2 * h /\ U \in Nat /\ 4 * h <= U /\ MaxDistance \in 0..h
        /\ n \in 1..2 * h - 1 /\ wseq \in 1..2 * h - 1 /\ n - wseq < h /\ wseq - n < h
  BY Sizes
<1>2. n + W - wseq \in 0..U-1 /\ -U <= wseq - (n + W) /\ wseq - (n + W) < 0
  BY <1>1
<1>3. (n + W - wseq) % U = n + W - wseq /\ (wseq - (n + W)) % U = wseq - (n + W) + U
  <2>1. U \in Nat \ {0} /\ wseq - (n + W) \in Int
    BY <1>1
  <2>2. (n + W - wseq) % U = n + W - wseq
    BY <1>2, <2>1, ModSmall
  <2>3. (wseq - (n + W)) % U = wseq - (n + W) + U
    BY <1>2, <2>1, ModNegative
  <2> QED BY <2>2, <2>3
<1>4. n + W - wseq > MaxDistance /\ wseq - (n + W) + U > MaxDistance
  BY <1>1
<1> QED BY <1>1, <1>3, <1>4 DEF TooFar, Distance

\* A frame placed at its own number keeps the ring in order.
LEMMA PlacedHere ==
  ASSUME HalfTurn, NEW n \in Stream, NEW b \in Stream, b <= n, NEW a,
         NEW r \in [0..SLOTS-1 -> Stream \union {none}],
         \A i \in 0..SLOTS-1 : r[i] # none => r[i] >= b /\ (r[i] - b) % SLOTS = i,
         Place(n, n, b, a, r)
  PROVE  Placed'
<1>1. PICK h \in Nat \ {0} :
        /\ W = 2 * h /\ U \in Nat /\ 4 * h <= U /\ n \in 1..2 * h - 1 /\ b \in 1..2 * h - 1
        /\ SLOTS \in 1..2 * h
  BY Sizes
<1>2. (n - b) % U = n - b
  <2>1. U \in Nat \ {0} /\ n - b \in 0..U-1
    BY <1>1
  <2> QED BY <2>1, ModSmall
<1>3. (n - b) % SLOTS \in 0..SLOTS-1
  BY <1>1, ModRange
<1>4. ring' = [r EXCEPT ![(n - b) % SLOTS] = n] /\ base' = b
  BY <1>2 DEF Place
<1> QED BY <1>3, <1>4 DEF Placed

\* Moving the mapping forward keeps frames in order: those that have a place under
\* the new base are not before it.
LEMMA RehomedPlaced ==
  ASSUME HalfTurn, TypeOK, Placed, base \in Stream, NEW nb \in Stream, base <= nb
  PROVE  \A d \in 0..SLOTS-1 :
           Rehomed(nb)[d] # none => Rehomed(nb)[d] >= nb /\ (Rehomed(nb)[d] - nb) % SLOTS = d
<1> SUFFICES ASSUME NEW d \in 0..SLOTS-1, Rehomed(nb)[d] # none
             PROVE  Rehomed(nb)[d] >= nb /\ (Rehomed(nb)[d] - nb) % SLOTS = d
  OBVIOUS
<1>1. PICK h \in Nat \ {0} :
        /\ W = 2 * h /\ U \in Nat /\ 4 * h <= U /\ nb \in 1..2 * h - 1 /\ base \in 1..2 * h - 1
        /\ SLOTS \in 1..2 * h
  BY Sizes
<1> DEFINE kept == {i \in 0..SLOTS-1 : ring[i] # none /\ (base + i - nb) % U = d}
           i == CHOOSE i \in kept : TRUE
<1>2. kept # {} /\ Rehomed(nb)[d] = ring[i]
  BY DEF Rehomed
<1>3. i \in 0..SLOTS-1 /\ ring[i] # none /\ (base + i - nb) % U = d
  BY <1>2
<1> HIDE DEF i, kept
<1>4. ring[i] \in Stream /\ ring[i] >= base /\ (ring[i] - base) % SLOTS = i
  BY <1>3 DEF Placed, TypeOK
<1>5. ring[i] \in Int
  BY <1>4, JitterAssumption DEF Stream
<1>6. base + i - nb = d
  <2>1. CASE base + i - nb < 0
    <3>1. (base + i - nb) % U = base + i - nb + U
      BY <1>1, <1>3, <2>1, ModNegative
    <3> QED BY <1>1, <1>3, <3>1
  <2>2. CASE base + i - nb >= 0
    <3>1. (base + i - nb) % U = base + i - nb
      BY <1>1, <1>3, <2>2, ModSmall
    <3> QED BY <1>3, <3>1
  <2> QED BY <1>1, <1>3, <2>1, <2>2
<1>7. /\ SLOTS \in Nat \ {0} /\ ring[i] - base \in Nat /\ nb - base \in Int /\ i \in 0..SLOTS-1
      /\ i - (nb - base) = d
  BY <1>1, <1>3, <1>4, <1>5, <1>6
<1> DEFINE x == ring[i] - base
           e == nb - base
<1>8. x - e = ring[i] - nb /\ x = ring[i] - base /\ e = nb - base
  BY <1>1, <1>5
<1>9. x \in Nat /\ e \in Int /\ i - e = d /\ x % SLOTS = i
  BY <1>4, <1>7
<1> HIDE DEF x, e
<1>10. i <= x /\ (x - e) % SLOTS = d
  <2>1. 0 <= i - e /\ i - e < SLOTS
    BY <1>1, <1>9
  <2>2. i <= x /\ (x - e) % SLOTS = i - e
    BY <1>7, <1>9, <2>1, ModShift
  <2> QED BY <1>9, <2>2
<1>11. x - e >= i - e
  BY <1>1, <1>3, <1>9, <1>10
<1>12. ring[i] >= nb
  <2>1. ring[i] - nb >= d
    BY <1>8, <1>9, <1>11
  <2>2. d >= 0
    BY <1>1
  <2> QED BY <1>1, <1>5, <2>1, <2>2
<1> QED BY <1>2, <1>8, <1>10, <1>12

LEMMA BufferInit == Init => BufferInv
<1> SUFFICES ASSUME Init PROVE BufferInv
  OBVIOUS
<1> QED BY DEF Init, Empty, BufferInv, Placed

\* One step.  Packets place a frame; the callback and the maintenance task take
\* frames away; nothing else touches the buffer.
LEMMA BufferStep ==
  ASSUME HalfTurn, TypeOK, BufferInv, [Next]_vars PROVE BufferInv'
<1>1. CASE UNCHANGED buffer
  BY <1>1 DEF buffer, BufferInv, Placed
<1>2. CASE Tick
  <2>1. UNCHANGED <<live, base, at, wseq>>
    BY <1>2 DEF Tick
  <2>2. \A i \in 0..SLOTS-1 : ring'[i] # none => ring'[i] = ring[i]
    <3>1. CASE UNCHANGED ring
      BY <3>1
    <3>2. CASE ring' = [ring EXCEPT ![(slot - at) % SLOTS] = none]
      BY <3>2 DEF TypeOK
    <3> QED BY <1>2, <3>1, <3>2 DEF Tick
  <2> QED BY <2>1, <2>2 DEF BufferInv, Placed
<1>3. CASE CleanUp \/ RebuildClears
  BY <1>3 DEF CleanUp, RebuildClears, Empty, BufferInv, Placed
<1>4. ASSUME NEW p \in flight, First(p) PROVE BufferInv'
  <2>1. p.n \in Stream
    BY DEF TypeOK
  <2>2. UnwrapSeq(p.n % W, 0) = p.n
    BY <2>1, UnwrappedFirst
  <2>3. UnwrapSeq(p.n % W, p.n % W) = p.n
    <3>1. p.n <= p.n
      BY <2>1, JitterAssumption DEF Stream
    <3> QED BY <2>1, <3>1, Unwrapped
  <2>4. Place(p.n, p.n, p.n, slot + DELAY, Empty)
    BY <1>4, <2>2, <2>3 DEF First
  <2>5. p.n <= p.n
    BY <2>1, JitterAssumption DEF Stream
  <2>6. /\ Empty \in [0..SLOTS-1 -> Stream \union {none}]
        /\ \A i \in 0..SLOTS-1 : Empty[i] = none
    BY DEF Empty
  <2>7. Placed'
    BY <2>1, <2>4, <2>5, <2>6, PlacedHere
  <2> QED BY <2>1, <2>4, <2>5, <2>7 DEF BufferInv, Place
<1>5. ASSUME NEW p \in flight, Later(p) PROVE BufferInv'
  <2>1. /\ p.n \in Stream /\ base \in Stream /\ wseq \in Stream /\ base <= wseq
        /\ p.n \in Int /\ base \in Int /\ wseq \in Int
    BY <1>5, JitterAssumption DEF TypeOK, BufferInv, Later, Stream
  <2>2. UnwrapSeq(p.n % W, base % W) = IF base <= p.n THEN p.n ELSE p.n + W
    BY <2>1, Unwrapped
  <2>3. CASE base <= p.n
    <3>1. \/ UNCHANGED buffer
          \/ Overtaken(p.n) /\ Place(p.n, p.n, p.n, slot + DELAY, Rehomed(p.n))
          \/ Place(p.n, p.n, base, at, ring)
      BY <1>5, <2>2, <2>3 DEF Later
    <3>2. CASE Place(p.n, p.n, p.n, slot + DELAY, Rehomed(p.n))
      <4>1. \A d \in 0..SLOTS-1 : Rehomed(p.n)[d] # none =>
              Rehomed(p.n)[d] >= p.n /\ (Rehomed(p.n)[d] - p.n) % SLOTS = d
        BY <2>1, <2>3, RehomedPlaced DEF BufferInv
      <4>2. Rehomed(p.n) \in [0..SLOTS-1 -> Stream \union {none}] /\ p.n <= p.n
        BY <2>1, RehomedTypes
      <4>3. Placed'
        BY <2>1, <3>2, <4>1, <4>2, PlacedHere
      <4> QED BY <2>1, <3>2, <4>2, <4>3 DEF BufferInv, Place
    <3>3. CASE Place(p.n, p.n, base, at, ring)
      <4>1. Placed'
        BY <2>1, <2>3, <3>3, PlacedHere DEF BufferInv, Placed, TypeOK
      <4> QED BY <2>1, <2>3, <3>3, <4>1 DEF BufferInv, Place
    <3> QED BY <1>1, <3>1, <3>2, <3>3
  <2>4. CASE ~(base <= p.n)
    <3>1. TooFar(p.n + W)
      BY <2>1, <2>4, LateDiscarded
    <3> QED BY <1>1, <1>5, <2>2, <2>4, <3>1 DEF Later
  <2> QED BY <2>3, <2>4
<1>6. CASE Send \/ Silent \/ Snapshot \/ RebuildZeroes
  BY <1>1, <1>6 DEF Send, Silent, Snapshot, RebuildZeroes
<1>7. ASSUME NEW k \in Pauses, Pause(k) PROVE BufferInv'
  BY <1>1, <1>7 DEF Pause
<1>8. ASSUME NEW p \in flight, Lose(p) \/ Arrive(p) PROVE BufferInv'
  BY <1>1, <1>4, <1>5, <1>8 DEF Lose, Arrive
<1>9. CASE UNCHANGED vars
  BY <1>1, <1>9 DEF vars
<1> QED BY <1>2, <1>3, <1>6, <1>7, <1>8, <1>9 DEF Next

\* Every frame of the ring is in its own place under the current mapping
\* (decode_to_client_buffer, the re-homing of a realignment).
THEOREM InPlace == ASSUME HalfTurn PROVE Spec => []Placed
<1>1. TypeOK /\ BufferInv /\ [Next]_vars => BufferInv'
  BY BufferStep
<1>2. BufferInv => Placed
  BY DEF BufferInv
<1> QED BY <1>1, <1>2, TypeInit, TypeStep, BufferInit, PTL DEF Spec

=============================================================================
