-------------------------- MODULE TransportProofs ---------------------------
(***************************************************************************)
(* Proofs about module Transport: commands come out once each and in order *)
(* (it implements Channel), and no ack is taken for the ack of another     *)
(* packet, as long as the packet ids do not start over; for any windows,   *)
(* tries, sizes of commands, losses, delays and repetitions.               *)
(***************************************************************************)
EXTENDS Transport, SequenceTheorems, WellFoundedInduction, TLAPS

-----------------------------------------------------------------------------
(* Packet ids. *)

LEMMA Turn ==
  ASSUME NEW k \in Nat \ {0}, NEW a \in Nat
  PROVE  \E q \in Nat : a = q * k + (a % k)
<1>1. a \div k \in Nat
  OBVIOUS
<1>2. a = (a \div k) * k + (a % k)
  OBVIOUS
<1> QED BY <1>1, <1>2

LEMMA ModSmall == ASSUME NEW k \in Nat \ {0}, NEW x \in 0..k-1 PROVE x % k = x
OBVIOUS

LEMMA ModNegative ==
  ASSUME NEW k \in Nat \ {0}, NEW x \in Int, -k <= x, x < 0 PROVE x % k = x + k
OBVIOUS

\* Turns are one turn apart at least.
LEMMA Apart ==
  ASSUME NEW k \in Nat \ {0}, NEW p \in Int, NEW q \in Int, NEW d \in Int, p >= q + d
  PROVE  p * k - q * k >= d * k
<1>1. (p - q - d) * k >= 0
  OBVIOUS
<1> QED BY <1>1

\* The difference of the ids of two numbers less than a turn apart.
LEMMA Ahead ==
  ASSUME NEW k \in Nat \ {0}, NEW a \in Nat, NEW b \in Nat, 0 <= a - b, a - b < k
  PROVE  ((a % k) - (b % k)) % k = a - b
<1>1. PICK p \in Nat : a = p * k + (a % k)
  BY Turn
<1>2. PICK q \in Nat : b = q * k + (b % k)
  BY Turn
<1> DEFINE r == a % k  s == b % k  P == p * k  Q == q * k
<1>3. /\ r \in 0..k-1 /\ s \in 0..k-1 /\ P \in Nat /\ Q \in Nat /\ a = P + r /\ b = Q + s
  BY <1>1, <1>2
<1>4. p >= q + 2 => P - Q >= 2 * k
  BY Apart
<1>5. q >= p + 1 => Q - P >= 1 * k
  BY Apart
<1>6. p = q + 1 => P = Q + k
  OBVIOUS
<1>7. p = q => P = Q
  OBVIOUS
<1> HIDE DEF r, s, P, Q
<1>8. p = q \/ p = q + 1
  BY <1>3, <1>4, <1>5
<1>9. CASE p = q
  <2>1. r - s = a - b /\ r - s \in 0..k-1
    BY <1>3, <1>7, <1>9
  <2>2. (r - s) % k = r - s
    BY <2>1, ModSmall
  <2> QED BY <2>1, <2>2 DEF r, s
<1>10. CASE p = q + 1
  <2>1. r - s = a - b - k /\ -k <= r - s /\ r - s < 0
    BY <1>3, <1>6, <1>10
  <2>2. (r - s) % k = r - s + k
    BY <1>3, <2>1, ModNegative
  <2> QED BY <1>3, <2>1, <2>2 DEF r, s
<1> QED BY <1>8, <1>9, <1>10

\* Numbers less than a turn apart have different ids.
LEMMA IdUnique ==
  ASSUME NEW a \in Nat, NEW b \in Nat, a - b < IdSpace, b - a < IdSpace, Id(a) = Id(b)
  PROVE  a = b
<1>1. IdSpace \in Nat \ {0}
  BY TransportAssumption
<1>2. /\ (a % IdSpace) \in Int /\ a % IdSpace = b % IdSpace
      /\ ((a % IdSpace) - (b % IdSpace)) % IdSpace = 0
  <2>1. (a % IdSpace) \in Int /\ a % IdSpace = b % IdSpace
    BY <1>1 DEF Id
  <2>2. (a % IdSpace) - (b % IdSpace) = 0 /\ 0 % IdSpace = 0
    BY <1>1, <2>1
  <2> QED BY <2>1, <2>2
<1>3. CASE a >= b
  <2>0. 0 <= a - b
    BY <1>3
  <2>1. ((a % IdSpace) - (b % IdSpace)) % IdSpace = a - b
    BY <1>1, <2>0, Ahead, Zenon
  <2> QED BY <1>2, <2>1
<1>4. CASE b >= a
  <2>0. 0 <= b - a
    BY <1>4
  <2>1. ((b % IdSpace) - (a % IdSpace)) % IdSpace = b - a
    BY <1>1, <2>0, Ahead, Zenon
  <2> QED BY <1>2, <2>1
<1> QED BY <1>3, <1>4

-----------------------------------------------------------------------------
(* The loop of handle_command_packet. *)

\* A set of naturals has a least one.
LEMMA Least ==
  ASSUME NEW T, T \subseteq Nat, T # {} PROVE \E x \in T : \A y \in T : x <= y
<1>1. IsWellFoundedOn(OpToRel(<, Nat), Nat)
  BY NatLessThanWellFounded
<1>2. PICK x \in T : \A y \in T : ~(<<y, x>> \in OpToRel(<, Nat))
  BY <1>1, WFMin
<1>3. \A y \in T : ~(y < x)
  BY <1>2 DEF OpToRel
<1> QED BY <1>3

\* What one round keeps, any number of rounds keeps.
LEMMA RoundsKeep ==
  ASSUME NEW G, NEW s \in G, NEW n \in Nat, \A t \in G : Round(t) \in G
  PROVE  Rounds(s, n) \in G
<1> DEFINE Runs(m) == {f \in [0..m -> G] : f[0] = s /\ \A k \in 1..m : f[k] = Round(f[k - 1])}
           Short == {m \in Nat : Runs(m) = {}}
<1>1. Runs(0) # {}
  <2>1. [k \in 0..0 |-> s] \in Runs(0)
    OBVIOUS
  <2> QED BY <2>1
<1>2. ASSUME NEW m \in Nat, Runs(m) # {} PROVE Runs(m + 1) # {}
  <2>1. PICK f \in [0..m -> G] : f[0] = s /\ \A k \in 1..m : f[k] = Round(f[k - 1])
    BY <1>2
  <2> DEFINE g == [k \in 0..m+1 |-> IF k = m + 1 THEN Round(f[m]) ELSE f[k]]
  <2>2. Round(f[m]) \in G
    BY <2>1
  <2>3. g \in [0..m+1 -> G]
    BY <2>1, <2>2
  <2>4. g[0] = s /\ \A k \in 1..m+1 : g[k] = Round(g[k - 1])
    BY <2>1
  <2> QED BY <2>3, <2>4
<1>3. Short = {}
  <2> SUFFICES ASSUME Short # {} PROVE FALSE
    OBVIOUS
  <2>1. PICK m \in Short : \A l \in Short : m <= l
    BY Least
  <2>2. m # 0 /\ m \in Nat /\ Runs(m) = {}
    BY <1>1
  <2>3. m - 1 \in Nat /\ ~(m <= m - 1)
    BY <2>2
  <2>4. Runs(m - 1) # {}
    BY <2>1, <2>3
  <2> HIDE DEF Runs
  <2>5. Runs((m - 1) + 1) # {}
    BY <1>2, <2>3, <2>4
  <2> QED BY <2>2, <2>5
<1>4. PICK f \in [0..n -> G] : f[0] = s /\ \A k \in 1..n : f[k] = Round(f[k - 1])
  BY <1>3
<1> DEFINE body(h) == [k \in 0..n |-> IF k = 0 THEN s ELSE Round(h[k - 1])]
           after == CHOOSE h : h = body(h)
<1>5. f = body(f)
  BY <1>4
<1>6. after = body(after)
  <2> HIDE DEF body
  <2> QED BY <1>5
<1>7. Rounds(s, n) = after[n]
  BY DEF Rounds
<1>8. after[0] = s /\ \A k \in 1..n : after[k] = Round(after[k - 1])
  <2> HIDE DEF after
  <2> QED BY <1>6
<1> HIDE DEF after
<1> DEFINE Bad == {k \in 0..n : after[k] \notin G}
<1>9. Bad = {}
  <2> SUFFICES ASSUME Bad # {} PROVE FALSE
    OBVIOUS
  <2>0. Bad \subseteq Nat
    OBVIOUS
  <2>1. PICK k \in Bad : \A l \in Bad : k <= l
    BY <2>0, Least
  <2>2. k # 0 /\ k \in 1..n /\ after[k] \notin G
    BY <1>8
  <2>3. k - 1 \in 0..n /\ ~(k <= k - 1)
    BY <2>2
  <2>4. after[k - 1] \in G
    BY <2>1, <2>3
  <2> QED BY <1>8, <2>2, <2>4
<1> QED BY <1>7, <1>9

-----------------------------------------------------------------------------
(* What is sent, and what the receiving end makes of it. *)

\* The packets there are.
Packets == Start .. out - 1

\* Where the command after the first d begins.
Begin(d) == IF d = 0 THEN Start ELSE sent[d][1] + Len(sent[d])

\* Commands are intervals of packets, one behind the other.
SentInv ==
  /\ sent \in Seq(Seq(Nat))
  /\ \A k \in 1..Len(sent) :
       /\ Len(sent[k]) # 0 /\ sent[k][1] = Begin(k - 1)
       /\ \A i \in 1..Len(sent[k]) : sent[k][i] = sent[k][1] + i - 1
  /\ \A k, l \in 1..Len(sent) : k < l => sent[k][1] + Len(sent[k]) <= sent[l][1]
  /\ out = Begin(Len(sent))

\* A receiving end that has handed out the first commands, has the first packets of
\* the command behind them, and waits for the next.
Right ==
  {s \in [next : Start..out, queue : Seq(Packets), frag : Seq(Nat), delivered : Seq(Seq(Nat))] :
     /\ Len(s.delivered) <= Len(sent) /\ s.delivered = SubSeq(sent, 1, Len(s.delivered))
     /\ s.next = Begin(Len(s.delivered)) + Len(s.frag)
     /\ Len(s.frag) # 0 =>
          /\ Len(s.delivered) < Len(sent)
          /\ Len(s.frag) < Len(sent[Len(s.delivered) + 1])
     /\ \A i \in 1..Len(s.frag) : s.frag[i] = sent[Len(s.delivered) + 1][i]}

\* The command that begins after the first d.
LEMMA NextCommand ==
  ASSUME SentInv, NEW d \in Nat, d < Len(sent)
  PROVE  /\ sent[d + 1] \in Seq(Nat) /\ Len(sent[d + 1]) \in Nat \ {0}
         /\ DOMAIN sent[d + 1] = 1..Len(sent[d + 1])
         /\ sent[d + 1][1] = Begin(d) /\ Begin(d) \in Nat
         /\ Begin(d + 1) = Begin(d) + Len(sent[d + 1])
         /\ \A i \in 1..Len(sent[d + 1]) : sent[d + 1][i] = Begin(d) + i - 1
<1>1. sent \in Seq(Seq(Nat)) /\ Len(sent) \in Nat
  BY LenProperties DEF SentInv
<1>2. d + 1 \in 1..Len(sent) /\ (d + 1) - 1 = d /\ d + 1 # 0
  BY <1>1
<1>3. sent[d + 1] \in Seq(Nat)
  BY <1>1, <1>2, ElementOfSeq
<1>4. Len(sent[d + 1]) \in Nat /\ Len(sent[d + 1]) # 0 /\ DOMAIN sent[d + 1] = 1..Len(sent[d + 1])
  BY <1>2, <1>3, LenProperties DEF SentInv
<1>5. sent[d + 1][1] = Begin(d)
  BY <1>2 DEF SentInv
<1>6. 1 \in 1..Len(sent[d + 1])
  BY <1>4
<1>7. sent[d + 1][1] \in Nat
  BY <1>3, <1>6, ElementOfSeq
<1>8. Begin(d + 1) = Begin(d) + Len(sent[d + 1])
  BY <1>2, <1>5 DEF Begin
<1>9. \A i \in 1..Len(sent[d + 1]) : sent[d + 1][i] = Begin(d) + i - 1
  BY <1>2, <1>5 DEF SentInv
<1> QED BY <1>3, <1>4, <1>5, <1>7, <1>8, <1>9

\* The flag tells the first and the last packet of a command of several.
LEMMA Flag ==
  ASSUME SentInv, NEW d \in Nat, d < Len(sent), NEW j \in 0..Len(sent[d + 1])-1
  PROVE  Fragmented(Begin(d) + j) <=> Len(sent[d + 1]) > 1 /\ j \in {0, Len(sent[d + 1]) - 1}
<1> DEFINE c == sent[d + 1]  n == Begin(d) + j
<1>1. sent \in Seq(Seq(Nat)) /\ Len(sent) \in Nat /\ DOMAIN sent = 1..Len(sent)
  BY LenProperties DEF SentInv
<1>2. /\ d + 1 \in 1..Len(sent) /\ Len(c) \in Nat \ {0} /\ Begin(d) \in Nat /\ c[1] = Begin(d)
      /\ c[Len(c)] = Begin(d) + Len(c) - 1 /\ n \in Nat
  <2>1. d + 1 \in 1..Len(sent)
    BY <1>1
  <2>2. /\ Len(c) \in Nat \ {0} /\ Begin(d) \in Nat /\ c[1] = Begin(d)
        /\ \A i \in 1..Len(c) : c[i] = Begin(d) + i - 1
    BY NextCommand
  <2> HIDE DEF c
  <2>3. Len(c) \in 1..Len(c) /\ Begin(d) + j \in Nat
    BY <2>2 DEF c
  <2> QED BY <2>1, <2>2, <2>3
<1>3. ASSUME Len(c) > 1, j \in {0, Len(c) - 1} PROVE Fragmented(n)
  <2>1. c \in ToSet(sent)
    BY <1>1, <1>2 DEF ToSet
  <2>2. n = c[1] \/ n = c[Len(c)]
    <3> HIDE DEF c
    <3> QED BY <1>2, <1>3
  <2> QED BY <1>3, <2>1, <2>2 DEF Fragmented
<1>4. ASSUME Fragmented(n) PROVE Len(c) > 1 /\ j \in {0, Len(c) - 1}
  <2>1. PICK k \in 1..Len(sent) : Len(sent[k]) > 1 /\ n \in {sent[k][1], sent[k][Len(sent[k])]}
    BY <1>1, <1>4 DEF Fragmented, ToSet
  <2>2. k - 1 \in Nat /\ k - 1 < Len(sent) /\ (k - 1) + 1 = k
    BY <1>1
  <2>3. /\ Len(sent[k]) \in Nat \ {0} /\ Begin(k - 1) \in Nat /\ sent[k][1] = Begin(k - 1)
        /\ \A i \in 1..Len(sent[k]) : sent[k][i] = Begin(k - 1) + i - 1
    BY <2>2, NextCommand
  <2>4. sent[k][Len(sent[k])] = Begin(k - 1) + Len(sent[k]) - 1
    BY <2>3
  <2> DEFINE L == Len(sent[k])  F == sent[k][1]  E == sent[k][Len(sent[k])]
  <2>5. L \in Nat \ {0} /\ F \in Nat /\ E = F + L - 1 /\ (n = F \/ n = E)
    BY <2>1, <2>3, <2>4
  <2> DEFINE C == c[1]  M == Len(c)
  <2>6. M \in Nat \ {0} /\ C \in Nat /\ n = C + j /\ j \in Nat /\ j < M
    BY <1>2
  <2>7. /\ k < d + 1 => F + L <= C
        /\ d + 1 < k => C + M <= F
    BY <1>2 DEF SentInv
  <2>8. k = d + 1
    <3> HIDE DEF L, F, E, C, M, n
    <3> QED BY <2>5, <2>6, <2>7
  <2>9. F = C /\ L = M
    BY <2>8
  <2>10. j = 0 \/ j = M - 1
    <3> HIDE DEF L, F, E, C, M, c, n
    <3> QED BY <2>5, <2>6, <2>9
  <2> QED BY <2>1, <2>8, <2>10
<1> QED BY <1>3, <1>4

\* The next packet, put together with what is there.
LEMMA AssembleRight ==
  ASSUME SentInv, out \in Nat, NEW s \in Right, s.next < out
  PROVE  /\ Assemble(s, s.next) \in Right
         /\ Assemble(s, s.next).next = s.next + 1 /\ Assemble(s, s.next).queue = s.queue
         /\ Len(s.delivered) <= Len(Assemble(s, s.next).delivered)
<1> DEFINE d == Len(s.delivered)  j == Len(s.frag)  c == sent[d + 1]  n == s.next
<1>1. /\ n \in Start..out /\ s.queue \in Seq(Packets) /\ s.frag \in Seq(Nat)
      /\ s.delivered \in Seq(Seq(Nat)) /\ d <= Len(sent) /\ s.delivered = SubSeq(sent, 1, d)
      /\ n = Begin(d) + j /\ (j # 0 => d < Len(sent) /\ j < Len(c))
      /\ \A i \in 1..j : s.frag[i] = c[i]
  BY DEF Right
<1>2. /\ sent \in Seq(Seq(Nat)) /\ Len(sent) \in Nat /\ d \in Nat /\ j \in Nat
      /\ Start \in Nat /\ n \in Nat
  BY <1>1, LenProperties, TransportAssumption DEF SentInv
<1>3. d < Len(sent)
  <2>1. CASE d = Len(sent)
    <3>1. j = 0
      BY <1>1, <1>2, <2>1
    <3>2. n = out
      BY <1>1, <2>1, <3>1 DEF SentInv
    <3> QED BY <3>2
  <2> QED BY <1>1, <1>2, <2>1
<1>4. /\ c \in Seq(Nat) /\ Len(c) \in Nat \ {0} /\ c[1] = Begin(d) /\ Begin(d) \in Nat
      /\ Begin(d + 1) = Begin(d) + Len(c) /\ \A i \in 1..Len(c) : c[i] = Begin(d) + i - 1
  BY <1>2, <1>3, NextCommand
<1>5. j < Len(c) /\ j + 1 \in 1..Len(c) /\ n = c[j + 1] /\ n + 1 \in Start..out
  <2>0. n < out
    OBVIOUS
  <2> HIDE DEF c, n, j, d
  <2>1. j < Len(c)
    BY <1>1, <1>2, <1>4
  <2>2. j + 1 \in 1..Len(c)
    BY <1>2, <1>4, <2>1
  <2>3. c[j + 1] = Begin(d) + (j + 1) - 1
    BY <1>4, <2>2
  <2>4. n = Begin(d) + j /\ Begin(d) \in Nat /\ j \in Nat
    BY <1>1, <1>2, <1>4
  <2>5. n = c[j + 1]
    BY <2>3, <2>4
  <2>6. n \in Start..out /\ Start \in Nat
    BY <1>1, <1>2
  <2>7. n + 1 \in Start..out
    BY <2>0, <2>6
  <2> QED BY <2>1, <2>2, <2>5, <2>7
<1>6. Fragmented(n) <=> Len(c) > 1 /\ j \in {0, Len(c) - 1}
  <2>1. j \in 0..Len(sent[d + 1])-1
    BY <1>2, <1>4, <1>5
  <2>2. Fragmented(Begin(d) + j) <=> Len(sent[d + 1]) > 1 /\ j \in {0, Len(sent[d + 1]) - 1}
    BY <1>2, <1>3, <2>1, Flag
  <2>3. n = Begin(d) + j
    BY <1>1
  <2> QED BY <2>2, <2>3
<1>7. s.frag = <<>> <=> j = 0
  BY <1>1, EmptySeq
<1>8. /\ Append(s.frag, n) \in Seq(Nat) /\ Len(Append(s.frag, n)) = j + 1
      /\ \A i \in 1..j+1 : Append(s.frag, n)[i] = c[i]
  <2>1. /\ Append(s.frag, n) \in Seq(Nat) /\ Len(Append(s.frag, n)) = j + 1
        /\ \A i \in 1..j : Append(s.frag, n)[i] = s.frag[i]
        /\ Append(s.frag, n)[j + 1] = n
    BY <1>1, <1>2, AppendProperties
  <2> DEFINE a == Append(s.frag, n)
  <2> HIDE DEF a, c, n, j
  <2>2. ASSUME NEW i \in 1..j+1 PROVE a[i] = c[i]
    <3>1. i \in 1..j \/ i = j + 1
      BY <1>2
    <3> QED BY <1>1, <1>5, <2>1, <3>1 DEF a
  <2> QED BY <2>1, <2>2 DEF a
<1> DEFINE t == Assemble(s, n)
<1>9. CASE j + 1 = Len(c)
  <2>1. Fragmented(n) <=> s.frag # <<>>
    BY <1>2, <1>4, <1>6, <1>7, <1>9
  <2>2. t = [next |-> n + 1, queue |-> s.queue, frag |-> <<>>,
             delivered |-> Append(s.delivered, Append(s.frag, n))]
    BY <2>1 DEF Assemble
  <2>3. Append(s.frag, n) = c
    BY <1>4, <1>8, <1>9, SeqEqual
  <2>4. Append(s.delivered, c) = SubSeq(sent, 1, d + 1)
    <3>1. Append(s.delivered, c) = SubSeq(sent, 1, d) \o <<sent[d + 1]>>
      <4>1. s.delivered \in Seq(Seq(Nat)) /\ c \in Seq(Nat)
        BY <1>1, <1>4
      <4>2. Append(s.delivered, c) = s.delivered \o <<c>>
        BY <4>1, AppendIsConcat
      <4> QED BY <1>1, <4>2
    <3>2. SubSeq(sent, 1, d + 1) = SubSeq(sent, 1, (d + 1) - 1) \o <<sent[d + 1]>>
      <4>1. 1 \in 1..Len(sent) /\ d + 1 \in 1..Len(sent)
        BY <1>2, <1>3
      <4> QED BY <1>2, <4>1, SubSeqRecursiveSecond
    <3>3. (d + 1) - 1 = d
      BY <1>2
    <3> QED BY <3>1, <3>2, <3>3
  <2>5. Append(s.delivered, c) \in Seq(Seq(Nat)) /\ Len(Append(s.delivered, c)) = d + 1
    BY <1>1, <1>4, AppendProperties
  <2>6. <<>> \in Seq(Nat) /\ Len(<<>>) = 0
    BY EmptySeq
  <2>7. t.next = n + 1 /\ t.queue = s.queue /\ t.frag = <<>> /\ t.delivered = Append(s.delivered, c)
    BY <2>2, <2>3
  <2>8. t \in [next : Start..out, queue : Seq(Packets), frag : Seq(Nat), delivered : Seq(Seq(Nat))]
    <3> DEFINE x == n + 1  y == s.queue  z == Append(s.delivered, c)
    <3>1. x \in Start..out /\ y \in Seq(Packets) /\ z \in Seq(Seq(Nat))
      BY <1>1, <1>5, <2>5
    <3>2. t = [next |-> x, queue |-> y, frag |-> <<>>, delivered |-> z]
      BY <2>2, <2>3
    <3> HIDE DEF x, y, z, t
    <3> QED BY <2>6, <3>1, <3>2
  <2>9. n + 1 = Begin(d + 1) + 0
    <3>1. n = Begin(d) + j /\ Begin(d) \in Nat /\ j \in Nat /\ Begin(d + 1) = Begin(d) + Len(c)
      BY <1>1, <1>2, <1>4
    <3> HIDE DEF n, j, c, d
    <3> QED BY <1>9, <3>1
  <2> HIDE DEF t
  <2>10. /\ Len(t.delivered) = d + 1 /\ t.delivered = SubSeq(sent, 1, d + 1)
         /\ Len(t.frag) = 0 /\ t.next = Begin(d + 1) + 0
    BY <2>4, <2>5, <2>6, <2>7, <2>9
  <2>11. d + 1 <= Len(sent) /\ 1..0 = {}
    BY <1>2, <1>3
  <2>12. t \in Right
    BY <2>8, <2>10, <2>11 DEF Right
  <2> QED BY <1>2, <2>7, <2>10, <2>12 DEF t
<1>10. CASE j + 1 < Len(c)
  <2>1. ~(Fragmented(n) <=> s.frag # <<>>)
    BY <1>2, <1>4, <1>6, <1>7, <1>10
  <2>2. t = [next |-> n + 1, queue |-> s.queue, frag |-> Append(s.frag, n),
             delivered |-> s.delivered]
    BY <2>1 DEF Assemble
  <2>3. /\ t.next = n + 1 /\ t.queue = s.queue /\ t.frag = Append(s.frag, n)
        /\ t.delivered = s.delivered
    BY <2>2
  <2>4. t \in [next : Start..out, queue : Seq(Packets), frag : Seq(Nat), delivered : Seq(Seq(Nat))]
    <3> DEFINE x == n + 1  y == s.queue  z == Append(s.frag, n)  w == s.delivered
    <3>1. x \in Start..out /\ y \in Seq(Packets) /\ z \in Seq(Nat) /\ w \in Seq(Seq(Nat))
      BY <1>1, <1>5, <1>8
    <3>2. t = [next |-> x, queue |-> y, frag |-> z, delivered |-> w]
      BY <2>2
    <3> HIDE DEF x, y, z, w, t
    <3> QED BY <3>1, <3>2
  <2>5. n + 1 = Begin(d) + (j + 1)
    BY <1>1, <1>2, <1>4
  <2> HIDE DEF t
  <2>6. /\ Len(t.delivered) = d /\ t.delivered = SubSeq(sent, 1, d)
        /\ Len(t.frag) = j + 1 /\ t.next = Begin(d) + (j + 1)
        /\ \A i \in 1..j+1 : t.frag[i] = c[i]
    BY <1>1, <1>8, <2>3, <2>5
  <2>7. t \in Right
    BY <1>1, <1>3, <1>10, <2>4, <2>6 DEF Right
  <2> QED BY <1>2, <2>3, <2>7 DEF t
<1>11. j + 1 = Len(c) \/ j + 1 < Len(c)
  <2> HIDE DEF c, j, d, n, t
  <2> QED BY <1>2, <1>4, <1>5
<1> HIDE DEF c, j, d, n, t
<1> QED BY <1>9, <1>10, <1>11 DEF n, t

\* The receiving end s has packet m: it has handled it, or keeps it.
Has(s, m) == m < s.next \/ m \in ToSet(s.queue)

\* What the receiving end may be after some of the loop.
From(s0) ==
  {s \in Right : /\ Len(s0.delivered) <= Len(s.delivered)
                 /\ \A m \in Packets : Has(s0, m) => Has(s, m)}

\* Only the packet at its position leaves the queue.
LEMMA Removed ==
  ASSUME NEW S, NEW q \in Seq(S), NEW i \in 1..Len(q)
  PROVE  /\ RemoveAt(q, i) \in Seq(S)
         /\ \A m \in ToSet(q) : m = q[i] \/ m \in ToSet(RemoveAt(q, i))
<1>1. Len(q) \in Nat /\ DOMAIN q = 1..Len(q) /\ \A k \in 1..Len(q) : q[k] \in S
  BY LenProperties, ElementOfSeq
<1> DEFINE a == SubSeq(q, 1, i - 1)  b == SubSeq(q, i + 1, Len(q))
<1>2. /\ a \in Seq(S) /\ Len(a) = i - 1
      /\ \A k \in 1..i-1 : a[k] = q[k]
  <2>1. 1 \in Int /\ i - 1 \in Int /\ (\A k \in 1..i-1 : q[k] \in S)
    BY <1>1
  <2>2. /\ a \in Seq(S) /\ Len(a) = (IF 1 <= i - 1 THEN (i - 1) - 1 + 1 ELSE 0)
        /\ \A k \in 1..(i - 1) - 1 + 1 : a[k] = q[1 + k - 1]
    BY <2>1, SubSeqProperties
  <2> HIDE DEF a
  <2>3. (i - 1) - 1 + 1 = i - 1 /\ (IF 1 <= i - 1 THEN (i - 1) - 1 + 1 ELSE 0) = i - 1
    BY <1>1
  <2>4. \A k \in 1..i-1 : 1 + k - 1 = k
    BY <1>1
  <2> QED BY <2>2, <2>3, <2>4
<1>3. /\ b \in Seq(S) /\ Len(b) = Len(q) - i
      /\ \A k \in 1..Len(q)-i : b[k] = q[i + k]
  <2>1. i + 1 \in Int /\ Len(q) \in Int /\ (\A k \in i+1..Len(q) : q[k] \in S)
    BY <1>1
  <2>2. /\ b \in Seq(S) /\ Len(b) = (IF i + 1 <= Len(q) THEN Len(q) - (i + 1) + 1 ELSE 0)
        /\ \A k \in 1..Len(q)-(i + 1)+1 : b[k] = q[(i + 1) + k - 1]
    BY <2>1, SubSeqProperties
  <2> HIDE DEF b
  <2>3. /\ Len(q) - (i + 1) + 1 = Len(q) - i
        /\ (IF i + 1 <= Len(q) THEN Len(q) - (i + 1) + 1 ELSE 0) = Len(q) - i
    <3> DEFINE l == Len(q)
    <3>1. l \in Nat /\ i \in 1..l
      BY <1>1
    <3> HIDE DEF l
    <3>2. l - (i + 1) + 1 = l - i /\ (i + 1 <= l \/ l - i = 0)
      BY <3>1
    <3> QED BY <3>2 DEF l
  <2>4. \A k \in 1..Len(q)-i : (i + 1) + k - 1 = i + k
    BY <1>1
  <2> QED BY <2>2, <2>3, <2>4
<1> HIDE DEF a, b
<1>4. RemoveAt(q, i) = a \o b
  BY DEF RemoveAt, a, b
<1>5. /\ a \o b \in Seq(S) /\ Len(a \o b) = (i - 1) + (Len(q) - i)
      /\ \A k \in 1..(i - 1) + (Len(q) - i) :
           (a \o b)[k] = IF k <= i - 1 THEN a[k] ELSE b[k - (i - 1)]
  <2> DEFINE l == Len(a)  m == Len(b)
  <2>1. /\ a \o b \in Seq(S) /\ Len(a \o b) = l + m
        /\ \A k \in 1..l + m : (a \o b)[k] = IF k <= l THEN a[k] ELSE b[k - l]
    BY <1>2, <1>3, ConcatProperties
  <2>2. l = i - 1 /\ m = Len(q) - i
    BY <1>2, <1>3
  <2> HIDE DEF l, m
  <2> QED BY <2>1, <2>2
<1>6. DOMAIN (a \o b) = 1..(i - 1) + (Len(q) - i)
  BY <1>5, LenProperties
<1>7. ASSUME NEW k \in 1..Len(q), k # i PROVE q[k] \in ToSet(a \o b)
  <2>1. CASE k < i
    <3>1. k \in 1..i-1 /\ k \in 1..(i - 1) + (Len(q) - i) /\ k <= i - 1
      BY <1>1, <2>1
    <3>2. (a \o b)[k] = q[k]
      BY <1>2, <1>5, <3>1
    <3> QED BY <1>6, <3>1, <3>2 DEF ToSet
  <2>2. CASE k > i
    <3>1. /\ k - 1 \in 1..(i - 1) + (Len(q) - i) /\ ~(k - 1 <= i - 1)
          /\ (k - 1) - (i - 1) = k - i /\ k - i \in 1..Len(q)-i /\ i + (k - i) = k
      BY <1>1, <2>2
    <3>2. (a \o b)[k - 1] = b[(k - 1) - (i - 1)]
      BY <1>5, <3>1
    <3>3. b[k - i] = q[i + (k - i)]
      BY <1>3, <3>1
    <3>4. (a \o b)[k - 1] = q[k]
      BY <3>1, <3>2, <3>3
    <3> QED BY <1>6, <3>1, <3>4 DEF ToSet
  <2> QED BY <1>1, <1>7, <2>1, <2>2
<1> QED BY <1>1, <1>4, <1>5, <1>7 DEF ToSet

\* The position is one of the queue, of a packet with the id looked for.
LEMMA Found ==
  ASSUME NEW q \in Seq(Packets), NEW k, Position(q, k) # 0
  PROVE  Position(q, k) \in 1..Len(q) /\ Id(q[Position(q, k)]) = Id(k)
<1>1. DOMAIN q = 1..Len(q) /\ Len(q) \in Nat
  BY LenProperties
<1> DEFINE at == {i \in DOMAIN q : Id(q[i]) = Id(k)}
<1>2. at # {} /\ at \subseteq Nat
  BY <1>1 DEF Position
<1>3. \E i \in at : \A j \in at : i <= j
  BY <1>2, Least
<1>4. Position(q, k) \in at
  BY <1>2, <1>3 DEF Position
<1> QED BY <1>1, <1>4

\* A round hands out nothing wrong and forgets no packet: the one that leaves the
\* queue is the next, not one with the same id a turn away.
LEMMA RoundRight ==
  ASSUME SentInv, MaxSend < IdSpace, out \in Start..Start+MaxSend,
         NEW s0, NEW s \in From(s0), Len(s0.delivered) \in Nat
  PROVE  Round(s) \in From(s0)
<1> DEFINE at == Position(s.queue, s.next)
<1>0. /\ s \in Right /\ s.next \in Start..out /\ s.queue \in Seq(Packets)
      /\ s.delivered \in Seq(Seq(Nat))
  BY DEF From, Right
<1>1. Start \in Nat /\ MaxSend \in Nat /\ out \in Nat /\ out - Start <= MaxSend
  BY TransportAssumption
<1>2. CASE at = 0
  BY <1>2 DEF Round
<1>3. CASE at # 0
  <2> DEFINE n == s.queue[at]  q == RemoveAt(s.queue, at)  t == [s EXCEPT !.queue = q]
  <2>1. at \in 1..Len(s.queue) /\ Id(n) = Id(s.next)
    BY <1>0, <1>3, Found
  <2>2. n \in Packets
    BY <1>0, <2>1, ElementOfSeq
  <2>3. n = s.next /\ s.next < out
    <3> DEFINE m == s.next
    <3> HIDE DEF n, m
    <3>1. n \in Nat /\ m \in Nat /\ n - m < IdSpace /\ m - n < IdSpace
      <4>1. n \in Start..out-1 /\ m \in Start..out /\ IdSpace \in Nat
        BY <1>0, <2>2, TransportAssumption DEF Packets, m
      <4> QED BY <1>1, <4>1
    <3>2. Id(n) = Id(m)
      BY <2>1 DEF m
    <3>3. n = m
      BY <3>1, <3>2, IdUnique
    <3>4. n < out
      BY <1>1, <2>2 DEF Packets
    <3> QED BY <3>3, <3>4 DEF m
  <2>4. /\ q \in Seq(Packets)
        /\ \A m \in ToSet(s.queue) : m = n \/ m \in ToSet(q)
    BY <1>0, <2>1, Removed
  <2>5. t \in Right /\ t.next = s.next /\ t.queue = q /\ t.delivered = s.delivered
    <3> HIDE DEF q
    <3> QED BY <1>0, <2>4 DEF Right
  <2>6. Round(s) = Assemble(t, t.next)
    BY <1>3, <2>3, <2>5 DEF Round
  <2> HIDE DEF t, q, n
  <2> DEFINE u == Assemble(t, t.next)
  <2>7. /\ u \in Right /\ u.next = t.next + 1 /\ u.queue = t.queue
        /\ Len(t.delivered) <= Len(u.delivered)
    BY <1>1, <2>3, <2>5, AssembleRight
  <2>8. u.delivered \in Seq(Seq(Nat))
    BY <2>7 DEF Right
  <2>9. Len(s.delivered) \in Nat /\ Len(u.delivered) \in Nat
    BY <1>0, <2>8, LenProperties
  <2>10. Len(s0.delivered) <= Len(u.delivered)
    <3>1. Len(s0.delivered) <= Len(s.delivered) /\ Len(s.delivered) <= Len(u.delivered)
      BY <2>5, <2>7 DEF From
    <3> QED BY <2>9, <3>1
  <2>11. ASSUME NEW m \in Packets, Has(s, m) PROVE Has(u, m)
    <3>1. m \in Nat /\ s.next \in Nat
      BY <1>0, <1>1 DEF Packets
    <3>2. m < s.next \/ m = s.next \/ m \in ToSet(q)
      BY <2>3, <2>4, <2>11 DEF Has
    <3>3. u.next = s.next + 1 /\ u.queue = q
      BY <2>5, <2>7
    <3>4. m < s.next \/ m = s.next => m < s.next + 1
      BY <3>1
    <3> HIDE DEF u
    <3> QED BY <3>2, <3>3, <3>4 DEF Has
  <2> QED BY <2>6, <2>7, <2>10, <2>11 DEF From
<1> QED BY <1>2, <1>3

\* The packet that is next, and those kept behind it.
LEMMA Taking ==
  ASSUME SentInv, MaxSend < IdSpace, out \in Start..Start+MaxSend, ReceivingEnd \in Right,
         next < out, TakeInOrder(next)
  PROVE  \E r \in From(ReceivingEnd) :
           /\ next' = r.next /\ rqueue' = r.queue /\ frag' = r.frag
           /\ delivered' = r.delivered /\ Has(r, next)
<1> DEFINE e == ReceivingEnd  a == Assemble(e, next)
<1>1. /\ e.next = next /\ e.queue = rqueue /\ e.delivered = delivered
      /\ rqueue \in Seq(Packets) /\ delivered \in Seq(Seq(Nat)) /\ next \in Start..out
  BY DEF Right, ReceivingEnd
<1>2. Start \in Nat /\ MaxSend \in Nat /\ out \in Nat /\ next \in Nat
  BY <1>1, TransportAssumption
<1>3. Len(rqueue) \in Nat /\ Len(delivered) \in Nat
  BY <1>1, LenProperties
<1>4. a \in Right /\ a.next = next + 1 /\ a.queue = rqueue /\ Len(delivered) <= Len(a.delivered)
  BY <1>1, <1>2, AssembleRight
<1> HIDE DEF a
<1>5. \A m \in Packets : Has(e, m) => Has(a, m)
  BY <1>1, <1>2, <1>4 DEF Has, Packets
<1>6. a \in From(a)
  <2>1. a.delivered \in Seq(Seq(Nat))
    BY <1>4 DEF Right
  <2>2. Len(a.delivered) \in Nat
    BY <2>1, LenProperties
  <2> QED BY <1>4, <2>2 DEF From
<1>7. Len(a.delivered) \in Nat
  <2>1. a.delivered \in Seq(Seq(Nat))
    BY <1>4 DEF Right
  <2> QED BY <2>1, LenProperties
<1> DEFINE r == Rounds(a, Len(rqueue))
<1>8. r \in From(a)
  <2>1. \A s \in From(a) : Round(s) \in From(a)
    BY <1>7, RoundRight
  <2> QED BY <1>3, <1>6, <2>1, RoundsKeep
<1>9. next' = r.next /\ rqueue' = r.queue /\ frag' = r.frag /\ delivered' = r.delivered
  BY DEF TakeInOrder, a
<1> HIDE DEF r, e
<1>10. r \in From(e)
  <2>1. /\ r \in Right /\ Len(a.delivered) <= Len(r.delivered)
        /\ \A m \in Packets : Has(a, m) => Has(r, m)
    BY <1>8 DEF From
  <2>2. r.delivered \in Seq(Seq(Nat))
    BY <2>1 DEF Right
  <2>3. Len(r.delivered) \in Nat
    BY <2>2, LenProperties
  <2>4. Len(e.delivered) <= Len(r.delivered)
    BY <1>1, <1>3, <1>4, <1>7, <2>1, <2>3
  <2> QED BY <1>5, <2>1, <2>4 DEF From
<1>11. Has(r, next)
  <2>1. Has(a, next) /\ next \in Packets
    BY <1>1, <1>2, <1>4 DEF Has, Packets
  <2> QED BY <1>8, <2>1 DEF From
<1> QED BY <1>9, <1>10, <1>11 DEF e

-----------------------------------------------------------------------------
(* The channel. *)

\* The packets that wait or are on the way have been sent; the receiving end is right.
FifoInv ==
  /\ out \in Start..Start+MaxSend /\ full \subseteq Packets /\ net \subseteq Packets
  /\ SentInv /\ ReceivingEnd \in Right

LEMMA FifoInit == Init => FifoInv
<1> SUFFICES ASSUME Init PROVE FifoInv
  OBVIOUS
<1>1. Start \in Nat /\ MaxSend \in Nat
  BY TransportAssumption
<1>2. sent = <<>> /\ out = Start /\ full = {} /\ net = {}
  BY DEF Init
<1>3. /\ <<>> \in Seq(Seq(Nat)) /\ <<>> \in Seq(Nat) /\ <<>> \in Seq(Packets) /\ Len(<<>>) = 0
      /\ 1..0 = {}
  BY EmptySeq
<1>4. SentInv
  BY <1>2, <1>3 DEF SentInv, Begin
<1>5. ReceivingEnd \in Right
  <2> DEFINE e == ReceivingEnd
  <2>1. e = [next |-> Start, queue |-> <<>>, frag |-> <<>>, delivered |-> <<>>]
    BY DEF Init, ReceivingEnd
  <2>2. Start \in Start..out
    BY <1>1, <1>2
  <2>3. e \in [next : Start..out, queue : Seq(Packets), frag : Seq(Nat), delivered : Seq(Seq(Nat))]
    BY <1>3, <2>1, <2>2
  <2>4. e.next = Start /\ e.frag = <<>> /\ e.delivered = <<>>
    BY <2>1
  <2> HIDE DEF e
  <2>5. SubSeq(sent, 1, 0) = <<>>
    BY SubSeqEmpty
  <2>6. /\ Len(e.delivered) = 0 /\ Len(e.frag) = 0 /\ e.delivered = SubSeq(sent, 1, 0)
        /\ e.next = Begin(0) + 0 /\ 0 <= Len(sent)
    BY <1>1, <1>2, <1>3, <2>4, <2>5 DEF Begin
  <2> QED BY <1>3, <2>3, <2>6 DEF Right, e
<1> QED BY <1>1, <1>2, <1>4, <1>5 DEF FifoInv

\* What another command changes of what has been sent.
LEMMA Sending ==
  ASSUME FifoInv, NEW size \in 1..MaxSize, Send(size)
  PROVE  /\ Len(sent') = Len(sent) + 1
         /\ sent' \in Seq(Seq(Nat)) /\ Len(sent'[Len(sent) + 1]) = size
         /\ \A i \in 1..size : sent'[Len(sent) + 1][i] = out + i - 1
         /\ \A k \in 1..Len(sent) : sent'[k] = sent[k]
         /\ \A k \in 0..Len(sent) : SubSeq(sent', 1, k) = SubSeq(sent, 1, k)
         /\ full' = full \cup out..out + size - 1
         /\ out' = out + size /\ out + size <= Start + MaxSend
<1>1. /\ size \in Nat \ {0} /\ out \in Nat /\ Start \in Nat /\ MaxSend \in Nat
      /\ sent \in Seq(Seq(Nat)) /\ Len(sent) \in Nat
  BY TransportAssumption, LenProperties DEF FifoInv, SentInv
<1> DEFINE new == [i \in 1..size |-> out + i - 1]
<1>2. /\ sent' = Append(sent, new) /\ full' = full \cup ToSet(new)
      /\ out' = out + size /\ out + size <= Start + MaxSend
  BY DEF Send
<1>3. new \in Seq(Nat) /\ Len(new) = size /\ DOMAIN new = 1..size
  BY <1>1
<1>4. \A i \in 1..size : new[i] = out + i - 1
  OBVIOUS
<1>5. ToSet(new) = out..out + size - 1
  <2>1. \A x \in out..out + size - 1 : x - out + 1 \in 1..size /\ out + (x - out + 1) - 1 = x
    BY <1>1
  <2>2. \A i \in 1..size : out + i - 1 \in out..out + size - 1
    BY <1>1
  <2> QED BY <1>3, <1>4, <2>1, <2>2 DEF ToSet
<1> HIDE DEF new
<1>6. /\ sent' \in Seq(Seq(Nat)) /\ Len(sent') = Len(sent) + 1
      /\ \A k \in 1..Len(sent) : sent'[k] = sent[k]
      /\ sent'[Len(sent) + 1] = new
  BY <1>1, <1>2, <1>3, AppendProperties
<1>7. ASSUME NEW k \in 0..Len(sent) PROVE SubSeq(sent', 1, k) = SubSeq(sent, 1, k)
  <2>1. CASE k = 0
    BY <2>1, SubSeqEmpty
  <2>2. CASE k # 0
    <3>1. 1 \in 1..Len(sent) /\ k \in 1..Len(sent)
      BY <1>1, <2>2
    <3>2. sent' = sent \o <<new>> /\ <<new>> \in Seq(Seq(Nat))
      BY <1>1, <1>2, <1>3, AppendIsConcat
    <3> QED BY <1>1, <3>1, <3>2, SubSeqOfConcat1
  <2> QED BY <2>1, <2>2
<1> QED BY <1>2, <1>3, <1>4, <1>5, <1>6, <1>7

\* Commands sent before stay where they are.
LEMMA SentStep ==
  ASSUME FifoInv, NEW size \in 1..MaxSize, Send(size)
  PROVE  SentInv' /\ \A d \in 0..Len(sent) : Begin(d)' = Begin(d)
<1> DEFINE l == Len(sent)  new == sent'[l + 1]
<1>1. /\ size \in Nat \ {0} /\ out \in Nat /\ l \in Nat /\ SentInv
  BY TransportAssumption, LenProperties DEF FifoInv, SentInv
<1>2. /\ Len(sent') = l + 1 /\ sent' \in Seq(Seq(Nat)) /\ Len(new) = size
      /\ \A i \in 1..size : new[i] = out + i - 1
      /\ \A k \in 1..l : sent'[k] = sent[k]
      /\ out' = out + size
  BY Sending
<1>3. \A d \in 0..l : Begin(d)' = Begin(d)
  BY <1>1, <1>2 DEF Begin
<1>4. new[1] = out /\ out = Begin(l)
  <2>1. 1 \in 1..size /\ out + 1 - 1 = out
    BY <1>1
  <2> QED BY <1>1, <1>2, <2>1 DEF SentInv
<1>5. ASSUME NEW k \in 1..l
      PROVE  /\ Len(sent[k]) \in Nat /\ Len(sent[k]) # 0 /\ sent[k][1] \in Nat
             /\ sent[k][1] + Len(sent[k]) <= out
  <2>1. /\ k - 1 \in Nat /\ k - 1 < Len(sent) /\ (k - 1) + 1 = k
        /\ l - 1 \in Nat /\ l - 1 < Len(sent) /\ (l - 1) + 1 = l
        /\ l # 0 /\ l \in 1..l
    BY <1>1
  <2>2. /\ Len(sent[k]) \in Nat \ {0} /\ sent[k][1] \in Nat
        /\ Len(sent[l]) \in Nat \ {0} /\ sent[l][1] \in Nat
    BY <1>1, <2>1, NextCommand
  <2>3. sent[l][1] + Len(sent[l]) = out
    BY <1>4, <2>1 DEF Begin
  <2>4. k < l => sent[k][1] + Len(sent[k]) <= sent[l][1]
    BY <1>1, <2>1 DEF SentInv
  <2> DEFINE a == sent[k][1] + Len(sent[k])  b == sent[l][1]  c == Len(sent[l])
  <2>5. /\ a \in Nat /\ b \in Nat /\ c \in Nat /\ b + c = out
        /\ (k < l => a <= b) /\ (k = l => a = out)
    BY <2>2, <2>3, <2>4
  <2>6. k < l \/ k = l
    BY <1>1
  <2> HIDE DEF a, b, c
  <2>7. a <= out
    BY <1>1, <2>5, <2>6
  <2> QED BY <2>2, <2>7 DEF a
<1> HIDE DEF new, l
<1>6. ASSUME NEW k \in 1..l + 1
      PROVE  /\ Len(sent'[k]) # 0 /\ sent'[k][1] = Begin(k - 1)'
             /\ \A i \in 1..Len(sent'[k]) : sent'[k][i] = sent'[k][1] + i - 1
  <2>1. k - 1 \in 0..l /\ (k \in 1..l \/ k = l + 1)
    BY <1>1
  <2>2. Begin(k - 1)' = Begin(k - 1)
    BY <1>3, <2>1
  <2>3. CASE k \in 1..l
    BY <1>1, <1>2, <2>2, <2>3 DEF SentInv, l
  <2>4. CASE k = l + 1
    <3>1. sent'[k] = new /\ k - 1 = l /\ Len(new) # 0
      BY <1>1, <1>2, <2>4 DEF new
    <3> QED BY <1>2, <1>4, <2>2, <3>1
  <2> QED BY <2>1, <2>3, <2>4
<1>7. ASSUME NEW k \in 1..l + 1, NEW m \in 1..l + 1, k < m
      PROVE  sent'[k][1] + Len(sent'[k]) <= sent'[m][1]
  <2>1. k \in 1..l /\ (m \in 1..l \/ m = l + 1)
    BY <1>1, <1>7
  <2>2. sent'[k] = sent[k]
    BY <1>2, <2>1
  <2>3. CASE m \in 1..l
    BY <1>1, <1>2, <1>7, <2>1, <2>2, <2>3 DEF SentInv, l
  <2>4. CASE m = l + 1
    BY <1>4, <1>5, <2>1, <2>2, <2>4 DEF new, l
  <2> QED BY <2>1, <2>3, <2>4
<1>8. out' = Begin(Len(sent))'
  <2>1. l + 1 # 0
    BY <1>1
  <2>2. Begin(Len(sent))' = new[1] + Len(new)
    BY <1>2, <2>1 DEF Begin, new
  <2> QED BY <1>2, <1>4, <2>2
<1>9. SentInv'
  BY <1>2, <1>6, <1>7, <1>8 DEF SentInv
<1> QED BY <1>3, <1>9 DEF l

\* What the receiving end has is right, whatever else is sent.
LEMMA RightGrows ==
  ASSUME FifoInv, \/ sent' = sent /\ out' = out
                  \/ \E size \in 1..MaxSize : Send(size)
  PROVE  Right \subseteq Right'
<1>1. /\ out \in Nat /\ Start \in Nat /\ Len(sent) \in Nat /\ sent \in Seq(Seq(Nat)) /\ SentInv
  BY TransportAssumption, LenProperties DEF FifoInv, SentInv
<1>2. /\ out' \in Nat /\ out <= out' /\ Len(sent') \in Nat /\ Len(sent) <= Len(sent')
      /\ \A k \in 1..Len(sent) : sent'[k] = sent[k]
      /\ \A k \in 0..Len(sent) : SubSeq(sent', 1, k) = SubSeq(sent, 1, k)
      /\ \A d \in 0..Len(sent) : Begin(d)' = Begin(d)
  <2>1. CASE sent' = sent /\ out' = out
    BY <1>1, <2>1 DEF Begin
  <2>2. ASSUME NEW size \in 1..MaxSize, Send(size)
        PROVE  /\ out' \in Nat /\ out <= out' /\ Len(sent') \in Nat /\ Len(sent) <= Len(sent')
               /\ \A k \in 1..Len(sent) : sent'[k] = sent[k]
               /\ \A k \in 0..Len(sent) : SubSeq(sent', 1, k) = SubSeq(sent, 1, k)
               /\ \A d \in 0..Len(sent) : Begin(d)' = Begin(d)
    <3>1. size \in Nat
      BY TransportAssumption
    <3>2. Len(sent') = Len(sent) + 1 /\ out' = out + size
      BY <2>2, Sending
    <3>3. out' \in Nat /\ out <= out' /\ Len(sent') \in Nat /\ Len(sent) <= Len(sent')
      BY <1>1, <3>1, <3>2
    <3> QED BY <2>2, <3>3, Sending, SentStep
  <2> QED BY <2>1, <2>2
<1> SUFFICES ASSUME NEW s \in Right PROVE s \in Right'
  OBVIOUS
<1> DEFINE d == Len(s.delivered)  j == Len(s.frag)
<1>3. /\ s \in [next : Start..out, queue : Seq(Packets), frag : Seq(Nat), delivered : Seq(Seq(Nat))]
      /\ d <= Len(sent) /\ s.delivered = SubSeq(sent, 1, d) /\ s.next = Begin(d) + j
      /\ (j # 0 => d < Len(sent) /\ j < Len(sent[d + 1]))
      /\ \A i \in 1..j : s.frag[i] = sent[d + 1][i]
  BY DEF Right
<1>4. /\ s = [next |-> s.next, queue |-> s.queue, frag |-> s.frag, delivered |-> s.delivered]
      /\ s.next \in Start..out /\ s.queue \in Seq(Packets) /\ s.frag \in Seq(Nat)
      /\ s.delivered \in Seq(Seq(Nat))
  BY <1>3
<1>5. d \in Nat /\ j \in Nat
  BY <1>4, LenProperties
<1>6. s.next \in Start..out' /\ Packets \subseteq Packets'
  BY <1>1, <1>2, <1>4 DEF Packets
<1>7. s.queue \in Seq(Packets')
  BY <1>4, <1>6, SeqMonotonic
<1>8. s \in [next : Start..out, queue : Seq(Packets), frag : Seq(Nat), delivered : Seq(Seq(Nat))]'
  <2> DEFINE P == Packets'
  <2>1. s.queue \in Seq(P)
    BY <1>7
  <2> HIDE DEF P
  <2>2. s \in [next : Start..out', queue : Seq(P), frag : Seq(Nat), delivered : Seq(Seq(Nat))]
    BY <1>4, <1>6, <2>1
  <2> QED BY <2>2 DEF P
<1>9. d \in 0..Len(sent) /\ d <= Len(sent')
  BY <1>1, <1>2, <1>3, <1>5
<1>10. s.delivered = SubSeq(sent', 1, d) /\ s.next = Begin(d)' + j
  BY <1>2, <1>3, <1>9
<1>11. j # 0 => d < Len(sent') /\ sent'[d + 1] = sent[d + 1] /\ j < Len(sent'[d + 1])
  <2> SUFFICES ASSUME j # 0
               PROVE  /\ d < Len(sent') /\ sent'[d + 1] = sent[d + 1]
                      /\ j < Len(sent'[d + 1])
    OBVIOUS
  <2>1. d < Len(sent) /\ j < Len(sent[d + 1])
    BY <1>3
  <2>2. d + 1 \in 1..Len(sent) /\ d < Len(sent')
    BY <1>1, <1>2, <1>5, <2>1
  <2> QED BY <1>2, <2>1, <2>2
<1>12. \A i \in 1..j : s.frag[i] = sent'[d + 1][i]
  <2>1. CASE j = 0
    BY <2>1
  <2>2. CASE j # 0
    BY <1>3, <1>11, <2>2
  <2> QED BY <2>1, <2>2
<1> QED BY <1>8, <1>9, <1>10, <1>11, <1>12 DEF Right

\* How a packet gets to the other end, and what becomes of that.
LEMMA ReceiveStep ==
  ASSUME FifoInv, MaxSend < IdSpace, NEW n \in net, Receive(n)
  PROVE  \/ /\ UNCHANGED <<next, frag, delivered>>
            /\ rqueue' = rqueue \/ (rqueue' = Append(rqueue, n) /\ acks' = acks \cup {Id(n)})
         \/ /\ n = next /\ next < out /\ TakeInOrder(next)
            /\ acks' = acks \cup {Id(n)}
<1>1. /\ n \in Packets /\ out \in Nat /\ next \in Start..out /\ Start \in Nat
  BY TransportAssumption DEF FifoInv, Right, ReceivingEnd
<1>2. n \in Nat /\ n < out /\ next \in Nat
  BY <1>1 DEF Packets
<1>3. CASE InWindow(n) /\ Decrypts(n) /\ InOrder(n) /\ TakeInOrder(n) /\ acks' = acks \cup {Id(n)}
  <2>1. n = next
    BY <1>2, <1>3 DEF Decrypts, InOrder
  <2> QED BY <1>2, <1>3, <2>1
<1>4. CASE InWindow(n) /\ Decrypts(n) /\ ~InOrder(n) /\ KeepForLater(n) /\ acks' = acks \cup {Id(n)}
  BY <1>4 DEF KeepForLater
<1>5. CASE TooFarAhead(n)
  BY <1>5 DEF TooFarAhead
<1>6. CASE UNCHANGED receiverVars
  BY <1>6 DEF receiverVars
<1> QED BY <1>3, <1>4, <1>5, <1>6 DEF Receive

\* The receiving end keeps one more packet.
LEMMA Keeping ==
  ASSUME FifoInv, NEW n \in Packets, next' = next, frag' = frag, delivered' = delivered,
         rqueue' = rqueue \/ rqueue' = Append(rqueue, n)
  PROVE  /\ ReceivingEnd' \in Right
         /\ ToSet(rqueue) \subseteq ToSet(rqueue')
         /\ rqueue' # rqueue => n \in ToSet(rqueue')
<1> DEFINE e == ReceivingEnd
<1>1. e \in Right /\ e.queue = rqueue
  BY DEF FifoInv, ReceivingEnd
<1>2. rqueue \in Seq(Packets)
  BY <1>1 DEF Right
<1>3. Append(rqueue, n) \in Seq(Packets) /\ Len(rqueue) \in Nat
  BY <1>2, AppendProperties, LenProperties
<1>4. rqueue' \in Seq(Packets)
  BY <1>2, <1>3
<1>5. ReceivingEnd' = [e EXCEPT !.queue = rqueue']
  BY DEF ReceivingEnd
<1>6. ReceivingEnd' \in Right
  <2> HIDE DEF e
  <2> DEFINE q == rqueue'
  <2>1. q \in Seq(Packets)
    BY <1>4
  <2> HIDE DEF q
  <2>2. [e EXCEPT !.queue = q] \in Right
    BY <1>1, <2>1 DEF Right
  <2> QED BY <1>5, <2>2 DEF q
<1>7. CASE rqueue' = Append(rqueue, n)
  <2>1. /\ DOMAIN rqueue = 1..Len(rqueue) /\ Len(rqueue') = Len(rqueue) + 1
        /\ DOMAIN rqueue' = 1..Len(rqueue')
        /\ \A i \in 1..Len(rqueue) : rqueue'[i] = rqueue[i]
        /\ rqueue'[Len(rqueue) + 1] = n
    BY <1>2, <1>3, <1>4, <1>7, AppendProperties, LenProperties
  <2>2. \A i \in 1..Len(rqueue) : i \in 1..Len(rqueue')
    BY <1>3, <2>1
  <2>3. Len(rqueue) + 1 \in 1..Len(rqueue')
    BY <1>3, <2>1
  <2> QED BY <1>6, <2>1, <2>2, <2>3 DEF ToSet
<1> QED BY <1>6, <1>7

\* Acks and pings, resends and losses change neither the commands nor what has come
\* of them.
LEMMA OtherSteps ==
  ASSUME FifoInv, [Next]_vars, \A size \in 1..MaxSize : ~Send(size),
         \A n \in net : ~Receive(n)
  PROVE  /\ UNCHANGED <<sent, out, next, rqueue, frag, delivered>>
         /\ full' \subseteq full /\ net' \subseteq net \cup full
         /\ acks' \subseteq acks
         /\ full' = full \/ \E i \in acks : ReceiveAck(i) /\ full # {}
<1> USE DEF senderVars, receiverVars
<1>1. CASE PopAcked
  BY <1>1 DEF PopAcked
<1>2. CASE Transmit
  BY <1>2 DEF Transmit
<1>3. CASE Resend
  BY <1>3 DEF Resend
<1>4. CASE GiveUp
  BY <1>4 DEF GiveUp
<1>5. CASE PollPing
  BY <1>5 DEF PollPing
<1>6. ASSUME NEW i \in acks, ReceiveAck(i)
      PROVE  /\ UNCHANGED <<sent, out, next, rqueue, frag, delivered>>
             /\ full' \subseteq full /\ net' \subseteq net \cup full
             /\ acks' \subseteq acks
             /\ full' = full \/ \E k \in acks : ReceiveAck(k) /\ full # {}
  BY <1>6 DEF ReceiveAck
<1>7. CASE Pong
  BY <1>7 DEF Pong
<1>8. CASE Lose
  BY <1>8 DEF Lose
<1>9. CASE Die
  BY <1>9 DEF Die
<1>10. CASE UNCHANGED vars
  BY <1>10 DEF vars
<1> QED BY <1>1, <1>2, <1>3, <1>4, <1>5, <1>6, <1>7, <1>8, <1>9, <1>10 DEF Next, PollResend

LEMMA SentSame ==
  ASSUME SentInv, sent' = sent, out' = out PROVE SentInv'
BY DEF SentInv, Begin

LEMMA FifoStep ==
  ASSUME FifoInv, MaxSend < IdSpace, [Next]_vars
  PROVE  FifoInv'
<1>1. /\ out \in Nat /\ Start \in Nat /\ MaxSend \in Nat
  BY TransportAssumption DEF FifoInv
<1>2. ASSUME NEW size \in 1..MaxSize, Send(size) PROVE FifoInv'
  <2>1. out' \in Start..Start+MaxSend /\ full' \subseteq Packets' /\ net \subseteq Packets'
    <3>1. /\ full' = full \cup out..out + size - 1 /\ out' = out + size
          /\ out + size <= Start + MaxSend
      BY <1>2, Sending
    <3>2. size \in Nat \ {0}
      BY TransportAssumption
    <3> QED BY <1>1, <3>1, <3>2 DEF FifoInv, Packets
  <2>2. SentInv' /\ Right \subseteq Right'
    BY <1>2, SentStep, RightGrows
  <2>3. ReceivingEnd' = ReceivingEnd /\ net' = net
    BY <1>2 DEF Send, receiverVars, ReceivingEnd
  <2>4. ReceivingEnd' \in Right'
    BY <2>2, <2>3 DEF FifoInv
  <2> QED BY <2>1, <2>2, <2>3, <2>4 DEF FifoInv
<1>3. CASE sent' = sent /\ out' = out /\ full' \subseteq full /\ net' \subseteq net \cup full
           /\ ReceivingEnd' \in Right
  <2>1. SentInv' /\ Right \subseteq Right'
    BY <1>3, SentSame, RightGrows DEF FifoInv
  <2>2. Packets' = Packets
    BY <1>3 DEF Packets
  <2>3. ReceivingEnd' \in Right'
    BY <1>3, <2>1
  <2> QED BY <1>3, <2>1, <2>2, <2>3 DEF FifoInv
<1>4. ASSUME NEW n \in net, Receive(n) PROVE FifoInv'
  <2>1. sent' = sent /\ out' = out /\ full' = full /\ net' \subseteq net
    BY <1>4 DEF Receive, senderVars
  <2>2. CASE /\ UNCHANGED <<next, frag, delivered>>
             /\ rqueue' = rqueue \/ rqueue' = Append(rqueue, n)
    <3>1. n \in Packets
      BY DEF FifoInv
    <3>2. ReceivingEnd' \in Right
      BY <2>2, <3>1, Keeping
    <3> QED BY <1>3, <2>1, <3>2
  <2>3. CASE next < out /\ TakeInOrder(next)
    <3>1. PICK r \in From(ReceivingEnd) :
            next' = r.next /\ rqueue' = r.queue /\ frag' = r.frag /\ delivered' = r.delivered
      BY <2>3, Taking DEF FifoInv
    <3>2. r \in Right
      BY DEF From
    <3>3. ReceivingEnd' = [next |-> r.next, queue |-> r.queue,
                           frag |-> r.frag, delivered |-> r.delivered]
      BY <3>1 DEF ReceivingEnd
    <3>4. r = [next |-> r.next, queue |-> r.queue, frag |-> r.frag, delivered |-> r.delivered]
      BY <3>2 DEF Right
    <3>5. ReceivingEnd' \in Right
      BY <3>2, <3>3, <3>4
    <3> QED BY <1>3, <2>1, <3>5
  <2> QED BY <1>4, <2>2, <2>3, ReceiveStep
<1>5. CASE (\A size \in 1..MaxSize : ~Send(size)) /\ (\A n \in net : ~Receive(n))
  <2>1. /\ UNCHANGED <<sent, out, next, rqueue, frag, delivered>>
        /\ full' \subseteq full /\ net' \subseteq net \cup full
    BY <1>5, OtherSteps
  <2>2. ReceivingEnd' = ReceivingEnd
    BY <2>1 DEF ReceivingEnd
  <2> QED BY <1>3, <2>1, <2>2 DEF FifoInv
<1> QED BY <1>2, <1>4, <1>5

\* Nothing is sent, handed out or broken at first.
LEMMA ChannelInit == Init => Fifo!Init
BY DEF Init, Fifo!Init

\* A step that hands nothing in and nothing out breaks the channel at most.
LEMMA Breaks ==
  ASSUME UNCHANGED <<sent, delivered>>,
         status' = status \/ (status = "connected" /\ status' = "failed")
  PROVE  Fifo!Break \/ UNCHANGED <<sent, delivered, status = "failed">>
<1>1. CASE status' = status
  BY <1>1
<1>2. CASE status = "connected" /\ status' = "failed"
  <2>1. (status = "failed") = FALSE /\ (status' = "failed") = TRUE
    BY <1>2
  <2> QED BY <2>1 DEF Fifo!Break
<1> QED BY <1>1, <1>2

\* Every step is one of the channel, or none.
LEMMA ChannelStep ==
  ASSUME FifoInv, MaxSend < IdSpace, [Next]_vars
  PROVE  [Fifo!Next]_<<sent, delivered, status = "failed">>
<1> USE DEF senderVars, receiverVars
<1>0. ASSUME UNCHANGED <<sent, delivered>>,
             status' = status \/ (status = "connected" /\ status' = "failed")
      PROVE  [Fifo!Next]_<<sent, delivered, status = "failed">>
  BY <1>0, Breaks DEF Fifo!Next
<1>1. ASSUME NEW size \in 1..MaxSize, Send(size) PROVE Fifo!Send
  <2>1. /\ sent' = Append(sent, [i \in 1..size |-> out + i - 1]) /\ UNCHANGED <<delivered, status>>
        /\ status = "connected"
    BY <1>1 DEF Send
  <2>2. out \in Start..Start + MaxSend
    BY DEF FifoInv
  <2> DEFINE Commands == {[i \in 1..k |-> first + i - 1] :
                            k \in 1..MaxSize, first \in Start..Start + MaxSend}
             c == [i \in 1..size |-> out + i - 1]
  <2>3. c \in Commands
    BY <2>2
  <2>4. Fifo!Send <=> /\ ~(status = "failed") /\ (\E x \in Commands : sent' = Append(sent, x))
                      /\ UNCHANGED <<delivered, status = "failed">>
    BY DEF Fifo!Send
  <2> HIDE DEF Commands
  <2>5. \E x \in Commands : sent' = Append(sent, x)
    BY <2>1, <2>3
  <2> QED BY <2>1, <2>4, <2>5
<1>2. ASSUME NEW n \in net, Receive(n)
      PROVE  Fifo!Deliver \/ UNCHANGED <<sent, delivered, status>>
  <2>1. sent' = sent /\ status' = status
    BY <1>2 DEF Receive
  <2>2. CASE delivered' = delivered
    BY <2>1, <2>2
  <2>3. CASE next < out /\ TakeInOrder(next)
    <3>1. PICK r \in From(ReceivingEnd) : delivered' = r.delivered
      BY <2>3, Taking DEF FifoInv
    <3> DEFINE d == Len(delivered)  k == Len(r.delivered)
    <3>2. /\ delivered \in Seq(Seq(Nat)) /\ r.delivered \in Seq(Seq(Nat))
          /\ delivered = SubSeq(sent, 1, d) /\ r.delivered = SubSeq(sent, 1, k)
          /\ d <= k /\ k <= Len(sent)
      BY DEF FifoInv, Right, From, ReceivingEnd
    <3>3. d \in Nat /\ k \in Nat /\ Len(sent) \in Nat
      BY <3>2, LenProperties DEF FifoInv, SentInv
    <3>4. CASE d = k
      BY <2>1, <3>1, <3>2, <3>4
    <3>5. CASE d # k
      <4>1. k \in d + 1..Len(sent)
        BY <3>2, <3>3, <3>5
      <4> QED BY <2>1, <3>1, <3>2, <4>1 DEF Fifo!Deliver
    <3> QED BY <3>4, <3>5
  <2> QED BY <1>2, <2>2, <2>3, ReceiveStep
<1>3. CASE PopAcked
  BY <1>0, <1>3 DEF PopAcked
<1>4. CASE Transmit
  BY <1>0, <1>4 DEF Transmit
<1>5. CASE Resend
  BY <1>0, <1>5 DEF Resend
<1>6. CASE GiveUp
  BY <1>0, <1>6 DEF GiveUp
<1>7. CASE PollPing
  BY <1>0, <1>7 DEF PollPing
<1>8. ASSUME NEW i \in acks, ReceiveAck(i) PROVE UNCHANGED <<sent, delivered, status>>
  BY <1>8 DEF ReceiveAck
<1>9. CASE Pong
  BY <1>0, <1>9 DEF Pong
<1>10. CASE Lose
  BY <1>0, <1>10 DEF Lose
<1>11. CASE Die
  BY <1>0, <1>11 DEF Die
<1>12. CASE UNCHANGED vars
  BY <1>0, <1>12 DEF vars
<1> QED BY <1>0, <1>1, <1>2, <1>3, <1>4, <1>5, <1>6, <1>7, <1>8, <1>9, <1>10, <1>11, <1>12
        DEF Next, PollResend, Fifo!Next

\* Commands come out once each and in the order they went in, whatever is lost,
\* delayed, reordered and repeated, as long as the ids do not start over: then a
\* packet kept twice would be handed out for another (handle_command_packet).
THEOREM InOrderOnce == ASSUME MaxSend < IdSpace PROVE Spec => FifoOrder
<1>1. Init => FifoInv
  BY FifoInit
<1>2. FifoInv /\ [Next]_vars => FifoInv'
  BY FifoStep
<1>3. Init => Fifo!Init
  BY ChannelInit
<1>4. FifoInv /\ [Next]_vars => [Fifo!Next]_<<sent, delivered, status = "failed">>
  BY ChannelStep
<1> QED BY <1>1, <1>2, <1>3, <1>4, PTL DEF Spec, FifoOrder, Fifo!Spec, Fifo!chanVars

-----------------------------------------------------------------------------
(* Acks. *)

\* An ack on the way is for a packet the receiving end has.
AckInv == \A i \in acks : \E m \in Packets : Id(m) = i /\ Has(ReceivingEnd, m)

\* The number made of a generation and an id has that id.
LEMMA Filed ==
  ASSUME NEW g \in Nat, NEW i \in 0..IdSpace-1 PROVE (g * IdSpace + i) % IdSpace = i
<1> DEFINE k == IdSpace  x == g * k + i
<1>1. k \in Nat \ {0}
  BY TransportAssumption
<1>2. g * k \in Nat /\ i \in 0..k-1
  BY <1>1
<1>3. x \in Nat
  BY <1>2
<1> HIDE DEF k
<1>4. PICK q \in Nat : x = q * k + (x % k)
  BY <1>1, <1>3, Turn
<1> DEFINE r == x % k  P == g * k  Q == q * k
<1>5. r \in 0..k-1 /\ P \in Nat /\ Q \in Nat /\ x = P + i /\ x = Q + r
  BY <1>1, <1>2, <1>3, <1>4
<1>6. (g >= q + 1 => P - Q >= 1 * k) /\ (q >= g + 1 => Q - P >= 1 * k)
  BY <1>1, Apart
<1>7. g = q => P = Q
  OBVIOUS
<1> HIDE DEF r, P, Q, x
<1>8. g = q
  BY <1>1, <1>2, <1>5, <1>6
<1>9. r = i
  BY <1>2, <1>5, <1>7, <1>8
<1> QED BY <1>9 DEF r, x, k

\* The id of a packet, and the key it is filed under.
LEMMA KeyId ==
  ASSUME NEW n \in Nat
  PROVE  Id(n) \in 0..IdSpace-1 /\ Key(n) \in Nat /\ Key(n) % IdSpace = Id(n)
<1>1. IdSpace \in Nat \ {0}
  BY TransportAssumption
<1>2. Id(n) \in 0..IdSpace-1 /\ Gen(n + 1) \in Nat
  BY <1>1 DEF Id, Gen
<1>3. Gen(n + 1) * IdSpace \in Nat
  BY <1>1, <1>2
<1>4. Key(n) \in Nat
  BY <1>2, <1>3 DEF Key
<1> QED BY <1>2, <1>4, Filed DEF Key

\* ack_packet looks for a packet with the acknowledged id.
LEMMA Looked ==
  ASSUME FifoInv, full # {}, NEW i \in 0..IdSpace-1
  PROVE  \A n \in Acknowledged(i) : n \in full /\ Id(n) = i
<1>1. IdSpace \in Nat \ {0} /\ full \subseteq Nat
  BY TransportAssumption DEF FifoInv, Packets
<1>2. FirstOf(full) \in full
  <2> DEFINE keys == {Key(n) : n \in full}
  <2>1. keys \subseteq Nat /\ keys # {}
    BY <1>1, KeyId
  <2>2. PICK x \in keys : \A y \in keys : x <= y
    BY <2>1, Least
  <2>3. \E n \in full : \A m \in full : Key(n) <= Key(m)
    BY <2>2
  <2> QED BY <2>3 DEF FirstOf
<1> DEFINE f == Key(FirstOf(full))
<1>3. f \in Nat
  BY <1>1, <1>2, KeyId
<1>4. AckedKey(i) % IdSpace = i
  <2>1. CASE f % IdSpace = i
    BY <2>1 DEF AckedKey
  <2>2. CASE f % IdSpace # i
    <3> DEFINE g == f \div IdSpace + (IF i < f % IdSpace THEN 1 ELSE 0)
    <3> HIDE DEF f
    <3>1. f \div IdSpace \in Nat
      BY <1>1, <1>3
    <3>2. g \in Nat
      BY <3>1
    <3>3. AckedKey(i) = g * IdSpace + i
      BY <2>2 DEF AckedKey, f
    <3> HIDE DEF g
    <3> QED BY <3>2, <3>3, Filed
  <2> QED BY <2>1, <2>2
<1> QED BY <1>1, <1>4, KeyId DEF Acknowledged

\* The receiving end forgets nothing, and has what it acknowledges: a packet beyond
\* its window is one it has handled.
LEMMA HasStep ==
  ASSUME FifoInv, 2 * MaxSend < IdSpace, NEW n \in net, Receive(n)
  PROVE  /\ \A m \in Packets : Has(ReceivingEnd, m) => Has(ReceivingEnd, m)'
         /\ acks' # acks => acks' = acks \cup {Id(n)} /\ Has(ReceivingEnd, n)'
<1>1. /\ n \in Packets /\ out \in Nat /\ next \in Start..out /\ Start \in Nat /\ MaxSend \in Nat
      /\ IdSpace \in Nat \ {0} /\ out - Start <= MaxSend
  BY TransportAssumption DEF FifoInv, Right, ReceivingEnd
<1>2. n \in Nat /\ n < out /\ next \in Nat /\ MaxSend < IdSpace
  BY <1>1 DEF Packets
<1> DEFINE e == ReceivingEnd
<1>3. e.next = next /\ e.queue = rqueue /\ (e.next)' = next' /\ (e.queue)' = rqueue'
  BY DEF ReceivingEnd
<1> HIDE DEF e
<1>4. CASE InWindow(n) /\ Decrypts(n) /\ InOrder(n) /\ TakeInOrder(n) /\ acks' = acks \cup {Id(n)}
  <2>1. n = next
    BY <1>2, <1>4 DEF Decrypts, InOrder
  <2>2. PICK r \in From(e) : next' = r.next /\ rqueue' = r.queue /\ Has(r, next)
    BY <1>2, <1>4, <2>1, Taking DEF FifoInv, e
  <2>3. \A m \in Packets : Has(e, m) => Has(r, m)
    BY DEF From
  <2>4. \A m \in Packets : Has(r, m) => Has(e, m)'
    BY <1>3, <2>2 DEF Has
  <2> QED BY <1>1, <1>4, <2>1, <2>2, <2>3, <2>4 DEF e
<1>5. CASE InWindow(n) /\ Decrypts(n) /\ ~InOrder(n) /\ KeepForLater(n) /\ acks' = acks \cup {Id(n)}
  <2>1. next' = next /\ frag' = frag /\ delivered' = delivered /\ rqueue' = Append(rqueue, n)
    BY <1>5 DEF KeepForLater
  <2>2. ToSet(rqueue) \subseteq ToSet(rqueue') /\ (rqueue' # rqueue => n \in ToSet(rqueue'))
    BY <1>1, <2>1, Keeping
  <2>3. rqueue' # rqueue
    <3>1. rqueue \in Seq(Packets)
      BY DEF FifoInv, Right, ReceivingEnd
    <3>2. Len(rqueue') = Len(rqueue) + 1 /\ Len(rqueue) \in Nat
      BY <1>1, <2>1, <3>1, AppendProperties, LenProperties
    <3> QED BY <3>2
  <2> QED BY <1>3, <1>5, <2>1, <2>2, <2>3 DEF Has, e
<1>6. CASE UNCHANGED <<next, rqueue>>
  <2>1. \A m \in Packets : Has(e, m) => Has(e, m)'
    BY <1>3, <1>6 DEF Has
  <2>2. CASE ~InWindow(n) /\ acks' = acks \cup {Id(n)}
    <3>1. n < next
      <4> SUFFICES ASSUME next <= n PROVE InWindow(n)
        BY <1>2, <2>2
      <4>1. 0 <= n - next /\ n - next < MaxSend /\ n - next < IdSpace
        BY <1>1, <1>2
      <4>2. Offset(n) = n - next
        BY <1>1, <1>2, <4>1, Ahead, Zenon DEF Offset, Id
      <4>3. MaxSend <= (IdSpace - 1) \div 2
        BY <1>1
      <4>4. Offset(n) < (IdSpace - 1) \div 2
        BY <1>1, <1>2, <4>1, <4>2, <4>3
      <4> QED BY <4>4 DEF InWindow
    <3>2. Has(e, n)'
      BY <1>3, <1>6, <3>1 DEF Has
    <3> QED BY <2>1, <2>2, <3>2 DEF e
  <2>3. CASE acks' = acks
    BY <2>1, <2>3 DEF e
  <2> QED BY <1>4, <1>5, <2>2, <2>3 DEF Receive
<1>7. CASE TooFarAhead(n)
  BY <1>6, <1>7 DEF TooFarAhead
<1>8. CASE UNCHANGED receiverVars
  BY <1>6, <1>8 DEF receiverVars
<1> QED BY <1>4, <1>5, <1>7, <1>8 DEF Receive

\* The invariant of the acknowledgements.
ArrivedInv == FifoInv /\ AckInv /\ NotForgotten

LEMMA ArrivedInit == Init => ArrivedInv
<1>1. Init => FifoInv
  BY FifoInit
<1>2. Init => AckInv
  BY DEF Init, AckInv
<1>3. Init => NotForgotten
  BY TransportAssumption DEF Init, NotForgotten
<1> QED BY <1>1, <1>2, <1>3 DEF ArrivedInv

\* What NotForgotten says, in the words of this module.
LEMMA Gone == NotForgotten <=> \A n \in Packets : n \in full \/ Has(ReceivingEnd, n)
BY DEF NotForgotten, Packets, Has, ReceivingEnd

LEMMA ArrivedStep ==
  ASSUME ArrivedInv, 2 * MaxSend < IdSpace, [Next]_vars PROVE ArrivedInv'
<1>1. /\ out \in Nat /\ Start \in Nat /\ MaxSend \in Nat /\ IdSpace \in Nat \ {0}
      /\ Start <= out /\ out - Start <= MaxSend /\ FifoInv /\ AckInv /\ MaxSend < IdSpace
  BY TransportAssumption DEF ArrivedInv, FifoInv
<1>2. \A n \in Packets : n \in full \/ Has(ReceivingEnd, n)
  BY Gone DEF ArrivedInv
<1>3. FifoInv'
  BY <1>1, FifoStep
<1>4. CASE /\ AckInv'
           /\ \A n \in Packets' : n \in full' \/ Has(ReceivingEnd, n)'
  <2>1. NotForgotten'
    BY <1>4 DEF NotForgotten, Packets, Has, ReceivingEnd
  <2> QED BY <1>3, <1>4, <2>1 DEF ArrivedInv
<1>5. ASSUME NEW size \in 1..MaxSize, Send(size) PROVE ArrivedInv'
  <2>1. full' = full \cup out..out + size - 1 /\ out' = out + size
    BY <1>1, <1>5, Sending
  <2>2. size \in Nat \ {0}
    BY TransportAssumption
  <2>3. Packets' = Packets \cup out..out + size - 1
    BY <1>1, <2>1, <2>2 DEF Packets
  <2>4. acks' = acks /\ next' = next /\ rqueue' = rqueue
    BY <1>5 DEF Send, receiverVars
  <2>5. \A m \in Packets : Has(ReceivingEnd, m) => Has(ReceivingEnd, m)'
    BY <2>4 DEF Has, ReceivingEnd
  <2>6. AckInv'
    <3> SUFFICES ASSUME NEW i \in acks' PROVE \E m \in Packets' : Id(m) = i /\ Has(ReceivingEnd, m)'
      BY DEF AckInv
    <3>1. PICK m \in Packets : Id(m) = i /\ Has(ReceivingEnd, m)
      BY <1>1, <2>4 DEF AckInv
    <3> QED BY <2>3, <2>5, <3>1
  <2> QED BY <1>2, <1>4, <2>1, <2>3, <2>5, <2>6
<1>6. ASSUME NEW n \in net, Receive(n) PROVE ArrivedInv'
  <2>1. out' = out /\ full' = full /\ Packets' = Packets
    BY <1>6 DEF Receive, senderVars, Packets
  <2>2. /\ \A m \in Packets : Has(ReceivingEnd, m) => Has(ReceivingEnd, m)'
        /\ acks' # acks => acks' = acks \cup {Id(n)} /\ Has(ReceivingEnd, n)'
    BY <1>1, <1>6, HasStep
  <2>3. n \in Packets
    BY <1>1 DEF FifoInv
  <2>4. AckInv'
    <3> SUFFICES ASSUME NEW i \in acks' PROVE \E m \in Packets' : Id(m) = i /\ Has(ReceivingEnd, m)'
      BY DEF AckInv
    <3>1. CASE i \in acks
      <4>1. PICK m \in Packets : Id(m) = i /\ Has(ReceivingEnd, m)
        BY <1>1, <3>1 DEF AckInv
      <4> QED BY <2>1, <2>2, <4>1
    <3>2. CASE i \notin acks
      BY <2>1, <2>2, <2>3, <3>2
    <3> QED BY <3>1, <3>2
  <2> QED BY <1>2, <1>4, <2>1, <2>2, <2>4
<1>7. CASE (\A size \in 1..MaxSize : ~Send(size)) /\ (\A n \in net : ~Receive(n))
  <2>1. /\ UNCHANGED <<sent, out, next, rqueue, frag, delivered>> /\ acks' \subseteq acks
        /\ full' = full \/ \E i \in acks : ReceiveAck(i) /\ full # {}
    BY <1>1, <1>7, OtherSteps
  <2>2. Packets' = Packets /\ \A m \in Packets : Has(ReceivingEnd, m) => Has(ReceivingEnd, m)'
    BY <2>1 DEF Packets, Has, ReceivingEnd
  <2>3. AckInv'
    <3> SUFFICES ASSUME NEW i \in acks' PROVE \E m \in Packets' : Id(m) = i /\ Has(ReceivingEnd, m)'
      BY DEF AckInv
    <3>1. PICK m \in Packets : Id(m) = i /\ Has(ReceivingEnd, m)
      BY <1>1, <2>1 DEF AckInv
    <3> QED BY <2>2, <3>1
  <2>4. ASSUME NEW i \in acks, ReceiveAck(i), full # {}, NEW n \in Packets
        PROVE  n \in full' \/ Has(ReceivingEnd, n)'
    <3>1. CASE n \in Acknowledged(i)
      <4>1. PICK m \in Packets : Id(m) = i /\ Has(ReceivingEnd, m)
        BY <1>1 DEF AckInv
      <4>2. m \in Nat /\ n \in Nat /\ n - m < IdSpace /\ m - n < IdSpace
        BY <1>1 DEF Packets
      <4>3. i \in 0..IdSpace-1
        BY <4>1, <4>2, KeyId
      <4>4. Id(n) = i
        BY <1>1, <2>4, <3>1, <4>3, Looked
      <4>5. n = m
        BY <4>1, <4>2, <4>4, IdUnique
      <4> QED BY <2>2, <4>1, <4>5
    <3>2. CASE n \notin Acknowledged(i)
      <4>1. full' = full \ Acknowledged(i)
        BY <2>4 DEF ReceiveAck
      <4> QED BY <1>2, <2>2, <3>2, <4>1
    <3> QED BY <3>1, <3>2
  <2> QED BY <1>2, <1>4, <2>1, <2>2, <2>3, <2>4
<1> QED BY <1>5, <1>6, <1>7

\* A packet that is not repeated any more has arrived: no ack is taken for another
\* packet's, and none is sent for a packet that is thrown away, as long as half a
\* turn of the ids is not used up (ack_packet, in_receive_window).
THEOREM NoneForgotten == ASSUME 2 * MaxSend < IdSpace PROVE Spec => []NotForgotten
<1>1. Init => ArrivedInv
  BY ArrivedInit
<1>2. ArrivedInv /\ [Next]_vars => ArrivedInv'
  BY ArrivedStep
<1>3. ArrivedInv => NotForgotten
  BY DEF ArrivedInv
<1> QED BY <1>1, <1>2, <1>3, PTL DEF Spec
=============================================================================
