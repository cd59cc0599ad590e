-------------------------- MODULE RequestsProofs --------------------------
(***************************************************************************)
(* Theorems about Requests, for any number of requests and connections and *)
(* everything the network, the server and the user may do.  The first half *)
(* is about types and owners and ends in Once; the second first says, once *)
(* for all actions, how a step changes the wire, the tables, the history   *)
(* and the answers, and argues about these moves only.                     *)
(***************************************************************************)
EXTENDS Requests, SequenceTheorems, FiniteSetTheorems, TLAPS

(* Types. *)

\* Requests are asked in the order of their numbers, and each return code of a
\* connection has gone out with one that has left the queue.
Counted ==
  \E n \in 0..MaxRequests :
    /\ \A r \in Reqs : kind[r] # "none" <=> r <= n
    /\ code + Len(cmds) <= n

\* What the handlers rely on: rows and results are under a return code, an error
\* without one is not about a move.
Sound ==
  {m \in Items : /\ m.type \in {"result", "rows"} => m.key \in Codes
                 /\ m.type = "error" => m.of \in Reqs /\ kind[m.of] = "plain"}

\* A connection can follow a session that has ended.
Room == link = "closed" => conn < MaxConns

TypeInv ==
  /\ TypeOK /\ Counted /\ Room
  /\ net \in Seq(Sound) /\ batch \in Seq(Sound)

\* The counter of client transfer ids wraps around.
LEMMA NextId ==
  ASSUME NEW n \in Nat, NEW m \in Nat \ {0} PROVE (n + 1) % m \in 0..m-1
OBVIOUS

\* What the server answers next.
LEMMA Asked ==
  ASSUME TypeOK, srv # <<>>
  PROVE  Head(srv).of \in Reqs /\ Head(srv).code \in Codes /\ Tail(srv) \in Seq([of: Reqs, code: Codes])
<1>1. srv \in Seq([of: Reqs, code: Codes])
  BY DEF TypeOK
<1> DEFINE S == [of: Reqs, code: Codes]
<1> HIDE DEF S
<1>2. Head(srv) \in S /\ Tail(srv) \in Seq(S)
  BY <1>1, HeadTailProperties DEF S
<1> QED BY <1>2 DEF S

\* TypeOK without the sequences, the listings and the answers.
PlainTypes ==
  /\ kind \in [Reqs -> AllKinds \cup {"none"}] /\ dir \in [Reqs -> Dirs]
  /\ link \in {"up", "dead", "down", "closed"} /\ conn \in Conns
  /\ opening \subseteq Reqs
  /\ permOps \in [Codes -> Reqs \cup {None}] /\ ftOps \in [Codes -> Reqs \cup {None}]
  /\ taskByRc \in [Codes -> Reqs \cup {None}] /\ pendingMove \in Reqs \cup {None}
  /\ tasks \subseteq Reqs /\ ftid \in [Reqs -> 0..IdSpace-1] /\ nextFt \in 0..IdSpace-1
  /\ cancelled \subseteq Reqs
  /\ worker \in [Reqs -> {"none", "running", "grace", "over"}]
  /\ sentIn \in [Reqs -> Conns \cup {None}]
  /\ did \in [Reqs -> {"none", "ok", "err", "empty", "all"}]
  /\ served \in [Reqs -> 0..MaxFrames] /\ over \subseteq Reqs

\* The types of what is no sequence, and of PERM_OPS, FT_OPS and FT_TASK_BY_RC.
LEMMA PlainStep ==
  ASSUME TypeInv, [Next]_vars PROVE PlainTypes' /\ Room'
<1> USE RequestsAssumption DEF PlainTypes, TypeInv, TypeOK, Room, AllKinds, Transfers, Tokens, Conns, None,
   asking, wire, tables, transfer, history
<1>1. ASSUME NEW r \in Reqs, AskPlain(r) PROVE PlainTypes' /\ Room'
  BY <1>1 DEF AskPlain, Queue, Ready, Fresh
<1>2. ASSUME NEW r \in Reqs, AskMove(r) PROVE PlainTypes' /\ Room'
  BY <1>2 DEF AskMove, Queue, Ready, Fresh
<1>3. ASSUME NEW r \in Reqs, AskKick(r) PROVE PlainTypes' /\ Room'
  BY <1>3 DEF AskKick, Queue, Ready, Fresh
<1>4. ASSUME NEW r \in Reqs, AskGroup(r) PROVE PlainTypes' /\ Room'
  BY <1>4 DEF AskGroup, Queue, Ready, Fresh
<1>5. ASSUME NEW r \in Reqs, AskOp(r) PROVE PlainTypes' /\ Room'
  BY <1>5 DEF AskOp, Queue, Ready, Fresh
<1>6. ASSUME NEW r \in Reqs, NEW d \in Dirs, AskList(r, d) PROVE PlainTypes' /\ Room'
  BY <1>6 DEF AskList, Queue, Ready, Fresh
<1>7. ASSUME NEW r \in Reqs, AskDownload(r) PROVE PlainTypes' /\ Room'
  BY <1>7 DEF AskDownload, Queue, Ready, Fresh
<1>8. ASSUME NEW r \in Reqs, AskUpload(r) PROVE PlainTypes' /\ Room'
  BY <1>8 DEF AskUpload, Queue, Ready, Fresh
<1>9. ASSUME NEW r \in Reqs, NEW k \in Transfers, AskLate(r, k) PROVE PlainTypes' /\ Room'
  BY <1>9 DEF AskLate, Tell, Fresh
<1>10. ASSUME NEW r \in Reqs, Cancel(r) PROVE PlainTypes' /\ Room'
  BY <1>10 DEF Cancel
<1>11. ASSUME NEW r \in Reqs, SendKick(r) PROVE PlainTypes' /\ Room'
  BY <1>11 DEF SendKick, Next1, Track, Sent
<1>12. ASSUME NEW r \in Reqs, SendGroup(r) PROVE PlainTypes' /\ Room'
  BY <1>12 DEF SendGroup, Next1, Track, Sent
<1>13. ASSUME NEW r \in Reqs, RefuseKick(r) PROVE PlainTypes' /\ Room'
  BY <1>13 DEF RefuseKick, Next1, Tell
<1>14. ASSUME NEW r \in Reqs, SendMove(r) PROVE PlainTypes' /\ Room'
  BY <1>14 DEF SendMove, Next1, Sent
<1>15. ASSUME NEW r \in Reqs, SendPlain(r) PROVE PlainTypes' /\ Room'
  BY <1>15 DEF SendPlain, Next1
<1>16. ASSUME NEW r \in Reqs, SendOp(r) PROVE PlainTypes' /\ Room'
  BY <1>16 DEF SendOp, Next1, Sent
<1>17. ASSUME NEW r \in Reqs, SendList(r) PROVE PlainTypes' /\ Room'
  BY <1>17 DEF SendList, Next1, Sent
<1>18. ASSUME NEW r \in Reqs, SendTransfer(r) PROVE PlainTypes' /\ Room'
  <2>1. (nextFt + 1) % IdSpace \in 0..IdSpace-1
    BY NextId
  <2>2. nextFt' \in 0..IdSpace-1 /\ ftid' \in [Reqs -> 0..IdSpace-1]
    BY <1>18, <2>1 DEF SendTransfer, TakeId
  <2> QED BY <1>18, <2>2 DEF SendTransfer, Next1, Sent
<1>19. ASSUME NEW r \in Reqs, SendFails(r) PROVE PlainTypes' /\ Room'
  BY <1>19 DEF SendFails, Next1, Tell
<1>20. ASSUME NEW r \in Reqs, TransferFails(r) PROVE PlainTypes' /\ Room'
  <2>1. (nextFt + 1) % IdSpace \in 0..IdSpace-1
    BY NextId
  <2>2. nextFt' \in 0..IdSpace-1 /\ ftid' \in [Reqs -> 0..IdSpace-1]
    BY <1>20, <2>1 DEF TransferFails, TakeId
  <2> QED BY <1>20, <2>2 DEF TransferFails, Next1, FinishTasks, Tell
<1>21. ASSUME NEW r \in Reqs, WorkerCancels(r) PROVE PlainTypes' /\ Room'
  BY <1>21 DEF WorkerCancels, FinishTasks, Tell
<1>22. ASSUME NEW r \in Reqs, GraceEnds(r) PROVE PlainTypes' /\ Room'
  BY <1>22 DEF GraceEnds, FinishTasks, Tell
<1>23. ASSUME NEW r \in Reqs, NEW whole \in BOOLEAN, DownloadEnds(r, whole)
       PROVE PlainTypes' /\ Room'
  BY <1>23 DEF DownloadEnds, FinishTasks, Tell
<1>24. ASSUME NEW r \in Reqs, NEW whole \in BOOLEAN, UploadSent(r, whole)
       PROVE PlainTypes' /\ Room'
  BY <1>24 DEF UploadSent, FinishTasks, Tell
<1>25. ASSUME NEW r \in Reqs, NEW ok \in BOOLEAN, Opened(r, ok) PROVE PlainTypes' /\ Room'
  BY <1>25 DEF Opened
<1>26. ASSUME NEW r \in Reqs, NEW res \in {"ok", "err"}, ServerStatus(r, res)
       PROVE PlainTypes' /\ Room'
  BY <1>26 DEF ServerStatus
<1>27. CASE ServerAnswers
  <2> DEFINE r == Head(srv).of
  <2>1. r \in Reqs
    BY <1>27, Asked DEF ServerAnswers
  <2>2. did' \in [Reqs -> {"none", "ok", "err", "empty", "all"}]
    BY <1>27, <2>1 DEF ServerAnswers
  <2>3. served' \in [Reqs -> 0..MaxFrames]
    <3>1. PICK n \in 0..MaxFrames : served' = [served EXCEPT ![r] = n]
      <4>1. 0 \in 0..MaxFrames
        BY RequestsAssumption
      <4> QED BY <1>27, <4>1 DEF ServerAnswers
    <3>2. served \in [Reqs -> 0..MaxFrames]
      OBVIOUS
    <3> QED BY <2>1, <3>1, <3>2
  <2>4. opening' \subseteq Reqs
    BY <1>27, <2>1 DEF ServerAnswers
  <2> QED BY <1>27, <2>2, <2>3, <2>4 DEF ServerAnswers
<1>28. CASE Drop
  BY <1>28 DEF Drop
<1>29. CASE Reconnect
  BY <1>29 DEF Reconnect
<1>30. CASE End
  BY <1>30 DEF End, Ready
<1>31. CASE Connect
  BY <1>31 DEF Connect
<1>32. ASSUME NEW n \in 1..Len(net), Collect(n) PROVE PlainTypes' /\ Room'
  BY <1>32 DEF Collect
<1>33. CASE HandleResult
  BY <1>33 DEF HandleResult, Handling, Item1, Tell, Schedule
<1>34. CASE HandleRows
  BY <1>34 DEF HandleRows, Handling, Handled, Item1
<1>35. CASE HandleFin
  BY <1>35 DEF HandleFin, Handling, Item1, Schedule
<1>36. CASE HandleError
  <2>1. pendingMove' \in Reqs \cup {None}
    BY <1>36 DEF HandleError
  <2> QED BY <1>36, <2>1 DEF HandleError, Handled
<1>37. CASE HandleStart
  BY <1>37 DEF HandleStart, Handling, Handled, Item1, TaskOf
<1>38. CASE HandleStatus
  BY <1>38 DEF HandleStatus, Handling, Handled, Item1, TaskOf, FinishTasks, Tell
<1>39. CASE HandleDrop
  BY <1>39 DEF HandleDrop, Handling, Handled, Tell
<1>40. ASSUME NEW t \in timers, Fire(t) PROVE PlainTypes' /\ Room'
  BY <1>40 DEF Fire
<1>41. CASE UNCHANGED vars
  BY <1>41 DEF vars
<1> QED
  BY <1>1, <1>2, <1>3, <1>4, <1>5, <1>6, <1>7, <1>8, <1>9, <1>10, <1>11, <1>12, <1>13,
     <1>14, <1>15, <1>16, <1>17, <1>18, <1>19, <1>20, <1>21, <1>22, <1>23, <1>24,
     <1>25, <1>26, <1>27, <1>28, <1>29, <1>30, <1>31, <1>32, <1>33, <1>34, <1>35,
     <1>36, <1>37, <1>38, <1>39, <1>40, <1>41
  DEF Next, Ask, Execute, Worker, Handle

-----------------------------------------------------------------------------
(* The queue. *)

\* A request in the queue has been asked, and stands there once.
Queued ==
  /\ \A i \in DOMAIN cmds : kind[cmds[i]] # "none"
  /\ \A i, j \in DOMAIN cmds : cmds[i] = cmds[j] => i = j

\* The requests in the queue.
InQueue == {cmds[i] : i \in DOMAIN cmds}

\* The event loop takes the head of COMMAND_TX.
LEMMA Taken ==
  ASSUME TypeOK, NEW r, Next1(r)
  PROVE  /\ r \in InQueue /\ InQueue' \subseteq InQueue
         /\ cmds' \in Seq(Reqs) /\ Len(cmds') = Len(cmds) - 1 /\ Len(cmds) \in Nat
         /\ Queued => r \notin InQueue'
<1>1. cmds \in Seq(Reqs) /\ cmds # <<>> /\ r = Head(cmds) /\ cmds' = Tail(cmds)
  BY DEF TypeOK, Next1
<1>2. /\ cmds' \in Seq(Reqs) /\ Len(cmds') = Len(cmds) - 1 /\ Len(cmds) \in Nat
      /\ \A i \in 1..Len(cmds') : cmds'[i] = cmds[i + 1]
  BY <1>1, HeadTailProperties, LenProperties
<1>3. r = cmds[1] /\ 1 \in 1..Len(cmds)
  BY <1>1, EmptySeq
<1>4. DOMAIN cmds = 1..Len(cmds) /\ DOMAIN cmds' = 1..Len(cmds')
  BY <1>1, <1>2, LenProperties
<1>5. r \in InQueue /\ InQueue' \subseteq InQueue
  BY <1>2, <1>3, <1>4 DEF InQueue
<1>6. ASSUME Queued PROVE r \notin InQueue'
  BY <1>2, <1>3, <1>4, <1>6 DEF InQueue, Queued
<1> QED BY <1>2, <1>5, <1>6

\* The next request is asked, its command queued or refused.
LEMMA AskedNext ==
  ASSUME TypeInv, NEW r \in Reqs, Fresh(r), code' = code,
         \A q \in Reqs : (kind'[q] # "none") = (q = r \/ kind[q] # "none"),
         Len(cmds') \in Nat, Len(cmds') <= Len(cmds) + 1
  PROVE  Counted'
<1> USE RequestsAssumption DEF Reqs
<1>1. PICK n \in 0..MaxRequests : /\ \A q \in Reqs : kind[q] # "none" <=> q <= n
                                  /\ code + Len(cmds) <= n
  BY DEF TypeInv, Counted
<1>2. r = n + 1
  <2>1. ~ r <= n
    BY <1>1 DEF Fresh
  <2>2. r = 1 \/ r - 1 \in 1..r-1
    OBVIOUS
  <2>3. r = 1 \/ r - 1 <= n
    BY <1>1, <2>2 DEF Fresh
  <2> QED BY <2>1, <2>3
<1>3. n + 1 \in 0..MaxRequests
  BY <1>2
<1>4. \A q \in Reqs : kind'[q] # "none" <=> q <= n + 1
  BY <1>1, <1>2
<1>5. code' + Len(cmds') <= n + 1
  BY <1>1 DEF TypeInv, TypeOK, Codes
<1> QED BY <1>3, <1>4, <1>5 DEF Counted

\* A return code goes out with a command; a connection starts again at 0.
LEMMA CodeNext ==
  ASSUME TypeInv, UNCHANGED kind, Len(cmds) \in Nat, Len(cmds') \in Nat, code' \in Nat,
         code' + Len(cmds') <= code + Len(cmds)
  PROVE  Counted'
<1>1. PICK n \in 0..MaxRequests : /\ \A q \in Reqs : kind[q] # "none" <=> q <= n
                                  /\ code + Len(cmds) <= n
  BY DEF TypeInv, Counted
<1>2. code' + Len(cmds') <= n
  BY <1>1 DEF TypeInv, TypeOK, Codes
<1> QED BY <1>1, <1>2 DEF Counted

\* What a request is does not change.
KindsKept == \A q \in Reqs : kind[q] # "none" => kind'[q] = kind[q]

\* COMMAND_TX gets the next request, or loses its head, or all.
QueueMoves ==
  \/ cmds' = cmds \/ cmds' = <<>> \/ \E r \in Reqs : Next1(r)
  \/ \E r \in Reqs : Fresh(r) /\ kind'[r] # "none" /\ cmds' = Append(cmds, r)

QueueKept ==
  cmds' \in Seq(Reqs) /\ Counted' /\ code' \in Nat /\ KindsKept /\ QueueMoves

\* The queue holds requests, and what has gone out of it is counted.
LEMMA QueueStep ==
  ASSUME TypeInv, [Next]_vars
  PROVE  cmds' \in Seq(Reqs) /\ Counted' /\ code' \in Codes /\ KindsKept /\ QueueMoves
<1> USE DEF KindsKept, QueueMoves, QueueKept
<1>0. cmds \in Seq(Reqs) /\ Len(cmds) \in Nat /\ code \in Nat /\ TypeOK /\ TypeInv
  <2>1. cmds \in Seq(Reqs) /\ code \in 0..MaxRequests /\ TypeOK
    BY DEF TypeInv, TypeOK, Codes
  <2>2. Len(cmds) \in Nat
    BY <2>1, LenProperties
  <2> QED BY <2>1, <2>2, RequestsAssumption
<1>a. SUFFICES cmds' \in Seq(Reqs) /\ Counted' /\ code' \in Nat /\ KindsKept /\ QueueMoves
  <2>1. \A s \in Seq(Reqs) : Len(s) \in Nat
    BY LenProperties
  <2> QED BY <2>1, RequestsAssumption DEF Counted, Codes
<1>1. ASSUME NEW r \in Reqs, AskPlain(r) PROVE QueueKept
  <2>1. kind' = [kind EXCEPT ![r] = "plain"] /\ Fresh(r) /\ cmds' = Append(cmds, r) /\ code' = code
    BY <1>1 DEF AskPlain, Queue, wire
  <2>2. cmds' \in Seq(Reqs) /\ Len(cmds') = Len(cmds) + 1
    BY <1>0, <2>1, AppendProperties
  <2>3. \A q \in Reqs : (kind'[q] # "none") = (q = r \/ kind[q] # "none")
    BY <1>0, <2>1 DEF TypeOK
  <2>4. \A q \in Reqs : kind[q] # "none" => kind'[q] = kind[q]
    BY <1>0, <2>1 DEF TypeOK, Fresh
  <2> QED BY <1>0, <2>1, <2>2, <2>3, <2>4, AskedNext
<1>2. ASSUME NEW r \in Reqs, AskMove(r) PROVE QueueKept
  <2>1. kind' = [kind EXCEPT ![r] = "move"] /\ Fresh(r) /\ cmds' = Append(cmds, r) /\ code' = code
    BY <1>2 DEF AskMove, Queue, wire
  <2>2. cmds' \in Seq(Reqs) /\ Len(cmds') = Len(cmds) + 1
    BY <1>0, <2>1, AppendProperties
  <2>3. \A q \in Reqs : (kind'[q] # "none") = (q = r \/ kind[q] # "none")
    BY <1>0, <2>1 DEF TypeOK
  <2>4. \A q \in Reqs : kind[q] # "none" => kind'[q] = kind[q]
    BY <1>0, <2>1 DEF TypeOK, Fresh
  <2> QED BY <1>0, <2>1, <2>2, <2>3, <2>4, AskedNext
<1>3. ASSUME NEW r \in Reqs, AskKick(r) PROVE QueueKept
  <2>1. kind' = [kind EXCEPT ![r] = "kick"] /\ Fresh(r) /\ cmds' = Append(cmds, r) /\ code' = code
    BY <1>3 DEF AskKick, Queue, wire
  <2>2. cmds' \in Seq(Reqs) /\ Len(cmds') = Len(cmds) + 1
    BY <1>0, <2>1, AppendProperties
  <2>3. \A q \in Reqs : (kind'[q] # "none") = (q = r \/ kind[q] # "none")
    BY <1>0, <2>1 DEF TypeOK
  <2>4. \A q \in Reqs : kind[q] # "none" => kind'[q] = kind[q]
    BY <1>0, <2>1 DEF TypeOK, Fresh
  <2> QED BY <1>0, <2>1, <2>2, <2>3, <2>4, AskedNext
<1>4. ASSUME NEW r \in Reqs, AskGroup(r) PROVE QueueKept
  <2>1. kind' = [kind EXCEPT ![r] = "group"] /\ Fresh(r) /\ cmds' = Append(cmds, r) /\ code' = code
    BY <1>4 DEF AskGroup, Queue, wire
  <2>2. cmds' \in Seq(Reqs) /\ Len(cmds') = Len(cmds) + 1
    BY <1>0, <2>1, AppendProperties
  <2>3. \A q \in Reqs : (kind'[q] # "none") = (q = r \/ kind[q] # "none")
    BY <1>0, <2>1 DEF TypeOK
  <2>4. \A q \in Reqs : kind[q] # "none" => kind'[q] = kind[q]
    BY <1>0, <2>1 DEF TypeOK, Fresh
  <2> QED BY <1>0, <2>1, <2>2, <2>3, <2>4, AskedNext
<1>5. ASSUME NEW r \in Reqs, AskOp(r) PROVE QueueKept
  <2>1. kind' = [kind EXCEPT ![r] = "op"] /\ Fresh(r) /\ cmds' = Append(cmds, r) /\ code' = code
    BY <1>5 DEF AskOp, Queue, wire
  <2>2. cmds' \in Seq(Reqs) /\ Len(cmds') = Len(cmds) + 1
    BY <1>0, <2>1, AppendProperties
  <2>3. \A q \in Reqs : (kind'[q] # "none") = (q = r \/ kind[q] # "none")
    BY <1>0, <2>1 DEF TypeOK
  <2>4. \A q \in Reqs : kind[q] # "none" => kind'[q] = kind[q]
    BY <1>0, <2>1 DEF TypeOK, Fresh
  <2> QED BY <1>0, <2>1, <2>2, <2>3, <2>4, AskedNext
<1>6. ASSUME NEW r \in Reqs, NEW d \in Dirs, AskList(r, d) PROVE QueueKept
  <2>1. kind' = [kind EXCEPT ![r] = "list"] /\ Fresh(r) /\ cmds' = Append(cmds, r) /\ code' = code
    BY <1>6 DEF AskList, Queue, wire
  <2>2. cmds' \in Seq(Reqs) /\ Len(cmds') = Len(cmds) + 1
    BY <1>0, <2>1, AppendProperties
  <2>3. \A q \in Reqs : (kind'[q] # "none") = (q = r \/ kind[q] # "none")
    BY <1>0, <2>1 DEF TypeOK
  <2>4. \A q \in Reqs : kind[q] # "none" => kind'[q] = kind[q]
    BY <1>0, <2>1 DEF TypeOK, Fresh
  <2> QED BY <1>0, <2>1, <2>2, <2>3, <2>4, AskedNext
<1>7. ASSUME NEW r \in Reqs, AskDownload(r) PROVE QueueKept
  <2>1. kind' = [kind EXCEPT ![r] = "down"] /\ Fresh(r) /\ cmds' = Append(cmds, r) /\ code' = code
    BY <1>7 DEF AskDownload, Queue, wire
  <2>2. cmds' \in Seq(Reqs) /\ Len(cmds') = Len(cmds) + 1
    BY <1>0, <2>1, AppendProperties
  <2>3. \A q \in Reqs : (kind'[q] # "none") = (q = r \/ kind[q] # "none")
    BY <1>0, <2>1 DEF TypeOK
  <2>4. \A q \in Reqs : kind[q] # "none" => kind'[q] = kind[q]
    BY <1>0, <2>1 DEF TypeOK, Fresh
  <2> QED BY <1>0, <2>1, <2>2, <2>3, <2>4, AskedNext
<1>8. ASSUME NEW r \in Reqs, AskUpload(r) PROVE QueueKept
  <2>1. kind' = [kind EXCEPT ![r] = "up"] /\ Fresh(r) /\ cmds' = Append(cmds, r) /\ code' = code
    BY <1>8 DEF AskUpload, Queue, wire
  <2>2. cmds' \in Seq(Reqs) /\ Len(cmds') = Len(cmds) + 1
    BY <1>0, <2>1, AppendProperties
  <2>3. \A q \in Reqs : (kind'[q] # "none") = (q = r \/ kind[q] # "none")
    BY <1>0, <2>1 DEF TypeOK
  <2>4. \A q \in Reqs : kind[q] # "none" => kind'[q] = kind[q]
    BY <1>0, <2>1 DEF TypeOK, Fresh
  <2> QED BY <1>0, <2>1, <2>2, <2>3, <2>4, AskedNext
<1>9. ASSUME NEW r \in Reqs, NEW k \in Transfers, AskLate(r, k) PROVE QueueKept
  <2>1. kind' = [kind EXCEPT ![r] = k] /\ Fresh(r) /\ cmds' = cmds /\ code' = code
    BY <1>9 DEF AskLate, wire
  <2>2. \A q \in Reqs : (kind'[q] # "none") = (q = r \/ kind[q] # "none")
    BY <1>0, <2>1 DEF TypeOK, Transfers
  <2>3. \A q \in Reqs : kind[q] # "none" => kind'[q] = kind[q]
    BY <1>0, <2>1 DEF TypeOK, Fresh
  <2> QED BY <1>0, <2>1, <2>2, <2>3, AskedNext
<1>10. ASSUME NEW r \in Reqs, Cancel(r) PROVE QueueKept
  BY <1>0, <1>10, CodeNext DEF Cancel, asking, wire
<1>11. ASSUME NEW r \in Reqs, SendKick(r) PROVE QueueKept
  <2>1. Next1(r) /\ UNCHANGED kind /\ (code' = code \/ code' = code + 1)
    BY <1>11 DEF SendKick, Track, Sent, asking, wire
  <2> QED BY <1>0, <2>1, Taken, CodeNext
<1>12. ASSUME NEW r \in Reqs, SendGroup(r) PROVE QueueKept
  <2>1. Next1(r) /\ UNCHANGED kind /\ (code' = code \/ code' = code + 1)
    BY <1>12 DEF SendGroup, Track, Sent, asking, wire
  <2> QED BY <1>0, <2>1, Taken, CodeNext
<1>13. ASSUME NEW r \in Reqs, RefuseKick(r) PROVE QueueKept
  <2>1. Next1(r) /\ UNCHANGED kind /\ (code' = code \/ code' = code + 1)
    BY <1>13 DEF RefuseKick, asking, wire
  <2> QED BY <1>0, <2>1, Taken, CodeNext
<1>14. ASSUME NEW r \in Reqs, SendMove(r) PROVE QueueKept
  <2>1. Next1(r) /\ UNCHANGED kind /\ (code' = code \/ code' = code + 1)
    BY <1>14 DEF SendMove, Sent, asking, wire
  <2> QED BY <1>0, <2>1, Taken, CodeNext
<1>15. ASSUME NEW r \in Reqs, SendPlain(r) PROVE QueueKept
  <2>1. Next1(r) /\ UNCHANGED kind /\ (code' = code \/ code' = code + 1)
    BY <1>15 DEF SendPlain, asking, wire
  <2> QED BY <1>0, <2>1, Taken, CodeNext
<1>16. ASSUME NEW r \in Reqs, SendOp(r) PROVE QueueKept
  <2>1. Next1(r) /\ UNCHANGED kind /\ (code' = code \/ code' = code + 1)
    BY <1>16 DEF SendOp, Sent, asking, wire
  <2> QED BY <1>0, <2>1, Taken, CodeNext
<1>17. ASSUME NEW r \in Reqs, SendList(r) PROVE QueueKept
  <2>1. Next1(r) /\ UNCHANGED kind /\ (code' = code \/ code' = code + 1)
    BY <1>17 DEF SendList, Sent, asking, wire
  <2> QED BY <1>0, <2>1, Taken, CodeNext
<1>18. ASSUME NEW r \in Reqs, SendTransfer(r) PROVE QueueKept
  <2>1. Next1(r) /\ UNCHANGED kind /\ (code' = code \/ code' = code + 1)
    BY <1>18 DEF SendTransfer, Sent, asking, wire
  <2> QED BY <1>0, <2>1, Taken, CodeNext
<1>19. ASSUME NEW r \in Reqs, SendFails(r) PROVE QueueKept
  <2>1. Next1(r) /\ UNCHANGED kind /\ (code' = code \/ code' = code + 1)
    BY <1>19 DEF SendFails, asking, wire
  <2> QED BY <1>0, <2>1, Taken, CodeNext
<1>20. ASSUME NEW r \in Reqs, TransferFails(r) PROVE QueueKept
  <2>1. Next1(r) /\ UNCHANGED kind /\ (code' = code \/ code' = code + 1)
    BY <1>20 DEF TransferFails, asking, wire
  <2> QED BY <1>0, <2>1, Taken, CodeNext
<1>21. ASSUME NEW r \in Reqs, WorkerCancels(r) PROVE QueueKept
  BY <1>0, <1>21, CodeNext DEF WorkerCancels, asking, wire
<1>22. ASSUME NEW r \in Reqs, GraceEnds(r) PROVE QueueKept
  BY <1>0, <1>22, CodeNext DEF GraceEnds, asking, wire
<1>23. ASSUME NEW r \in Reqs, NEW whole \in BOOLEAN, DownloadEnds(r, whole) PROVE QueueKept
  BY <1>0, <1>23, CodeNext DEF DownloadEnds, asking, wire
<1>24. ASSUME NEW r \in Reqs, NEW whole \in BOOLEAN, UploadSent(r, whole) PROVE QueueKept
  BY <1>0, <1>24, CodeNext DEF UploadSent, asking, wire
<1>25. ASSUME NEW r \in Reqs, NEW ok \in BOOLEAN, Opened(r, ok) PROVE QueueKept
  BY <1>0, <1>25, CodeNext DEF Opened, asking, wire
<1>26. ASSUME NEW r \in Reqs, NEW res \in {"ok", "err"}, ServerStatus(r, res) PROVE QueueKept
  BY <1>0, <1>26, CodeNext DEF ServerStatus, asking, wire
<1>27. CASE ServerAnswers
  BY <1>0, <1>27, CodeNext DEF ServerAnswers, asking, wire
<1>28. CASE Drop
  BY <1>0, <1>28, CodeNext DEF Drop, asking, wire
<1>29. CASE Reconnect
  BY <1>0, <1>29, CodeNext, EmptySeq DEF Reconnect, asking
<1>30. CASE End
  BY <1>0, <1>30, CodeNext, EmptySeq DEF End, asking
<1>31. CASE Connect
  BY <1>0, <1>31, CodeNext, EmptySeq DEF Connect, asking
<1>32. ASSUME NEW n \in 1..Len(net), Collect(n) PROVE QueueKept
  BY <1>0, <1>32, CodeNext DEF Collect, asking, wire
<1>33. CASE HandleResult
  BY <1>0, <1>33, CodeNext DEF HandleResult, asking, wire
<1>34. CASE HandleRows
  BY <1>0, <1>34, CodeNext DEF HandleRows, asking, wire
<1>35. CASE HandleFin
  BY <1>0, <1>35, CodeNext DEF HandleFin, asking, wire
<1>36. CASE HandleError
  BY <1>0, <1>36, CodeNext DEF HandleError, asking, wire
<1>37. CASE HandleStart
  BY <1>0, <1>37, CodeNext DEF HandleStart, asking, wire
<1>38. CASE HandleStatus
  BY <1>0, <1>38, CodeNext DEF HandleStatus, asking, wire
<1>39. CASE HandleDrop
  BY <1>0, <1>39, CodeNext DEF HandleDrop, asking, wire
<1>40. ASSUME NEW t \in timers, Fire(t) PROVE QueueKept
  BY <1>0, <1>40, CodeNext DEF Fire, asking, wire
<1>41. CASE UNCHANGED vars
  BY <1>0, <1>41, CodeNext DEF vars, asking, wire
<1> QED
  BY <1>1, <1>2, <1>3, <1>4, <1>5, <1>6, <1>7, <1>8, <1>9, <1>10, <1>11, <1>12, <1>13,
     <1>14, <1>15, <1>16, <1>17, <1>18, <1>19, <1>20, <1>21, <1>22, <1>23, <1>24,
     <1>25, <1>26, <1>27, <1>28, <1>29, <1>30, <1>31, <1>32, <1>33, <1>34, <1>35,
     <1>36, <1>37, <1>38, <1>39, <1>40, <1>41
  DEF Next, Ask, Execute, Worker, Handle

-----------------------------------------------------------------------------
(* What is under way. *)

\* The kind of a request that an item is about is fixed.
LEMMA SoundKept ==
  ASSUME TypeInv, KindsKept
  PROVE  Sound \subseteq Sound' /\ net \in Seq(Sound') /\ batch \in Seq(Sound')
<1>1. Sound \subseteq Sound'
  BY DEF Sound, KindsKept
<1> QED BY <1>1, SeqMonotonic DEF TypeInv

\* A command that is sent is one of Reqs under one of Codes.
LEMMA SentType ==
  ASSUME TypeInv, NEW r \in Reqs, Sent(r)
  PROVE  srv' \in Seq([of: Reqs, code: Codes])
<1>1. [of |-> r, code |-> code] \in [of: Reqs, code: Codes]
  BY DEF TypeInv, TypeOK
<1>2. srv \in Seq([of: Reqs, code: Codes])
  BY DEF TypeInv, TypeOK
<1>3. Append(srv, [of |-> r, code |-> code]) \in Seq([of: Reqs, code: Codes])
  BY <1>1, <1>2, AppendProperties
<1> QED BY <1>2, <1>3 DEF Sent

\* An item the server or tsclientlib puts on the stream.
LEMMA ItemSound ==
  ASSUME NEW type \in {"result", "rows", "fin", "start", "status", "drop"}, NEW key \in Nat,
         NEW res \in {"ok", "err", "empty"}, NEW r \in Reqs \cup {None},
         type \in {"result", "rows"} => key \in Codes
  PROVE  Item(type, key, res, r) \in Sound
BY DEF Item, Items, Sound

\* The answer to a listing is its result, rows and a marker; to all else a result.
LEMMA ReplyIn ==
  ASSUME NEW q, NEW res, NEW n \in Nat, NEW S, Item("result", q.code, res, q.of) \in S,
         Item("rows", q.code, "ok", q.of) \in S, Item("fin", dir[q.of], "ok", q.of) \in S
  PROVE  Reply(q, res, n) \in Seq(S)
<1> DEFINE rows == [i \in 1..n |-> Item("rows", q.code, "ok", q.of)]
           fin == <<Item("fin", dir[q.of], "ok", q.of)>>
           first == <<Item("result", q.code, res, q.of)>>
<1>1. rows \in Seq(S)
  BY SeqDef
<1>2. fin \in Seq(S) /\ first \in Seq(S) /\ <<>> \in Seq(S)
  OBVIOUS
<1> HIDE DEF rows, fin, first
<1>3. rows \o fin \in Seq(S)
  BY <1>1, <1>2, ConcatProperties
<1>4. first \o (rows \o fin) \in Seq(S) /\ first \o <<>> \in Seq(S)
  BY <1>2, <1>3, ConcatProperties
<1> QED BY <1>4 DEF Reply, rows, fin, first

\* All of it is what the handlers rely on.
LEMMA ReplySound ==
  ASSUME TypeInv, NEW q \in [of: Reqs, code: Codes], NEW res \in {"ok", "err", "empty"},
         NEW n \in Nat
  PROVE  Reply(q, res, n) \in Seq(Sound)
<1> USE RequestsAssumption
<1>1. q.of \in Reqs /\ q.code \in Codes /\ q.code \in Nat
  BY DEF Codes
<1>2. Item("result", q.code, res, q.of) \in Sound /\ Item("rows", q.code, "ok", q.of) \in Sound
  BY <1>1, ItemSound
<1>3. dir[q.of] \in Nat
  BY <1>1 DEF TypeInv, TypeOK
<1>4. Item("fin", dir[q.of], "ok", q.of) \in Sound
  BY <1>1, <1>3, ItemSound
<1> QED BY <1>2, <1>4, ReplyIn

\* The sequences of TypeOK.
WireTypes ==
  /\ srv \in Seq([of: Reqs, code: Codes]) /\ net \in Seq(Sound) /\ batch \in Seq(Sound)

\* The sequences hold what their readers rely on.
LEMMA WireStep ==
  ASSUME TypeInv, [Next]_vars PROVE WireTypes'
<1>0. /\ KindsKept /\ Sound \subseteq Sound'
      /\ net \in Seq(Sound') /\ batch \in Seq(Sound')
      /\ srv \in Seq([of: Reqs, code: Codes]) /\ TypeInv
  BY QueueStep, SoundKept DEF TypeInv, TypeOK
<1> USE DEF WireTypes
<1>1. ASSUME NEW r \in Reqs, AskPlain(r) PROVE WireTypes'
  BY <1>0, <1>1 DEF AskPlain, wire, Queue
<1>2. ASSUME NEW r \in Reqs, AskMove(r) PROVE WireTypes'
  BY <1>0, <1>2 DEF AskMove, wire, Queue
<1>3. ASSUME NEW r \in Reqs, AskKick(r) PROVE WireTypes'
  BY <1>0, <1>3 DEF AskKick, wire, Queue
<1>4. ASSUME NEW r \in Reqs, AskGroup(r) PROVE WireTypes'
  BY <1>0, <1>4 DEF AskGroup, wire, Queue
<1>5. ASSUME NEW r \in Reqs, AskOp(r) PROVE WireTypes'
  BY <1>0, <1>5 DEF AskOp, wire, Queue
<1>6. ASSUME NEW r \in Reqs, NEW d \in Dirs, AskList(r, d) PROVE WireTypes'
  BY <1>0, <1>6 DEF AskList, wire, Queue
<1>7. ASSUME NEW r \in Reqs, AskDownload(r) PROVE WireTypes'
  BY <1>0, <1>7 DEF AskDownload, wire, Queue
<1>8. ASSUME NEW r \in Reqs, AskUpload(r) PROVE WireTypes'
  BY <1>0, <1>8 DEF AskUpload, wire, Queue
<1>9. ASSUME NEW r \in Reqs, NEW k \in Transfers, AskLate(r, k) PROVE WireTypes'
  BY <1>0, <1>9 DEF AskLate, wire
<1>10. ASSUME NEW r \in Reqs, Cancel(r) PROVE WireTypes'
  BY <1>0, <1>10 DEF Cancel, wire
<1>11. ASSUME NEW r \in Reqs, SendKick(r) PROVE WireTypes'
  BY <1>0, <1>11, SentType DEF SendKick, Track, Sent
<1>12. ASSUME NEW r \in Reqs, SendGroup(r) PROVE WireTypes'
  BY <1>0, <1>12, SentType DEF SendGroup, Track, Sent
<1>13. ASSUME NEW r \in Reqs, RefuseKick(r) PROVE WireTypes'
  BY <1>0, <1>13 DEF RefuseKick, wire
<1>14. ASSUME NEW r \in Reqs, SendMove(r) PROVE WireTypes'
  BY <1>0, <1>14, SentType DEF SendMove, Sent, wire
<1>15. ASSUME NEW r \in Reqs, SendPlain(r) PROVE WireTypes'
  <2>1. [type |-> "error", key |-> 0, res |-> "err", of |-> r] \in Sound
    BY <1>15 DEF SendPlain, Sound, Items
  <2>2. Append(net, [type |-> "error", key |-> 0, res |-> "err", of |-> r]) \in Seq(Sound')
    BY <1>0, <2>1, AppendProperties
  <2>3. net' \in Seq(Sound')
    BY <1>0, <2>2, <1>15 DEF SendPlain
  <2> QED BY <1>0, <2>3, <1>15 DEF SendPlain
<1>16. ASSUME NEW r \in Reqs, SendOp(r) PROVE WireTypes'
  BY <1>0, <1>16, SentType DEF SendOp, Sent, wire
<1>17. ASSUME NEW r \in Reqs, SendList(r) PROVE WireTypes'
  BY <1>0, <1>17, SentType DEF SendList, Sent, wire
<1>18. ASSUME NEW r \in Reqs, SendTransfer(r) PROVE WireTypes'
  BY <1>0, <1>18, SentType DEF SendTransfer, Sent, wire
<1>19. ASSUME NEW r \in Reqs, SendFails(r) PROVE WireTypes'
  BY <1>0, <1>19 DEF SendFails, wire
<1>20. ASSUME NEW r \in Reqs, TransferFails(r) PROVE WireTypes'
  BY <1>0, <1>20 DEF TransferFails, wire
<1>21. ASSUME NEW r \in Reqs, WorkerCancels(r) PROVE WireTypes'
  BY <1>0, <1>21 DEF WorkerCancels, wire
<1>22. ASSUME NEW r \in Reqs, GraceEnds(r) PROVE WireTypes'
  BY <1>0, <1>22 DEF GraceEnds, wire
<1>23. ASSUME NEW r \in Reqs, NEW whole \in BOOLEAN, DownloadEnds(r, whole) PROVE WireTypes'
  BY <1>0, <1>23 DEF DownloadEnds, wire
<1>24. ASSUME NEW r \in Reqs, NEW whole \in BOOLEAN, UploadSent(r, whole) PROVE WireTypes'
  BY <1>0, <1>24 DEF UploadSent, wire
<1>25. ASSUME NEW r \in Reqs, NEW ok \in BOOLEAN, Opened(r, ok) PROVE WireTypes'
  <2>1. ftid[r] \in Nat
    BY <1>0, RequestsAssumption DEF TypeInv, TypeOK
  <2>2. PICK m \in Sound : net' = Append(net, m)
    BY <2>1, <1>25, ItemSound DEF Opened
  <2>3. net' \in Seq(Sound')
    BY <1>0, <2>2, AppendProperties
  <2> QED BY <1>0, <2>3, <1>25 DEF Opened
<1>26. ASSUME NEW r \in Reqs, NEW res \in {"ok", "err"}, ServerStatus(r, res) PROVE WireTypes'
  <2>1. ftid[r] \in Nat
    BY <1>0, RequestsAssumption DEF TypeInv, TypeOK
  <2>2. PICK m \in Sound : net' = Append(net, m)
    BY <2>1, <1>26, ItemSound DEF ServerStatus
  <2>3. net' \in Seq(Sound')
    BY <1>0, <2>2, AppendProperties
  <2> QED BY <1>0, <2>3, <1>26 DEF ServerStatus
<1>27. CASE ServerAnswers
  <2> DEFINE q == Head(srv)
  <2>1. q \in [of: Reqs, code: Codes] /\ srv' \in Seq([of: Reqs, code: Codes])
    BY <1>0, <1>27, HeadTailProperties DEF ServerAnswers
  <2>2. PICK res \in {"ok", "err", "empty"}, n \in Nat :
                 net' = net \/ net' = net \o Reply(q, res, n)
    <3>1. \A k \in 0..MaxFrames : k \in Nat
      BY RequestsAssumption
    <3> QED BY <3>1, <1>27 DEF ServerAnswers
  <2>3. Reply(q, res, n) \in Seq(Sound)
    BY <1>0, <2>1, ReplySound
  <2>4. Reply(q, res, n) \in Seq(Sound')
    BY <1>0, <2>3, SeqMonotonic
  <2>5. net' \in Seq(Sound')
    BY <1>0, <2>2, <2>4, ConcatProperties
  <2> QED BY <1>0, <2>1, <2>5, <1>27 DEF ServerAnswers
<1>28. CASE Drop
  <2>1. PICK n \in 0..Len(net) : net' = Append(SubSeq(net, 1, n), Item("drop", 0, "ok", None))
    BY <1>28 DEF Drop
  <2>2. Len(net) \in Nat /\ \A i \in 1..n : net[i] \in Sound'
    BY <1>0, LenProperties, ElementOfSeq
  <2>3. SubSeq(net, 1, n) \in Seq(Sound')
    BY <2>1, <2>2, SubSeqProperties
  <2>4. Item("drop", 0, "ok", None) \in Sound'
    BY <1>0, ItemSound
  <2>5. net' \in Seq(Sound')
    BY <2>1, <2>3, <2>4, AppendProperties
  <2> QED BY <1>0, <2>5, <1>28, EmptySeq DEF Drop
<1>29. CASE Reconnect
  BY <1>0, <1>29 DEF Reconnect, wire
<1>30. CASE End
  BY <1>0, <1>30, EmptySeq DEF End
<1>31. CASE Connect
  BY <1>0, <1>31 DEF Connect, wire
<1>32. ASSUME NEW n \in 1..Len(net), Collect(n) PROVE WireTypes'
  <2>1. Len(net) \in Nat /\ \A i \in 1..Len(net) : net[i] \in Sound'
    BY <1>0, LenProperties, ElementOfSeq
  <2>2. SubSeq(net, 2, n) \in Seq(Sound')
    BY <2>1, SubSeqProperties
  <2>3. SubSeq(net, n + 1, Len(net)) \in Seq(Sound')
    BY <2>1, SubSeqProperties
  <2>4. Append(SubSeq(net, 2, n), net[1]) \in Seq(Sound')
    BY <2>1, <2>2, AppendProperties
  <2> QED BY <1>0, <2>3, <2>4, <1>32 DEF Collect
<1>33. CASE HandleResult
  <2>1. batch # <<>> /\ batch' = Tail(batch)
    BY <1>33 DEF HandleResult, Handling, Schedule
  <2> QED BY <1>0, <2>1, <1>33, HeadTailProperties DEF HandleResult
<1>34. CASE HandleRows
  <2>1. batch # <<>> /\ batch' = Tail(batch)
    BY <1>34 DEF HandleRows, Handling, Handled
  <2> QED BY <1>0, <2>1, <1>34, HeadTailProperties DEF HandleRows
<1>35. CASE HandleFin
  <2>1. batch # <<>> /\ batch' = Tail(batch)
    BY <1>35 DEF HandleFin, Handling, Schedule
  <2> QED BY <1>0, <2>1, <1>35, HeadTailProperties DEF HandleFin
<1>36. CASE HandleError
  <2>1. batch # <<>> /\ batch' = Tail(batch)
    BY <1>36 DEF HandleError, Handling, Handled
  <2> QED BY <1>0, <2>1, <1>36, HeadTailProperties DEF HandleError
<1>37. CASE HandleStart
  <2>1. batch # <<>> /\ batch' = Tail(batch)
    BY <1>37 DEF HandleStart, Handling, Handled
  <2> QED BY <1>0, <2>1, <1>37, HeadTailProperties DEF HandleStart
<1>38. CASE HandleStatus
  <2>1. batch # <<>> /\ batch' = Tail(batch)
    BY <1>38 DEF HandleStatus, Handling, Handled
  <2> QED BY <1>0, <2>1, <1>38, HeadTailProperties DEF HandleStatus
<1>39. CASE HandleDrop
  <2>1. batch # <<>> /\ batch' = Tail(batch)
    BY <1>39 DEF HandleDrop, Handling, Handled
  <2> QED BY <1>0, <2>1, <1>39, HeadTailProperties DEF HandleDrop
<1>40. ASSUME NEW t \in timers, Fire(t) PROVE WireTypes'
  BY <1>0, <1>40 DEF Fire, wire
<1>41. CASE UNCHANGED vars
  BY <1>0, <1>41 DEF vars, wire
<1> QED
  BY <1>1, <1>2, <1>3, <1>4, <1>5, <1>6, <1>7, <1>8, <1>9, <1>10, <1>11, <1>12, <1>13,
     <1>14, <1>15, <1>16, <1>17, <1>18, <1>19, <1>20, <1>21, <1>22, <1>23, <1>24,
     <1>25, <1>26, <1>27, <1>28, <1>29, <1>30, <1>31, <1>32, <1>33, <1>34, <1>35,
     <1>36, <1>37, <1>38, <1>39, <1>40, <1>41
  DEF Next, Ask, Execute, Worker, Handle

-----------------------------------------------------------------------------
(* Listings, timers and answers. *)

\* The item that is handled.
LEMMA FirstSound == TypeInv /\ batch # <<>> => Item1 \in Sound /\ Tail(batch) \in Seq(Sound)
BY HeadTailProperties DEF TypeInv, Item1

\* The listings of TypeOK and their timers.
ListTypes == ftLists \in [Codes -> Lists] /\ timers \subseteq Timers

\* A listing that is scheduled is a listing, its timer a timer.
LEMMA ScheduleTypes ==
  ASSUME TypeInv, NEW C, C \subseteq Codes, NEW lists \in [Codes -> Lists], batch # <<>>,
         Schedule(C, lists)
  PROVE  ListTypes'
<1>1. Waiting \in Nat
  <2>1. Len(Tail(batch)) \in Nat /\ Len(net) \in Nat
    BY FirstSound, LenProperties DEF TypeInv
  <2> QED BY <2>1 DEF Waiting
<1>2. conn \in Conns /\ timers \subseteq Timers
  BY DEF TypeInv, TypeOK
<1>3. {[u EXCEPT !.left = IF u.left = 0 THEN 0 ELSE u.left - 1] : u \in timers} \subseteq Timers
  BY <1>2 DEF Timers
<1> DEFINE new == {c \in C : lists[c].of # None /\ ~lists[c].scheduled}
<1>4. {[code |-> c, conn |-> conn, left |-> Waiting] : c \in new} \subseteq Timers
  BY <1>1, <1>2 DEF Timers
<1>5. timers' \subseteq Timers
  BY <1>3, <1>4 DEF Schedule
<1>6. \A c \in Codes : [lists[c] EXCEPT !.scheduled = TRUE] \in Lists
  BY DEF Lists
<1>7. ftLists' \in [Codes -> Lists]
  BY <1>6 DEF Schedule
<1> QED BY <1>5, <1>7 DEF ListTypes

\* FT_LISTS and the sleeping timers keep their types.
LEMMA ListStep ==
  ASSUME TypeInv, [Next]_vars PROVE ListTypes'
<1>0. ftLists \in [Codes -> Lists] /\ timers \subseteq Timers /\ conn \in Conns /\ TypeInv
  BY DEF TypeInv, TypeOK
<1>a. NoList \in Lists
  BY RequestsAssumption DEF NoList, Lists, None
<1>b. {[u EXCEPT !.left = IF u.left = 0 THEN 0 ELSE u.left - 1] : u \in timers} \subseteq Timers
  BY <1>0 DEF Timers
<1> USE DEF ListTypes
<1>1. ASSUME NEW r \in Reqs, AskPlain(r) PROVE ListTypes'
  BY <1>0, <1>1 DEF AskPlain, Queue, tables
<1>2. ASSUME NEW r \in Reqs, AskMove(r) PROVE ListTypes'
  BY <1>0, <1>2 DEF AskMove, Queue, tables
<1>3. ASSUME NEW r \in Reqs, AskKick(r) PROVE ListTypes'
  BY <1>0, <1>3 DEF AskKick, Queue, tables
<1>4. ASSUME NEW r \in Reqs, AskGroup(r) PROVE ListTypes'
  BY <1>0, <1>4 DEF AskGroup, Queue, tables
<1>5. ASSUME NEW r \in Reqs, AskOp(r) PROVE ListTypes'
  BY <1>0, <1>5 DEF AskOp, Queue, tables
<1>6. ASSUME NEW r \in Reqs, NEW d \in Dirs, AskList(r, d) PROVE ListTypes'
  BY <1>0, <1>6 DEF AskList, Queue, tables
<1>7. ASSUME NEW r \in Reqs, AskDownload(r) PROVE ListTypes'
  BY <1>0, <1>7 DEF AskDownload, Queue, tables
<1>8. ASSUME NEW r \in Reqs, AskUpload(r) PROVE ListTypes'
  BY <1>0, <1>8 DEF AskUpload, Queue, tables
<1>9. ASSUME NEW r \in Reqs, NEW k \in Transfers, AskLate(r, k) PROVE ListTypes'
  BY <1>0, <1>9 DEF AskLate, tables
<1>10. ASSUME NEW r \in Reqs, Cancel(r) PROVE ListTypes'
  BY <1>0, <1>10 DEF Cancel, tables
<1>11. ASSUME NEW r \in Reqs, SendKick(r) PROVE ListTypes'
  BY <1>0, <1>11 DEF SendKick, Track, tables
<1>12. ASSUME NEW r \in Reqs, SendGroup(r) PROVE ListTypes'
  BY <1>0, <1>12 DEF SendGroup, Track, tables
<1>13. ASSUME NEW r \in Reqs, RefuseKick(r) PROVE ListTypes'
  BY <1>0, <1>13 DEF RefuseKick, tables
<1>14. ASSUME NEW r \in Reqs, SendMove(r) PROVE ListTypes'
  BY <1>0, <1>14 DEF SendMove, tables
<1>15. ASSUME NEW r \in Reqs, SendPlain(r) PROVE ListTypes'
  BY <1>0, <1>15 DEF SendPlain, tables
<1>16. ASSUME NEW r \in Reqs, SendOp(r) PROVE ListTypes'
  BY <1>0, <1>16 DEF SendOp, tables
<1>17. ASSUME NEW r \in Reqs, SendList(r) PROVE ListTypes'
  <2>1. [NoList EXCEPT !.of = r] \in Lists
    BY <1>a DEF Lists
  <2> QED BY <1>0, <1>a, <2>1, <1>17 DEF SendList
<1>18. ASSUME NEW r \in Reqs, SendTransfer(r) PROVE ListTypes'
  BY <1>0, <1>18 DEF SendTransfer, tables
<1>19. ASSUME NEW r \in Reqs, SendFails(r) PROVE ListTypes'
  BY <1>0, <1>19 DEF SendFails, tables
<1>20. ASSUME NEW r \in Reqs, TransferFails(r) PROVE ListTypes'
  BY <1>0, <1>20 DEF TransferFails, tables
<1>21. ASSUME NEW r \in Reqs, WorkerCancels(r) PROVE ListTypes'
  BY <1>0, <1>21 DEF WorkerCancels, tables
<1>22. ASSUME NEW r \in Reqs, GraceEnds(r) PROVE ListTypes'
  BY <1>0, <1>22 DEF GraceEnds, tables
<1>23. ASSUME NEW r \in Reqs, NEW whole \in BOOLEAN, DownloadEnds(r, whole) PROVE ListTypes'
  BY <1>0, <1>23 DEF DownloadEnds, tables
<1>24. ASSUME NEW r \in Reqs, NEW whole \in BOOLEAN, UploadSent(r, whole) PROVE ListTypes'
  BY <1>0, <1>24 DEF UploadSent, tables
<1>25. ASSUME NEW r \in Reqs, NEW ok \in BOOLEAN, Opened(r, ok) PROVE ListTypes'
  BY <1>0, <1>25 DEF Opened, tables
<1>26. ASSUME NEW r \in Reqs, NEW res \in {"ok", "err"}, ServerStatus(r, res) PROVE ListTypes'
  BY <1>0, <1>26 DEF ServerStatus, tables
<1>27. CASE ServerAnswers
  BY <1>0, <1>27 DEF ServerAnswers, tables
<1>28. CASE Drop
  BY <1>0, <1>28 DEF Drop, tables
<1>29. CASE Reconnect
  BY <1>0, <1>29 DEF Reconnect, tables
<1>30. CASE End
  BY <1>0, <1>a, <1>30 DEF End
<1>31. CASE Connect
  BY <1>0, <1>31 DEF Connect, tables
<1>32. ASSUME NEW n \in 1..Len(net), Collect(n) PROVE ListTypes'
  BY <1>0, <1>32 DEF Collect, tables
<1>33. CASE HandleResult
  <2> DEFINE c == Item1.key
             lists == IF ftLists[c].of = None THEN ftLists ELSE [ftLists EXCEPT ![c].res = Item1.res]
  <2>1. batch # <<>> /\ Item1.type = "result"
    BY <1>33 DEF HandleResult, Handling, Item1
  <2>2. c \in Codes /\ Item1.res \in {"ok", "err", "empty"}
    BY <1>0, <2>1, FirstSound DEF Sound, Items
  <2>3. [ftLists[c] EXCEPT !.res = Item1.res] \in Lists
    BY <1>0, <2>2 DEF Lists
  <2>4. lists \in [Codes -> Lists]
    BY <1>0, <2>2, <2>3
  <2>5. PICK C \in SUBSET Codes : Schedule(C, lists)
    BY <1>33, <2>2 DEF HandleResult
  <2> QED BY <1>0, <2>1, <2>4, <2>5, ScheduleTypes
<1>34. CASE HandleRows
  <2> DEFINE c == Item1.key
  <2>1. c \in Codes
    BY <1>0, <1>34, FirstSound DEF HandleRows, Handling, Item1, Sound
  <2>2. ftLists[c].rows = MaxFrames \/ [ftLists[c] EXCEPT !.rows = ftLists[c].rows + 1] \in Lists
    BY <1>0, <2>1, RequestsAssumption DEF Lists
  <2>3. ftLists' \in [Codes -> Lists]
    BY <1>0, <2>1, <2>2, <1>34 DEF HandleRows
  <2> QED BY <1>b, <2>3, <1>34 DEF HandleRows, Handled
<1>35. CASE HandleFin
  <2> DEFINE C == {c \in Codes : /\ ftLists[c].of # None /\ dir[ftLists[c].of] = Item1.key
                                 /\ ~ftLists[c].finished}
             lists == [c \in Codes |-> IF c \in C THEN [ftLists[c] EXCEPT !.finished = TRUE]
                                       ELSE ftLists[c]]
  <2>1. \A c \in Codes : [ftLists[c] EXCEPT !.finished = TRUE] \in Lists
    BY <1>0 DEF Lists
  <2>2. lists \in [Codes -> Lists]
    BY <1>0, <2>1
  <2>3. batch # <<>> /\ Schedule(C, lists)
    BY <1>35 DEF HandleFin, Handling
  <2> QED BY <1>0, <2>2, <2>3, ScheduleTypes
<1>36. CASE HandleError
  BY <1>0, <1>b, <1>36 DEF HandleError, Handled
<1>37. CASE HandleStart
  BY <1>0, <1>b, <1>37 DEF HandleStart, Handled
<1>38. CASE HandleStatus
  BY <1>0, <1>b, <1>38 DEF HandleStatus, Handled
<1>39. CASE HandleDrop
  BY <1>a, <1>b, <1>39 DEF HandleDrop, Handled
<1>40. ASSUME NEW t \in timers, Fire(t) PROVE ListTypes'
  BY <1>0, <1>a, <1>40 DEF Fire
<1>41. CASE UNCHANGED vars
  BY <1>0, <1>41 DEF vars, tables
<1> QED
  BY <1>1, <1>2, <1>3, <1>4, <1>5, <1>6, <1>7, <1>8, <1>9, <1>10, <1>11, <1>12, <1>13,
     <1>14, <1>15, <1>16, <1>17, <1>18, <1>19, <1>20, <1>21, <1>22, <1>23, <1>24,
     <1>25, <1>26, <1>27, <1>28, <1>29, <1>30, <1>31, <1>32, <1>33, <1>34, <1>35,
     <1>36, <1>37, <1>38, <1>39, <1>40, <1>41
  DEF Next, Ask, Execute, Worker, Handle

\* The wordings of events.
Whats == {"ok", "err", "lost", "refused", "unsent", "rejected"}

\* Events are events.
LEMMA AnswerType ==
  ASSUME TypeInv, NEW what \in Whats, NEW rows \in 0..MaxFrames
  PROVE  Answer(what, rows) \in Answers
BY DEF TypeInv, TypeOK, Answer, Answers, Whats

\* Events are pushed for requests that exist.
LEMMA TellType ==
  ASSUME TypeInv, NEW R, NEW what \in Whats, Tell(R, what)
  PROVE  answers' \in [Reqs -> Seq(Answers)]
<1>1. Answer(what, 0) \in Answers
  BY AnswerType, RequestsAssumption
<1>2. \A r \in Reqs : Append(answers[r], Answer(what, 0)) \in Seq(Answers)
  BY <1>1, AppendProperties DEF TypeInv, TypeOK
<1> QED BY <1>2 DEF TypeInv, TypeOK, Tell

\* The events pushed for a request are answers.
LEMMA AnswerStep ==
  ASSUME TypeInv, [Next]_vars PROVE answers' \in [Reqs -> Seq(Answers)]
<1>0. answers \in [Reqs -> Seq(Answers)] /\ TypeInv
  BY DEF TypeInv, TypeOK
<1> USE DEF Whats
<1>1. ASSUME NEW r \in Reqs, AskPlain(r) PROVE answers' \in [Reqs -> Seq(Answers)]
  BY <1>0, <1>1 DEF AskPlain, Queue
<1>2. ASSUME NEW r \in Reqs, AskMove(r) PROVE answers' \in [Reqs -> Seq(Answers)]
  BY <1>0, <1>2 DEF AskMove, Queue
<1>3. ASSUME NEW r \in Reqs, AskKick(r) PROVE answers' \in [Reqs -> Seq(Answers)]
  BY <1>0, <1>3 DEF AskKick, Queue
<1>4. ASSUME NEW r \in Reqs, AskGroup(r) PROVE answers' \in [Reqs -> Seq(Answers)]
  BY <1>0, <1>4 DEF AskGroup, Queue
<1>5. ASSUME NEW r \in Reqs, AskOp(r) PROVE answers' \in [Reqs -> Seq(Answers)]
  BY <1>0, <1>5 DEF AskOp, Queue
<1>6. ASSUME NEW r \in Reqs, NEW d \in Dirs, AskList(r, d)
      PROVE answers' \in [Reqs -> Seq(Answers)]
  BY <1>0, <1>6 DEF AskList, Queue
<1>7. ASSUME NEW r \in Reqs, AskDownload(r) PROVE answers' \in [Reqs -> Seq(Answers)]
  BY <1>0, <1>7 DEF AskDownload, Queue
<1>8. ASSUME NEW r \in Reqs, AskUpload(r) PROVE answers' \in [Reqs -> Seq(Answers)]
  BY <1>0, <1>8 DEF AskUpload, Queue
<1>9. ASSUME NEW r \in Reqs, NEW k \in Transfers, AskLate(r, k)
      PROVE answers' \in [Reqs -> Seq(Answers)]
  BY <1>0, <1>9, TellType DEF AskLate
<1>10. ASSUME NEW r \in Reqs, Cancel(r) PROVE answers' \in [Reqs -> Seq(Answers)]
  BY <1>0, <1>10 DEF Cancel
<1>11. ASSUME NEW r \in Reqs, SendKick(r) PROVE answers' \in [Reqs -> Seq(Answers)]
  BY <1>0, <1>11 DEF SendKick, Track
<1>12. ASSUME NEW r \in Reqs, SendGroup(r) PROVE answers' \in [Reqs -> Seq(Answers)]
  BY <1>0, <1>12 DEF SendGroup, Track
<1>13. ASSUME NEW r \in Reqs, RefuseKick(r) PROVE answers' \in [Reqs -> Seq(Answers)]
  BY <1>0, <1>13, TellType DEF RefuseKick
<1>14. ASSUME NEW r \in Reqs, SendMove(r) PROVE answers' \in [Reqs -> Seq(Answers)]
  BY <1>0, <1>14 DEF SendMove
<1>15. ASSUME NEW r \in Reqs, SendPlain(r) PROVE answers' \in [Reqs -> Seq(Answers)]
  BY <1>0, <1>15 DEF SendPlain
<1>16. ASSUME NEW r \in Reqs, SendOp(r) PROVE answers' \in [Reqs -> Seq(Answers)]
  BY <1>0, <1>16 DEF SendOp
<1>17. ASSUME NEW r \in Reqs, SendList(r) PROVE answers' \in [Reqs -> Seq(Answers)]
  BY <1>0, <1>17 DEF SendList
<1>18. ASSUME NEW r \in Reqs, SendTransfer(r) PROVE answers' \in [Reqs -> Seq(Answers)]
  BY <1>0, <1>18 DEF SendTransfer
<1>19. ASSUME NEW r \in Reqs, SendFails(r) PROVE answers' \in [Reqs -> Seq(Answers)]
  BY <1>0, <1>19, TellType DEF SendFails
<1>20. ASSUME NEW r \in Reqs, TransferFails(r) PROVE answers' \in [Reqs -> Seq(Answers)]
  BY <1>0, <1>20, TellType DEF TransferFails, FinishTasks
<1>21. ASSUME NEW r \in Reqs, WorkerCancels(r) PROVE answers' \in [Reqs -> Seq(Answers)]
  BY <1>0, <1>21, TellType DEF WorkerCancels, FinishTasks
<1>22. ASSUME NEW r \in Reqs, GraceEnds(r) PROVE answers' \in [Reqs -> Seq(Answers)]
  BY <1>0, <1>22, TellType DEF GraceEnds, FinishTasks
<1>23. ASSUME NEW r \in Reqs, NEW whole \in BOOLEAN, DownloadEnds(r, whole)
       PROVE answers' \in [Reqs -> Seq(Answers)]
  BY <1>0, <1>23, TellType DEF DownloadEnds, FinishTasks
<1>24. ASSUME NEW r \in Reqs, NEW whole \in BOOLEAN, UploadSent(r, whole)
       PROVE answers' \in [Reqs -> Seq(Answers)]
  BY <1>0, <1>24, TellType DEF UploadSent, FinishTasks
<1>25. ASSUME NEW r \in Reqs, NEW ok \in BOOLEAN, Opened(r, ok)
       PROVE answers' \in [Reqs -> Seq(Answers)]
  BY <1>0, <1>25 DEF Opened
<1>26. ASSUME NEW r \in Reqs, NEW res \in {"ok", "err"}, ServerStatus(r, res)
       PROVE answers' \in [Reqs -> Seq(Answers)]
  BY <1>0, <1>26 DEF ServerStatus
<1>27. CASE ServerAnswers
  BY <1>0, <1>27 DEF ServerAnswers
<1>28. CASE Drop
  BY <1>0, <1>28 DEF Drop
<1>29. CASE Reconnect
  BY <1>0, <1>29 DEF Reconnect
<1>30. CASE End
  BY <1>0, <1>30 DEF End
<1>31. CASE Connect
  BY <1>0, <1>31 DEF Connect
<1>32. ASSUME NEW n \in 1..Len(net), Collect(n) PROVE answers' \in [Reqs -> Seq(Answers)]
  BY <1>0, <1>32 DEF Collect
<1>33. CASE HandleResult
  BY <1>0, <1>33, TellType DEF HandleResult
<1>34. CASE HandleRows
  BY <1>0, <1>34 DEF HandleRows
<1>35. CASE HandleFin
  BY <1>0, <1>35 DEF HandleFin
<1>36. CASE HandleError
  BY <1>0, <1>36, TellType DEF HandleError
<1>37. CASE HandleStart
  BY <1>0, <1>37 DEF HandleStart
<1>38. CASE HandleStatus
  BY <1>0, <1>38, TellType DEF HandleStatus, FinishTasks
<1>39. CASE HandleDrop
  BY <1>0, <1>39, TellType DEF HandleDrop
<1>40. ASSUME NEW t \in timers, Fire(t) PROVE answers' \in [Reqs -> Seq(Answers)]
  <2> DEFINE l == ftLists[t.code]
             w == IF l.res = "err" THEN "err" ELSE "ok"
  <2>1. l \in Lists
    BY <1>0, <1>40 DEF Fire, TypeInv, TypeOK, Timers
  <2>2. Answer(w, l.rows) \in Answers
    BY <1>0, <2>1, AnswerType DEF Lists
  <2>3. l.of = None \/ l.of \in Reqs
    BY <2>1 DEF Lists
  <2>4. l.of \in Reqs => Append(answers[l.of], Answer(w, l.rows)) \in Seq(Answers)
    BY <1>0, <2>2, AppendProperties
  <2> QED BY <1>0, <2>3, <2>4, <1>40 DEF Fire
<1>41. CASE UNCHANGED vars
  BY <1>0, <1>41 DEF vars
<1> QED
  BY <1>1, <1>2, <1>3, <1>4, <1>5, <1>6, <1>7, <1>8, <1>9, <1>10, <1>11, <1>12, <1>13,
     <1>14, <1>15, <1>16, <1>17, <1>18, <1>19, <1>20, <1>21, <1>22, <1>23, <1>24,
     <1>25, <1>26, <1>27, <1>28, <1>29, <1>30, <1>31, <1>32, <1>33, <1>34, <1>35,
     <1>36, <1>37, <1>38, <1>39, <1>40, <1>41
  DEF Next, Ask, Execute, Worker, Handle

\* Nothing is asked and the tables are empty.
LEMMA TypeInit == Init => TypeInv
<1> SUFFICES ASSUME Init PROVE TypeInv
  OBVIOUS
<1> USE RequestsAssumption DEF Init
<1>1. AnyDir \in Dirs
  BY DEF AnyDir
<1>2. PlainTypes
  BY <1>1 DEF PlainTypes, Conns, Placeholder, None
<1>3. ListTypes
  BY DEF ListTypes, Lists, NoList, None
<1>4. answers \in [Reqs -> Seq(Answers)]
  BY EmptySeq
<1>5. cmds \in Seq(Reqs) /\ code \in Codes /\ WireTypes
  BY EmptySeq DEF Codes, WireTypes
<1>6. Counted
  <2>1. \A r \in Reqs : ~ r <= 0
    BY DEF Reqs
  <2>2. code + Len(cmds) <= 0
    BY EmptySeq
  <2>3. 0 \in 0..MaxRequests /\ \A r \in Reqs : kind[r] # "none" <=> r <= 0
    BY <2>1
  <2> QED BY <2>2, <2>3 DEF Counted
<1>7. Room
  BY DEF Room
<1>8. Sound \subseteq Items
  BY DEF Sound
<1> HIDE DEF Init
<1>9. TypeOK
  BY <1>2, <1>3, <1>4, <1>5, <1>8, SeqMonotonic DEF PlainTypes, ListTypes, WireTypes, TypeOK
<1> QED BY <1>5, <1>6, <1>7, <1>9 DEF TypeInv, WireTypes

\* Every step keeps the types.
LEMMA TypeStep == TypeInv /\ [Next]_vars => TypeInv'
<1> SUFFICES ASSUME TypeInv, [Next]_vars PROVE TypeInv'
  OBVIOUS
<1>1. Sound' \subseteq Items
  BY DEF Sound
<1>2. WireTypes' /\ net' \in Seq(Items) /\ batch' \in Seq(Items)
  BY <1>1, WireStep, SeqMonotonic DEF WireTypes
<1>3. TypeOK'
  BY <1>2, PlainStep, QueueStep, ListStep, AnswerStep
     DEF PlainTypes, WireTypes, ListTypes, TypeOK
<1> QED BY <1>2, <1>3, PlainStep, QueueStep DEF TypeInv, WireTypes

\* The tables, the queue and the events stream keep values of their types, whatever
\* the user, the server and the network do; no return code is beyond Codes.
THEOREM RequestsTypeCorrect == Spec => []TypeOK
<1>1. TypeInv => TypeOK
  BY DEF TypeInv
<1> QED BY TypeInit, TypeStep, <1>1, PTL DEF Spec

-----------------------------------------------------------------------------
(* Owners. *)

\* A table has requests of its own kinds, each of them once, that are out of the
\* queue and not answered.
Owned(table, kinds) ==
  \A c \in Codes : table[c] # None =>
    /\ kind[table[c]] \in kinds /\ answers[table[c]] = <<>> /\ table[c] \notin InQueue
    /\ \A d \in Codes : table[d] = table[c] => d = c

\* FT_LISTS as a table of requests.
Listed == [c \in Codes |-> ftLists[c].of]

\* Whoever may still answer a request is the only one, and nobody has: an entry of
\* a table, the task of a transfer, or its place in the queue.
OwnerInv ==
  /\ Queued
  /\ \A r \in Reqs : kind[r] = "none" => answers[r] = <<>>
  /\ \A r \in InQueue : kind[r] \notin Transfers => answers[r] = <<>>
  /\ \A r \in tasks : kind[r] \in Transfers /\ answers[r] = <<>>
  /\ Owned(permOps, Tokens) /\ Owned(ftOps, {"op"}) /\ Owned(Listed, {"list"})

AnswerInv == OwnerInv /\ AnsweredOnce

\* A request stands in the queue once.
LEMMA QueuedStep ==
  ASSUME TypeInv, Queued, [Next]_vars PROVE Queued'
<1>1. cmds \in Seq(Reqs) /\ Len(cmds) \in Nat /\ DOMAIN cmds = 1..Len(cmds)
  BY LenProperties DEF TypeInv, TypeOK
<1>2. KindsKept /\ QueueMoves
  BY QueueStep
<1>3. \A i \in DOMAIN cmds : cmds[i] \in Reqs
  BY <1>1, ElementOfSeq
<1>4. CASE cmds' = cmds
  BY <1>2, <1>3, <1>4 DEF Queued, KindsKept
<1>5. CASE cmds' = <<>>
  BY <1>5 DEF Queued
<1>6. ASSUME NEW r \in Reqs, Next1(r) PROVE Queued'
  <2>1. cmds # <<>> /\ cmds' = Tail(cmds)
    BY <1>6 DEF Next1
  <2>2. cmds' \in Seq(Reqs) /\ Len(cmds') = Len(cmds) - 1 /\ \A i \in 1..Len(cmds') : cmds'[i] = cmds[i + 1]
    BY <1>1, <2>1, HeadTailProperties
  <2>3. DOMAIN cmds' = 1..Len(cmds')
    BY <2>2, LenProperties
  <2>4. \A i \in DOMAIN cmds' : i \in Nat /\ i + 1 \in DOMAIN cmds
    BY <1>1, <2>2, <2>3
  <2> QED BY <1>2, <1>3, <2>2, <2>3, <2>4 DEF Queued, KindsKept
<1>7. ASSUME NEW r \in Reqs, Fresh(r), kind'[r] # "none", cmds' = Append(cmds, r) PROVE Queued'
  <2>1. /\ cmds' \in Seq(Reqs) /\ Len(cmds') = Len(cmds) + 1
        /\ \A i \in 1..Len(cmds) : cmds'[i] = cmds[i]
        /\ cmds'[Len(cmds) + 1] = r
    BY <1>1, <1>7, AppendProperties
  <2>2. DOMAIN cmds' = 1..Len(cmds) + 1
    BY <2>1, LenProperties
  <2>3. \A i \in DOMAIN cmds' : i \in DOMAIN cmds \/ i = Len(cmds) + 1
    BY <1>1, <2>2
  <2>4. \A i \in DOMAIN cmds : cmds[i] # r
    BY <1>7 DEF Queued, Fresh
  <2> QED BY <1>1, <1>2, <1>3, <1>7, <2>1, <2>3, <2>4 DEF Queued, KindsKept
<1> QED BY <1>2, <1>4, <1>5, <1>6, <1>7 DEF QueueMoves

\* A request that is answered has left the tables, the tasks and the queue.
Left(r) ==
  /\ kind[r] # "none" /\ r \notin tasks /\ (r \in InQueue => kind[r] \in Transfers)
  /\ \A c \in Codes : permOps[c] # r /\ ftOps[c] # r /\ ftLists[c].of # r

\* A step that only takes requests out of their places, and answers none that
\* stays in one, keeps the owners.
LEMMA Leaving ==
  ASSUME TypeInv, OwnerInv, [Next]_vars, UNCHANGED kind,
         InQueue' \subseteq InQueue, tasks' \subseteq tasks,
         \A c \in Codes : /\ permOps'[c] \in {permOps[c], None}
                          /\ ftOps'[c] \in {ftOps[c], None}
                          /\ ftLists'[c].of \in {ftLists[c].of, None},
         \A r \in Reqs : answers'[r] = answers[r] \/ Left(r)'
  PROVE  OwnerInv'
<1>1. Queued'
  BY QueuedStep DEF OwnerInv
<1>2. \A r \in Reqs : kind'[r] = "none" => answers'[r] = <<>>
  BY DEF OwnerInv, Left
<1>3. \A i \in DOMAIN cmds : cmds[i] \in Reqs
  BY ElementOfSeq, LenProperties DEF TypeInv, TypeOK
<1>4. InQueue \subseteq Reqs /\ tasks \subseteq Reqs
  BY <1>3 DEF InQueue, TypeInv, TypeOK
<1>5. \A r \in InQueue' : kind'[r] \notin Transfers => answers'[r] = <<>>
  BY <1>4 DEF OwnerInv, Left
<1>6. \A r \in tasks' : kind'[r] \in Transfers /\ answers'[r] = <<>>
  BY <1>4 DEF OwnerInv, Left
<1>7. \A c \in Codes : permOps[c] \in Reqs \cup {None} /\ ftOps[c] \in Reqs \cup {None} /\ ftLists[c].of \in Reqs \cup {None}
  BY DEF TypeInv, TypeOK, Lists
<1>8. Owned(permOps, Tokens)'
  BY <1>7 DEF OwnerInv, Owned, Left
<1>9. Owned(ftOps, {"op"})'
  BY <1>7 DEF OwnerInv, Owned, Left
<1>10. Owned(Listed, {"list"})'
  BY <1>7 DEF OwnerInv, Owned, Listed, Left
<1> QED BY <1>1, <1>2, <1>5, <1>6, <1>8, <1>9, <1>10 DEF OwnerInv

\* A request that is asked has no place yet but the queue, and the tasks.
LEMMA Asking ==
  ASSUME TypeInv, OwnerInv, [Next]_vars, NEW r \in Reqs, Fresh(r), kind'[r] # "none",
         \A q \in Reqs : q # r => kind'[q] = kind[q],
         UNCHANGED <<permOps, ftOps, ftLists>>,
         cmds' \in {cmds, Append(cmds, r)}, tasks' \subseteq tasks \cup {r},
         r \in tasks' => kind'[r] \in Transfers,
         \A q \in Reqs : answers'[q] = answers[q] \/ (q = r /\ cmds' = cmds /\ tasks' = tasks)
  PROVE  OwnerInv'
<1>1. Queued'
  BY QueuedStep DEF OwnerInv
<1>2. kind[r] = "none" /\ answers[r] = <<>> /\ r \notin tasks
  BY DEF Fresh, OwnerInv, Transfers
<1>3. cmds \in Seq(Reqs) /\ Len(cmds) \in Nat /\ DOMAIN cmds = 1..Len(cmds)
  BY LenProperties DEF TypeInv, TypeOK
<1>4. InQueue \subseteq Reqs /\ tasks \subseteq Reqs /\ r \notin InQueue
  <2>1. \A i \in DOMAIN cmds : cmds[i] \in Reqs
    BY <1>3, ElementOfSeq
  <2> QED BY <1>2, <2>1 DEF InQueue, TypeInv, TypeOK, OwnerInv, Queued
<1>5. InQueue' \subseteq InQueue \cup {r} /\ (cmds' = cmds => InQueue' = InQueue)
  <2>1. CASE cmds' = Append(cmds, r)
    <3>1. /\ cmds' \in Seq(Reqs) /\ Len(cmds') = Len(cmds) + 1
          /\ \A i \in 1..Len(cmds) : cmds'[i] = cmds[i]
          /\ cmds'[Len(cmds) + 1] = r
      <4>1. Append(cmds, r) \in Seq(Reqs) /\ Len(Append(cmds, r)) = Len(cmds) + 1
        BY <1>3, AppendProperties
      <4>2. /\ \A i \in 1..Len(cmds) : Append(cmds, r)[i] = cmds[i]
            /\ Append(cmds, r)[Len(cmds) + 1] = r
        BY <1>3, AppendProperties
      <4> QED BY <2>1, <4>1, <4>2
    <3>2. DOMAIN cmds' = 1..Len(cmds) + 1 /\ cmds' # cmds
      BY <1>3, <3>1, LenProperties
    <3> QED BY <1>3, <3>1, <3>2 DEF InQueue
  <2>2. CASE cmds' = cmds
    BY <2>2 DEF InQueue
  <2> QED BY <2>1, <2>2
<1>6. \A q \in Reqs : kind'[q] = "none" => answers'[q] = <<>>
  BY DEF OwnerInv
<1>7. \A q \in InQueue' : kind'[q] \notin Transfers => answers'[q] = <<>>
  BY <1>2, <1>4, <1>5 DEF OwnerInv
<1>8. \A q \in tasks' : kind'[q] \in Transfers /\ answers'[q] = <<>>
  BY <1>2, <1>4 DEF OwnerInv
<1>9. /\ \A c \in Codes : permOps[c] # None => permOps[c] \in Reqs \ {r}
      /\ \A c \in Codes : ftOps[c] # None => ftOps[c] \in Reqs \ {r}
      /\ \A c \in Codes : Listed[c] # None => Listed[c] \in Reqs \ {r}
  <2>1. \A c \in Codes : permOps[c] # None => permOps[c] \in Reqs \ {r}
    <3>1. \A c \in Codes : permOps[c] # None => kind[permOps[c]] \in Tokens
      BY DEF OwnerInv, Owned
    <3>2. \A c \in Codes : permOps[c] \in Reqs \cup {None}
      BY DEF TypeInv, TypeOK
    <3> QED BY <1>2, <3>1, <3>2 DEF Tokens
  <2>2. \A c \in Codes : ftOps[c] # None => ftOps[c] \in Reqs \ {r}
    BY <1>2 DEF OwnerInv, Owned, TypeInv, TypeOK
  <2>3. \A c \in Codes : Listed[c] # None => kind[Listed[c]] = "list"
    BY DEF OwnerInv, Owned
  <2>4. \A c \in Codes : Listed[c] \in Reqs \cup {None}
    BY DEF Listed, TypeInv, TypeOK, Lists
  <2>5. \A c \in Codes : Listed[c] # None => Listed[c] \in Reqs \ {r}
    BY <1>2, <2>3, <2>4
  <2> QED BY <2>1, <2>2, <2>5
<1>10. Owned(permOps, Tokens)' /\ Owned(ftOps, {"op"})' /\ Owned(Listed, {"list"})'
  <2>1. Listed' = Listed
    BY DEF Listed
  <2> QED BY <1>4, <1>5, <1>9, <2>1 DEF OwnerInv, Owned
<1> QED BY <1>1, <1>6, <1>7, <1>8, <1>10 DEF OwnerInv

\* A request that is sent is filed in the table of its kind.
LEMMA Filing ==
  ASSUME TypeInv, OwnerInv, [Next]_vars, NEW r \in Reqs, Next1(r),
         UNCHANGED <<kind, tasks, answers>>, kind[r] \notin Transfers,
         \A c \in Codes : permOps'[c] = IF c = code /\ kind[r] \in Tokens THEN r ELSE permOps[c],
         \A c \in Codes : ftOps'[c] = IF c = code /\ kind[r] = "op" THEN r ELSE ftOps[c],
         \A c \in Codes : \/ ftLists'[c].of \in {None, ftLists[c].of} /\ (c # code \/ kind[r] # "list")
                          \/ ftLists'[c].of = r /\ c = code /\ kind[r] = "list"
  PROVE  OwnerInv'
<1>1. Queued' /\ r \in InQueue /\ r \notin InQueue' /\ InQueue' \subseteq InQueue
  BY QueuedStep, Taken DEF OwnerInv, TypeInv
<1>2. answers[r] = <<>> /\ code \in Codes
  BY <1>1 DEF OwnerInv, TypeInv, TypeOK
<1>3. \A q \in InQueue' : kind'[q] \notin Transfers => answers'[q] = <<>>
  BY <1>1 DEF OwnerInv
<1>4. Owned(permOps, Tokens)'
  BY <1>1, <1>2 DEF OwnerInv, Owned
<1>5. Owned(ftOps, {"op"})'
  BY <1>1, <1>2 DEF OwnerInv, Owned
<1>6. Owned(Listed, {"list"})'
  BY <1>1, <1>2 DEF OwnerInv, Owned, Listed
<1> QED BY <1>1, <1>3, <1>4, <1>5, <1>6 DEF OwnerInv

\* Nobody is asked, filed, taken out or answered.
Stays ==
  /\ UNCHANGED <<kind, cmds, tasks, permOps, ftOps, answers>>
  /\ \A c \in Codes : ftLists'[c].of = ftLists[c].of

\* The owners stay the only ones.
LEMMA OwnerStep ==
  ASSUME TypeInv, OwnerInv, [Next]_vars PROVE OwnerInv'
<1>0. /\ TypeInv /\ OwnerInv /\ TypeOK /\ None \notin Reqs /\ [Next]_vars
      /\ cmds' = cmds => InQueue' = InQueue
  BY DEF TypeInv, InQueue, None, Reqs
<1> USE DEF Stays
<1>1. ASSUME NEW r \in Reqs, AskPlain(r) PROVE OwnerInv'
  <2>1. /\ Fresh(r) /\ kind'[r] # "none" /\ \A q \in Reqs : q # r => kind'[q] = kind[q]
        /\ UNCHANGED <<permOps, ftOps, ftLists>>
    BY <1>0, <1>1 DEF AskPlain, Queue, tables, TypeOK, Transfers
  <2>2. cmds' \in {cmds, Append(cmds, r)} /\ tasks' \subseteq tasks \cup {r}
    BY <1>1 DEF AskPlain, Queue, transfer
  <2>3. r \in tasks' => kind'[r] \in Transfers
    BY <1>0, <2>1, <1>1 DEF AskPlain, Queue, transfer, TypeOK, Transfers, OwnerInv, Fresh
  <2>4. \A q \in Reqs : answers'[q] = answers[q] \/ (q = r /\ cmds' = cmds /\ tasks' = tasks)
    BY <1>0, <1>1 DEF AskPlain, Queue, transfer, TypeOK
  <2> QED BY <1>0, <2>1, <2>2, <2>3, <2>4, Asking
<1>2. ASSUME NEW r \in Reqs, AskMove(r) PROVE OwnerInv'
  <2>1. /\ Fresh(r) /\ kind'[r] # "none" /\ \A q \in Reqs : q # r => kind'[q] = kind[q]
        /\ UNCHANGED <<permOps, ftOps, ftLists>>
    BY <1>0, <1>2 DEF AskMove, Queue, tables, TypeOK, Transfers
  <2>2. cmds' \in {cmds, Append(cmds, r)} /\ tasks' \subseteq tasks \cup {r}
    BY <1>2 DEF AskMove, Queue, transfer
  <2>3. r \in tasks' => kind'[r] \in Transfers
    BY <1>0, <2>1, <1>2 DEF AskMove, Queue, transfer, TypeOK, Transfers, OwnerInv, Fresh
  <2>4. \A q \in Reqs : answers'[q] = answers[q] \/ (q = r /\ cmds' = cmds /\ tasks' = tasks)
    BY <1>0, <1>2 DEF AskMove, Queue, transfer, TypeOK
  <2> QED BY <1>0, <2>1, <2>2, <2>3, <2>4, Asking
<1>3. ASSUME NEW r \in Reqs, AskKick(r) PROVE OwnerInv'
  <2>1. /\ Fresh(r) /\ kind'[r] # "none" /\ \A q \in Reqs : q # r => kind'[q] = kind[q]
        /\ UNCHANGED <<permOps, ftOps, ftLists>>
    BY <1>0, <1>3 DEF AskKick, Queue, tables, TypeOK, Transfers
  <2>2. cmds' \in {cmds, Append(cmds, r)} /\ tasks' \subseteq tasks \cup {r}
    BY <1>3 DEF AskKick, Queue, transfer
  <2>3. r \in tasks' => kind'[r] \in Transfers
    BY <1>0, <2>1, <1>3 DEF AskKick, Queue, transfer, TypeOK, Transfers, OwnerInv, Fresh
  <2>4. \A q \in Reqs : answers'[q] = answers[q] \/ (q = r /\ cmds' = cmds /\ tasks' = tasks)
    BY <1>0, <1>3 DEF AskKick, Queue, transfer, TypeOK
  <2> QED BY <1>0, <2>1, <2>2, <2>3, <2>4, Asking
<1>4. ASSUME NEW r \in Reqs, AskGroup(r) PROVE OwnerInv'
  <2>1. /\ Fresh(r) /\ kind'[r] # "none" /\ \A q \in Reqs : q # r => kind'[q] = kind[q]
        /\ UNCHANGED <<permOps, ftOps, ftLists>>
    BY <1>0, <1>4 DEF AskGroup, Queue, tables, TypeOK, Transfers
  <2>2. cmds' \in {cmds, Append(cmds, r)} /\ tasks' \subseteq tasks \cup {r}
    BY <1>4 DEF AskGroup, Queue, transfer
  <2>3. r \in tasks' => kind'[r] \in Transfers
    BY <1>0, <2>1, <1>4 DEF AskGroup, Queue, transfer, TypeOK, Transfers, OwnerInv, Fresh
  <2>4. \A q \in Reqs : answers'[q] = answers[q] \/ (q = r /\ cmds' = cmds /\ tasks' = tasks)
    BY <1>0, <1>4 DEF AskGroup, Queue, transfer, TypeOK
  <2> QED BY <1>0, <2>1, <2>2, <2>3, <2>4, Asking
<1>5. ASSUME NEW r \in Reqs, AskOp(r) PROVE OwnerInv'
  <2>1. /\ Fresh(r) /\ kind'[r] # "none" /\ \A q \in Reqs : q # r => kind'[q] = kind[q]
        /\ UNCHANGED <<permOps, ftOps, ftLists>>
    BY <1>0, <1>5 DEF AskOp, Queue, tables, TypeOK, Transfers
  <2>2. cmds' \in {cmds, Append(cmds, r)} /\ tasks' \subseteq tasks \cup {r}
    BY <1>5 DEF AskOp, Queue, transfer
  <2>3. r \in tasks' => kind'[r] \in Transfers
    BY <1>0, <2>1, <1>5 DEF AskOp, Queue, transfer, TypeOK, Transfers, OwnerInv, Fresh
  <2>4. \A q \in Reqs : answers'[q] = answers[q] \/ (q = r /\ cmds' = cmds /\ tasks' = tasks)
    BY <1>0, <1>5 DEF AskOp, Queue, transfer, TypeOK
  <2> QED BY <1>0, <2>1, <2>2, <2>3, <2>4, Asking
<1>6. ASSUME NEW r \in Reqs, NEW d \in Dirs, AskList(r, d) PROVE OwnerInv'
  <2>1. /\ Fresh(r) /\ kind'[r] # "none" /\ \A q \in Reqs : q # r => kind'[q] = kind[q]
        /\ UNCHANGED <<permOps, ftOps, ftLists>>
    BY <1>0, <1>6 DEF AskList, Queue, tables, TypeOK, Transfers
  <2>2. cmds' \in {cmds, Append(cmds, r)} /\ tasks' \subseteq tasks \cup {r}
    BY <1>6 DEF AskList, Queue, transfer
  <2>3. r \in tasks' => kind'[r] \in Transfers
    BY <1>0, <2>1, <1>6 DEF AskList, Queue, transfer, TypeOK, Transfers, OwnerInv, Fresh
  <2>4. \A q \in Reqs : answers'[q] = answers[q] \/ (q = r /\ cmds' = cmds /\ tasks' = tasks)
    BY <1>0, <1>6 DEF AskList, Queue, transfer, TypeOK
  <2> QED BY <1>0, <2>1, <2>2, <2>3, <2>4, Asking
<1>7. ASSUME NEW r \in Reqs, AskDownload(r) PROVE OwnerInv'
  <2>1. /\ Fresh(r) /\ kind'[r] # "none" /\ \A q \in Reqs : q # r => kind'[q] = kind[q]
        /\ UNCHANGED <<permOps, ftOps, ftLists>>
    BY <1>0, <1>7 DEF AskDownload, Queue, tables, TypeOK, Transfers
  <2>2. cmds' \in {cmds, Append(cmds, r)} /\ tasks' \subseteq tasks \cup {r}
    BY <1>7 DEF AskDownload, Queue, transfer
  <2>3. r \in tasks' => kind'[r] \in Transfers
    BY <1>0, <2>1, <1>7 DEF AskDownload, Queue, transfer, TypeOK, Transfers, OwnerInv, Fresh
  <2>4. \A q \in Reqs : answers'[q] = answers[q] \/ (q = r /\ cmds' = cmds /\ tasks' = tasks)
    BY <1>0, <1>7 DEF AskDownload, Queue, transfer, TypeOK
  <2> QED BY <1>0, <2>1, <2>2, <2>3, <2>4, Asking
<1>8. ASSUME NEW r \in Reqs, AskUpload(r) PROVE OwnerInv'
  <2>1. /\ Fresh(r) /\ kind'[r] # "none" /\ \A q \in Reqs : q # r => kind'[q] = kind[q]
        /\ UNCHANGED <<permOps, ftOps, ftLists>>
    BY <1>0, <1>8 DEF AskUpload, Queue, tables, TypeOK, Transfers
  <2>2. cmds' \in {cmds, Append(cmds, r)} /\ tasks' \subseteq tasks \cup {r}
    BY <1>8 DEF AskUpload, Queue, transfer
  <2>3. r \in tasks' => kind'[r] \in Transfers
    BY <1>0, <2>1, <1>8 DEF AskUpload, Queue, transfer, TypeOK, Transfers, OwnerInv, Fresh
  <2>4. \A q \in Reqs : answers'[q] = answers[q] \/ (q = r /\ cmds' = cmds /\ tasks' = tasks)
    BY <1>0, <1>8 DEF AskUpload, Queue, transfer, TypeOK
  <2> QED BY <1>0, <2>1, <2>2, <2>3, <2>4, Asking
<1>9. ASSUME NEW r \in Reqs, NEW k \in Transfers, AskLate(r, k) PROVE OwnerInv'
  <2>1. /\ Fresh(r) /\ kind'[r] # "none" /\ \A q \in Reqs : q # r => kind'[q] = kind[q]
        /\ UNCHANGED <<permOps, ftOps, ftLists>>
    BY <1>0, <1>9 DEF AskLate, Tell, tables, TypeOK, Transfers
  <2>2. cmds' \in {cmds, Append(cmds, r)} /\ tasks' \subseteq tasks \cup {r}
    BY <1>9 DEF AskLate, Tell, TypeOK, transfer
  <2>3. r \in tasks' => kind'[r] \in Transfers
    BY <1>0, <2>1, <1>9 DEF AskLate, Tell, transfer, TypeOK, Transfers, OwnerInv, Fresh
  <2>4. \A q \in Reqs : answers'[q] = answers[q] \/ (q = r /\ cmds' = cmds /\ tasks' = tasks)
    BY <1>0, <1>9 DEF AskLate, Tell, transfer, TypeOK
  <2> QED BY <1>0, <2>1, <2>2, <2>3, <2>4, Asking
<1>10. ASSUME NEW r \in Reqs, Cancel(r) PROVE OwnerInv'
  <2>1. Stays
    BY <1>0, <1>10 DEF Cancel, asking, tables, transfer
  <2> QED BY <1>0, <2>1, Leaving
<1>11. ASSUME NEW r \in Reqs, SendKick(r) PROVE OwnerInv'
  <2>1. Next1(r) /\ UNCHANGED <<kind, tasks, answers>> /\ kind[r] \notin Transfers
    BY <1>11 DEF SendKick, Track, asking, transfer, Transfers
  <2>2. \A c \in Codes : permOps'[c] = IF c = code /\ kind[r] \in Tokens THEN r ELSE permOps[c]
    BY <1>0, <1>11 DEF SendKick, Track, TypeOK, Tokens
  <2>3. \A c \in Codes : ftOps'[c] = IF c = code /\ kind[r] = "op" THEN r ELSE ftOps[c]
    BY <1>0, <1>11 DEF SendKick, Track, TypeOK
  <2>4. \A c \in Codes : \/ ftLists'[c].of \in {None, ftLists[c].of} /\ (c # code \/ kind[r] # "list")
                         \/ ftLists'[c].of = r /\ c = code /\ kind[r] = "list"
    BY <1>0, <1>11 DEF SendKick, Track, TypeOK
  <2> QED BY <1>0, <2>1, <2>2, <2>3, <2>4, Filing
<1>12. ASSUME NEW r \in Reqs, SendGroup(r) PROVE OwnerInv'
  <2>1. Next1(r) /\ UNCHANGED <<kind, tasks, answers>> /\ kind[r] \notin Transfers
    BY <1>12 DEF SendGroup, Track, asking, transfer, Transfers
  <2>2. \A c \in Codes : permOps'[c] = IF c = code /\ kind[r] \in Tokens THEN r ELSE permOps[c]
    BY <1>0, <1>12 DEF SendGroup, Track, TypeOK, Tokens
  <2>3. \A c \in Codes : ftOps'[c] = IF c = code /\ kind[r] = "op" THEN r ELSE ftOps[c]
    BY <1>0, <1>12 DEF SendGroup, Track, TypeOK
  <2>4. \A c \in Codes : \/ ftLists'[c].of \in {None, ftLists[c].of} /\ (c # code \/ kind[r] # "list")
                         \/ ftLists'[c].of = r /\ c = code /\ kind[r] = "list"
    BY <1>0, <1>12 DEF SendGroup, Track, TypeOK
  <2> QED BY <1>0, <2>1, <2>2, <2>3, <2>4, Filing
<1>13. ASSUME NEW r \in Reqs, RefuseKick(r) PROVE OwnerInv'
  <2>1. r \in InQueue /\ InQueue' \subseteq InQueue /\ r \notin InQueue'
    BY <1>0, <1>13, Taken DEF RefuseKick, OwnerInv
  <2>2. /\ UNCHANGED <<kind, permOps, ftOps, ftLists>> /\ tasks' \subseteq tasks
        /\ \A q \in Reqs : answers'[q] = answers[q] \/ q = r
    BY <1>0, <1>13 DEF RefuseKick, Tell, asking, tables, transfer, TypeOK
  <2>3. \A q \in Reqs : answers'[q] = answers[q] \/ Left(q)'
    BY <1>0, <2>1, <2>2, <1>13
       DEF RefuseKick, Tell, Left, Owned, OwnerInv, Listed, Queued, InQueue, Tokens, Transfers
  <2> QED BY <1>0, <2>1, <2>2, <2>3, Leaving
<1>14. ASSUME NEW r \in Reqs, SendMove(r) PROVE OwnerInv'
  <2>1. r \in InQueue /\ InQueue' \subseteq InQueue /\ r \notin InQueue'
    BY <1>0, <1>14, Taken DEF SendMove, OwnerInv
  <2>2. /\ UNCHANGED <<kind, permOps, ftOps, ftLists>> /\ tasks' \subseteq tasks
        /\ \A q \in Reqs : answers'[q] = answers[q] \/ q = r
    BY <1>0, <1>14 DEF SendMove, asking, tables, transfer, TypeOK
  <2>3. \A q \in Reqs : answers'[q] = answers[q] \/ Left(q)'
    BY <1>0, <2>1, <2>2, <1>14
       DEF SendMove, Left, Owned, OwnerInv, Listed, Queued, InQueue, Tokens, Transfers
  <2> QED BY <1>0, <2>1, <2>2, <2>3, Leaving
<1>15. ASSUME NEW r \in Reqs, SendPlain(r) PROVE OwnerInv'
  <2>1. r \in InQueue /\ InQueue' \subseteq InQueue /\ r \notin InQueue'
    BY <1>0, <1>15, Taken DEF SendPlain, OwnerInv
  <2>2. /\ UNCHANGED <<kind, permOps, ftOps, ftLists>> /\ tasks' \subseteq tasks
        /\ \A q \in Reqs : answers'[q] = answers[q] \/ q = r
    BY <1>0, <1>15 DEF SendPlain, asking, tables, transfer, TypeOK
  <2>3. \A q \in Reqs : answers'[q] = answers[q] \/ Left(q)'
    BY <1>0, <2>1, <2>2, <1>15
       DEF SendPlain, Left, Owned, OwnerInv, Listed, Queued, InQueue, Tokens, Transfers
  <2> QED BY <1>0, <2>1, <2>2, <2>3, Leaving
<1>16. ASSUME NEW r \in Reqs, SendOp(r) PROVE OwnerInv'
  <2>1. Next1(r) /\ UNCHANGED <<kind, tasks, answers>> /\ kind[r] \notin Transfers
    BY <1>16 DEF SendOp, asking, transfer, Transfers
  <2>2. \A c \in Codes : permOps'[c] = IF c = code /\ kind[r] \in Tokens THEN r ELSE permOps[c]
    BY <1>0, <1>16 DEF SendOp, TypeOK, Tokens
  <2>3. \A c \in Codes : ftOps'[c] = IF c = code /\ kind[r] = "op" THEN r ELSE ftOps[c]
    BY <1>0, <1>16 DEF SendOp, TypeOK
  <2>4. \A c \in Codes : \/ ftLists'[c].of \in {None, ftLists[c].of} /\ (c # code \/ kind[r] # "list")
                         \/ ftLists'[c].of = r /\ c = code /\ kind[r] = "list"
    BY <1>0, <1>16 DEF SendOp, TypeOK
  <2> QED BY <1>0, <2>1, <2>2, <2>3, <2>4, Filing
<1>17. ASSUME NEW r \in Reqs, SendList(r) PROVE OwnerInv'
  <2>1. Next1(r) /\ UNCHANGED <<kind, tasks, answers>> /\ kind[r] \notin Transfers
    BY <1>17 DEF SendList, asking, transfer, Transfers
  <2>2. \A c \in Codes : permOps'[c] = IF c = code /\ kind[r] \in Tokens THEN r ELSE permOps[c]
    BY <1>0, <1>17 DEF SendList, TypeOK, Tokens
  <2>3. \A c \in Codes : ftOps'[c] = IF c = code /\ kind[r] = "op" THEN r ELSE ftOps[c]
    BY <1>0, <1>17 DEF SendList, TypeOK
  <2>4. \A c \in Codes : \/ ftLists'[c].of \in {None, ftLists[c].of} /\ (c # code \/ kind[r] # "list")
                         \/ ftLists'[c].of = r /\ c = code /\ kind[r] = "list"
    BY <1>0, <1>17 DEF SendList, TypeOK, NoList
  <2> QED BY <1>0, <2>1, <2>2, <2>3, <2>4, Filing
<1>18. ASSUME NEW r \in Reqs, SendTransfer(r) PROVE OwnerInv'
  <2>1. r \in InQueue /\ InQueue' \subseteq InQueue /\ r \notin InQueue'
    BY <1>0, <1>18, Taken DEF SendTransfer, OwnerInv
  <2>2. /\ UNCHANGED <<kind, permOps, ftOps, ftLists>> /\ tasks' \subseteq tasks
        /\ \A q \in Reqs : answers'[q] = answers[q] \/ q = r
    BY <1>0, <1>18 DEF SendTransfer, asking, tables, transfer, TypeOK
  <2>3. \A q \in Reqs : answers'[q] = answers[q] \/ Left(q)'
    BY <1>0, <2>1, <2>2, <1>18
       DEF SendTransfer, Left, Owned, OwnerInv, Listed, Queued, InQueue, Tokens, Transfers
  <2> QED BY <1>0, <2>1, <2>2, <2>3, Leaving
<1>19. ASSUME NEW r \in Reqs, SendFails(r) PROVE OwnerInv'
  <2>1. r \in InQueue /\ InQueue' \subseteq InQueue /\ r \notin InQueue'
    BY <1>0, <1>19, Taken DEF SendFails, OwnerInv
  <2>2. /\ UNCHANGED <<kind, permOps, ftOps, ftLists>> /\ tasks' \subseteq tasks
        /\ \A q \in Reqs : answers'[q] = answers[q] \/ q = r
    BY <1>0, <1>19 DEF SendFails, Tell, asking, tables, transfer, TypeOK
  <2>3. \A q \in Reqs : answers'[q] = answers[q] \/ Left(q)'
    BY <1>0, <2>1, <2>2, <1>19
       DEF SendFails, Tell, Left, Owned, OwnerInv, Listed, Queued, InQueue, Tokens, Transfers
  <2> QED BY <1>0, <2>1, <2>2, <2>3, Leaving
<1>20. ASSUME NEW r \in Reqs, TransferFails(r) PROVE OwnerInv'
  <2>1. r \in InQueue /\ InQueue' \subseteq InQueue /\ r \notin InQueue'
    BY <1>0, <1>20, Taken DEF TransferFails, OwnerInv
  <2>2. /\ UNCHANGED <<kind, permOps, ftOps, ftLists>> /\ tasks' \subseteq tasks
        /\ \A q \in Reqs : answers'[q] = answers[q] \/ q = r
    BY <1>0, <1>20 DEF TransferFails, FinishTasks, Tell, asking, tables, transfer, TypeOK
  <2>3. \A q \in Reqs : answers'[q] = answers[q] \/ Left(q)'
    BY <1>0, <2>1, <2>2, <1>20
       DEF TransferFails, FinishTasks, Tell, Left, Owned, OwnerInv, Listed, Queued, InQueue,
           Tokens, Transfers
  <2> QED BY <1>0, <2>1, <2>2, <2>3, Leaving
<1>21. ASSUME NEW r \in Reqs, WorkerCancels(r) PROVE OwnerInv'
  <2>1. /\ UNCHANGED <<kind, cmds, permOps, ftOps, ftLists>> /\ tasks' \subseteq tasks
        /\ \A q \in Reqs : answers'[q] = answers[q] \/ (q \in tasks /\ q \notin tasks')
    BY <1>0, <1>21 DEF WorkerCancels, FinishTasks, Tell, asking, tables, transfer, TypeOK
  <2>2. \A q \in Reqs : q \in tasks /\ q \notin tasks' => Left(q)'
    BY <1>0, <2>1 DEF Left, OwnerInv, Owned, Listed, Tokens, Transfers
  <2> QED BY <1>0, <2>1, <2>2, Leaving
<1>22. ASSUME NEW r \in Reqs, GraceEnds(r) PROVE OwnerInv'
  <2>1. /\ UNCHANGED <<kind, cmds, permOps, ftOps, ftLists>> /\ tasks' \subseteq tasks
        /\ \A q \in Reqs : answers'[q] = answers[q] \/ (q \in tasks /\ q \notin tasks')
    BY <1>0, <1>22 DEF GraceEnds, FinishTasks, Tell, asking, tables, transfer, TypeOK
  <2>2. \A q \in Reqs : q \in tasks /\ q \notin tasks' => Left(q)'
    BY <1>0, <2>1 DEF Left, OwnerInv, Owned, Listed, Tokens, Transfers
  <2> QED BY <1>0, <2>1, <2>2, Leaving
<1>23. ASSUME NEW r \in Reqs, NEW whole \in BOOLEAN, DownloadEnds(r, whole) PROVE OwnerInv'
  <2>1. /\ UNCHANGED <<kind, cmds, permOps, ftOps, ftLists>> /\ tasks' \subseteq tasks
        /\ \A q \in Reqs : answers'[q] = answers[q] \/ (q \in tasks /\ q \notin tasks')
    BY <1>0, <1>23 DEF DownloadEnds, FinishTasks, Tell, asking, tables, transfer, TypeOK
  <2>2. \A q \in Reqs : q \in tasks /\ q \notin tasks' => Left(q)'
    BY <1>0, <2>1 DEF Left, OwnerInv, Owned, Listed, Tokens, Transfers
  <2> QED BY <1>0, <2>1, <2>2, Leaving
<1>24. ASSUME NEW r \in Reqs, NEW whole \in BOOLEAN, UploadSent(r, whole) PROVE OwnerInv'
  <2>1. /\ UNCHANGED <<kind, cmds, permOps, ftOps, ftLists>> /\ tasks' \subseteq tasks
        /\ \A q \in Reqs : answers'[q] = answers[q] \/ (q \in tasks /\ q \notin tasks')
    BY <1>0, <1>24 DEF UploadSent, FinishTasks, Tell, asking, tables, transfer, TypeOK
  <2>2. \A q \in Reqs : q \in tasks /\ q \notin tasks' => Left(q)'
    BY <1>0, <2>1 DEF Left, OwnerInv, Owned, Listed, Tokens, Transfers
  <2> QED BY <1>0, <2>1, <2>2, Leaving
<1>25. ASSUME NEW r \in Reqs, NEW ok \in BOOLEAN, Opened(r, ok) PROVE OwnerInv'
  <2>1. Stays
    BY <1>0, <1>25 DEF Opened, asking, tables, transfer
  <2> QED BY <1>0, <2>1, Leaving
<1>26. ASSUME NEW r \in Reqs, NEW res \in {"ok", "err"}, ServerStatus(r, res) PROVE OwnerInv'
  <2>1. Stays
    BY <1>0, <1>26 DEF ServerStatus, asking, tables, transfer
  <2> QED BY <1>0, <2>1, Leaving
<1>27. CASE ServerAnswers
  <2>1. Stays
    BY <1>0, <1>27 DEF ServerAnswers, asking, tables, transfer
  <2> QED BY <1>0, <2>1, Leaving
<1>28. CASE Drop
  <2>1. Stays
    BY <1>0, <1>28 DEF Drop, asking, tables, transfer
  <2> QED BY <1>0, <2>1, Leaving
<1>29. CASE Reconnect
  <2>1. Stays
    BY <1>0, <1>29 DEF Reconnect, asking, tables, transfer
  <2> QED BY <1>0, <2>1, Leaving
<1>30. CASE End
  <2>1. UNCHANGED <<kind, tasks, answers>> /\ InQueue' = {} /\ \A c \in Codes : /\ permOps'[c] = None /\ ftOps'[c] = None /\ ftLists'[c].of = None
    BY <1>30 DEF End, asking, transfer, InQueue, NoList, None
  <2> QED BY <1>0, <2>1, Leaving
<1>31. CASE Connect
  <2>1. Stays
    BY <1>0, <1>31 DEF Connect, asking, tables, transfer
  <2> QED BY <1>0, <2>1, Leaving
<1>32. ASSUME NEW n \in 1..Len(net), Collect(n) PROVE OwnerInv'
  <2>1. Stays
    BY <1>0, <1>32 DEF Collect, asking, tables, transfer
  <2> QED BY <1>0, <2>1, Leaving
<1>33. CASE HandleResult
  <2> DEFINE c == Item1.key
             p == {permOps[c], ftOps[c]} \ {None}
             u == IF Item1.res = "ok" \/ taskByRc[c] = None THEN {} ELSE {taskByRc[c]} \cap tasks
  <2>1. c \in Codes
    BY <1>0, <1>33, FirstSound DEF HandleResult, Handling, Item1, Sound
  <2>2. UNCHANGED <<kind, cmds>> /\ tasks' = tasks \ u
    BY <1>33 DEF HandleResult, asking
  <2>3. \A q \in Reqs : answers'[q] = answers[q] \/ q \in p \cup u
    BY <1>0, <1>33 DEF HandleResult, Tell, TypeOK
  <2>4. \A d \in Codes : /\ permOps'[d] = IF d = c THEN None ELSE permOps[d]
                         /\ ftOps'[d] = IF d = c THEN None ELSE ftOps[d]
    BY <1>0, <1>33 DEF HandleResult, TypeOK
  <2>5. \A d \in Codes : ftLists'[d].of = ftLists[d].of
    BY <1>0, <2>1, <1>33 DEF HandleResult, Schedule, TypeOK, Lists
  <2>6. \A q \in p \cup u : q \in Reqs => Left(q)'
    <3> SUFFICES ASSUME NEW q \in p \cup u, q \in Reqs PROVE Left(q)'
      OBVIOUS
    <3>1. kind[q] # "none" /\ (q \in InQueue => kind[q] \in Transfers)
      BY <1>0, <2>1 DEF OwnerInv, Owned, Tokens, Transfers
    <3>2. q \notin tasks \ u
      BY <1>0, <2>1 DEF OwnerInv, Owned, Tokens, Transfers
    <3>3. \A d \in Codes : permOps'[d] # q
      BY <1>0, <2>1, <2>4 DEF OwnerInv, Owned, Tokens, Transfers
    <3>4. \A d \in Codes : ftOps'[d] # q
      BY <1>0, <2>1, <2>4 DEF OwnerInv, Owned, Tokens, Transfers
    <3>5. \A d \in Codes : ftLists[d].of = q => kind[q] = "list"
      BY <1>0 DEF OwnerInv, Owned, Listed
    <3>6. kind[q] # "list"
      BY <1>0, <2>1 DEF OwnerInv, Owned, Tokens, Transfers
    <3> QED BY <1>0, <2>2, <2>5, <3>1, <3>2, <3>3, <3>4, <3>5, <3>6 DEF Left
  <2> QED BY <1>0, <2>2, <2>3, <2>4, <2>5, <2>6, Leaving
<1>34. CASE HandleRows
  <2>1. Item1.key \in Codes
    BY <1>0, <1>34, FirstSound DEF HandleRows, Handling, Item1, Sound
  <2>2. Stays
    BY <1>0, <2>1, <1>34 DEF HandleRows, asking, transfer, TypeOK, Lists
  <2> QED BY <1>0, <2>2, Leaving
<1>35. CASE HandleFin
  <2>1. UNCHANGED <<kind, cmds, tasks, permOps, ftOps, answers>>
    BY <1>35 DEF HandleFin, asking, transfer
  <2>2. \A c \in Codes : ftLists'[c].of = ftLists[c].of
    BY <1>0, <1>35 DEF HandleFin, Schedule, TypeOK, Lists
  <2> QED BY <1>0, <2>1, <2>2, Leaving
<1>36. CASE HandleError
  <2>1. Item1.of \in Reqs /\ kind[Item1.of] = "plain"
    BY <1>0, <1>36, FirstSound DEF HandleError, Handling, Item1, Sound
  <2>2. UNCHANGED <<kind, cmds, tasks, permOps, ftOps, ftLists, answers>>
    BY <2>1, <1>36 DEF HandleError, asking, transfer
  <2> QED BY <1>0, <2>2, Leaving
<1>37. CASE HandleStart
  <2>1. Stays
    BY <1>0, <1>37 DEF HandleStart, asking, tables, transfer
  <2> QED BY <1>0, <2>1, Leaving
<1>38. CASE HandleStatus
  <2>1. /\ UNCHANGED <<kind, cmds, permOps, ftOps, ftLists>> /\ tasks' \subseteq tasks
        /\ \A q \in Reqs : answers'[q] = answers[q] \/ (q \in tasks /\ q \notin tasks')
    BY <1>0, <1>38 DEF HandleStatus, TaskOf, FinishTasks, Tell, asking, tables, transfer, TypeOK
  <2>2. \A q \in Reqs : q \in tasks /\ q \notin tasks' => Left(q)'
    BY <1>0, <2>1 DEF Left, OwnerInv, Owned, Listed, Tokens, Transfers
  <2> QED BY <1>0, <2>1, <2>2, Leaving
<1>39. CASE HandleDrop
  <2>1. UNCHANGED <<kind, cmds, tasks, ftOps>> /\ \A c \in Codes : /\ permOps'[c] = None /\ ftLists'[c].of = None
    BY <1>39 DEF HandleDrop, asking, transfer, NoList
  <2>2. \A q \in Reqs : answers'[q] = answers[q] \/ \E c \in Codes : permOps[c] = q /\ q # None
    BY <1>0, <1>39 DEF HandleDrop, Tell, TypeOK
  <2>3. \A q \in Reqs, c \in Codes : permOps[c] = q => Left(q)'
    <3> SUFFICES ASSUME NEW q \in Reqs, NEW c \in Codes, permOps[c] = q PROVE Left(q)'
      OBVIOUS
    <3>1. kind[q] \in Tokens /\ q \notin InQueue
      BY <1>0 DEF OwnerInv, Owned
    <3>2. q \notin tasks
      BY <1>0, <3>1 DEF OwnerInv, Tokens, Transfers
    <3>3. \A d \in Codes : ftOps[d] # q
      BY <1>0, <3>1 DEF OwnerInv, Owned, Tokens
    <3> QED BY <1>0, <2>1, <3>1, <3>2, <3>3 DEF Left, Tokens
  <2>4. \A q \in Reqs : answers'[q] = answers[q] \/ Left(q)'
    BY <2>2, <2>3
  <2> QED BY <1>0, <2>1, <2>4, Leaving
<1>40. ASSUME NEW t \in timers, Fire(t) PROVE OwnerInv'
  <2> DEFINE l == ftLists[t.code]
  <2>1. t.code \in Codes /\ UNCHANGED <<kind, cmds, tasks, permOps, ftOps>>
    BY <1>0, <1>40 DEF Fire, asking, transfer, TypeOK, Timers
  <2>2. \A c \in Codes : ftLists'[c].of = IF c = t.code THEN None ELSE ftLists[c].of
    BY <1>0, <2>1, <1>40 DEF Fire, NoList, TypeOK
  <2>3. \A q \in Reqs : answers'[q] = answers[q] \/ q = l.of
    BY <1>0, <1>40 DEF Fire, TypeOK
  <2>4. \A q \in Reqs : q = l.of => Left(q)'
    <3> SUFFICES ASSUME NEW q \in Reqs, q = l.of PROVE Left(q)'
      OBVIOUS
    <3>1. Listed[t.code] = q /\ q # None
      BY <1>0, <2>1 DEF Listed
    <3>2. kind[q] = "list" /\ q \notin InQueue /\ \A c \in Codes : Listed[c] = q => c = t.code
      BY <1>0, <2>1, <3>1 DEF OwnerInv, Owned
    <3>3. q \notin tasks /\ \A c \in Codes : permOps[c] # q /\ ftOps[c] # q
      BY <1>0, <3>1, <3>2 DEF OwnerInv, Owned, Tokens, Transfers
    <3>4. \A c \in Codes : ftLists'[c].of # q
      BY <2>2, <3>1, <3>2 DEF Listed
    <3> QED BY <1>0, <2>1, <3>2, <3>3, <3>4 DEF Left
  <2> QED BY <1>0, <2>1, <2>2, <2>3, <2>4, Leaving
<1>41. CASE UNCHANGED vars
  BY <1>0, <1>41, Leaving DEF vars, asking, tables, transfer
<1> QED
  BY <1>1, <1>2, <1>3, <1>4, <1>5, <1>6, <1>7, <1>8, <1>9, <1>10, <1>11, <1>12, <1>13,
     <1>14, <1>15, <1>16, <1>17, <1>18, <1>19, <1>20, <1>21, <1>22, <1>23, <1>24,
     <1>25, <1>26, <1>27, <1>28, <1>29, <1>30, <1>31, <1>32, <1>33, <1>34, <1>35,
     <1>36, <1>37, <1>38, <1>39, <1>40, <1>41
  DEF Next, Ask, Execute, Worker, Handle

\* One event for requests that have none.
LEMMA TellOnce ==
  ASSUME TypeInv, AnsweredOnce, NEW R, NEW what, Tell(R, what),
         \A r \in R : r \in Reqs => answers[r] = <<>>
  PROVE  AnsweredOnce'
BY DEF TypeInv, TypeOK, Tell, AnsweredOnce

\* Whoever ends a task owns it.
LEMMA FinishOnce ==
  ASSUME TypeInv, AnswerInv, NEW R, NEW what, FinishTasks(R, what)
  PROVE  AnsweredOnce'
BY TellOnce DEF FinishTasks, AnswerInv, OwnerInv

\* Nobody answers a second time.
LEMMA OnceStep ==
  ASSUME TypeInv, AnswerInv, [Next]_vars PROVE AnsweredOnce'
<1>0. TypeInv /\ TypeOK /\ AnswerInv /\ OwnerInv /\ AnsweredOnce
  BY DEF TypeInv, AnswerInv
<1>1. ASSUME NEW r \in Reqs, AskPlain(r) PROVE AnsweredOnce'
  BY <1>0, <1>1 DEF AskPlain, Queue, AnsweredOnce, transfer
<1>2. ASSUME NEW r \in Reqs, AskMove(r) PROVE AnsweredOnce'
  BY <1>0, <1>2 DEF AskMove, Queue, AnsweredOnce, transfer
<1>3. ASSUME NEW r \in Reqs, AskKick(r) PROVE AnsweredOnce'
  BY <1>0, <1>3 DEF AskKick, Queue, AnsweredOnce, transfer
<1>4. ASSUME NEW r \in Reqs, AskGroup(r) PROVE AnsweredOnce'
  BY <1>0, <1>4 DEF AskGroup, Queue, AnsweredOnce, transfer
<1>5. ASSUME NEW r \in Reqs, AskOp(r) PROVE AnsweredOnce'
  BY <1>0, <1>5 DEF AskOp, Queue, AnsweredOnce, transfer
<1>6. ASSUME NEW r \in Reqs, NEW d \in Dirs, AskList(r, d) PROVE AnsweredOnce'
  BY <1>0, <1>6 DEF AskList, Queue, AnsweredOnce, transfer
<1>7. ASSUME NEW r \in Reqs, AskDownload(r) PROVE AnsweredOnce'
  BY <1>0, <1>7 DEF AskDownload, Queue, AnsweredOnce, transfer
<1>8. ASSUME NEW r \in Reqs, AskUpload(r) PROVE AnsweredOnce'
  BY <1>0, <1>8 DEF AskUpload, Queue, AnsweredOnce, transfer
<1>9. ASSUME NEW r \in Reqs, NEW k \in Transfers, AskLate(r, k) PROVE AnsweredOnce'
  BY <1>0, <1>9, TellOnce DEF AskLate, Fresh, OwnerInv
<1>10. ASSUME NEW r \in Reqs, Cancel(r) PROVE AnsweredOnce'
  BY <1>0, <1>10 DEF Cancel, AnsweredOnce, transfer
<1>11. ASSUME NEW r \in Reqs, SendKick(r) PROVE AnsweredOnce'
  BY <1>0, <1>11 DEF SendKick, Track, AnsweredOnce, transfer
<1>12. ASSUME NEW r \in Reqs, SendGroup(r) PROVE AnsweredOnce'
  BY <1>0, <1>12 DEF SendGroup, Track, AnsweredOnce, transfer
<1>13. ASSUME NEW r \in Reqs, RefuseKick(r) PROVE AnsweredOnce'
  <2>1. r \in InQueue
    BY <1>0, <1>13, Taken DEF RefuseKick, OwnerInv
  <2>2. kind[r] \notin Transfers
    BY <1>13 DEF RefuseKick, Tokens, Transfers
  <2>3. \E what : Tell({r}, what)
    BY <1>13 DEF RefuseKick
  <2> QED BY <1>0, <2>1, <2>2, <2>3, TellOnce DEF OwnerInv
<1>14. ASSUME NEW r \in Reqs, SendMove(r) PROVE AnsweredOnce'
  BY <1>0, <1>14 DEF SendMove, AnsweredOnce, transfer
<1>15. ASSUME NEW r \in Reqs, SendPlain(r) PROVE AnsweredOnce'
  BY <1>0, <1>15 DEF SendPlain, AnsweredOnce, transfer
<1>16. ASSUME NEW r \in Reqs, SendOp(r) PROVE AnsweredOnce'
  BY <1>0, <1>16 DEF SendOp, AnsweredOnce, transfer
<1>17. ASSUME NEW r \in Reqs, SendList(r) PROVE AnsweredOnce'
  BY <1>0, <1>17 DEF SendList, AnsweredOnce, transfer
<1>18. ASSUME NEW r \in Reqs, SendTransfer(r) PROVE AnsweredOnce'
  BY <1>0, <1>18 DEF SendTransfer, AnsweredOnce, transfer
<1>19. ASSUME NEW r \in Reqs, SendFails(r) PROVE AnsweredOnce'
  <2>1. r \in InQueue
    BY <1>0, <1>19, Taken DEF SendFails, OwnerInv
  <2>2. kind[r] \notin Transfers
    BY <1>19 DEF SendFails, Tokens, Transfers
  <2>3. \E what : Tell({r}, what)
    BY <1>19 DEF SendFails
  <2> QED BY <1>0, <2>1, <2>2, <2>3, TellOnce DEF OwnerInv
<1>20. ASSUME NEW r \in Reqs, TransferFails(r) PROVE AnsweredOnce'
  BY <1>0, <1>20, FinishOnce DEF TransferFails, AnsweredOnce
<1>21. ASSUME NEW r \in Reqs, WorkerCancels(r) PROVE AnsweredOnce'
  BY <1>0, <1>21, FinishOnce DEF WorkerCancels, AnsweredOnce
<1>22. ASSUME NEW r \in Reqs, GraceEnds(r) PROVE AnsweredOnce'
  BY <1>0, <1>22, FinishOnce DEF GraceEnds, AnsweredOnce
<1>23. ASSUME NEW r \in Reqs, NEW whole \in BOOLEAN, DownloadEnds(r, whole) PROVE AnsweredOnce'
  BY <1>0, <1>23, FinishOnce DEF DownloadEnds, AnsweredOnce
<1>24. ASSUME NEW r \in Reqs, NEW whole \in BOOLEAN, UploadSent(r, whole) PROVE AnsweredOnce'
  BY <1>0, <1>24, FinishOnce DEF UploadSent, AnsweredOnce
<1>25. ASSUME NEW r \in Reqs, NEW ok \in BOOLEAN, Opened(r, ok) PROVE AnsweredOnce'
  BY <1>0, <1>25 DEF Opened, AnsweredOnce, transfer
<1>26. ASSUME NEW r \in Reqs, NEW res \in {"ok", "err"}, ServerStatus(r, res)
       PROVE AnsweredOnce'
  BY <1>0, <1>26 DEF ServerStatus, AnsweredOnce, transfer
<1>27. CASE ServerAnswers
  BY <1>0, <1>27 DEF ServerAnswers, AnsweredOnce, transfer
<1>28. CASE Drop
  BY <1>0, <1>28 DEF Drop, AnsweredOnce, transfer
<1>29. CASE Reconnect
  BY <1>0, <1>29 DEF Reconnect, AnsweredOnce, transfer
<1>30. CASE End
  BY <1>0, <1>30 DEF End, AnsweredOnce, transfer
<1>31. CASE Connect
  BY <1>0, <1>31 DEF Connect, AnsweredOnce, transfer
<1>32. ASSUME NEW n \in 1..Len(net), Collect(n) PROVE AnsweredOnce'
  BY <1>0, <1>32 DEF Collect, AnsweredOnce, transfer
<1>33. CASE HandleResult
  <2> DEFINE c == Item1.key
             p == {permOps[c], ftOps[c]} \ {None}
             u == IF Item1.res = "ok" \/ taskByRc[c] = None THEN {} ELSE {taskByRc[c]} \cap tasks
  <2>1. c \in Codes
    BY <1>0, <1>33, FirstSound DEF HandleResult, Handling, Item1, Sound
  <2>2. \A q \in p \cup u : answers[q] = <<>>
    BY <1>0, <2>1 DEF OwnerInv, Owned
  <2>3. Tell(p \cup u, IF Item1.res = "ok" THEN "ok" ELSE "err")
    BY <1>33 DEF HandleResult
  <2> QED BY <1>0, <2>2, <2>3, TellOnce
<1>34. CASE HandleRows
  BY <1>0, <1>34 DEF HandleRows, AnsweredOnce, transfer
<1>35. CASE HandleFin
  BY <1>0, <1>35 DEF HandleFin, AnsweredOnce, transfer
<1>36. CASE HandleError
  <2>1. Item1.of \in Reqs /\ kind[Item1.of] = "plain"
    BY <1>0, <1>36, FirstSound DEF HandleError, Handling, Item1, Sound
  <2> QED BY <1>0, <2>1, <1>36 DEF HandleError, AnsweredOnce
<1>37. CASE HandleStart
  BY <1>0, <1>37 DEF HandleStart, AnsweredOnce, transfer
<1>38. CASE HandleStatus
  BY <1>0, <1>38, FinishOnce DEF HandleStatus, AnsweredOnce
<1>39. CASE HandleDrop
  <2>1. Tell({permOps[c] : c \in Codes} \ {None}, "lost")
    BY <1>39 DEF HandleDrop
  <2>2. \A q \in {permOps[c] : c \in Codes} \ {None} : answers[q] = <<>>
    BY <1>0 DEF OwnerInv, Owned
  <2> QED BY <1>0, <2>1, <2>2, TellOnce
<1>40. ASSUME NEW t \in timers, Fire(t) PROVE AnsweredOnce'
  <2> DEFINE l == ftLists[t.code]
             a == Answer(IF l.res = "err" THEN "err" ELSE "ok", l.rows)
  <2>1. CASE l.of = None
    BY <1>0, <2>1, <1>40 DEF Fire, AnsweredOnce
  <2>2. CASE l.of # None
    <3>1. answers' = [answers EXCEPT ![l.of] = Append(answers[l.of], a)]
      BY <2>2, <1>40 DEF Fire
    <3>2. t.code \in Codes
      BY <1>0, <1>40 DEF TypeInv, TypeOK, Timers
    <3>3. answers[l.of] = <<>>
      BY <1>0, <2>2, <3>2 DEF OwnerInv, Owned, Listed
    <3>4. Len(Append(<<>>, a)) = 1
      OBVIOUS
    <3> HIDE DEF l, a
    <3> QED BY <1>0, <3>1, <3>3, <3>4 DEF TypeInv, TypeOK, AnsweredOnce
  <2> QED BY <2>1, <2>2
<1>41. CASE UNCHANGED vars
  BY <1>0, <1>41 DEF vars, AnsweredOnce
<1> QED
  BY <1>1, <1>2, <1>3, <1>4, <1>5, <1>6, <1>7, <1>8, <1>9, <1>10, <1>11, <1>12, <1>13,
     <1>14, <1>15, <1>16, <1>17, <1>18, <1>19, <1>20, <1>21, <1>22, <1>23, <1>24,
     <1>25, <1>26, <1>27, <1>28, <1>29, <1>30, <1>31, <1>32, <1>33, <1>34, <1>35,
     <1>36, <1>37, <1>38, <1>39, <1>40, <1>41
  DEF Next, Ask, Execute, Worker, Handle

\* At first nobody waits.
LEMMA OwnerInit == Init => AnswerInv
BY DEF Init, AnswerInv, OwnerInv, AnsweredOnce, Queued, InQueue, Owned, Listed, NoList

\* Whatever the network, the server and the user do, no request is answered
\* twice: the sender, the handlers, the timers and the workers all take it out of
\* the place they found it in.
THEOREM Once == Spec => []AnsweredOnce
<1>1. TypeInv /\ AnswerInv /\ [Next]_vars => AnswerInv'
  BY OwnerStep, OnceStep DEF AnswerInv
<1>2. AnswerInv => AnsweredOnce
  BY DEF AnswerInv
<1> QED BY TypeInit, TypeStep, OwnerInit, <1>1, <1>2, PTL DEF Spec

-----------------------------------------------------------------------------
(* What a step does to the wire, the tables and the history. *)

\* A command goes out; the stream grows by something the server was not asked for; an
\* item is handled.
Sends(r) == Next1(r) /\ CanSend /\ Sent(r) /\ UNCHANGED answers
Grows ==
  /\ link = "up" /\ UNCHANGED <<link, conn, code, srv, batch>>
  /\ net' = net \/ \E m \in Sound : m.type \in {"error", "start", "status"} /\ net' = Append(net, m)
Handles ==
  /\ batch # <<>> /\ batch' = Tail(batch) /\ UNCHANGED <<link, conn, code, srv, net>>
  /\ Item1.type = "drop" => HandleDrop

WireMoves ==
  \/ UNCHANGED <<link, conn, code, srv, net, batch>>
  \/ \E r \in Reqs : Sends(r)
  \/ Grows \/ Handles
  \/ ServerAnswers \/ Drop \/ Reconnect \/ End \/ Connect
  \/ \E n \in 1..Len(net) : Collect(n)

\* Every step is one of these as far as the wire goes.
LEMMA WireMove ==
  ASSUME TypeInv, [Next]_vars PROVE WireMoves
<1>0. TypeInv
  OBVIOUS
<1> USE DEF WireMoves
<1>1. ASSUME NEW r \in Reqs, AskPlain(r) PROVE WireMoves
  BY <1>1 DEF AskPlain, Queue, wire
<1>2. ASSUME NEW r \in Reqs, AskMove(r) PROVE WireMoves
  BY <1>2 DEF AskMove, Queue, wire
<1>3. ASSUME NEW r \in Reqs, AskKick(r) PROVE WireMoves
  BY <1>3 DEF AskKick, Queue, wire
<1>4. ASSUME NEW r \in Reqs, AskGroup(r) PROVE WireMoves
  BY <1>4 DEF AskGroup, Queue, wire
<1>5. ASSUME NEW r \in Reqs, AskOp(r) PROVE WireMoves
  BY <1>5 DEF AskOp, Queue, wire
<1>6. ASSUME NEW r \in Reqs, NEW d \in Dirs, AskList(r, d) PROVE WireMoves
  BY <1>6 DEF AskList, Queue, wire
<1>7. ASSUME NEW r \in Reqs, AskDownload(r) PROVE WireMoves
  BY <1>7 DEF AskDownload, Queue, wire
<1>8. ASSUME NEW r \in Reqs, AskUpload(r) PROVE WireMoves
  BY <1>8 DEF AskUpload, Queue, wire
<1>9. ASSUME NEW r \in Reqs, NEW k \in Transfers, AskLate(r, k) PROVE WireMoves
  BY <1>9 DEF AskLate, wire
<1>10. ASSUME NEW r \in Reqs, Cancel(r) PROVE WireMoves
  BY <1>10 DEF Cancel, wire
<1>11. ASSUME NEW r \in Reqs, SendKick(r) PROVE WireMoves
  BY <1>11 DEF SendKick, Track, Sends
<1>12. ASSUME NEW r \in Reqs, SendGroup(r) PROVE WireMoves
  BY <1>12 DEF SendGroup, Track, Sends
<1>13. ASSUME NEW r \in Reqs, RefuseKick(r) PROVE WireMoves
  BY <1>13 DEF RefuseKick, wire
<1>14. ASSUME NEW r \in Reqs, SendMove(r) PROVE WireMoves
  BY <1>14 DEF SendMove, Sends, wire
<1>15. ASSUME NEW r \in Reqs, SendPlain(r) PROVE WireMoves
  <2> DEFINE m == [type |-> "error", key |-> 0, res |-> "err", of |-> r]
  <2>1. m \in Sound /\ m.type = "error"
    BY <1>15 DEF SendPlain, Sound, Items
  <2> HIDE DEF m
  <2>2. net' = net \/ (link = "up" /\ net' = Append(net, m))
    BY <1>15 DEF SendPlain, m
  <2> QED BY <2>1, <2>2, <1>15 DEF SendPlain, Grows
<1>16. ASSUME NEW r \in Reqs, SendOp(r) PROVE WireMoves
  BY <1>16 DEF SendOp, Sends
<1>17. ASSUME NEW r \in Reqs, SendList(r) PROVE WireMoves
  BY <1>17 DEF SendList, Sends
<1>18. ASSUME NEW r \in Reqs, SendTransfer(r) PROVE WireMoves
  BY <1>18 DEF SendTransfer, Sends
<1>19. ASSUME NEW r \in Reqs, SendFails(r) PROVE WireMoves
  BY <1>19 DEF SendFails, wire
<1>20. ASSUME NEW r \in Reqs, TransferFails(r) PROVE WireMoves
  BY <1>20 DEF TransferFails, wire
<1>21. ASSUME NEW r \in Reqs, WorkerCancels(r) PROVE WireMoves
  BY <1>21 DEF WorkerCancels, wire
<1>22. ASSUME NEW r \in Reqs, GraceEnds(r) PROVE WireMoves
  BY <1>22 DEF GraceEnds, wire
<1>23. ASSUME NEW r \in Reqs, NEW whole \in BOOLEAN, DownloadEnds(r, whole) PROVE WireMoves
  BY <1>23 DEF DownloadEnds, wire
<1>24. ASSUME NEW r \in Reqs, NEW whole \in BOOLEAN, UploadSent(r, whole) PROVE WireMoves
  BY <1>24 DEF UploadSent, wire
<1>25. ASSUME NEW r \in Reqs, NEW ok \in BOOLEAN, Opened(r, ok) PROVE WireMoves
  <2>1. ftid[r] \in Nat
    BY <1>0, RequestsAssumption DEF TypeInv, TypeOK
  <2>2. PICK m \in Sound : m.type \in {"start", "status"} /\ net' = Append(net, m)
    BY <2>1, <1>25, ItemSound DEF Opened, Item
  <2> QED BY <2>2, <1>25 DEF Opened, Grows
<1>26. ASSUME NEW r \in Reqs, NEW res \in {"ok", "err"}, ServerStatus(r, res) PROVE WireMoves
  <2>1. ftid[r] \in Nat
    BY <1>0, RequestsAssumption DEF TypeInv, TypeOK
  <2>2. PICK m \in Sound : m.type = "status" /\ net' = Append(net, m)
    BY <2>1, <1>26, ItemSound DEF ServerStatus, Item
  <2> QED BY <2>2, <1>26 DEF ServerStatus, Grows
<1>27. CASE ServerAnswers
  BY <1>27
<1>28. CASE Drop
  BY <1>28
<1>29. CASE Reconnect
  BY <1>29
<1>30. CASE End
  BY <1>30
<1>31. CASE Connect
  BY <1>31
<1>32. ASSUME NEW n \in 1..Len(net), Collect(n) PROVE WireMoves
  BY <1>32
<1>33. CASE HandleResult
  BY <1>33 DEF HandleResult, Handling, Schedule, Handles, Item1
<1>34. CASE HandleRows
  BY <1>34 DEF HandleRows, Handling, Handled, Handles, Item1
<1>35. CASE HandleFin
  BY <1>35 DEF HandleFin, Handling, Schedule, Handles, Item1
<1>36. CASE HandleError
  BY <1>36 DEF HandleError, Handling, Handled, Handles, Item1
<1>37. CASE HandleStart
  BY <1>37 DEF HandleStart, Handling, Handled, Handles, Item1
<1>38. CASE HandleStatus
  BY <1>38 DEF HandleStatus, Handling, Handled, Handles, Item1
<1>39. CASE HandleDrop
  BY <1>39 DEF HandleDrop, Handling, Handled, Handles
<1>40. ASSUME NEW t \in timers, Fire(t) PROVE WireMoves
  BY <1>40 DEF Fire, wire
<1>41. CASE UNCHANGED vars
  BY <1>41 DEF vars, wire
<1> QED
  BY <1>1, <1>2, <1>3, <1>4, <1>5, <1>6, <1>7, <1>8, <1>9, <1>10, <1>11, <1>12, <1>13,
     <1>14, <1>15, <1>16, <1>17, <1>18, <1>19, <1>20, <1>21, <1>22, <1>23, <1>24,
     <1>25, <1>26, <1>27, <1>28, <1>29, <1>30, <1>31, <1>32, <1>33, <1>34, <1>35,
     <1>36, <1>37, <1>38, <1>39, <1>40, <1>41
  DEF Next, Ask, Execute, Worker, Handle

\* Entries of the tables only go, or the request that is sent gets one.
Shrinks ==
  \A c \in Codes : /\ permOps'[c] \in {permOps[c], None} /\ ftOps'[c] \in {ftOps[c], None}
                   /\ ftLists'[c].of \in {ftLists[c].of, None}
                   /\ ftLists'[c].of # None =>
                        \/ ftLists'[c].res = ftLists[c].res
                        \/ HandleResult /\ c = Item1.key /\ ftLists'[c].res = Item1.res
Files(r) ==
  /\ Sends(r) /\ kind[r] \notin Transfers
  /\ \A c \in Codes :
       /\ permOps'[c] = IF c = code /\ kind[r] \in Tokens THEN r ELSE permOps[c]
       /\ ftOps'[c] = IF c = code /\ kind[r] = "op" THEN r ELSE ftOps[c]
       /\ \/ ftLists'[c] \in {NoList, ftLists[c]} /\ (c # code \/ kind[r] # "list")
          \/ ftLists'[c].of = r /\ c = code /\ kind[r] = "list" /\ ftLists'[c].res = "none"
TableMoves == Shrinks \/ \E r \in Reqs : Files(r)

\* Every step is one of these as far as the tables go.
LEMMA TableMove ==
  ASSUME TypeInv, [Next]_vars PROVE TableMoves
<1>0. TypeInv /\ TypeOK
  BY DEF TypeInv
<1>a. UNCHANGED <<permOps, ftOps, ftLists>> => TableMoves
  BY DEF TableMoves, Shrinks
<1>1. ASSUME NEW r \in Reqs, AskPlain(r) PROVE TableMoves
  BY <1>a, <1>1 DEF AskPlain, Queue, tables
<1>2. ASSUME NEW r \in Reqs, AskMove(r) PROVE TableMoves
  BY <1>a, <1>2 DEF AskMove, Queue, tables
<1>3. ASSUME NEW r \in Reqs, AskKick(r) PROVE TableMoves
  BY <1>a, <1>3 DEF AskKick, Queue, tables
<1>4. ASSUME NEW r \in Reqs, AskGroup(r) PROVE TableMoves
  BY <1>a, <1>4 DEF AskGroup, Queue, tables
<1>5. ASSUME NEW r \in Reqs, AskOp(r) PROVE TableMoves
  BY <1>a, <1>5 DEF AskOp, Queue, tables
<1>6. ASSUME NEW r \in Reqs, NEW d \in Dirs, AskList(r, d) PROVE TableMoves
  BY <1>a, <1>6 DEF AskList, Queue, tables
<1>7. ASSUME NEW r \in Reqs, AskDownload(r) PROVE TableMoves
  BY <1>a, <1>7 DEF AskDownload, Queue, tables
<1>8. ASSUME NEW r \in Reqs, AskUpload(r) PROVE TableMoves
  BY <1>a, <1>8 DEF AskUpload, Queue, tables
<1>9. ASSUME NEW r \in Reqs, NEW k \in Transfers, AskLate(r, k) PROVE TableMoves
  BY <1>a, <1>9 DEF AskLate, tables
<1>10. ASSUME NEW r \in Reqs, Cancel(r) PROVE TableMoves
  BY <1>a, <1>10 DEF Cancel, tables
<1>11. ASSUME NEW r \in Reqs, SendKick(r) PROVE TableMoves
  <2>1. Sends(r) /\ kind[r] \notin Transfers
    BY <1>11 DEF SendKick, Track, Sends, Transfers
  <2>2. \A c \in Codes : permOps'[c] = IF c = code /\ kind[r] \in Tokens THEN r ELSE permOps[c]
    BY <1>0, <1>11 DEF SendKick, Track, TypeOK, Tokens
  <2>3. \A c \in Codes : ftOps'[c] = IF c = code /\ kind[r] = "op" THEN r ELSE ftOps[c]
    BY <1>0, <1>11 DEF SendKick, Track, TypeOK
  <2>4. \A c \in Codes : \/ ftLists'[c] \in {NoList, ftLists[c]} /\ (c # code \/ kind[r] # "list")
                         \/ ftLists'[c].of = r /\ c = code /\ kind[r] = "list" /\ ftLists'[c].res = "none"
    BY <1>0, <1>11 DEF SendKick, Track, TypeOK
  <2> QED BY <2>1, <2>2, <2>3, <2>4 DEF TableMoves, Files
<1>12. ASSUME NEW r \in Reqs, SendGroup(r) PROVE TableMoves
  <2>1. Sends(r) /\ kind[r] \notin Transfers
    BY <1>12 DEF SendGroup, Track, Sends, Transfers
  <2>2. \A c \in Codes : permOps'[c] = IF c = code /\ kind[r] \in Tokens THEN r ELSE permOps[c]
    BY <1>0, <1>12 DEF SendGroup, Track, TypeOK, Tokens
  <2>3. \A c \in Codes : ftOps'[c] = IF c = code /\ kind[r] = "op" THEN r ELSE ftOps[c]
    BY <1>0, <1>12 DEF SendGroup, Track, TypeOK
  <2>4. \A c \in Codes : \/ ftLists'[c] \in {NoList, ftLists[c]} /\ (c # code \/ kind[r] # "list")
                         \/ ftLists'[c].of = r /\ c = code /\ kind[r] = "list" /\ ftLists'[c].res = "none"
    BY <1>0, <1>12 DEF SendGroup, Track, TypeOK
  <2> QED BY <2>1, <2>2, <2>3, <2>4 DEF TableMoves, Files
<1>13. ASSUME NEW r \in Reqs, RefuseKick(r) PROVE TableMoves
  BY <1>a, <1>13 DEF RefuseKick, tables
<1>14. ASSUME NEW r \in Reqs, SendMove(r) PROVE TableMoves
  BY <1>a, <1>14 DEF SendMove, tables
<1>15. ASSUME NEW r \in Reqs, SendPlain(r) PROVE TableMoves
  BY <1>a, <1>15 DEF SendPlain, tables
<1>16. ASSUME NEW r \in Reqs, SendOp(r) PROVE TableMoves
  <2>1. Sends(r) /\ kind[r] \notin Transfers
    BY <1>16 DEF SendOp, Sends, Transfers
  <2>2. \A c \in Codes : permOps'[c] = IF c = code /\ kind[r] \in Tokens THEN r ELSE permOps[c]
    BY <1>0, <1>16 DEF SendOp, TypeOK, Tokens
  <2>3. \A c \in Codes : ftOps'[c] = IF c = code /\ kind[r] = "op" THEN r ELSE ftOps[c]
    BY <1>0, <1>16 DEF SendOp, TypeOK
  <2>4. \A c \in Codes : \/ ftLists'[c] \in {NoList, ftLists[c]} /\ (c # code \/ kind[r] # "list")
                         \/ ftLists'[c].of = r /\ c = code /\ kind[r] = "list" /\ ftLists'[c].res = "none"
    BY <1>0, <1>16 DEF SendOp, TypeOK
  <2> QED BY <2>1, <2>2, <2>3, <2>4 DEF TableMoves, Files
<1>17. ASSUME NEW r \in Reqs, SendList(r) PROVE TableMoves
  <2>1. Sends(r) /\ kind[r] \notin Transfers
    BY <1>17 DEF SendList, Sends, Transfers
  <2>2. \A c \in Codes : permOps'[c] = IF c = code /\ kind[r] \in Tokens THEN r ELSE permOps[c]
    BY <1>0, <1>17 DEF SendList, TypeOK, Tokens
  <2>3. \A c \in Codes : ftOps'[c] = IF c = code /\ kind[r] = "op" THEN r ELSE ftOps[c]
    BY <1>0, <1>17 DEF SendList, TypeOK
  <2>4. \A c \in Codes : \/ ftLists'[c] \in {NoList, ftLists[c]} /\ (c # code \/ kind[r] # "list")
                         \/ ftLists'[c].of = r /\ c = code /\ kind[r] = "list" /\ ftLists'[c].res = "none"
    BY <1>0, <1>17 DEF SendList, TypeOK, NoList
  <2> QED BY <2>1, <2>2, <2>3, <2>4 DEF TableMoves, Files
<1>18. ASSUME NEW r \in Reqs, SendTransfer(r) PROVE TableMoves
  BY <1>a, <1>18 DEF SendTransfer, tables
<1>19. ASSUME NEW r \in Reqs, SendFails(r) PROVE TableMoves
  BY <1>a, <1>19 DEF SendFails, tables
<1>20. ASSUME NEW r \in Reqs, TransferFails(r) PROVE TableMoves
  BY <1>a, <1>20 DEF TransferFails, tables
<1>21. ASSUME NEW r \in Reqs, WorkerCancels(r) PROVE TableMoves
  BY <1>a, <1>21 DEF WorkerCancels, tables
<1>22. ASSUME NEW r \in Reqs, GraceEnds(r) PROVE TableMoves
  BY <1>a, <1>22 DEF GraceEnds, tables
<1>23. ASSUME NEW r \in Reqs, NEW whole \in BOOLEAN, DownloadEnds(r, whole) PROVE TableMoves
  BY <1>a, <1>23 DEF DownloadEnds, tables
<1>24. ASSUME NEW r \in Reqs, NEW whole \in BOOLEAN, UploadSent(r, whole) PROVE TableMoves
  BY <1>a, <1>24 DEF UploadSent, tables
<1>25. ASSUME NEW r \in Reqs, NEW ok \in BOOLEAN, Opened(r, ok) PROVE TableMoves
  BY <1>a, <1>25 DEF Opened, tables
<1>26. ASSUME NEW r \in Reqs, NEW res \in {"ok", "err"}, ServerStatus(r, res) PROVE TableMoves
  BY <1>a, <1>26 DEF ServerStatus, tables
<1>27. CASE ServerAnswers
  BY <1>a, <1>27 DEF ServerAnswers, tables
<1>28. CASE Drop
  BY <1>a, <1>28 DEF Drop, tables
<1>29. CASE Reconnect
  BY <1>a, <1>29 DEF Reconnect, tables
<1>30. CASE End
  BY <1>30 DEF End, TableMoves, Shrinks, NoList
<1>31. CASE Connect
  BY <1>a, <1>31 DEF Connect, tables
<1>32. ASSUME NEW n \in 1..Len(net), Collect(n) PROVE TableMoves
  BY <1>a, <1>32 DEF Collect, tables
<1>33. CASE HandleResult
  <2> DEFINE k == Item1.key
  <2>1. k \in Codes
    BY <1>0, <1>33, FirstSound DEF HandleResult, Handling, Item1, Sound
  <2>2. \A d \in Codes : permOps'[d] \in {permOps[d], None} /\ ftOps'[d] \in {ftOps[d], None}
    BY <1>0, <1>33 DEF HandleResult, TypeOK
  <2>3. \A d \in Codes : /\ ftLists'[d].of = ftLists[d].of
                         /\ ftLists'[d].res = ftLists[d].res \/ (d = k /\ ftLists'[d].res = Item1.res)
    BY <1>0, <2>1, <1>33 DEF HandleResult, Schedule, TypeOK, Lists
  <2> QED BY <2>2, <2>3, <1>33 DEF TableMoves, Shrinks
<1>34. CASE HandleRows
  <2>1. Item1.key \in Codes
    BY <1>0, <1>34, FirstSound DEF HandleRows, Handling, Item1, Sound
  <2>2. UNCHANGED <<permOps, ftOps>> /\ \A c \in Codes : ftLists'[c].of = ftLists[c].of /\ ftLists'[c].res = ftLists[c].res
    BY <1>0, <2>1, <1>34 DEF HandleRows, TypeOK, Lists
  <2> QED BY <2>2 DEF TableMoves, Shrinks
<1>35. CASE HandleFin
  <2>1. UNCHANGED <<permOps, ftOps>>
    BY <1>35 DEF HandleFin
  <2>2. \A c \in Codes : ftLists'[c].of = ftLists[c].of /\ ftLists'[c].res = ftLists[c].res
    BY <1>0, <1>35 DEF HandleFin, Schedule, TypeOK, Lists
  <2> QED BY <2>1, <2>2 DEF TableMoves, Shrinks
<1>36. CASE HandleError
  BY <1>a, <1>36 DEF HandleError, tables
<1>37. CASE HandleStart
  BY <1>a, <1>37 DEF HandleStart, tables
<1>38. CASE HandleStatus
  BY <1>a, <1>38 DEF HandleStatus, tables
<1>39. CASE HandleDrop
  BY <1>39 DEF HandleDrop, TableMoves, Shrinks, NoList
<1>40. ASSUME NEW t \in timers, Fire(t) PROVE TableMoves
  <2>1. UNCHANGED <<permOps, ftOps>>
    BY <1>40 DEF Fire
  <2>2. \A c \in Codes : ftLists'[c] \in {NoList, ftLists[c]}
    BY <1>0, <1>40 DEF Fire, TypeOK
  <2> QED BY <2>1, <2>2 DEF TableMoves, Shrinks, NoList
<1>41. CASE UNCHANGED vars
  BY <1>a, <1>41 DEF vars, tables
<1> QED
  BY <1>1, <1>2, <1>3, <1>4, <1>5, <1>6, <1>7, <1>8, <1>9, <1>10, <1>11, <1>12, <1>13,
     <1>14, <1>15, <1>16, <1>17, <1>18, <1>19, <1>20, <1>21, <1>22, <1>23, <1>24,
     <1>25, <1>26, <1>27, <1>28, <1>29, <1>30, <1>31, <1>32, <1>33, <1>34, <1>35,
     <1>36, <1>37, <1>38, <1>39, <1>40, <1>41
  DEF Next, Ask, Execute, Worker, Handle

\* A request is made in the connection it is asked and sent in; what the server did
\* with it changes when it answers, and later only for a transfer with a worker.
HistoryMoves ==
  \A r \in Reqs :
    /\ \/ sentIn'[r] = sentIn[r]
       \/ sentIn'[r] = conn /\ (kind[r] = "none" \/ Next1(r))
    /\ \/ did'[r] = did[r] 
       \/ ServerAnswers /\ r = Head(srv).of /\ did'[r] \in {"ok", "err", "empty"}
          /\ (did'[r] = "empty" => kind[r] = "list")
       \/ did[r] = "ok" /\ did'[r] \in {"all", "err"} /\ (kind[r] \in Transfers \/ worker[r] # "none")
    /\ kind'[r] = kind[r] \/ (Fresh(r) /\ (kind'[r] \in Transfers \/ sentIn'[r] = conn))
    /\ worker'[r] = worker[r] \/ worker[r] # "none" \/ r \in tasks

\* Every step is one of these as far as the history goes.
LEMMA HistoryMove ==
  ASSUME TypeInv, [Next]_vars PROVE HistoryMoves
<1>0. TypeInv /\ TypeOK
  BY DEF TypeInv
<1>a. UNCHANGED <<kind, sentIn, did, worker>> => HistoryMoves
  BY DEF HistoryMoves
<1>1. ASSUME NEW r \in Reqs, AskPlain(r) PROVE HistoryMoves
  BY <1>0, <1>1 DEF AskPlain, Queue, HistoryMoves, TypeOK, Fresh
<1>2. ASSUME NEW r \in Reqs, AskMove(r) PROVE HistoryMoves
  BY <1>0, <1>2 DEF AskMove, Queue, HistoryMoves, TypeOK, Fresh
<1>3. ASSUME NEW r \in Reqs, AskKick(r) PROVE HistoryMoves
  BY <1>0, <1>3 DEF AskKick, Queue, HistoryMoves, TypeOK, Fresh
<1>4. ASSUME NEW r \in Reqs, AskGroup(r) PROVE HistoryMoves
  BY <1>0, <1>4 DEF AskGroup, Queue, HistoryMoves, TypeOK, Fresh
<1>5. ASSUME NEW r \in Reqs, AskOp(r) PROVE HistoryMoves
  BY <1>0, <1>5 DEF AskOp, Queue, HistoryMoves, TypeOK, Fresh
<1>6. ASSUME NEW r \in Reqs, NEW d \in Dirs, AskList(r, d) PROVE HistoryMoves
  BY <1>0, <1>6 DEF AskList, Queue, HistoryMoves, TypeOK, Fresh
<1>7. ASSUME NEW r \in Reqs, AskDownload(r) PROVE HistoryMoves
  BY <1>0, <1>7 DEF AskDownload, Queue, HistoryMoves, TypeOK, Fresh
<1>8. ASSUME NEW r \in Reqs, AskUpload(r) PROVE HistoryMoves
  BY <1>0, <1>8 DEF AskUpload, Queue, HistoryMoves, TypeOK, Fresh
<1>9. ASSUME NEW r \in Reqs, NEW k \in Transfers, AskLate(r, k) PROVE HistoryMoves
  BY <1>0, <1>9 DEF AskLate, HistoryMoves, TypeOK, transfer, history
<1>10. ASSUME NEW r \in Reqs, Cancel(r) PROVE HistoryMoves
  BY <1>a, <1>10 DEF Cancel, asking, transfer, history
<1>11. ASSUME NEW r \in Reqs, SendKick(r) PROVE HistoryMoves
  BY <1>0, <1>11 DEF SendKick, Track, Sent, HistoryMoves, TypeOK, asking, transfer, history
<1>12. ASSUME NEW r \in Reqs, SendGroup(r) PROVE HistoryMoves
  BY <1>0, <1>12 DEF SendGroup, Track, Sent, HistoryMoves, TypeOK, asking, transfer, history
<1>13. ASSUME NEW r \in Reqs, RefuseKick(r) PROVE HistoryMoves
  BY <1>a, <1>13 DEF RefuseKick, asking, transfer, history
<1>14. ASSUME NEW r \in Reqs, SendMove(r) PROVE HistoryMoves
  BY <1>0, <1>14 DEF SendMove, Sent, HistoryMoves, TypeOK, asking, transfer, history
<1>15. ASSUME NEW r \in Reqs, SendPlain(r) PROVE HistoryMoves
  BY <1>a, <1>15 DEF SendPlain, asking, transfer, history
<1>16. ASSUME NEW r \in Reqs, SendOp(r) PROVE HistoryMoves
  BY <1>0, <1>16 DEF SendOp, Sent, HistoryMoves, TypeOK, asking, transfer, history
<1>17. ASSUME NEW r \in Reqs, SendList(r) PROVE HistoryMoves
  BY <1>0, <1>17 DEF SendList, Sent, HistoryMoves, TypeOK, asking, transfer, history
<1>18. ASSUME NEW r \in Reqs, SendTransfer(r) PROVE HistoryMoves
  BY <1>0, <1>18 DEF SendTransfer, Sent, HistoryMoves, TypeOK, asking, transfer, history
<1>19. ASSUME NEW r \in Reqs, SendFails(r) PROVE HistoryMoves
  BY <1>a, <1>19 DEF SendFails, asking, transfer, history
<1>20. ASSUME NEW r \in Reqs, TransferFails(r) PROVE HistoryMoves
  BY <1>a, <1>20 DEF TransferFails, asking, transfer, history
<1>21. ASSUME NEW r \in Reqs, WorkerCancels(r) PROVE HistoryMoves
  BY <1>0, <1>21 DEF WorkerCancels, HistoryMoves, TypeOK, asking, transfer, history, Transfers
<1>22. ASSUME NEW r \in Reqs, GraceEnds(r) PROVE HistoryMoves
  BY <1>0, <1>22 DEF GraceEnds, HistoryMoves, TypeOK, asking, transfer, history, Transfers
<1>23. ASSUME NEW r \in Reqs, NEW whole \in BOOLEAN, DownloadEnds(r, whole) PROVE HistoryMoves
  BY <1>0, <1>23 DEF DownloadEnds, HistoryMoves, TypeOK, asking, transfer, history, Transfers
<1>24. ASSUME NEW r \in Reqs, NEW whole \in BOOLEAN, UploadSent(r, whole) PROVE HistoryMoves
  BY <1>0, <1>24 DEF UploadSent, HistoryMoves, TypeOK, asking, transfer, history, Transfers
<1>25. ASSUME NEW r \in Reqs, NEW ok \in BOOLEAN, Opened(r, ok) PROVE HistoryMoves
  BY <1>a, <1>25 DEF Opened, asking, transfer, history
<1>26. ASSUME NEW r \in Reqs, NEW res \in {"ok", "err"}, ServerStatus(r, res) PROVE HistoryMoves
  BY <1>0, <1>26 DEF ServerStatus, HistoryMoves, TypeOK, asking, transfer, history, Transfers
<1>27. CASE ServerAnswers
  BY <1>0, <1>27 DEF ServerAnswers, HistoryMoves, TypeOK, asking, transfer
<1>28. CASE Drop
  BY <1>a, <1>28 DEF Drop, asking, transfer, history
<1>29. CASE Reconnect
  BY <1>a, <1>29 DEF Reconnect, asking, transfer, history
<1>30. CASE End
  BY <1>a, <1>30 DEF End, asking, transfer, history
<1>31. CASE Connect
  BY <1>a, <1>31 DEF Connect, asking, transfer, history
<1>32. ASSUME NEW n \in 1..Len(net), Collect(n) PROVE HistoryMoves
  BY <1>a, <1>32 DEF Collect, asking, transfer, history
<1>33. CASE HandleResult
  BY <1>a, <1>33 DEF HandleResult, asking, transfer, history
<1>34. CASE HandleRows
  BY <1>a, <1>34 DEF HandleRows, asking, transfer, history
<1>35. CASE HandleFin
  BY <1>a, <1>35 DEF HandleFin, asking, transfer, history
<1>36. CASE HandleError
  BY <1>a, <1>36 DEF HandleError, asking, transfer, history
<1>37. CASE HandleStart
  BY <1>0, <1>37 DEF HandleStart, HistoryMoves, TypeOK, asking, transfer, history, Transfers, TaskOf
<1>38. CASE HandleStatus
  BY <1>a, <1>38 DEF HandleStatus, asking, transfer, history
<1>39. CASE HandleDrop
  BY <1>a, <1>39 DEF HandleDrop, asking, transfer, history
<1>40. ASSUME NEW t \in timers, Fire(t) PROVE HistoryMoves
  BY <1>a, <1>40 DEF Fire, asking, transfer, history
<1>41. CASE UNCHANGED vars
  BY <1>a, <1>41 DEF vars, asking, transfer, history
<1> QED
  BY <1>1, <1>2, <1>3, <1>4, <1>5, <1>6, <1>7, <1>8, <1>9, <1>10, <1>11, <1>12, <1>13,
     <1>14, <1>15, <1>16, <1>17, <1>18, <1>19, <1>20, <1>21, <1>22, <1>23, <1>24,
     <1>25, <1>26, <1>27, <1>28, <1>29, <1>30, <1>31, <1>32, <1>33, <1>34, <1>35,
     <1>36, <1>37, <1>38, <1>39, <1>40, <1>41
  DEF Next, Ask, Execute, Worker, Handle

\* Whom a step answers, unless that is a transfer.
AnswerMoves ==
  \A r \in Reqs :
    \/ answers'[r] = answers[r]
    \/ kind'[r] \in Transfers
    \/ \E a : /\ answers'[r] = Append(answers[r], a)
              /\ \/ a.what \in {"unsent", "refused", "lost"} /\ (kind[r] = "list" => r \in InQueue)
                 \/ /\ HandleResult /\ Item1.key \in Codes
                    /\ r \in {permOps[Item1.key], ftOps[Item1.key]}
                    /\ a = Answer(IF Item1.res = "ok" THEN "ok" ELSE "err", 0)
                 \/ \E t \in timers :
                      LET l == ftLists[t.code] IN
                      /\ Fire(t) /\ t.code \in Codes /\ l.of = r
                      /\ a = Answer(IF l.res = "err" THEN "err" ELSE "ok", l.rows)

\* Every step is one of these as far as the answers go.
LEMMA AnswerMove ==
  ASSUME TypeInv, OwnerInv, [Next]_vars PROVE AnswerMoves
<1>0. TypeInv /\ TypeOK /\ OwnerInv
  BY DEF TypeInv
<1>a. UNCHANGED answers => AnswerMoves
  BY DEF AnswerMoves
<1>b. \A what, rows : Answer(what, rows).what = what
  BY DEF Answer
<1>1. ASSUME NEW r \in Reqs, AskPlain(r) PROVE AnswerMoves
  BY <1>a, <1>1 DEF AskPlain, Queue, transfer
<1>2. ASSUME NEW r \in Reqs, AskMove(r) PROVE AnswerMoves
  BY <1>a, <1>2 DEF AskMove, Queue, transfer
<1>3. ASSUME NEW r \in Reqs, AskKick(r) PROVE AnswerMoves
  BY <1>a, <1>3 DEF AskKick, Queue, transfer
<1>4. ASSUME NEW r \in Reqs, AskGroup(r) PROVE AnswerMoves
  BY <1>a, <1>4 DEF AskGroup, Queue, transfer
<1>5. ASSUME NEW r \in Reqs, AskOp(r) PROVE AnswerMoves
  BY <1>a, <1>5 DEF AskOp, Queue, transfer
<1>6. ASSUME NEW r \in Reqs, NEW d \in Dirs, AskList(r, d) PROVE AnswerMoves
  BY <1>a, <1>6 DEF AskList, Queue, transfer
<1>7. ASSUME NEW r \in Reqs, AskDownload(r) PROVE AnswerMoves
  BY <1>a, <1>7 DEF AskDownload, Queue, transfer
<1>8. ASSUME NEW r \in Reqs, AskUpload(r) PROVE AnswerMoves
  BY <1>a, <1>8 DEF AskUpload, Queue, transfer
<1>9. ASSUME NEW r \in Reqs, NEW k \in Transfers, AskLate(r, k) PROVE AnswerMoves
  BY <1>0, <1>9 DEF AskLate, Tell, AnswerMoves, TypeOK
<1>10. ASSUME NEW r \in Reqs, Cancel(r) PROVE AnswerMoves
  BY <1>a, <1>10 DEF Cancel, transfer
<1>11. ASSUME NEW r \in Reqs, SendKick(r) PROVE AnswerMoves
  BY <1>a, <1>11 DEF SendKick, Track, transfer
<1>12. ASSUME NEW r \in Reqs, SendGroup(r) PROVE AnswerMoves
  BY <1>a, <1>12 DEF SendGroup, Track, transfer
<1>13. ASSUME NEW r \in Reqs, RefuseKick(r) PROVE AnswerMoves
  <2>1. kind[r] # "list" /\ \E a : /\ a.what = "refused"
                                   /\ \A q \in Reqs : answers'[q] = IF q \in {r} THEN Append(answers[q], a) ELSE answers[q]
    BY <1>b, <1>13 DEF RefuseKick, Tell
  <2> QED BY <2>1 DEF AnswerMoves
<1>14. ASSUME NEW r \in Reqs, SendMove(r) PROVE AnswerMoves
  BY <1>a, <1>14 DEF SendMove, transfer
<1>15. ASSUME NEW r \in Reqs, SendPlain(r) PROVE AnswerMoves
  BY <1>a, <1>15 DEF SendPlain, transfer
<1>16. ASSUME NEW r \in Reqs, SendOp(r) PROVE AnswerMoves
  BY <1>a, <1>16 DEF SendOp, transfer
<1>17. ASSUME NEW r \in Reqs, SendList(r) PROVE AnswerMoves
  BY <1>a, <1>17 DEF SendList, transfer
<1>18. ASSUME NEW r \in Reqs, SendTransfer(r) PROVE AnswerMoves
  BY <1>a, <1>18 DEF SendTransfer, transfer
<1>19. ASSUME NEW r \in Reqs, SendFails(r) PROVE AnswerMoves
  <2>1. r \in InQueue
    BY <1>0, <1>19, Taken DEF SendFails, OwnerInv
  <2>2. \E a : /\ a.what = "unsent"
               /\ \A q \in Reqs : answers'[q] = IF q \in {r} THEN Append(answers[q], a) ELSE answers[q]
    BY <1>b, <1>19 DEF SendFails, Tell
  <2> QED BY <2>1, <2>2 DEF AnswerMoves
<1>20. ASSUME NEW r \in Reqs, TransferFails(r) PROVE AnswerMoves
  <2>1. \A q \in Reqs : answers'[q] = answers[q] \/ q \in tasks
    BY <1>0, <1>20 DEF TransferFails, FinishTasks, Tell, TypeOK
  <2> QED BY <1>0, <2>1, <1>20 DEF TransferFails, AnswerMoves, OwnerInv, asking
<1>21. ASSUME NEW r \in Reqs, WorkerCancels(r) PROVE AnswerMoves
  <2>1. \A q \in Reqs : answers'[q] = answers[q] \/ q \in tasks
    BY <1>0, <1>21 DEF WorkerCancels, FinishTasks, Tell, TypeOK
  <2> QED BY <1>0, <2>1, <1>21 DEF WorkerCancels, AnswerMoves, OwnerInv, asking
<1>22. ASSUME NEW r \in Reqs, GraceEnds(r) PROVE AnswerMoves
  <2>1. \A q \in Reqs : answers'[q] = answers[q] \/ q \in tasks
    BY <1>0, <1>22 DEF GraceEnds, FinishTasks, Tell, TypeOK
  <2> QED BY <1>0, <2>1, <1>22 DEF GraceEnds, AnswerMoves, OwnerInv, asking
<1>23. ASSUME NEW r \in Reqs, NEW whole \in BOOLEAN, DownloadEnds(r, whole) PROVE AnswerMoves
  <2>1. \A q \in Reqs : answers'[q] = answers[q] \/ q \in tasks
    BY <1>0, <1>23 DEF DownloadEnds, FinishTasks, Tell, TypeOK
  <2> QED BY <1>0, <2>1, <1>23 DEF DownloadEnds, AnswerMoves, OwnerInv, asking
<1>24. ASSUME NEW r \in Reqs, NEW whole \in BOOLEAN, UploadSent(r, whole) PROVE AnswerMoves
  <2>1. \A q \in Reqs : answers'[q] = answers[q] \/ q \in tasks
    BY <1>0, <1>24 DEF UploadSent, FinishTasks, Tell, TypeOK
  <2> QED BY <1>0, <2>1, <1>24 DEF UploadSent, AnswerMoves, OwnerInv, asking
<1>25. ASSUME NEW r \in Reqs, NEW ok \in BOOLEAN, Opened(r, ok) PROVE AnswerMoves
  BY <1>a, <1>25 DEF Opened, transfer
<1>26. ASSUME NEW r \in Reqs, NEW res \in {"ok", "err"}, ServerStatus(r, res) PROVE AnswerMoves
  BY <1>a, <1>26 DEF ServerStatus, transfer
<1>27. CASE ServerAnswers
  BY <1>a, <1>27 DEF ServerAnswers, transfer
<1>28. CASE Drop
  BY <1>a, <1>28 DEF Drop, transfer
<1>29. CASE Reconnect
  BY <1>a, <1>29 DEF Reconnect, transfer
<1>30. CASE End
  BY <1>a, <1>30 DEF End, transfer
<1>31. CASE Connect
  BY <1>a, <1>31 DEF Connect, transfer
<1>32. ASSUME NEW n \in 1..Len(net), Collect(n) PROVE AnswerMoves
  BY <1>a, <1>32 DEF Collect, transfer
<1>33. CASE HandleResult
  <2> DEFINE k == Item1.key
             p == {permOps[k], ftOps[k]} \ {None}
             u == IF Item1.res = "ok" \/ taskByRc[k] = None THEN {} ELSE {taskByRc[k]} \cap tasks
             a == Answer(IF Item1.res = "ok" THEN "ok" ELSE "err", 0)
  <2>1. k \in Codes
    BY <1>0, <1>33, FirstSound DEF HandleResult, Handling, Item1, Sound
  <2>2. \A q \in Reqs : answers'[q] = IF q \in p \cup u THEN Append(answers[q], a) ELSE answers[q]
    BY <1>33 DEF HandleResult, Tell
  <2>3. \A q \in u : kind'[q] \in Transfers
    BY <1>0, <1>33 DEF HandleResult, asking, OwnerInv
  <2> QED BY <2>1, <2>2, <2>3, <1>33 DEF AnswerMoves
<1>34. CASE HandleRows
  BY <1>a, <1>34 DEF HandleRows, transfer
<1>35. CASE HandleFin
  BY <1>a, <1>35 DEF HandleFin, transfer
<1>36. CASE HandleError
  <2>1. Item1.of \in Reqs /\ kind[Item1.of] = "plain"
    BY <1>0, <1>36, FirstSound DEF HandleError, Handling, Item1, Sound
  <2> QED BY <1>a, <2>1, <1>36 DEF HandleError
<1>37. CASE HandleStart
  BY <1>a, <1>37 DEF HandleStart, transfer
<1>38. CASE HandleStatus
  <2>1. \A q \in Reqs : answers'[q] = answers[q] \/ q \in tasks
    BY <1>0, <1>38 DEF HandleStatus, FinishTasks, Tell, TypeOK
  <2> QED BY <1>0, <2>1, <1>38 DEF HandleStatus, AnswerMoves, OwnerInv, asking
<1>39. CASE HandleDrop
  <2> DEFINE lost == {permOps[c] : c \in Codes} \ {None}
  <2>1. \A q \in lost : kind[q] # "list"
    BY <1>0 DEF OwnerInv, Owned, Tokens
  <2>2. \E a : /\ a.what = "lost"
               /\ \A q \in Reqs : answers'[q] = IF q \in lost THEN Append(answers[q], a) ELSE answers[q]
    BY <1>b, <1>39 DEF HandleDrop, Tell
  <2> HIDE DEF lost
  <2> QED BY <2>1, <2>2 DEF AnswerMoves
<1>40. ASSUME NEW t \in timers, Fire(t) PROVE AnswerMoves
  <2> DEFINE l == ftLists[t.code]
             a == Answer(IF l.res = "err" THEN "err" ELSE "ok", l.rows)
  <2>1. CASE l.of = None
    BY <1>a, <2>1, <1>40 DEF Fire
  <2>2. CASE l.of # None
    <3>1. answers' = [answers EXCEPT ![l.of] = Append(answers[l.of], a)]
      BY <2>2, <1>40 DEF Fire
    <3>2. t.code \in Codes
      BY <1>0, <1>40 DEF TypeOK, Timers
    <3>3. \A q \in Reqs : answers'[q] = IF q = l.of THEN Append(answers[q], a) ELSE answers[q]
      BY <1>0, <3>1 DEF TypeOK
    <3>4. ASSUME NEW r \in Reqs, r = l.of PROVE answers'[r] = Append(answers[r], a) /\ ftLists[t.code].of = r
      BY <3>3, <3>4
    <3> HIDE DEF a
    <3>5. \A r \in Reqs : \/ answers'[r] = answers[r]
                          \/ answers'[r] = Append(answers[r], a) /\ ftLists[t.code].of = r
      BY <3>3, <3>4
    <3> QED BY <1>40, <3>2, <3>5 DEF AnswerMoves, a
  <2> QED BY <2>1, <2>2
<1>41. CASE UNCHANGED vars
  BY <1>a, <1>41 DEF vars
<1> QED
  BY <1>1, <1>2, <1>3, <1>4, <1>5, <1>6, <1>7, <1>8, <1>9, <1>10, <1>11, <1>12, <1>13,
     <1>14, <1>15, <1>16, <1>17, <1>18, <1>19, <1>20, <1>21, <1>22, <1>23, <1>24,
     <1>25, <1>26, <1>27, <1>28, <1>29, <1>30, <1>31, <1>32, <1>33, <1>34, <1>35,
     <1>36, <1>37, <1>38, <1>39, <1>40, <1>41
  DEF Next, Ask, Execute, Worker, Handle

-----------------------------------------------------------------------------
(* The connection and what is under way in it. *)

\* What a lost connection leaves in the tables that are cleared with it: nothing.
Clear == \A c \in Codes : permOps[c] = None /\ ftLists[c].of = None

\* Nothing of a lost connection is left when the next one begins, but FT_OPS and
\* FT_TASK_BY_RC: the event that says so is the last of the stream, and clears
\* the tables.
Phases ==
  /\ \A i \in DOMAIN net : net[i].type = "drop" => i = Len(net) /\ link = "dead"
  /\ link # "up" => srv = <<>>
  /\ link \in {"down", "closed"} =>
       /\ net = <<>> /\ (link = "closed" => batch = <<>>)
       /\ Clear \/ \E i \in DOMAIN batch : batch[i].type = "drop"

\* The stream and the batch, as sequences whose length is a number.
LEMMA Lengths ==
  ASSUME TypeInv
  PROVE  /\ net \in Seq(Sound) /\ Len(net) \in Nat /\ DOMAIN net = 1..Len(net)
         /\ batch \in Seq(Sound) /\ Len(batch) \in Nat /\ DOMAIN batch = 1..Len(batch)
BY LenProperties DEF TypeInv

\* What Collect takes, the first item last, and what it leaves.
LEMMA Collected ==
  ASSUME TypeInv, NEW n \in 1..Len(net), Collect(n)
  PROVE  /\ n \in Nat /\ DOMAIN batch' = 1..n
         /\ \A i \in 1..n : batch'[i] = IF i = n THEN net[1] ELSE net[i + 1]
         /\ Len(net') = Len(net) - n /\ DOMAIN net' = 1..Len(net) - n
         /\ \A i \in 1..Len(net) - n : net'[i] = net[n + i]
<1>1. net \in Seq(Sound) /\ Len(net) \in Nat /\ DOMAIN net = 1..Len(net)
  BY Lengths
<1>2. \A i \in 1..Len(net) : net[i] \in Sound
  BY <1>1, ElementOfSeq
<1>3. /\ SubSeq(net, 2, n) \in Seq(Sound)
      /\ Len(SubSeq(net, 2, n)) = n - 1
      /\ \A i \in 1..n - 1 : SubSeq(net, 2, n)[i] = net[i + 1]
  BY <1>1, <1>2, SubSeqProperties
<1>4. /\ SubSeq(net, n + 1, Len(net)) \in Seq(Sound)
      /\ Len(SubSeq(net, n + 1, Len(net))) = Len(net) - n
      /\ \A i \in 1..Len(net) - n : SubSeq(net, n + 1, Len(net))[i] = net[n + i]
  <2> DEFINE t == SubSeq(net, n + 1, Len(net))
  <2>1. n + 1 \in Int /\ Len(net) \in Int /\ \A i \in n + 1..Len(net) : net[i] \in Sound
    BY <1>1, <1>2
  <2>2. /\ t \in Seq(Sound)
        /\ Len(t) = IF n + 1 <= Len(net) THEN Len(net) - (n + 1) + 1 ELSE 0
        /\ \A i \in 1..Len(net) - (n + 1) + 1 : t[i] = net[(n + 1) + i - 1]
    BY <2>1, SubSeqProperties
  <2> HIDE DEF t
  <2>3. Len(net) - (n + 1) + 1 = Len(net) - n
    BY <1>1
  <2>4. \A i \in 1..Len(net) - n : (n + 1) + i - 1 = n + i
    BY <1>1
  <2>5. n + 1 <= Len(net) \/ Len(net) - n = 0
    <3>1. Len(net) \in Nat
      BY <1>1
    <3> QED BY <3>1
  <2>6. Len(t) = Len(net) - n
    BY <2>2, <2>3, <2>5
  <2>7. \A i \in 1..Len(net) - n : t[i] = net[n + i]
    BY <2>2, <2>3, <2>4
  <2> QED BY <2>2, <2>6, <2>7 DEF t
<1>5. net' = SubSeq(net, n + 1, Len(net)) /\ batch' = Append(SubSeq(net, 2, n), net[1])
  BY DEF Collect
<1>6. DOMAIN net' = 1..Len(net')
  BY <1>4, <1>5, LenProperties
<1> DEFINE s == SubSeq(net, 2, n)
<1> HIDE DEF s
<1>7. /\ Append(s, net[1]) \in Seq(Sound) /\ Len(Append(s, net[1])) = Len(s) + 1
      /\ \A i \in 1..Len(s) : Append(s, net[1])[i] = s[i]
      /\ Append(s, net[1])[Len(s) + 1] = net[1]
  BY <1>1, <1>2, <1>3, AppendProperties DEF s
<1>8. batch' = Append(s, net[1]) /\ Len(s) = n - 1 /\ \A i \in 1..n - 1 : s[i] = net[i + 1]
  BY <1>3, <1>5 DEF s
<1>9. DOMAIN batch' = 1..Len(batch')
  BY <1>7, <1>8, LenProperties
<1>10. n \in Nat /\ Len(batch') = n
  BY <1>1, <1>7, <1>8
<1>11. DOMAIN batch' = 1..n
  BY <1>9, <1>10
<1>12. \A i \in 1..n : batch'[i] = IF i = n THEN net[1] ELSE net[i + 1]
  BY <1>7, <1>8, <1>10
<1>13. /\ Len(net') = Len(net) - n /\ DOMAIN net' = 1..Len(net) - n
       /\ \A i \in 1..Len(net) - n : net'[i] = net[n + i]
  BY <1>4, <1>5, <1>6
<1> QED BY <1>10, <1>11, <1>12, <1>13

\* What stays of a batch when its first item is handled.
LEMMA TailOf ==
  ASSUME TypeInv, batch # <<>>, batch' = Tail(batch)
  PROVE  /\ Len(batch) \in Nat \ {0} /\ DOMAIN batch = 1..Len(batch) /\ Item1 = batch[1]
         /\ DOMAIN batch' = 1..Len(batch) - 1
         /\ \A i \in 1..Len(batch) - 1 : batch'[i] = batch[i + 1]
<1>1. batch \in Seq(Sound) /\ Len(batch) \in Nat /\ DOMAIN batch = 1..Len(batch)
  BY Lengths
<1>2. /\ Len(batch) \in Nat \ {0} /\ Head(batch) = batch[1]
      /\ Tail(batch) \in Seq(Sound) /\ Len(Tail(batch)) = Len(batch) - 1
      /\ \A i \in 1..Len(batch) - 1 : Tail(batch)[i] = batch[i + 1]
  BY <1>1, HeadTailProperties, EmptySeq
<1>3. DOMAIN Tail(batch) = 1..Len(Tail(batch))
  BY <1>2, LenProperties
<1> QED BY <1>1, <1>2, <1>3 DEF Item1

\* What is put behind the stream.
LEMMA Grown ==
  ASSUME TypeInv, NEW s \in Seq(Sound), net' = net \o s
  PROVE  /\ DOMAIN net' = 1..Len(net) + Len(s) /\ Len(net') = Len(net) + Len(s) /\ Len(s) \in Nat
         /\ \A i \in 1..Len(net) : net'[i] = net[i]
         /\ \A i \in 1..Len(s) : net'[Len(net) + i] = s[i]
         /\ \A i \in DOMAIN net' : i \in DOMAIN net \/ \E j \in 1..Len(s) : i = Len(net) + j
<1>1. net \in Seq(Sound) /\ Len(net) \in Nat /\ Len(s) \in Nat /\ DOMAIN net = 1..Len(net)
  BY Lengths, LenProperties
<1>2. /\ net' \in Seq(Sound) /\ Len(net') = Len(net) + Len(s)
      /\ \A i \in 1..Len(net) + Len(s) : net'[i] = IF i <= Len(net) THEN net[i] ELSE s[i - Len(net)]
  BY <1>1, ConcatProperties
<1>3. DOMAIN net' = 1..Len(net) + Len(s)
  BY <1>2, LenProperties
<1>4. ASSUME NEW i \in 1..Len(s) PROVE net'[Len(net) + i] = s[i]
  <2>1. Len(net) + i \in 1..Len(net) + Len(s) /\ ~(Len(net) + i <= Len(net)) /\ (Len(net) + i) - Len(net) = i
    BY <1>1
  <2> QED BY <1>2, <2>1
<1>5. ASSUME NEW i \in DOMAIN net'
      PROVE i \in DOMAIN net \/ \E j \in 1..Len(s) : i = Len(net) + j
  <2>1. CASE i <= Len(net)
    BY <1>1, <1>3, <2>1
  <2>2. CASE ~(i <= Len(net))
    <3>1. i - Len(net) \in 1..Len(s) /\ i = Len(net) + (i - Len(net))
      BY <1>1, <1>3, <2>2
    <3> QED BY <3>1
  <2> QED BY <2>1, <2>2
<1> QED BY <1>1, <1>2, <1>3, <1>4, <1>5

\* The same for one item.
LEMMA Appended ==
  ASSUME TypeInv, NEW m \in Sound, net' = Append(net, m)
  PROVE  /\ DOMAIN net' = 1..Len(net) + 1 /\ Len(net') = Len(net) + 1
         /\ \A i \in 1..Len(net) : net'[i] = net[i]
         /\ net'[Len(net) + 1] = m
         /\ \A i \in DOMAIN net' : i \in DOMAIN net \/ i = Len(net) + 1
<1>1. net \in Seq(Sound) /\ Len(net) \in Nat /\ DOMAIN net = 1..Len(net)
  BY Lengths
<1>2. /\ Append(net, m) \in Seq(Sound) /\ Len(Append(net, m)) = Len(net) + 1
      /\ \A i \in 1..Len(net) : Append(net, m)[i] = net[i]
      /\ Append(net, m)[Len(net) + 1] = m
  BY <1>1, AppendProperties
<1>3. DOMAIN Append(net, m) = 1..Len(Append(net, m))
  BY <1>2, LenProperties
<1> QED BY <1>1, <1>2, <1>3

\* The server's answer puts one result on the stream, under the code it was asked with.
LEMMA Answering ==
  ASSUME TypeInv, ServerAnswers
  PROVE  LET q == Head(srv) IN
         /\ q.of \in Reqs /\ q.code \in Codes
         /\ \E s \in Seq(Sound) :
              /\ net' = net \o s
              /\ \A i \in 1..Len(s) : s[i].type # "drop"
              /\ \A i \in 1..Len(s) : s[i].type = "result" =>
                   s[i] = Item("result", q.code, did'[q.of], q.of)
<1> DEFINE q == Head(srv)
<1>1. q.of \in Reqs /\ q.code \in Codes
  BY Asked DEF TypeInv, ServerAnswers
<1>2. PICK res \in {"ok", "err", "empty"}, n \in Nat :
        did' = [did EXCEPT ![q.of] = res] /\ (net' = net \/ net' = net \o Reply(q, res, n))
  <2>1. \A k \in 0..MaxFrames : k \in Nat
    BY RequestsAssumption
  <2> QED BY <2>1 DEF ServerAnswers
<1>3. did'[q.of] = res
  BY <1>1, <1>2 DEF TypeInv, TypeOK
<1>4. CASE net' = net
  <2>1. net' = net \o <<>> /\ <<>> \in Seq(Sound)
    BY <1>4, Lengths, ConcatEmptySeq
  <2>2. 1..Len(<<>>) = {}
    OBVIOUS
  <2>3. \E s \in Seq(Sound) : net' = net \o s /\ 1..Len(s) = {}
    BY <2>1, <2>2
  <2> HIDE DEF q
  <2> QED BY <1>1, <2>3 DEF q
<1>5. CASE net' = net \o Reply(q, res, n)
  <2> DEFINE S == {m \in Sound : /\ m.type # "drop"
                                 /\ m.type = "result" => m = Item("result", q.code, res, q.of)}
  <2>1. q.code \in Nat /\ dir[q.of] \in Nat
    <3>1. dir[q.of] \in Dirs
      BY <1>1 DEF TypeInv, TypeOK
    <3>2. Dirs \subseteq Nat /\ \A c \in Codes : c \in Nat
      BY RequestsAssumption DEF Codes
    <3> HIDE DEF q
    <3> QED BY <1>1, <3>1, <3>2
  <2>2. /\ Item("result", q.code, res, q.of) \in Sound
        /\ Item("rows", q.code, "ok", q.of) \in Sound
        /\ Item("fin", dir[q.of], "ok", q.of) \in Sound
    BY <1>1, <2>1, ItemSound
  <2>3. /\ Item("result", q.code, res, q.of) \in S
        /\ Item("rows", q.code, "ok", q.of) \in S
        /\ Item("fin", dir[q.of], "ok", q.of) \in S
    BY <2>2 DEF Item
  <2> HIDE DEF S
  <2>4. Reply(q, res, n) \in Seq(S)
    BY <2>3, ReplyIn
  <2>5. \A i \in 1..Len(Reply(q, res, n)) : Reply(q, res, n)[i] \in S
    BY <2>4, ElementOfSeq
  <2>6. Reply(q, res, n) \in Seq(Sound)
    BY <2>4, SeqMonotonic DEF S
  <2> QED BY <1>1, <1>3, <1>5, <2>5, <2>6 DEF S
<1> QED BY <1>2, <1>4, <1>5

\* The last of what is left of a sequence of length l.
LEMMA LastOfRest ==
  ASSUME NEW l \in Nat, NEW n \in Nat, NEW i \in 1..l - n, n + i = l
  PROVE  n # l /\ i = l - n
OBVIOUS

\* A lost connection is over.
LEMMA PhaseStep ==
  ASSUME TypeInv, Phases, [Next]_vars PROVE Phases'
<1>0. /\ TypeInv /\ TypeOK /\ WireMoves /\ TableMoves
      /\ code \in Codes /\ Len(net) \in Nat /\ DOMAIN net = 1..Len(net)
  BY WireMove, TableMove, Lengths DEF TypeInv, TypeOK
<1>a. code' = code /\ Clear => Clear'
  <2>1. Shrinks /\ Clear => Clear'
    BY DEF Shrinks, Clear
  <2>2. code + 1 # code
    BY <1>0 DEF Codes
  <2> QED BY <1>0, <2>1, <2>2 DEF TableMoves, Files, Sends, Sent
<1>1. CASE UNCHANGED <<link, conn, code, srv, net, batch>>
  BY <1>1, <1>a DEF Phases
<1>2. ASSUME NEW r \in Reqs, Sends(r) PROVE Phases'
  BY <1>2 DEF Sends, CanSend, Sent, Phases
<1>3. CASE Grows
  <2>1. ASSUME NEW m \in Sound, m.type # "drop", net' = Append(net, m) PROVE Phases'
    BY <1>0, <1>3, <2>1, Appended DEF Grows, Phases
  <2> QED BY <1>3, <2>1 DEF Grows, Phases
<1>4. CASE Handles
  <2>1. CASE Item1.type = "drop"
    <3>1. Clear'
      BY <1>4, <2>1 DEF Handles, HandleDrop, Clear, NoList
    <3>2. link # "closed"
      BY <1>4 DEF Handles, Phases
    <3> QED BY <1>4, <3>1, <3>2 DEF Handles, Phases
  <2>2. CASE Item1.type # "drop"
    <3>1. ASSUME NEW i \in DOMAIN batch, batch[i].type = "drop"
          PROVE  \E j \in DOMAIN batch' : batch'[j].type = "drop"
      <4>1. i \in 2..Len(batch) /\ i - 1 \in DOMAIN batch' /\ batch'[i - 1] = batch[i]
        BY <1>4, <2>2, <3>1, TailOf DEF Handles
      <4> QED BY <3>1, <4>1
    <3>2. link # "closed"
      BY <1>4 DEF Handles, Phases
    <3> QED BY <1>4, <1>a, <3>1, <3>2 DEF Handles, Phases
  <2> QED BY <2>1, <2>2
<1>5. CASE ServerAnswers
  <2>1. link = "up" /\ link' = link /\ srv # <<>>
    BY <1>0, <1>5 DEF ServerAnswers, Phases
  <2>2. PICK s \in Seq(Sound) : net' = net \o s /\ \A i \in 1..Len(s) : s[i].type # "drop"
    BY <1>5, Answering
  <2>3. \A i \in DOMAIN net' : net'[i].type # "drop"
    BY <1>0, <2>1, <2>2, Grown DEF Phases
  <2> QED BY <2>1, <2>3 DEF Phases
<1>6. CASE Drop
  <2>1. link = "up" /\ link' = "dead" /\ srv' = <<>>
    BY <1>6 DEF Drop
  <2>2. PICK n \in 0..Len(net) : net' = Append(SubSeq(net, 1, n), Item("drop", 0, "ok", None))
    BY <1>6 DEF Drop
  <2> DEFINE s == SubSeq(net, 1, n)  d == Item("drop", 0, "ok", None)
  <2>3. \A i \in 1..Len(net) : net[i] \in Sound
    BY Lengths, ElementOfSeq
  <2>4. s \in Seq(Sound) /\ Len(s) = n /\ \A i \in 1..n : s[i] = net[i]
    BY <1>0, <2>3, SubSeqProperties, Lengths
  <2>5. d \in Sound
    BY ItemSound
  <2> HIDE DEF s, d
  <2>6. /\ Append(s, d) \in Seq(Sound) /\ Len(Append(s, d)) = n + 1
        /\ \A i \in 1..n : Append(s, d)[i] = s[i]
    BY <2>4, <2>5, AppendProperties
  <2>7. DOMAIN Append(s, d) = 1..n + 1
    BY <2>6, LenProperties
  <2>8. net' = Append(s, d)
    BY <2>2 DEF s, d
  <2>9. \A i \in DOMAIN net' : net'[i].type = "drop" => i = Len(net')
    BY <1>0, <2>1, <2>4, <2>6, <2>7, <2>8 DEF Phases
  <2> QED BY <2>1, <2>9 DEF Phases
<1>7. CASE Reconnect
  BY <1>7 DEF Reconnect, Phases
<1>8. CASE End
  BY <1>8 DEF End, Phases, Clear, NoList
<1>9. CASE Connect
  BY <1>9 DEF Connect, Phases
<1>10. ASSUME NEW n \in 1..Len(net), Collect(n) PROVE Phases'
  <2> DEFINE last == net[n].type = "drop"
  <2>1. /\ n \in Nat /\ DOMAIN batch' = 1..n
        /\ \A i \in 1..n : batch'[i] = IF i = n THEN net[1] ELSE net[i + 1]
        /\ Len(net') = Len(net) - n /\ DOMAIN net' = 1..Len(net) - n
        /\ \A i \in 1..Len(net) - n : net'[i] = net[n + i]
    BY <1>0, <1>10, Collected
  <2>2. /\ link \in {"up", "dead"} /\ link' = IF last THEN "down" ELSE link
        /\ UNCHANGED <<srv, code>>
    BY <1>0, <1>10 DEF Collect, Phases, TypeOK
  <2>3. last => n = Len(net) /\ link = "dead"
    BY <1>0 DEF Phases
  <2>4. last => \E i \in DOMAIN batch' : batch'[i].type = "drop"
    <3> SUFFICES ASSUME last PROVE \E i \in DOMAIN batch' : batch'[i].type = "drop"
      OBVIOUS
    <3>1. CASE n = 1
      BY <2>1, <3>1
    <3>2. CASE n # 1
      <4>1. n - 1 \in 1..n /\ n - 1 # n /\ (n - 1) + 1 = n
        BY <2>1, <3>2
      <4>2. batch'[n - 1] = net[n]
        BY <2>1, <4>1
      <4> QED BY <2>1, <4>1, <4>2
    <3> QED BY <3>1, <3>2
  <2>5. last => net' = <<>>
    <3>1. net' \in Seq(Sound')
      BY TypeStep DEF TypeInv
    <3> QED BY <2>1, <2>3, <3>1, EmptySeq, <1>0
  <2>6. ASSUME NEW i \in DOMAIN net', net'[i].type = "drop"
        PROVE i = Len(net') /\ link' = "dead"
    <3>1. n + i \in DOMAIN net /\ net[n + i].type = "drop"
      BY <1>0, <2>1, <2>6
    <3>2. n + i = Len(net) /\ link = "dead"
      BY <3>1 DEF Phases
    <3>3. i \in 1..Len(net) - n
      BY <2>1
    <3>4. n # Len(net) /\ i = Len(net) - n
      BY <1>0, <2>1, <3>2, <3>3, LastOfRest
    <3> QED BY <2>1, <2>2, <2>3, <3>2, <3>4
  <2> QED BY <1>a, <2>2, <2>3, <2>4, <2>5, <2>6 DEF Phases
<1> QED BY <1>0, <1>1, <1>2, <1>3, <1>4, <1>5, <1>6, <1>7, <1>8, <1>9, <1>10 DEF WireMoves

-----------------------------------------------------------------------------
(* Results belong to the commands they answer. *)

\* No table entry of this connection stands under a code it has not reached; an
\* operation that FT_OPS kept from an earlier connection may.
Below ==
  /\ \A c \in Codes : c >= code =>
       /\ permOps[c] = None /\ ftLists[c].of = None
       /\ ftOps[c] # None => sentIn[ftOps[c]] # conn
  /\ \A r \in Reqs : /\ sentIn[r] \in 0..conn
                     /\ kind[r] # "none" /\ kind[r] \notin Transfers => sentIn[r] # None

\* Code c was handed out for r: nobody else of this connection is filed under it.
Own(c, r) ==
  /\ c < code /\ permOps[c] \in {None, r} /\ ftLists[c].of \in {None, r}
  /\ ftOps[c] # None /\ sentIn[ftOps[c]] = conn => ftOps[c] = r

\* A step within a connection, and one that begins the next.
Same == conn' = conn /\ code' \in {code, code + 1}
Anew == /\ conn' = conn + 1 /\ code' = 0 /\ UNCHANGED <<srv, net, batch>>
        /\ srv = <<>> /\ net = <<>> /\ batch = <<>> /\ Clear

\* A step stays in a connection, or begins a new one with nothing under way.
LEMMA ConnStep ==
  ASSUME TypeInv, Phases, [Next]_vars PROVE Same \/ Anew
<1>0. TypeOK /\ WireMoves
  BY WireMove DEF TypeInv
<1>1. CASE Reconnect
  <2>1. batch = <<>> /\ DOMAIN <<>> = {}
    BY <1>1 DEF Reconnect
  <2> QED BY <1>1, <2>1 DEF Reconnect, Anew, Phases
<1>2. CASE Connect
  <2>1. batch = <<>> /\ DOMAIN <<>> = {}
    BY <1>2 DEF Connect, Phases
  <2> QED BY <1>2, <2>1 DEF Connect, Anew, Phases
<1>3. CASE Grows
  BY <1>3 DEF Grows, Same
<1>4. CASE Handles
  BY <1>4 DEF Handles, Same
<1>5. CASE ServerAnswers \/ Drop \/ End
  BY <1>5 DEF ServerAnswers, Drop, End, Same
<1>6. CASE \E r \in Reqs : Sends(r)
  BY <1>6 DEF Sends, Sent, Same
<1>7. CASE \E n \in 1..Len(net) : Collect(n)
  BY <1>7 DEF Collect, Same
<1>8. CASE UNCHANGED <<link, conn, code, srv, net, batch>>
  BY <1>8 DEF Same
<1> QED BY <1>0, <1>1, <1>2, <1>3, <1>4, <1>5, <1>6, <1>7, <1>8 DEF WireMoves

\* A request that FT_OPS waits for was sent in the connection it is known to be from.
LEMMA FiledKept ==
  ASSUME TypeInv, OwnerInv, [Next]_vars, NEW c \in Codes, ftOps[c] # None
  PROVE  ftOps[c] \in Reqs /\ kind[ftOps[c]] = "op" /\ sentIn'[ftOps[c]] = sentIn[ftOps[c]]
<1> DEFINE r == ftOps[c]
<1>1. r \in Reqs /\ kind[r] = "op" /\ r \notin InQueue
  BY DEF OwnerInv, Owned, TypeInv, TypeOK
<1>2. HistoryMoves
  BY HistoryMove
<1>3. ~Next1(r)
  BY <1>1, Taken DEF TypeInv
<1> HIDE DEF r
<1>4. sentIn'[r] = sentIn[r]
  BY <1>1, <1>2, <1>3 DEF HistoryMoves
<1> QED BY <1>1, <1>4 DEF r

\* New entries stand under the code that is handed out.
LEMMA BelowStep ==
  ASSUME TypeInv, OwnerInv, Phases, Below, [Next]_vars PROVE Below'
<1>0. /\ TypeOK /\ TableMoves /\ HistoryMoves /\ (Same \/ Anew)
      /\ code \in Nat /\ conn \in Nat /\ \A c \in Codes : c \in Nat
  <2>1. TypeOK /\ code \in Codes /\ conn \in Conns
    BY DEF TypeInv, TypeOK
  <2> QED BY <2>1, TableMove, HistoryMove, ConnStep DEF Codes, Conns
<1>1. \A r \in Reqs : sentIn'[r] \in 0..conn'
  BY <1>0 DEF Below, HistoryMoves, Same, Anew
<1>2. ASSUME NEW r \in Reqs, kind'[r] # "none", kind'[r] \notin Transfers
      PROVE sentIn'[r] # None
  <2>1. conn # None
    BY <1>0 DEF TypeOK, Conns, None
  <2> QED BY <1>0, <1>2, <2>1 DEF Below, HistoryMoves, Fresh
<1>3. ASSUME NEW c \in Codes, c >= code' PROVE permOps'[c] = None /\ ftLists'[c].of = None
  <2>1. CASE Anew
    <3>1. ~\E r \in Reqs : Files(r)
      BY <1>0, <2>1 DEF Files, Sends, Sent, Anew
    <3> QED BY <1>0, <2>1, <3>1 DEF TableMoves, Shrinks, Anew, Clear
  <2>2. CASE Same
    <3>1. c >= code
      BY <1>0, <1>3, <2>2 DEF Same
    <3>2. permOps[c] = None /\ ftLists[c].of = None
      BY <3>1 DEF Below
    <3>3. CASE Shrinks
      BY <3>2, <3>3 DEF Shrinks
    <3>4. ASSUME NEW r \in Reqs, Files(r) PROVE permOps'[c] = None /\ ftLists'[c].of = None
      <4>1. c # code
        BY <1>0, <1>3, <3>4 DEF Files, Sends, Sent
      <4> QED BY <3>2, <3>4, <4>1 DEF Files, NoList
    <3> QED BY <1>0, <3>3, <3>4 DEF TableMoves
  <2> QED BY <1>0, <2>1, <2>2
<1>4. ASSUME NEW c \in Codes, c >= code', ftOps'[c] # None PROVE sentIn'[ftOps'[c]] # conn'
  <2>1. ftOps'[c] = ftOps[c] \/ \E r \in Reqs : Files(r) /\ c = code
    BY <1>0, <1>4 DEF TableMoves, Shrinks, Files
  <2>2. \A r \in Reqs : Files(r) => c # code
    BY <1>0, <1>4 DEF Files, Sends, Sent
  <2>3. ftOps'[c] = ftOps[c] /\ ftOps[c] \in Reqs /\ sentIn'[ftOps[c]] = sentIn[ftOps[c]]
    BY <1>4, <2>1, <2>2, FiledKept
  <2>4. CASE Same
    <3>1. c >= code
      BY <1>0, <1>4, <2>4 DEF Same
    <3> QED BY <1>4, <2>3, <2>4, <3>1 DEF Below, Same
  <2>5. CASE Anew
    <3>1. sentIn[ftOps[c]] \in 0..conn
      BY <2>3 DEF Below
    <3>2. sentIn[ftOps[c]] # conn + 1
      BY <1>0, <3>1
    <3> QED BY <2>3, <2>5, <3>2 DEF Anew
  <2> QED BY <1>0, <2>4, <2>5
<1> QED BY <1>1, <1>2, <1>3, <1>4 DEF Below

\* A code stays with its request as long as the connection lasts.
LEMMA OwnStep ==
  ASSUME TypeInv, OwnerInv, [Next]_vars, Same, NEW c \in Codes, NEW r, Own(c, r)
  PROVE  Own(c, r)'
<1>0. TableMoves /\ code \in Nat /\ c \in Nat
  <2>1. code \in Codes
    BY DEF TypeInv, TypeOK
  <2> QED BY <2>1, TableMove DEF Codes
<1>1. c < code' /\ c # code
  BY <1>0 DEF Own, Same
<1>2. permOps'[c] \in {None, permOps[c]} /\ ftOps'[c] \in {None, ftOps[c]} /\ ftLists'[c].of \in {None, ftLists[c].of}
  <2>1. CASE Shrinks
    BY <2>1 DEF Shrinks
  <2>2. ASSUME NEW q \in Reqs, Files(q)
        PROVE  /\ permOps'[c] \in {None, permOps[c]} /\ ftOps'[c] \in {None, ftOps[c]}
               /\ ftLists'[c].of \in {None, ftLists[c].of}
    BY <1>1, <2>2 DEF Files, NoList
  <2> QED BY <1>0, <2>1, <2>2 DEF TableMoves
<1>3. ftOps'[c] # None => sentIn'[ftOps'[c]] = sentIn[ftOps[c]] /\ ftOps'[c] = ftOps[c]
  BY <1>2, FiledKept
<1> QED BY <1>1, <1>2, <1>3 DEF Own, Same

\* The commands the server has, the results that are on the stream or in the batch.
Commands == {srv[i] : i \in DOMAIN srv}
Results ==
  {m \in {net[i] : i \in DOMAIN net} \cup {batch[i] : i \in DOMAIN batch} : m.type = "result"}

\* A command the server has is out of the queue and not done; a result tells what was
\* done with the command that had its code.
CommandOK(q) ==
  /\ Own(q.code, q.of) /\ did[q.of] = "none" /\ q.of \notin InQueue /\ kind[q.of] # "none"
ResultOK(m) ==
  /\ m.of \in Reqs /\ kind[m.of] # "none" /\ Own(m.key, m.of)
  /\ kind[m.of] \notin Transfers => m.res = did[m.of]

WireInv ==
  /\ \A q \in Commands : CommandOK(q)
  /\ \A i, j \in DOMAIN srv : srv[i].of = srv[j].of => i = j
  /\ \A m \in Results : ResultOK(m)
  /\ \A r \in Reqs : /\ r \in InQueue \/ kind[r] = "none" => did[r] = "none"
                     /\ did[r] = "empty" => kind[r] = "list"
                     /\ worker[r] # "none" => kind[r] \in Transfers

\* Only the server's answer adds a result.
LEMMA ResultsMove ==
  ASSUME TypeInv, [Next]_vars, NEW m \in Results'
  PROVE  \/ m \in Results
         \/ /\ ServerAnswers
            /\ m = Item("result", Head(srv).code, did'[Head(srv).of], Head(srv).of)
<1>0. /\ TypeInv /\ WireMoves /\ Len(net) \in Nat /\ DOMAIN net = 1..Len(net)
      /\ Len(batch) \in Nat /\ DOMAIN batch = 1..Len(batch)
  BY WireMove, Lengths
<1>1. m.type = "result" /\ (\/ \E i \in DOMAIN net' : m = net'[i]
                            \/ \E i \in DOMAIN batch' : m = batch'[i])
  BY DEF Results
<1>2. /\ \A i \in DOMAIN net : net[i] = m => m \in Results
      /\ \A i \in DOMAIN batch : batch[i] = m => m \in Results
  BY <1>1 DEF Results
<1>3. CASE net' = net /\ batch' = batch
  BY <1>1, <1>2, <1>3
<1>4. CASE net' = <<>> /\ batch' = batch
  <2>1. DOMAIN net' = {}
    BY <1>4
  <2> QED BY <1>1, <1>2, <1>4, <2>1
<1>5. CASE Grows
  <2>1. ASSUME NEW n \in Sound, n.type # "result", net' = Append(net, n) PROVE m \in Results
    BY <1>0, <1>1, <1>2, <1>5, <2>1, Appended DEF Grows
  <2> QED BY <1>1, <1>2, <1>5, <2>1 DEF Grows
<1>6. CASE Handles
  <2>1. \A i \in DOMAIN batch' : i + 1 \in DOMAIN batch /\ batch'[i] = batch[i + 1]
    BY <1>0, <1>6, TailOf DEF Handles
  <2> QED BY <1>1, <1>2, <1>6, <2>1 DEF Handles
<1>7. CASE ServerAnswers
  <2> DEFINE r == Item("result", Head(srv).code, did'[Head(srv).of], Head(srv).of)
  <2>1. PICK s \in Seq(Sound) : /\ net' = net \o s
                                /\ \A i \in 1..Len(s) : s[i].type = "result" => s[i] = r
    BY <1>7, Answering
  <2> HIDE DEF r
  <2>2. batch' = batch
    BY <1>7 DEF ServerAnswers
  <2>3. \A i \in DOMAIN net' : net'[i] = m => m \in Results \/ m = r
    BY <1>0, <1>1, <1>2, <2>1, Grown
  <2> QED BY <1>1, <1>2, <1>7, <2>2, <2>3 DEF r
<1>8. CASE Drop
  <2>1. PICK n \in 0..Len(net) : net' = Append(SubSeq(net, 1, n), Item("drop", 0, "ok", None))
    BY <1>8 DEF Drop
  <2> DEFINE s == SubSeq(net, 1, n)  d == Item("drop", 0, "ok", None)
  <2>2. \A i \in 1..Len(net) : net[i] \in Sound
    BY Lengths, ElementOfSeq
  <2>3. s \in Seq(Sound) /\ Len(s) = n /\ \A i \in 1..n : s[i] = net[i]
    BY <1>0, <2>2, SubSeqProperties, Lengths
  <2>4. d \in Sound /\ d.type # "result"
    BY ItemSound DEF Item
  <2> HIDE DEF s, d
  <2>5. /\ Append(s, d) \in Seq(Sound) /\ Len(Append(s, d)) = n + 1
        /\ \A i \in 1..n : Append(s, d)[i] = s[i]
        /\ Append(s, d)[n + 1] = d
    BY <2>3, <2>4, AppendProperties
  <2>6. DOMAIN Append(s, d) = 1..n + 1
    BY <2>5, LenProperties
  <2>7. net' = Append(s, d) /\ batch' = batch
    BY <1>8, <2>1 DEF s, d, Drop
  <2>8. \A i \in DOMAIN net' : (i \in DOMAIN net /\ net'[i] = net[i]) \/ net'[i] = d
    BY <1>0, <2>3, <2>5, <2>6, <2>7
  <2> QED BY <1>1, <1>2, <2>4, <2>7, <2>8
<1>9. ASSUME NEW n \in 1..Len(net), Collect(n) PROVE m \in Results
  <2>1. /\ n \in Nat /\ DOMAIN batch' = 1..n
        /\ \A i \in 1..n : batch'[i] = IF i = n THEN net[1] ELSE net[i + 1]
        /\ DOMAIN net' = 1..Len(net) - n
        /\ \A i \in 1..Len(net) - n : net'[i] = net[n + i]
    BY <1>0, <1>9, Collected
  <2>2. \A i \in DOMAIN batch' : \E j \in DOMAIN net : batch'[i] = net[j]
    <3> SUFFICES ASSUME NEW i \in 1..n PROVE \E j \in DOMAIN net : batch'[i] = net[j]
      BY <2>1
    <3>1. CASE i = n
      <4>1. 1 \in DOMAIN net /\ batch'[i] = net[1]
        BY <1>0, <2>1, <3>1
      <4> QED BY <4>1
    <3>2. CASE i # n
      <4>1. i + 1 \in DOMAIN net /\ batch'[i] = net[i + 1]
        BY <1>0, <2>1, <3>2
      <4> QED BY <4>1
    <3> QED BY <3>1, <3>2
  <2>3. \A i \in DOMAIN net' : n + i \in DOMAIN net /\ net'[i] = net[n + i]
    BY <1>0, <2>1
  <2> QED BY <1>1, <1>2, <2>2, <2>3
<1>10. CASE End
  BY <1>4, <1>10 DEF End
<1>11. CASE Reconnect \/ Connect \/ \E r \in Reqs : Sends(r)
  BY <1>3, <1>11 DEF Reconnect, Connect, Sends, Sent
<1> QED BY <1>0, <1>3, <1>5, <1>6, <1>7, <1>8, <1>9, <1>10, <1>11 DEF WireMoves

\* Only a request that is asked enters the queue.
LEMMA QueueSet ==
  ASSUME TypeInv, [Next]_vars, NEW r \in Reqs, r \in InQueue'
  PROVE  r \in InQueue \/ kind[r] = "none"
<1>0. QueueMoves /\ TypeOK /\ cmds \in Seq(Reqs)
  BY QueueStep DEF TypeInv, TypeOK
<1>1. CASE cmds' = cmds
  BY <1>1 DEF InQueue
<1>2. CASE cmds' = <<>>
  BY <1>2 DEF InQueue
<1>3. ASSUME NEW q \in Reqs, Next1(q) PROVE r \in InQueue
  BY <1>0, <1>3, Taken
<1>4. ASSUME NEW q \in Reqs, Fresh(q), cmds' = Append(cmds, q)
      PROVE r \in InQueue \/ kind[r] = "none"
  <2>1. /\ Append(cmds, q) \in Seq(Reqs) /\ Len(Append(cmds, q)) = Len(cmds) + 1
        /\ \A i \in 1..Len(cmds) : Append(cmds, q)[i] = cmds[i]
        /\ Append(cmds, q)[Len(cmds) + 1] = q
    BY <1>0, AppendProperties
  <2>2. DOMAIN cmds = 1..Len(cmds) /\ Len(cmds) \in Nat /\ DOMAIN Append(cmds, q) = 1..Len(cmds) + 1
    BY <1>0, <2>1, LenProperties
  <2>3. PICK i \in DOMAIN cmds' : r = cmds'[i]
    BY DEF InQueue
  <2>4. CASE i = Len(cmds) + 1
    BY <1>4, <2>1, <2>3, <2>4 DEF Fresh
  <2>5. CASE i # Len(cmds) + 1
    <3>1. i \in DOMAIN cmds /\ r = cmds[i]
      BY <1>4, <2>1, <2>2, <2>3, <2>5
    <3> QED BY <3>1 DEF InQueue
  <2> QED BY <2>4, <2>5
<1> QED BY <1>0, <1>1, <1>2, <1>3, <1>4 DEF QueueMoves

\* What the server did with a request changes when the server answers it; later only
\* for transfers.
LEMMA DidStep ==
  ASSUME TypeInv, WireInv, [Next]_vars, NEW r \in Reqs, did'[r] # did[r]
  PROVE  \/ ServerAnswers /\ r = Head(srv).of /\ did[r] = "none" /\ r \notin InQueue /\ kind[r] # "none"
         \/ did[r] = "ok" /\ kind[r] \in Transfers
<1>1. HistoryMoves
  BY HistoryMove
<1>2. CASE ServerAnswers /\ r = Head(srv).of
  <2>1. srv # <<>> /\ srv \in Seq([of: Reqs, code: Codes])
    BY <1>2 DEF ServerAnswers, TypeInv, TypeOK
  <2>2. Head(srv) = srv[1] /\ 1 \in DOMAIN srv
    BY <2>1, HeadTailProperties, LenProperties, EmptySeq
  <2>3. CommandOK(Head(srv))
    BY <2>2 DEF WireInv, Commands
  <2> QED BY <1>2, <2>3 DEF CommandOK
<1>3. CASE ~(ServerAnswers /\ r = Head(srv).of)
  BY <1>1, <1>3 DEF HistoryMoves, WireInv
<1> QED BY <1>2, <1>3

\* A command waits on while another is answered.
LEMMA CommandKept ==
  ASSUME TypeInv, OwnerInv, WireInv, [Next]_vars, Same, NEW q \in [of: Reqs, code: Codes],
         CommandOK(q), ServerAnswers => q.of # Head(srv).of
  PROVE  CommandOK(q)'
<1> DEFINE r == q.of  c == q.code
<1>1. r \in Reqs /\ c \in Codes /\ Own(c, r) /\ did[r] = "none" /\ r \notin InQueue /\ kind[r] # "none"
  BY DEF CommandOK
<1> HIDE DEF r, c
<1>2. Own(c, r)'
  BY <1>1, OwnStep
<1>3. did'[r] = "none"
  BY <1>1, DidStep DEF r
<1>4. r \notin InQueue'
  BY <1>1, QueueSet
<1>5. kind'[r] # "none"
  BY <1>1, HistoryMove DEF HistoryMoves, Fresh
<1> QED BY <1>2, <1>3, <1>4, <1>5 DEF CommandOK, r, c

\* A result stays true until it is handled.
LEMMA ResultKept ==
  ASSUME TypeInv, OwnerInv, WireInv, [Next]_vars, Same, NEW m \in Sound,
         m.type = "result", ResultOK(m)
  PROVE  ResultOK(m)'
<1> DEFINE r == m.of  c == m.key
<1>1. r \in Reqs /\ c \in Codes /\ Own(c, r) /\ kind[r] # "none" /\ m.res # "none"
  BY DEF ResultOK, Sound, Items
<1>2. kind[r] \notin Transfers => did[r] = m.res
  BY DEF ResultOK
<1> HIDE DEF r, c
<1>3. Own(c, r)'
  BY <1>1, OwnStep
<1>4. kind'[r] = kind[r]
  BY <1>1, HistoryMove DEF HistoryMoves, Fresh
<1>5. kind[r] \notin Transfers => did'[r] = did[r]
  BY <1>1, <1>2, DidStep
<1> QED BY <1>1, <1>2, <1>3, <1>4, <1>5 DEF ResultOK, r, c

\* Where the commands go.
LEMMA CommandsMove ==
  ASSUME TypeInv, [Next]_vars
  PROVE  \/ srv' = srv \/ srv' = <<>>
         \/ ServerAnswers /\ srv # <<>> /\ srv' = Tail(srv)
         \/ \E r \in Reqs : Sends(r) /\ srv' = Append(srv, [of |-> r, code |-> code])
BY WireMove
   DEF WireMoves, Grows, Handles, ServerAnswers, Drop, Reconnect, End, Connect, Collect, Sends,
       Sent

\* A command is sent once, answered once, and the answer carries its code.
LEMMA WireInvStep ==
  ASSUME TypeInv, OwnerInv, Phases, Below, WireInv, [Next]_vars PROVE WireInv'
<1>0. /\ TypeInv /\ TypeOK /\ TypeInv' /\ HistoryMoves /\ (Same \/ Anew)
      /\ srv \in Seq([of: Reqs, code: Codes]) /\ Len(srv) \in Nat /\ DOMAIN srv = 1..Len(srv)
      /\ \A i \in DOMAIN srv : srv[i] \in [of: Reqs, code: Codes]
  <2>1. TypeOK /\ TypeInv'
    BY TypeStep DEF TypeInv
  <2>2. srv \in Seq([of: Reqs, code: Codes])
    BY <2>1 DEF TypeOK
  <2> QED BY <2>1, <2>2, HistoryMove, ConnStep, LenProperties, ElementOfSeq
<1>1. ASSUME NEW r \in Reqs
      PROVE  /\ r \in InQueue' \/ kind'[r] = "none" => did'[r] = "none"
             /\ did'[r] = "empty" => kind'[r] = "list"
             /\ worker'[r] # "none" => kind'[r] \in Transfers
  <2>1. r \in InQueue' \/ kind'[r] = "none" => r \in InQueue \/ kind[r] = "none"
    BY <1>0, QueueSet DEF HistoryMoves, Fresh
  <2>2. r \in InQueue' \/ kind'[r] = "none" => did'[r] = "none"
    BY <2>1, DidStep DEF WireInv
  <2>3. kind[r] # "none" => kind'[r] = kind[r]
    BY <1>0 DEF HistoryMoves, Fresh
  <2>4. kind[r] = "none" => worker[r] = "none" /\ r \notin tasks /\ did[r] = "none"
    BY DEF WireInv, OwnerInv, Transfers
  <2>5. did'[r] = "empty" => kind'[r] = "list"
    <3>1. CASE did'[r] = did[r]
      BY <2>3, <2>4, <3>1 DEF WireInv
    <3>2. CASE did'[r] # did[r]
      BY <1>0, <2>3, <3>2, DidStep DEF HistoryMoves
    <3> QED BY <3>1, <3>2
  <2>6. worker'[r] # "none" => kind'[r] \in Transfers
    <3>1. worker'[r] # "none" => kind[r] \in Transfers
      BY <1>0 DEF HistoryMoves, WireInv, OwnerInv
    <3> QED BY <2>3, <3>1 DEF Transfers
  <2> QED BY <2>2, <2>5, <2>6
<1>2. CASE Anew
  <2>1. DOMAIN srv' = {} /\ Commands' = {} /\ Results' = {}
    BY <1>2 DEF Anew, Results, Commands
  <2> QED BY <1>1, <2>1 DEF WireInv
<1>3. CASE Same
  <2>1. ASSUME NEW m \in Results' PROVE ResultOK(m)'
    <3>1. CASE m \in Results
      <4>1. m \in Sound /\ m.type = "result"
        BY <3>1, ElementOfSeq, Lengths DEF Results
      <4> QED BY <1>3, <3>1, <4>1, ResultKept DEF WireInv
    <3>2. CASE ServerAnswers /\ m = Item("result", Head(srv).code, did'[Head(srv).of], Head(srv).of)
      <4>1. Head(srv) = srv[1] /\ 1 \in DOMAIN srv
        BY <1>0, <3>2, HeadTailProperties, EmptySeq DEF ServerAnswers
      <4>2. PICK q \in [of: Reqs, code: Codes] : q = Head(srv)
        BY <1>0, <4>1
      <4>3. q.of \in Reqs /\ q.code \in Codes /\ Own(q.code, q.of) /\ kind[q.of] # "none"
        BY <4>1, <4>2 DEF WireInv, Commands, CommandOK
      <4>4. Own(q.code, q.of)'
        BY <1>3, <4>3, OwnStep
      <4>5. kind'[q.of] # "none"
        BY <1>0, <4>3 DEF HistoryMoves, Fresh
      <4>6. m.of = q.of /\ m.key = q.code /\ m.res = did'[q.of]
        BY <3>2, <4>2 DEF Item
      <4> QED BY <4>3, <4>4, <4>5, <4>6 DEF ResultOK
    <3> QED BY <3>1, <3>2, ResultsMove
  <2>2. ASSUME NEW i \in DOMAIN srv, ServerAnswers => i # 1, NEW q, q = srv[i]
        PROVE CommandOK(q)'
    <3>1. q \in [of: Reqs, code: Codes] /\ CommandOK(q)
      BY <1>0, <2>2 DEF WireInv, Commands
    <3>2. ServerAnswers => q.of # Head(srv).of
      <4>1. ServerAnswers => Head(srv) = srv[1] /\ 1 \in DOMAIN srv
        BY <1>0, HeadTailProperties, EmptySeq DEF ServerAnswers
      <4> QED BY <2>2, <4>1 DEF WireInv
    <3> QED BY <1>3, <3>1, <3>2, CommandKept
  <2>3. CASE srv' = srv /\ ~ServerAnswers
    <3>1. \A q \in Commands' : CommandOK(q)'
      BY <2>2, <2>3 DEF Commands
    <3> QED BY <1>1, <2>1, <2>3, <3>1 DEF WireInv
  <2>4. CASE srv' = <<>>
    <3>1. DOMAIN srv' = {} /\ Commands' = {}
      BY <2>4 DEF Commands
    <3> QED BY <1>1, <2>1, <3>1 DEF WireInv
  <2>5. CASE ServerAnswers
    <3>1. /\ Tail(srv) \in Seq([of: Reqs, code: Codes]) /\ Len(Tail(srv)) = Len(srv) - 1
          /\ \A i \in 1..Len(srv) - 1 : Tail(srv)[i] = srv[i + 1]
      BY <1>0, <2>5, HeadTailProperties DEF ServerAnswers
    <3>2. /\ DOMAIN srv' = 1..Len(srv) - 1
          /\ \A i \in DOMAIN srv' : /\ srv'[i] = srv[i + 1] /\ i + 1 \in DOMAIN srv
                                    /\ i + 1 # 1 /\ i \in Nat
      BY <1>0, <2>5, <3>1, LenProperties DEF ServerAnswers
    <3>3. \A q \in Commands' : CommandOK(q)'
      <4> SUFFICES ASSUME NEW i \in DOMAIN srv', NEW q, q = srv'[i] PROVE CommandOK(q)'
        BY DEF Commands
      <4> QED BY <2>2, <3>2
    <3>4. ASSUME NEW i \in DOMAIN srv', NEW j \in DOMAIN srv', srv'[i].of = srv'[j].of PROVE i = j
      <4>1. i + 1 = j + 1
        BY <3>2, <3>4 DEF WireInv
      <4> QED BY <3>2, <4>1
    <3> QED BY <1>1, <2>1, <3>3, <3>4 DEF WireInv
  <2>6. ASSUME NEW r \in Reqs, Sends(r), srv' = Append(srv, [of |-> r, code |-> code])
        PROVE WireInv'
    <3> DEFINE n == [of |-> r, code |-> code]
    <3>1. code \in Codes /\ code' = code + 1 /\ conn' = conn /\ code \in Nat
      <4>1. code \in Codes
        BY <1>0 DEF TypeOK
      <4> QED BY <2>6, <4>1 DEF Sends, Sent, Codes
    <3>2. r \in InQueue /\ r \notin InQueue' /\ kind[r] # "none" /\ did[r] = "none"
      <4>1. r \in InQueue /\ r \notin InQueue'
        BY <1>0, <2>6, Taken DEF Sends, OwnerInv
      <4>2. kind[r] # "none"
        BY <4>1 DEF OwnerInv, Queued, InQueue
      <4> QED BY <4>1, <4>2 DEF WireInv
    <3>3. ~ServerAnswers /\ did'[r] = "none" /\ kind'[r] # "none"
      <4>1. ~ServerAnswers
        BY <2>6, <3>1 DEF ServerAnswers
      <4> QED BY <1>0, <3>2, <4>1, DidStep DEF HistoryMoves, Fresh
    <3>4. PICK c \in Codes : c = code
      BY <3>1
    <3>5. permOps'[c] \in {None, r} /\ ftLists'[c].of \in {None, r} /\ ftOps'[c] \in {None, r, ftOps[c]}
      <4>1. permOps[c] = None /\ ftLists[c].of = None
        BY <3>1, <3>4 DEF Below
      <4>2. CASE Shrinks
        BY <4>1, <4>2 DEF Shrinks
      <4>3. ASSUME NEW q \in Reqs, Files(q)
            PROVE  /\ permOps'[c] \in {None, r} /\ ftLists'[c].of \in {None, r}
                   /\ ftOps'[c] \in {None, r, ftOps[c]}
        <5>1. q = r
          BY <2>6, <4>3 DEF Files, Sends, Next1
        <5> QED BY <3>4, <4>1, <4>3, <5>1 DEF Files, NoList
      <4> QED BY <1>0, <4>2, <4>3, TableMove DEF TableMoves
    <3>6. ftOps'[c] # None /\ ftOps'[c] # r => ftOps'[c] = ftOps[c] /\ sentIn'[ftOps[c]] # conn
      <4>1. ftOps[c] # None => sentIn[ftOps[c]] # conn
        BY <3>1, <3>4 DEF Below
      <4> QED BY <3>5, <4>1, FiledKept
    <3>7. Own(c, r)'
      BY <3>1, <3>4, <3>5, <3>6 DEF Own
    <3>8. \A q : q = [of |-> r, code |-> c] => CommandOK(q)'
      BY <3>2, <3>3, <3>7 DEF CommandOK
    <3>9. /\ Append(srv, n) \in Seq([of: Reqs, code: Codes]) /\ Len(Append(srv, n)) = Len(srv) + 1
          /\ \A i \in 1..Len(srv) : Append(srv, n)[i] = srv[i]
          /\ Append(srv, n)[Len(srv) + 1] = n
      <4>1. n \in [of: Reqs, code: Codes]
        BY <3>1
      <4> HIDE DEF n
      <4> QED BY <1>0, <4>1, AppendProperties
    <3>10. /\ DOMAIN srv' = 1..Len(srv) + 1 /\ srv'[Len(srv) + 1] = n
           /\ \A i \in DOMAIN srv : srv'[i] = srv[i]
           /\ \A i \in DOMAIN srv' : i \in DOMAIN srv \/ i = Len(srv) + 1
      BY <1>0, <2>6, <3>9, LenProperties
    <3>11. \A q \in Commands' : CommandOK(q)'
      <4> SUFFICES ASSUME NEW i \in DOMAIN srv', NEW q, q = srv'[i] PROVE CommandOK(q)'
        BY DEF Commands
      <4>1. CASE i \in DOMAIN srv
        BY <2>2, <3>3, <3>10, <4>1
      <4>2. CASE i = Len(srv) + 1
        BY <3>4, <3>8, <3>10, <4>2
      <4> QED BY <3>10, <4>1, <4>2
    <3>12. \A i \in DOMAIN srv : srv[i].of # r
      BY <3>2 DEF WireInv, Commands, CommandOK
    <3>13. \A i, j \in DOMAIN srv' : srv'[i].of = srv'[j].of => i = j
      BY <3>10, <3>12 DEF WireInv
    <3> QED BY <1>1, <2>1, <3>11, <3>13 DEF WireInv
  <2> QED BY <2>3, <2>4, <2>5, <2>6, CommandsMove
<1> QED BY <1>0, <1>2, <1>3

-----------------------------------------------------------------------------
(* Answers tell the truth. *)

\* What a listing knows and what the user was told is what the server did.
TruthInv ==
  /\ \A c \in Codes : ftLists[c].of # None => ftLists[c].res \in {"none", did[ftLists[c].of]}
  /\ PermissionsTrue /\ OperationsTrue /\ RefusalsTrue

\* The result that is handled is true of the request of this connection under its code.
LEMMA Handled1 ==
  ASSUME TypeInv, WireInv, HandleResult
  PROVE  Item1 \in Sound /\ Item1.key \in Codes /\ ResultOK(Item1)
<1>1. batch # <<>> /\ Item1.type = "result"
  BY DEF HandleResult, Handling, Item1
<1>2. Item1 \in Sound
  BY <1>1, FirstSound
<1>3. batch \in Seq(Sound) /\ Item1 = batch[1] /\ 1 \in DOMAIN batch
  BY <1>1, Lengths, HeadTailProperties, EmptySeq DEF Item1
<1>4. Item1 \in Results
  BY <1>1, <1>3 DEF Results
<1> QED BY <1>1, <1>2, <1>4 DEF WireInv, Sound

\* A request that waits in a table is of its kind, and what was done with it stays.
LEMMA Waits ==
  ASSUME TypeInv, OwnerInv, WireInv, [Next]_vars, NEW r \in Reqs, NEW c \in Codes
  PROVE  /\ permOps[c] = r => kind[r] \in Tokens
         /\ ftOps[c] = r => kind[r] = "op"
         /\ ftLists[c].of = r => kind[r] = "list"
         /\ kind[r] \notin Transfers /\ did[r] # "none" => did'[r] = did[r]
<1>1. r # None
  BY DEF Reqs, None
<1>2. ftLists[c].of = r => kind[r] = "list"
  BY <1>1 DEF OwnerInv, Owned, Listed
<1> QED BY <1>1, <1>2, DidStep DEF OwnerInv, Owned

\* The result of a listing is the server's.
LEMMA ListResult ==
  ASSUME TypeInv, OwnerInv, WireInv, TruthInv, [Next]_vars, NEW c \in Codes, ftLists'[c].of # None
  PROVE  ftLists'[c].res \in {"none", did'[ftLists'[c].of]}
<1>0. ftLists[c].of \in Reqs \cup {None} /\ TableMoves
  BY TableMove DEF TypeInv, TypeOK, Lists
<1>1. CASE Shrinks
  <2>1. PICK r \in Reqs : ftLists[c].of = r /\ ftLists'[c].of = r
    BY <1>0, <1>1 DEF Shrinks
  <2>2. kind[r] = "list" /\ kind[r] \notin Transfers
    BY <2>1, Waits DEF Transfers
  <2>3. CASE ftLists'[c].res = ftLists[c].res
    <3>1. ftLists[c].res \in {"none", did[r]}
      BY <2>1 DEF TruthInv, None, Reqs
    <3> QED BY <2>1, <2>2, <2>3, <3>1, Waits
  <2>4. CASE HandleResult /\ c = Item1.key /\ ftLists'[c].res = Item1.res
    <3>1. Item1 \in Sound /\ ResultOK(Item1)
      BY <2>4, Handled1
    <3>2. r = Item1.of /\ Item1.res = did[r] /\ did[r] # "none"
      BY <2>1, <2>2, <2>4, <3>1 DEF ResultOK, Own, None, Reqs, Sound, Items
    <3> QED BY <2>1, <2>2, <2>4, <3>2, Waits
  <2> QED BY <1>1, <2>1, <2>3, <2>4 DEF Shrinks
<1>2. ASSUME NEW q \in Reqs, Files(q) PROVE ftLists'[c].res \in {"none", did'[ftLists'[c].of]}
  <2>1. CASE ftLists'[c] = ftLists[c]
    <3>1. PICK r \in Reqs : ftLists[c].of = r
      BY <1>0, <2>1
    <3>2. kind[r] \notin Transfers /\ ftLists[c].res \in {"none", did[r]}
      BY <3>1, Waits DEF TruthInv, None, Reqs, Transfers
    <3> QED BY <2>1, <3>1, <3>2, Waits
  <2> QED BY <1>2, <2>1 DEF Files, NoList
<1> QED BY <1>0, <1>1, <1>2 DEF TableMoves

\* The event of a step is the only one of its request.
LEMMA OnlyEvent ==
  ASSUME TypeInv, AnswerInv, [Next]_vars, NEW r \in Reqs, NEW a,
         answers'[r] = Append(answers[r], a)
  PROVE  \A i \in DOMAIN answers'[r] : answers'[r][i] = a
<1>1. answers[r] \in Seq(Answers) /\ answers' \in [Reqs -> Seq(Answers)]
  BY AnswerStep DEF TypeInv, TypeOK
<1>2. Len(answers'[r]) <= 1
  BY OnceStep DEF AnsweredOnce
<1>3. Len(answers'[r]) = Len(answers[r]) + 1 /\ Len(answers[r]) \in Nat
  BY <1>1
<1>4. Len(answers[r]) = 0
  BY <1>2, <1>3
<1>5. answers[r] = <<>>
  BY <1>1, <1>4, EmptySeq
<1> QED BY <1>5

\* A request that is answered stays what it is.
LEMMA AnsweredKept ==
  ASSUME TypeInv, OwnerInv, [Next]_vars, NEW r \in Reqs, answers[r] # <<>>
  PROVE  kind'[r] = kind[r] /\ (kind[r] \notin Transfers => sentIn'[r] = sentIn[r])
<1>1. kind[r] # "none" /\ HistoryMoves
  BY HistoryMove DEF OwnerInv
<1>2. kind[r] \notin Transfers => ~Next1(r)
  BY Taken DEF OwnerInv, TypeInv
<1> QED BY <1>1, <1>2 DEF HistoryMoves, Fresh

\* What TruthInv says of one request.
TrueOf(r) ==
  /\ kind[r] \in Tokens => (Told(r, "ok") => did[r] = "ok") /\ (Told(r, "err") => did[r] = "err")
  /\ kind[r] = "op" => (ToldHere(r, "ok") => did[r] = "ok") /\ (ToldHere(r, "err") => did[r] = "err")
  /\ kind[r] = "list" => (Told(r, "err") => did[r] = "err")

\* A step tells each request what the server did with it, and that does not change
\* any more.
LEMMA TruthStep ==
  ASSUME TypeInv, AnswerInv, Below, WireInv, TruthInv, [Next]_vars PROVE TruthInv'
<1> USE DEF TrueOf
<1>0. TypeInv /\ OwnerInv /\ AnswerMoves /\ TypeOK
  BY AnswerMove DEF AnswerInv, TypeInv
<1>a. ASSUME NEW r \in Reqs, NEW a, answers'[r] = Append(answers[r], a)
      PROVE  \A i \in DOMAIN answers'[r] : answers'[r][i] = a
  BY <1>a, OnlyEvent
<1>1. ASSUME NEW r \in Reqs, answers'[r] = answers[r]
      PROVE  TrueOf(r)'
  <2>1. CASE answers[r] = <<>>
    BY <1>1, <2>1 DEF Told, ToldHere
  <2>2. CASE answers[r] # <<>> /\ kind'[r] \notin Transfers
    <3>1. kind'[r] = kind[r] /\ sentIn'[r] = sentIn[r]
      BY <1>0, <2>2, AnsweredKept
    <3>2. did[r] # "none" => did'[r] = did[r]
      BY <1>0, <2>2, <3>1, DidStep
    <3>3. \A w : (Told(r, w)' <=> Told(r, w)) /\ (ToldHere(r, w)' <=> ToldHere(r, w))
      BY <1>1, <3>1 DEF Told, ToldHere
    <3> QED BY <3>1, <3>2, <3>3 DEF TruthInv, PermissionsTrue, OperationsTrue, RefusalsTrue
  <2> QED BY <2>1, <2>2 DEF Tokens, Transfers
<1>2. ASSUME NEW r \in Reqs, NEW a, answers'[r] = Append(answers[r], a), a.what \in {"unsent", "refused", "lost"}
      PROVE  ~Told(r, "ok")' /\ ~Told(r, "err")' /\ ~ToldHere(r, "ok")' /\ ~ToldHere(r, "err")'
  BY <1>2, OnlyEvent DEF Told, ToldHere
<1>3. ASSUME NEW r \in Reqs, NEW a, answers'[r] = Append(answers[r], a), HandleResult,
             r \in {permOps[Item1.key], ftOps[Item1.key]},
             a = Answer(IF Item1.res = "ok" THEN "ok" ELSE "err", 0)
      PROVE  /\ kind'[r] \in Tokens => (Told(r, "ok")' => did'[r] = "ok") /\ (Told(r, "err")' => did'[r] = "err")
             /\ kind'[r] = "op" => (ToldHere(r, "ok")' => did'[r] = "ok") /\ (ToldHere(r, "err")' => did'[r] = "err")
             /\ kind'[r] # "list"
  <2>1. Item1 \in Sound /\ Item1.key \in Codes /\ ResultOK(Item1)
    BY <1>3, Handled1
  <2>2. kind[r] \in Tokens \cup {"op"} /\ (permOps[Item1.key] # r => kind[r] = "op")
    BY <1>0, <1>3, <2>1, Waits
  <2>3. kind'[r] = kind[r] /\ kind[r] \notin Transfers
    BY <1>0, <1>3, <2>2 DEF HandleResult, asking, Tokens, Transfers
  <2>4. r = Item1.of => did'[r] = Item1.res /\ Item1.res \in {"ok", "err"}
    <3>1. r = Item1.of => did[r] = Item1.res /\ Item1.res \in {"ok", "err", "empty"}
      BY <2>1, <2>3 DEF ResultOK, Sound, Items
    <3>2. did[r] # "empty"
      BY <2>2 DEF WireInv, Tokens
    <3> QED BY <1>0, <2>1, <2>3, <3>1, <3>2, Waits
  <2>5. a.what = (IF Item1.res = "ok" THEN "ok" ELSE "err") /\ a.conn = IF link = "up" THEN conn ELSE None
    BY <1>3 DEF Answer
  <2>6. CASE kind[r] \in Tokens
    <3>1. r = Item1.of
      BY <1>3, <2>1, <2>2, <2>6 DEF ResultOK, Own, Tokens, None, Reqs
    <3>2. \A i \in DOMAIN answers'[r] : answers'[r][i] = a
      <4>1. answers'[r] = Append(answers[r], a)
        BY <1>3
      <4> QED BY <4>1, <1>a
    <3>3. \A w : Told(r, w)' => a.what = w
      BY <3>2 DEF Told
    <3> QED BY <2>3, <2>4, <2>5, <2>6, <3>1, <3>3 DEF Tokens
  <2>7. CASE kind[r] = "op"
    <3>1. ftOps[Item1.key] = r
      BY <1>0, <1>3, <2>1, <2>7, Waits DEF Tokens
    <3>2. r # None /\ sentIn'[r] = sentIn[r] /\ sentIn[r] # None
      BY <1>0, <2>1, <2>7, <3>1, FiledKept DEF Below, Transfers, None, Reqs
    <3>3. a.conn = sentIn[r] => r = Item1.of
      BY <2>1, <2>5, <3>1, <3>2 DEF ResultOK, Own
    <3> QED BY <1>3, <2>3, <2>4, <2>5, <2>7, <3>2, <3>3, OnlyEvent DEF ToldHere, Tokens
  <2> QED BY <2>2, <2>6, <2>7
<1>4. ASSUME NEW r \in Reqs, NEW a, answers'[r] = Append(answers[r], a), NEW c \in Codes, ftLists[c].of = r,
             a = Answer(IF ftLists[c].res = "err" THEN "err" ELSE "ok", ftLists[c].rows)
      PROVE  /\ kind'[r] = "list" /\ (Told(r, "err")' => did'[r] = "err")
  <2>1. kind[r] = "list" /\ kind[r] \notin Transfers
    BY <1>0, <1>4, Waits DEF Transfers
  <2>2. kind'[r] = "list"
    BY <2>1, HistoryMove DEF HistoryMoves, Fresh
  <2>3. ftLists[c].res \in {"none", did[r]}
    BY <1>4 DEF TruthInv, None, Reqs
  <2>4. Told(r, "err")' => a.what = "err"
    <3>1. \A i \in DOMAIN answers'[r] : answers'[r][i] = a
      <4>1. answers'[r] = Append(answers[r], a)
        BY <1>4
      <4> QED BY <4>1, <1>a
    <3> QED BY <3>1 DEF Told
  <2>5. a.what = "err" => did[r] = "err"
    BY <1>4, <2>3 DEF Answer
  <2> QED BY <1>0, <1>4, <2>1, <2>2, <2>4, <2>5, Waits
<1>5. ASSUME NEW r \in Reqs
      PROVE  TrueOf(r)'
  <2>1. CASE kind'[r] \in Transfers
    BY <2>1 DEF Transfers, Tokens
  <2>2. CASE answers'[r] = answers[r]
    BY <1>1, <2>2
  <2>3. ASSUME NEW a, answers'[r] = Append(answers[r], a)
        PROVE  (\/ a.what \in {"unsent", "refused", "lost"}
                \/ /\ HandleResult /\ Item1.key \in Codes
                   /\ r \in {permOps[Item1.key], ftOps[Item1.key]}
                   /\ a = Answer(IF Item1.res = "ok" THEN "ok" ELSE "err", 0)
                \/ \E c \in Codes : /\ ftLists[c].of = r
                                    /\ a = Answer(IF ftLists[c].res = "err" THEN "err" ELSE "ok", ftLists[c].rows)) =>
               TrueOf(r)'
    BY <1>2, <1>3, <1>4, <2>3 DEF Tokens
  <2> QED BY <1>0, <2>1, <2>2, <2>3 DEF AnswerMoves
<1>6. PermissionsTrue' /\ OperationsTrue' /\ RefusalsTrue'
  BY <1>5 DEF PermissionsTrue, OperationsTrue, RefusalsTrue
<1>7. \A c \in Codes : ftLists'[c].of # None => ftLists'[c].res \in {"none", did'[ftLists'[c].of]}
  BY <1>0, ListResult
<1> QED BY <1>6, <1>7 DEF TruthInv

\* The inductive invariant.
RequestsInv == TypeInv /\ AnswerInv /\ Phases /\ Below /\ WireInv /\ TruthInv

\* The invariant holds at first.
LEMMA RequestsInit == Init => RequestsInv
<1> SUFFICES ASSUME Init PROVE RequestsInv
  OBVIOUS
<1>1. TypeInv /\ AnswerInv
  BY TypeInit, OwnerInit
<1>2. DOMAIN <<>> = {}
  OBVIOUS
<1>3. Phases
  BY <1>2 DEF Init, Phases
<1>4. Below
  BY <1>1 DEF Init, Below, NoList, TypeInv, TypeOK, Conns, None
<1>5. WireInv
  BY <1>2 DEF Init, WireInv, Commands, Results, InQueue
<1>6. TruthInv
  BY <1>2
     DEF Init, TruthInv, NoList, PermissionsTrue, OperationsTrue, RefusalsTrue, Told, ToldHere,
         Tokens
<1> QED BY <1>1, <1>3, <1>4, <1>5, <1>6 DEF RequestsInv

\* Every step keeps the invariant.
LEMMA RequestsStep == RequestsInv /\ [Next]_vars => RequestsInv'
<1> SUFFICES ASSUME RequestsInv, [Next]_vars PROVE RequestsInv'
  OBVIOUS
<1>1. TypeInv /\ AnswerInv /\ OwnerInv /\ Phases /\ Below /\ WireInv /\ TruthInv
  BY DEF RequestsInv, AnswerInv
<1>2. TypeInv' /\ AnswerInv'
  BY <1>1, TypeStep, OwnerStep, OnceStep DEF AnswerInv
<1> QED BY <1>1, <1>2, PhaseStep, BelowStep, WireInvStep, TruthStep DEF RequestsInv

\* A permission request is reported done or refused only if the server did or refused
\* that very request, however connections break and batches are reordered.
THEOREM PermissionsTold == Spec => []PermissionsTrue
<1>1. RequestsInv => PermissionsTrue
  BY DEF RequestsInv, TruthInv
<1> QED BY RequestsInit, RequestsStep, <1>1, PTL DEF Spec

\* So is a file operation while its connection lasts, although FT_OPS outlives it.
THEOREM OperationsTold == Spec => []OperationsTrue
<1>1. RequestsInv => OperationsTrue
  BY DEF RequestsInv, TruthInv
<1> QED BY RequestsInit, RequestsStep, <1>1, PTL DEF Spec

\* A listing is reported failed only if the server refused it, also by a timer that
\* outlived the connection.
THEOREM RefusalsTold == Spec => []RefusalsTrue
<1>1. RequestsInv => RefusalsTrue
  BY DEF RequestsInv, TruthInv
<1> QED BY RequestsInit, RequestsStep, <1>1, PTL DEF Spec

-----------------------------------------------------------------------------
(* Listings: what ends them, and what becomes of their timers. *)

\* A request is about a directory from when it is asked; without "again", no listing
\* of it is open then.
DirMoves ==
  \/ UNCHANGED asking
  \/ \E r \in Reqs :
       /\ kind[r] = "none" /\ \A q \in Reqs : q # r => kind'[q] = kind[q] /\ dir'[q] = dir[q]
       /\ kind'[r] = "list" =>
            "again" \in Faults \/ \A q \in Reqs : Listing(q) => dir[q] # dir'[r]

\* Every step is one of these as far as the requests go.
LEMMA DirMove ==
  ASSUME TypeInv, [Next]_vars PROVE DirMoves
<1>0. TypeInv /\ TypeOK
  BY DEF TypeInv
<1>a. UNCHANGED asking => DirMoves
  BY DEF DirMoves
<1>1. ASSUME NEW r \in Reqs, AskPlain(r) PROVE DirMoves
  BY <1>0, <1>1 DEF AskPlain, Queue, DirMoves, Fresh, TypeOK
<1>2. ASSUME NEW r \in Reqs, AskMove(r) PROVE DirMoves
  BY <1>0, <1>2 DEF AskMove, Queue, DirMoves, Fresh, TypeOK
<1>3. ASSUME NEW r \in Reqs, AskKick(r) PROVE DirMoves
  BY <1>0, <1>3 DEF AskKick, Queue, DirMoves, Fresh, TypeOK
<1>4. ASSUME NEW r \in Reqs, AskGroup(r) PROVE DirMoves
  BY <1>0, <1>4 DEF AskGroup, Queue, DirMoves, Fresh, TypeOK
<1>5. ASSUME NEW r \in Reqs, AskOp(r) PROVE DirMoves
  BY <1>0, <1>5 DEF AskOp, Queue, DirMoves, Fresh, TypeOK
<1>6. ASSUME NEW r \in Reqs, NEW d \in Dirs, AskList(r, d) PROVE DirMoves
  BY <1>0, <1>6 DEF AskList, Queue, DirMoves, Fresh, TypeOK
<1>7. ASSUME NEW r \in Reqs, AskDownload(r) PROVE DirMoves
  BY <1>0, <1>7 DEF AskDownload, Queue, DirMoves, Fresh, TypeOK
<1>8. ASSUME NEW r \in Reqs, AskUpload(r) PROVE DirMoves
  BY <1>0, <1>8 DEF AskUpload, Queue, DirMoves, Fresh, TypeOK
<1>9. ASSUME NEW r \in Reqs, NEW k \in Transfers, AskLate(r, k) PROVE DirMoves
  BY <1>0, <1>9 DEF AskLate, DirMoves, Fresh, TypeOK, Transfers
<1>10. ASSUME NEW r \in Reqs, Cancel(r) PROVE DirMoves
  BY <1>a, <1>10 DEF Cancel, asking
<1>11. ASSUME NEW r \in Reqs, SendKick(r) PROVE DirMoves
  BY <1>a, <1>11 DEF SendKick, Track, asking
<1>12. ASSUME NEW r \in Reqs, SendGroup(r) PROVE DirMoves
  BY <1>a, <1>12 DEF SendGroup, Track, asking
<1>13. ASSUME NEW r \in Reqs, RefuseKick(r) PROVE DirMoves
  BY <1>a, <1>13 DEF RefuseKick, asking
<1>14. ASSUME NEW r \in Reqs, SendMove(r) PROVE DirMoves
  BY <1>a, <1>14 DEF SendMove, asking
<1>15. ASSUME NEW r \in Reqs, SendPlain(r) PROVE DirMoves
  BY <1>a, <1>15 DEF SendPlain, asking
<1>16. ASSUME NEW r \in Reqs, SendOp(r) PROVE DirMoves
  BY <1>a, <1>16 DEF SendOp, asking
<1>17. ASSUME NEW r \in Reqs, SendList(r) PROVE DirMoves
  BY <1>a, <1>17 DEF SendList, asking
<1>18. ASSUME NEW r \in Reqs, SendTransfer(r) PROVE DirMoves
  BY <1>a, <1>18 DEF SendTransfer, asking
<1>19. ASSUME NEW r \in Reqs, SendFails(r) PROVE DirMoves
  BY <1>a, <1>19 DEF SendFails, asking
<1>20. ASSUME NEW r \in Reqs, TransferFails(r) PROVE DirMoves
  BY <1>a, <1>20 DEF TransferFails, asking
<1>21. ASSUME NEW r \in Reqs, WorkerCancels(r) PROVE DirMoves
  BY <1>a, <1>21 DEF WorkerCancels, asking
<1>22. ASSUME NEW r \in Reqs, GraceEnds(r) PROVE DirMoves
  BY <1>a, <1>22 DEF GraceEnds, asking
<1>23. ASSUME NEW r \in Reqs, NEW whole \in BOOLEAN, DownloadEnds(r, whole) PROVE DirMoves
  BY <1>a, <1>23 DEF DownloadEnds, asking
<1>24. ASSUME NEW r \in Reqs, NEW whole \in BOOLEAN, UploadSent(r, whole) PROVE DirMoves
  BY <1>a, <1>24 DEF UploadSent, asking
<1>25. ASSUME NEW r \in Reqs, NEW ok \in BOOLEAN, Opened(r, ok) PROVE DirMoves
  BY <1>a, <1>25 DEF Opened, asking
<1>26. ASSUME NEW r \in Reqs, NEW res \in {"ok", "err"}, ServerStatus(r, res) PROVE DirMoves
  BY <1>a, <1>26 DEF ServerStatus, asking
<1>27. CASE ServerAnswers
  BY <1>a, <1>27 DEF ServerAnswers, asking
<1>28. CASE Drop
  BY <1>a, <1>28 DEF Drop, asking
<1>29. CASE Reconnect
  BY <1>a, <1>29 DEF Reconnect, asking
<1>30. CASE End
  BY <1>a, <1>30 DEF End, asking
<1>31. CASE Connect
  BY <1>a, <1>31 DEF Connect, asking
<1>32. ASSUME NEW n \in 1..Len(net), Collect(n) PROVE DirMoves
  BY <1>a, <1>32 DEF Collect, asking
<1>33. CASE HandleResult
  BY <1>a, <1>33 DEF HandleResult, asking
<1>34. CASE HandleRows
  BY <1>a, <1>34 DEF HandleRows, asking
<1>35. CASE HandleFin
  BY <1>a, <1>35 DEF HandleFin, asking
<1>36. CASE HandleError
  BY <1>a, <1>36 DEF HandleError, asking
<1>37. CASE HandleStart
  BY <1>a, <1>37 DEF HandleStart, asking
<1>38. CASE HandleStatus
  BY <1>a, <1>38 DEF HandleStatus, asking
<1>39. CASE HandleDrop
  BY <1>a, <1>39 DEF HandleDrop, asking
<1>40. ASSUME NEW t \in timers, Fire(t) PROVE DirMoves
  BY <1>a, <1>40 DEF Fire, asking
<1>41. CASE UNCHANGED vars
  BY <1>a, <1>41 DEF vars
<1> QED
  BY <1>1, <1>2, <1>3, <1>4, <1>5, <1>6, <1>7, <1>8, <1>9, <1>10, <1>11, <1>12, <1>13,
     <1>14, <1>15, <1>16, <1>17, <1>18, <1>19, <1>20, <1>21, <1>22, <1>23, <1>24,
     <1>25, <1>26, <1>27, <1>28, <1>29, <1>30, <1>31, <1>32, <1>33, <1>34, <1>35,
     <1>36, <1>37, <1>38, <1>39, <1>40, <1>41
  DEF Next, Ask, Execute, Worker, Handle

\* A timer was there, counts the error of its listing, or the marker of its directory.
TimerMoves ==
  \A t \in timers' :
    \/ \E u \in timers : u.code = t.code
    \/ HandleResult /\ t.code = Item1.key /\ Item1.res # "ok" /\ ftLists[t.code].of # None
    \/ /\ HandleFin /\ t.code \in Codes /\ ftLists[t.code].of # None
       /\ dir[ftLists[t.code].of] = Item1.key

\* New timers are for open listings among those scheduled.
LEMMA Scheduled ==
  ASSUME TypeOK, NEW C, C \subseteq Codes, NEW lists, Schedule(C, lists),
         \A c \in Codes : lists[c].of = ftLists[c].of, NEW t \in timers'
  PROVE  \/ \E u \in timers : u.code = t.code
         \/ t.code \in C /\ ftLists[t.code].of # None
<1> DEFINE new == {c \in C : lists[c].of # None /\ ~lists[c].scheduled}
<1>1. \/ \E u \in timers : t = [u EXCEPT !.left = IF u.left = 0 THEN 0 ELSE u.left - 1]
      \/ \E c \in new : t = [code |-> c, conn |-> conn, left |-> Waiting]
  BY DEF Schedule
<1>2. \A u \in timers : u = [code |-> u.code, conn |-> u.conn, left |-> u.left]
  BY DEF TypeOK, Timers
<1>3. ASSUME NEW u \in timers, t = [u EXCEPT !.left = IF u.left = 0 THEN 0 ELSE u.left - 1]
      PROVE  t.code = u.code
  BY <1>2, <1>3
<1>4. \A c \in new : c \in C /\ ftLists[c].of # None
  OBVIOUS
<1> HIDE DEF new
<1> QED BY <1>1, <1>3, <1>4

\* Every step is one of these as far as the timers go.
LEMMA TimerMove ==
  ASSUME TypeInv, [Next]_vars PROVE TimerMoves
<1>0. TypeInv /\ TypeOK
  BY DEF TypeInv
<1>a. UNCHANGED timers => TimerMoves
  BY DEF TimerMoves
<1>b. Handled => TimerMoves
  <2>1. \A u \in timers : u = [code |-> u.code, conn |-> u.conn, left |-> u.left]
    BY <1>0 DEF TypeOK, Timers
  <2> QED BY <2>1 DEF Handled, TimerMoves
<1>1. ASSUME NEW r \in Reqs, AskPlain(r) PROVE TimerMoves
  BY <1>a, <1>1 DEF AskPlain, Queue, tables
<1>2. ASSUME NEW r \in Reqs, AskMove(r) PROVE TimerMoves
  BY <1>a, <1>2 DEF AskMove, Queue, tables
<1>3. ASSUME NEW r \in Reqs, AskKick(r) PROVE TimerMoves
  BY <1>a, <1>3 DEF AskKick, Queue, tables
<1>4. ASSUME NEW r \in Reqs, AskGroup(r) PROVE TimerMoves
  BY <1>a, <1>4 DEF AskGroup, Queue, tables
<1>5. ASSUME NEW r \in Reqs, AskOp(r) PROVE TimerMoves
  BY <1>a, <1>5 DEF AskOp, Queue, tables
<1>6. ASSUME NEW r \in Reqs, NEW d \in Dirs, AskList(r, d) PROVE TimerMoves
  BY <1>a, <1>6 DEF AskList, Queue, tables
<1>7. ASSUME NEW r \in Reqs, AskDownload(r) PROVE TimerMoves
  BY <1>a, <1>7 DEF AskDownload, Queue, tables
<1>8. ASSUME NEW r \in Reqs, AskUpload(r) PROVE TimerMoves
  BY <1>a, <1>8 DEF AskUpload, Queue, tables
<1>9. ASSUME NEW r \in Reqs, NEW k \in Transfers, AskLate(r, k) PROVE TimerMoves
  BY <1>a, <1>9 DEF AskLate, tables
<1>10. ASSUME NEW r \in Reqs, Cancel(r) PROVE TimerMoves
  BY <1>a, <1>10 DEF Cancel, tables
<1>11. ASSUME NEW r \in Reqs, SendKick(r) PROVE TimerMoves
  BY <1>a, <1>11 DEF SendKick, Track, tables
<1>12. ASSUME NEW r \in Reqs, SendGroup(r) PROVE TimerMoves
  BY <1>a, <1>12 DEF SendGroup, Track, tables
<1>13. ASSUME NEW r \in Reqs, RefuseKick(r) PROVE TimerMoves
  BY <1>a, <1>13 DEF RefuseKick, tables
<1>14. ASSUME NEW r \in Reqs, SendMove(r) PROVE TimerMoves
  BY <1>a, <1>14 DEF SendMove, tables
<1>15. ASSUME NEW r \in Reqs, SendPlain(r) PROVE TimerMoves
  BY <1>a, <1>15 DEF SendPlain, tables
<1>16. ASSUME NEW r \in Reqs, SendOp(r) PROVE TimerMoves
  BY <1>a, <1>16 DEF SendOp, tables
<1>17. ASSUME NEW r \in Reqs, SendList(r) PROVE TimerMoves
  BY <1>a, <1>17 DEF SendList, tables
<1>18. ASSUME NEW r \in Reqs, SendTransfer(r) PROVE TimerMoves
  BY <1>a, <1>18 DEF SendTransfer, tables
<1>19. ASSUME NEW r \in Reqs, SendFails(r) PROVE TimerMoves
  BY <1>a, <1>19 DEF SendFails, tables
<1>20. ASSUME NEW r \in Reqs, TransferFails(r) PROVE TimerMoves
  BY <1>a, <1>20 DEF TransferFails, tables
<1>21. ASSUME NEW r \in Reqs, WorkerCancels(r) PROVE TimerMoves
  BY <1>a, <1>21 DEF WorkerCancels, tables
<1>22. ASSUME NEW r \in Reqs, GraceEnds(r) PROVE TimerMoves
  BY <1>a, <1>22 DEF GraceEnds, tables
<1>23. ASSUME NEW r \in Reqs, NEW whole \in BOOLEAN, DownloadEnds(r, whole) PROVE TimerMoves
  BY <1>a, <1>23 DEF DownloadEnds, tables
<1>24. ASSUME NEW r \in Reqs, NEW whole \in BOOLEAN, UploadSent(r, whole) PROVE TimerMoves
  BY <1>a, <1>24 DEF UploadSent, tables
<1>25. ASSUME NEW r \in Reqs, NEW ok \in BOOLEAN, Opened(r, ok) PROVE TimerMoves
  BY <1>a, <1>25 DEF Opened, tables
<1>26. ASSUME NEW r \in Reqs, NEW res \in {"ok", "err"}, ServerStatus(r, res) PROVE TimerMoves
  BY <1>a, <1>26 DEF ServerStatus, tables
<1>27. CASE ServerAnswers
  BY <1>a, <1>27 DEF ServerAnswers, tables
<1>28. CASE Drop
  BY <1>a, <1>28 DEF Drop, tables
<1>29. CASE Reconnect
  BY <1>a, <1>29 DEF Reconnect, tables
<1>30. CASE End
  BY <1>a, <1>30 DEF End, tables
<1>31. CASE Connect
  BY <1>a, <1>31 DEF Connect, tables
<1>32. ASSUME NEW n \in 1..Len(net), Collect(n) PROVE TimerMoves
  BY <1>a, <1>32 DEF Collect, tables
<1>33. CASE HandleResult
  <2> DEFINE k == Item1.key  new == IF Item1.res = "ok" THEN {} ELSE {k}
  <2>1. k \in Codes
    BY <1>0, <1>33, FirstSound DEF HandleResult, Handling, Item1, Sound
  <2>2. PICK lists : /\ \A c \in Codes : lists[c].of = ftLists[c].of
                     /\ Schedule(new, lists)
    <3> DEFINE lists == IF ftLists[k].of = None THEN ftLists ELSE [ftLists EXCEPT ![k].res = Item1.res]
    <3>1. \A c \in Codes : lists[c].of = ftLists[c].of
      BY <1>0, <2>1 DEF TypeOK, Lists
    <3>2. Schedule(new, lists)
      BY <1>33 DEF HandleResult
    <3> QED BY <3>1, <3>2
  <2>3. \A c \in new : c = k /\ Item1.res # "ok"
    OBVIOUS
  <2> HIDE DEF new, k
  <2>4. new \subseteq Codes
    BY <2>1, <2>3
  <2>5. ASSUME NEW t \in timers'
        PROVE  \/ \E u \in timers : u.code = t.code
               \/ t.code \in new /\ ftLists[t.code].of # None
    BY <1>0, <2>2, <2>4, <2>5, Scheduled
  <2> QED BY <2>1, <2>3, <2>5, <1>33 DEF TimerMoves, k
<1>34. CASE HandleRows
  BY <1>b, <1>34 DEF HandleRows, Handled
<1>35. CASE HandleFin
  <2> DEFINE new == {c \in Codes : /\ ftLists[c].of # None /\ dir[ftLists[c].of] = Item1.key
                                    /\ ~ftLists[c].finished}
             lists == [c \in Codes |-> IF c \in new THEN [ftLists[c] EXCEPT !.finished = TRUE]
                                        ELSE ftLists[c]]
  <2>1. \A c \in Codes : lists[c].of = ftLists[c].of
    BY <1>0 DEF TypeOK, Lists
  <2>2. Schedule(new, lists)
    BY <1>35 DEF HandleFin
  <2>3. new \subseteq Codes /\ \A c \in new : dir[ftLists[c].of] = Item1.key
    OBVIOUS
  <2> HIDE DEF new, lists
  <2>4. ASSUME NEW t \in timers'
        PROVE  \/ \E u \in timers : u.code = t.code
               \/ t.code \in new /\ ftLists[t.code].of # None
    BY <1>0, <2>1, <2>2, <2>3, <2>4, Scheduled
  <2> QED BY <2>3, <2>4, <1>35 DEF TimerMoves
<1>36. CASE HandleError
  BY <1>b, <1>36 DEF HandleError, Handled
<1>37. CASE HandleStart
  BY <1>b, <1>37 DEF HandleStart, Handled
<1>38. CASE HandleStatus
  BY <1>b, <1>38 DEF HandleStatus, Handled
<1>39. CASE HandleDrop
  BY <1>b, <1>39 DEF HandleDrop, Handled
<1>40. ASSUME NEW t \in timers, Fire(t) PROVE TimerMoves
  BY <1>40 DEF Fire, TimerMoves
<1>41. CASE UNCHANGED vars
  BY <1>a, <1>41 DEF vars, tables
<1> QED
  BY <1>1, <1>2, <1>3, <1>4, <1>5, <1>6, <1>7, <1>8, <1>9, <1>10, <1>11, <1>12, <1>13,
     <1>14, <1>15, <1>16, <1>17, <1>18, <1>19, <1>20, <1>21, <1>22, <1>23, <1>24,
     <1>25, <1>26, <1>27, <1>28, <1>29, <1>30, <1>31, <1>32, <1>33, <1>34, <1>35,
     <1>36, <1>37, <1>38, <1>39, <1>40, <1>41
  DEF Next, Ask, Execute, Worker, Handle

\* The markers on the stream and in the batch, and that a listing has one of them.
IsMarker(m) == m.type = "fin"
Markers ==
  {m \in {net[i] : i \in DOMAIN net} \cup {batch[i] : i \in DOMAIN batch} : IsMarker(m)}
Distinct(s) ==
  \A i, j \in DOMAIN s : IsMarker(s[i]) /\ IsMarker(s[j]) /\ s[i].of = s[j].of => i = j
OneMarker ==
  /\ Distinct(net) /\ Distinct(batch)
  /\ \A i \in DOMAIN net, j \in DOMAIN batch :
       IsMarker(net[i]) /\ IsMarker(batch[j]) => net[i].of # batch[j].of

\* A marker is for a listing the server has done and nobody has answered.
MarkersTrue ==
  \A m \in Markers : m.of \in Reqs /\ Listing(m.of) /\ dir[m.of] = m.key /\ did[m.of] = "ok"

\* The answer to a command has one marker at most, its last item.
LEMMA Marking ==
  ASSUME TypeInv, ServerAnswers
  PROVE  LET q == Head(srv) IN
         \E s \in Seq(Sound) :
           /\ net' = net \o s
           /\ \A i \in 1..Len(s) : IsMarker(s[i]) =>
                /\ i = Len(s) /\ s[i].of = q.of /\ s[i].key = dir[q.of]
                /\ kind[q.of] = "list" /\ did'[q.of] = "ok"
<1> DEFINE q == Head(srv)
<1>1. q.of \in Reqs /\ q.code \in Codes /\ q \in [of: Reqs, code: Codes]
  <2>1. srv # <<>> /\ srv \in Seq([of: Reqs, code: Codes])
    BY DEF ServerAnswers, TypeInv, TypeOK
  <2> DEFINE S == [of: Reqs, code: Codes]
  <2> HIDE DEF S
  <2>2. Head(srv) \in S
    BY <2>1, HeadTailProperties DEF S
  <2> QED BY <2>2 DEF S
<1>2. PICK res \in {"ok", "err", "empty"}, n \in Nat :
        did' = [did EXCEPT ![q.of] = res] /\ (net' = net \/ net' = net \o Reply(q, res, n))
  <2>1. \A k \in 0..MaxFrames : k \in Nat
    BY RequestsAssumption
  <2> QED BY <2>1 DEF ServerAnswers
<1>3. did'[q.of] = res
  BY <1>1, <1>2 DEF TypeInv, TypeOK
<1>4. CASE net' = net
  <2>1. net' = net \o <<>> /\ <<>> \in Seq(Sound)
    BY <1>4, Lengths, ConcatEmptySeq
  <2>2. 1..Len(<<>>) = {}
    OBVIOUS
  <2>3. \E s \in Seq(Sound) : net' = net \o s /\ 1..Len(s) = {}
    BY <2>1, <2>2
  <2> HIDE DEF q
  <2> QED BY <2>3 DEF q
<1>5. CASE net' = net \o Reply(q, res, n)
  <2> DEFINE rows == [i \in 1..n |-> Item("rows", q.code, "ok", q.of)]
             fin == Item("fin", dir[q.of], "ok", q.of)
             first == Item("result", q.code, res, q.of)
             s == Reply(q, res, n)
             All == {rows[i] : i \in 1..n} \cup {fin, first}
  <2>1. s \in Seq(Sound)
    BY <1>1, ReplySound
  <2>2. fin.of = q.of /\ fin.key = dir[q.of] /\ ~IsMarker(first)
    BY DEF Item, IsMarker
  <2>3. rows \in Seq(All) /\ Len(rows) = n /\ \A i \in 1..n : ~IsMarker(rows[i])
    BY DEF Item, IsMarker
  <2>4. s = <<first>> \o (IF kind[q.of] = "list" /\ res = "ok" THEN rows \o <<fin>> ELSE <<>>)
    BY DEF Reply
  <2>5. fin \in All /\ first \in All
    OBVIOUS
  <2> HIDE DEF rows, fin, first, s, q, All
  <2>6. /\ <<first>> \in Seq(All) /\ Len(<<first>>) = 1 /\ <<first>>[1] = first
        /\ <<fin>> \in Seq(All) /\ Len(<<fin>>) = 1
    BY <2>5
  <2>7. CASE kind[q.of] = "list" /\ res = "ok"
    <3> DEFINE rest == rows \o <<fin>>
    <3>1. /\ rest \in Seq(All) /\ Len(rest) = n + 1
          /\ \A i \in 1..n + 1 : rest[i] = IF i <= n THEN rows[i] ELSE <<fin>>[i - n]
      BY <2>3, <2>6, ConcatProperties
    <3>2. s = <<first>> \o rest
      BY <2>4, <2>7
    <3> HIDE DEF rest
    <3>3. /\ Len(s) = n + 2
          /\ \A i \in 1..n + 2 : s[i] = IF i <= 1 THEN <<first>>[i] ELSE rest[i - 1]
      <4>1. Len(<<first>>) + Len(rest) = n + 2
        BY <2>6, <3>1
      <4> QED BY <2>6, <3>1, <3>2, <4>1, ConcatProperties
    <3>4. ASSUME NEW i \in 1..n + 2, i < n + 2 PROVE ~IsMarker(s[i])
      <4>1. CASE i = 1
        BY <2>2, <2>6, <3>3, <4>1
      <4>2. CASE i > 1
        <5>1. i - 1 \in 1..n /\ i - 1 \in 1..n + 1 /\ i - 1 <= n /\ ~(i <= 1)
          BY <3>4, <4>2
        <5>2. s[i] = rows[i - 1]
          BY <3>1, <3>3, <5>1
        <5> QED BY <2>3, <5>1, <5>2
      <4> QED BY <4>1, <4>2
    <3>5. s[n + 2] = fin
      <4>1. n + 2 \in 1..n + 2 /\ ~(n + 2 <= 1) /\ (n + 2) - 1 = n + 1 /\ n + 1 \in 1..n + 1
            /\ ~(n + 1 <= n) /\ (n + 1) - n = 1
        OBVIOUS
      <4>2. s[n + 2] = rest[n + 1] /\ rest[n + 1] = <<fin>>[1]
        BY <3>1, <3>3, <4>1
      <4> QED BY <4>2
    <3>6. \A i \in 1..Len(s) : IsMarker(s[i]) => i = Len(s) /\ s[i] = fin
      BY <3>3, <3>4, <3>5
    <3> QED BY <1>3, <1>5, <2>1, <2>2, <2>7, <3>6 DEF s, q
  <2>8. CASE ~(kind[q.of] = "list" /\ res = "ok")
    <3>1. s = <<first>> \o <<>>
      BY <2>4, <2>8
    <3>2. s = <<first>>
      BY <2>6, <3>1, ConcatEmptySeq
    <3>3. \A i \in 1..Len(s) : ~IsMarker(s[i])
      BY <2>2, <2>6, <3>2
    <3> QED BY <1>5, <2>1, <3>3 DEF s, q
  <2> QED BY <2>7, <2>8
<1> QED BY <1>2, <1>4, <1>5

\* What is kept of the stream when the connection breaks.
LEMMA Cut ==
  ASSUME TypeInv, Drop
  PROVE  /\ batch' = batch
         /\ \A i \in DOMAIN net' : \/ i \in DOMAIN net /\ net'[i] = net[i]
                                   \/ net'[i] \in Sound /\ net'[i].type = "drop"
<1>0. net \in Seq(Sound) /\ Len(net) \in Nat /\ DOMAIN net = 1..Len(net)
  BY Lengths
<1>1. PICK n \in 0..Len(net) : net' = Append(SubSeq(net, 1, n), Item("drop", 0, "ok", None))
  BY DEF Drop
<1> DEFINE s == SubSeq(net, 1, n)  d == Item("drop", 0, "ok", None)
<1>2. \A i \in 1..Len(net) : net[i] \in Sound
  BY <1>0, ElementOfSeq
<1>3. s \in Seq(Sound) /\ Len(s) = n /\ \A i \in 1..n : s[i] = net[i]
  BY <1>0, <1>2, SubSeqProperties
<1>4. d \in Sound /\ d.type = "drop"
  BY ItemSound DEF Item
<1> HIDE DEF s, d
<1>5. /\ Append(s, d) \in Seq(Sound) /\ Len(Append(s, d)) = n + 1
      /\ \A i \in 1..n : Append(s, d)[i] = s[i]
      /\ Append(s, d)[n + 1] = d
  BY <1>3, <1>4, AppendProperties
<1>6. DOMAIN Append(s, d) = 1..n + 1
  BY <1>5, LenProperties
<1>7. net' = Append(s, d) /\ batch' = batch
  BY <1>1 DEF s, d, Drop
<1> QED BY <1>0, <1>3, <1>4, <1>5, <1>6, <1>7

\* Only the server's answer adds a marker.
MarkersGrow ==
  \A m \in Markers' :
    \/ m \in Markers
    \/ /\ ServerAnswers /\ m.of = Head(srv).of /\ m.key = dir[m.of]
       /\ kind[m.of] = "list" /\ did'[m.of] = "ok"

\* A listing keeps its one marker, and has none when that is handled.
LEMMA MarkerMove ==
  ASSUME TypeInv, WireInv, OneMarker, MarkersTrue, [Next]_vars
  PROVE  /\ OneMarker' /\ MarkersGrow
         /\ HandleFin => \A m \in Markers' : m.of # Item1.of
<1>0. /\ TypeInv /\ WireMoves /\ net \in Seq(Sound) /\ Len(net) \in Nat /\ DOMAIN net = 1..Len(net)
      /\ batch \in Seq(Sound) /\ Len(batch) \in Nat /\ DOMAIN batch = 1..Len(batch)
  BY WireMove, Lengths
<1>a. HandleFin => Handles
  BY DEF HandleFin, Handling, Schedule, Handles, Item1
<1>b. /\ \A i \in DOMAIN net : IsMarker(net[i]) => net[i] \in Markers
      /\ \A i \in DOMAIN batch : IsMarker(batch[i]) => batch[i] \in Markers
  BY DEF Markers
<1>c. ASSUME \A i \in DOMAIN net' : IsMarker(net'[i]) => net'[i] \in Markers,
             \A i \in DOMAIN batch' : IsMarker(batch'[i]) => batch'[i] \in Markers
      PROVE  MarkersGrow
  BY <1>c DEF MarkersGrow, Markers
<1>1. CASE Handles
  <2>1. /\ Len(batch) \in Nat \ {0} /\ Item1 = batch[1]
        /\ DOMAIN batch' = 1..Len(batch) - 1
        /\ \A i \in 1..Len(batch) - 1 : batch'[i] = batch[i + 1]
        /\ net' = net
    BY <1>0, <1>1, TailOf DEF Handles
  <2>2. \A i \in DOMAIN batch' : i + 1 \in DOMAIN batch /\ batch'[i] = batch[i + 1] /\ i + 1 # 1
                                 /\ i \in Nat
    BY <1>0, <2>1
  <2>3. OneMarker'
    <3>1. ASSUME NEW i \in DOMAIN batch', NEW j \in DOMAIN batch',
                 IsMarker(batch'[i]), IsMarker(batch'[j]), batch'[i].of = batch'[j].of
          PROVE  i = j
      <4>1. i + 1 = j + 1
        BY <2>2, <3>1 DEF OneMarker, Distinct
      <4> QED BY <2>2, <4>1
    <3> QED BY <2>1, <2>2, <3>1 DEF OneMarker, Distinct
  <2>4. MarkersGrow
    BY <1>b, <1>c, <2>1, <2>2
  <2>5. ASSUME HandleFin, NEW m \in Markers' PROVE m.of # Item1.of
    <3>1. IsMarker(Item1) /\ 1 \in DOMAIN batch
      BY <1>0, <2>1, <2>5 DEF HandleFin, Handling, Item1, IsMarker
    <3>2. CASE \E i \in DOMAIN batch' : m = batch'[i] /\ IsMarker(m)
      BY <2>1, <2>2, <3>1, <3>2 DEF OneMarker, Distinct
    <3>3. CASE \E i \in DOMAIN net' : m = net'[i] /\ IsMarker(m)
      BY <2>1, <3>1, <3>3 DEF OneMarker
    <3> QED BY <3>2, <3>3 DEF Markers
  <2> QED BY <2>3, <2>4, <2>5
<1>2. CASE net' = net /\ batch' = batch
  <2>1. OneMarker' /\ MarkersGrow
    BY <1>2, <1>b, <1>c DEF OneMarker, Distinct
  <2> QED BY <1>1, <1>a, <2>1
<1>3. ASSUME batch' = batch,
             \A i \in DOMAIN net' : \/ i \in DOMAIN net /\ net'[i] = net[i]
                                    \/ ~IsMarker(net'[i])
      PROVE  OneMarker' /\ MarkersGrow
  BY <1>b, <1>c, <1>3 DEF OneMarker, Distinct
<1>4. CASE Grows
  <2>1. CASE net' = net
    BY <1>2, <1>4, <2>1 DEF Grows
  <2>2. ASSUME NEW m \in Sound, m.type \in {"error", "start", "status"}, net' = Append(net, m)
        PROVE  \A i \in DOMAIN net' : \/ i \in DOMAIN net /\ net'[i] = net[i]
                                      \/ ~IsMarker(net'[i])
    BY <1>0, <2>2, Appended DEF IsMarker
  <2>3. CASE ~(net' = net)
    BY <1>1, <1>3, <1>4, <1>a, <2>2, <2>3 DEF Grows
  <2> QED BY <2>1, <2>3
<1>5. CASE Drop
  BY <1>0, <1>1, <1>3, <1>5, <1>a, Cut DEF IsMarker
<1>6. CASE End
  <2>1. DOMAIN net' = {} /\ batch' = batch
    BY <1>6 DEF End
  <2> QED BY <1>1, <1>3, <1>a, <2>1
<1>7. CASE Reconnect \/ Connect \/ \E r \in Reqs : Sends(r)
  BY <1>2, <1>7 DEF Reconnect, Connect, Sends, Sent
<1>8. CASE ServerAnswers
  <2> DEFINE q == Head(srv)
  <2>1. PICK s \in Seq(Sound) :
          /\ net' = net \o s
          /\ \A i \in 1..Len(s) : IsMarker(s[i]) =>
               /\ i = Len(s) /\ s[i].of = q.of /\ s[i].key = dir[q.of]
               /\ kind[q.of] = "list" /\ did'[q.of] = "ok"
    BY <1>8, Marking
  <2>2. did[q.of] = "none"
    <3>1. srv # <<>> /\ srv \in Seq([of: Reqs, code: Codes])
      BY <1>8 DEF ServerAnswers, TypeInv, TypeOK
    <3>2. Head(srv) = srv[1] /\ 1 \in DOMAIN srv
      BY <3>1, HeadTailProperties, LenProperties, EmptySeq
    <3>3. CommandOK(Head(srv))
      BY <3>2 DEF WireInv, Commands
    <3> QED BY <3>3 DEF CommandOK
  <2>3. \A m \in Markers : m.of # q.of
    BY <2>2 DEF MarkersTrue
  <2>4. batch' = batch
    BY <1>8 DEF ServerAnswers
  <2> HIDE DEF q
  <2>5. /\ DOMAIN net' = 1..Len(net) + Len(s) /\ Len(s) \in Nat
        /\ \A i \in 1..Len(net) : net'[i] = net[i]
        /\ \A i \in 1..Len(s) : net'[Len(net) + i] = s[i]
        /\ \A i \in DOMAIN net' : i \in DOMAIN net \/ \E j \in 1..Len(s) : i = Len(net) + j
    BY <1>0, <2>1, Grown
  <2>6. ASSUME NEW i \in DOMAIN net', i \notin DOMAIN net, IsMarker(net'[i])
        PROVE  /\ i = Len(net) + Len(s) /\ net'[i].of = q.of /\ net'[i].key = dir[q.of]
               /\ kind[q.of] = "list" /\ did'[q.of] = "ok"
    <3>1. PICK j \in 1..Len(s) : i = Len(net) + j
      BY <2>5, <2>6
    <3> QED BY <2>1, <2>5, <2>6, <3>1
  <2>7. \A i \in DOMAIN net : net'[i] = net[i]
    BY <1>0, <2>5
  <2>8. OneMarker'
    <3>1. ASSUME NEW i \in DOMAIN net', NEW j \in DOMAIN net', IsMarker(net'[i]), IsMarker(net'[j]),
                 net'[i].of = net'[j].of
          PROVE  i = j
      <4>1. CASE i \in DOMAIN net /\ j \in DOMAIN net
        BY <2>7, <3>1, <4>1 DEF OneMarker, Distinct
      <4>2. CASE i \in DOMAIN net /\ j \notin DOMAIN net
        BY <1>b, <2>3, <2>6, <2>7, <3>1, <4>2
      <4>3. CASE i \notin DOMAIN net /\ j \in DOMAIN net
        BY <1>b, <2>3, <2>6, <2>7, <3>1, <4>3
      <4>4. CASE i \notin DOMAIN net /\ j \notin DOMAIN net
        BY <2>6, <3>1, <4>4
      <4> QED BY <4>1, <4>2, <4>3, <4>4
    <3>2. ASSUME NEW i \in DOMAIN net', NEW j \in DOMAIN batch, IsMarker(net'[i]), IsMarker(batch[j])
          PROVE  net'[i].of # batch[j].of
      <4>1. CASE i \in DOMAIN net
        BY <2>7, <3>2, <4>1 DEF OneMarker
      <4>2. CASE i \notin DOMAIN net
        BY <1>b, <2>3, <2>6, <3>2, <4>2
      <4> QED BY <4>1, <4>2
    <3> QED BY <2>4, <3>1, <3>2 DEF OneMarker, Distinct
  <2>9. MarkersGrow
    <3> SUFFICES ASSUME NEW m \in Markers', m \notin Markers
                 PROVE  /\ m.of = q.of /\ m.key = dir[m.of]
                        /\ kind[m.of] = "list" /\ did'[m.of] = "ok"
      BY <1>8 DEF MarkersGrow, q
    <3>1. PICK i \in DOMAIN net' : m = net'[i] /\ IsMarker(m)
      BY <1>b, <2>4 DEF Markers
    <3>2. i \notin DOMAIN net
      BY <1>b, <2>7, <3>1
    <3> QED BY <2>6, <3>1, <3>2
  <2> QED BY <1>1, <1>a, <2>8, <2>9
<1>9. ASSUME NEW n \in 1..Len(net), Collect(n)
      PROVE  OneMarker' /\ MarkersGrow
  <2>1. /\ n \in Nat /\ DOMAIN batch' = 1..n
        /\ \A i \in 1..n : batch'[i] = IF i = n THEN net[1] ELSE net[i + 1]
        /\ DOMAIN net' = 1..Len(net) - n
        /\ \A i \in 1..Len(net) - n : net'[i] = net[n + i]
    BY <1>0, <1>9, Collected
  <2> DEFINE From(i) == IF i = n THEN 1 ELSE i + 1
  <2>2. \A i \in DOMAIN batch' : From(i) \in DOMAIN net /\ batch'[i] = net[From(i)] /\ From(i) <= n
    BY <1>0, <2>1
  <2>3. \A i, j \in DOMAIN batch' : From(i) = From(j) => i = j
    BY <2>1
  <2>4. \A i \in DOMAIN net' : n + i \in DOMAIN net /\ net'[i] = net[n + i] /\ n + i > n
    BY <1>0, <2>1
  <2>5. \A i, j \in DOMAIN net' : n + i = n + j => i = j
    BY <1>0, <2>1
  <2> HIDE DEF From
  <2>6. Distinct(batch)'
    BY <2>2, <2>3 DEF OneMarker, Distinct
  <2>7. Distinct(net)'
    BY <2>4, <2>5 DEF OneMarker, Distinct
  <2>8. \A i \in DOMAIN net', j \in DOMAIN batch' : n + i # From(j)
    BY <1>0, <2>1, <2>2, <2>4
  <2>9. ASSUME NEW i \in DOMAIN net', NEW j \in DOMAIN batch', IsMarker(net'[i]), IsMarker(batch'[j])
        PROVE  net'[i].of # batch'[j].of
    BY <2>2, <2>4, <2>8, <2>9 DEF OneMarker, Distinct
  <2>10. OneMarker'
    BY <2>6, <2>7, <2>9 DEF OneMarker
  <2> QED BY <1>b, <1>c, <2>2, <2>4, <2>10
<1>10. CASE UNCHANGED <<link, conn, code, srv, net, batch>>
  BY <1>2, <1>10
<1> QED BY <1>0, <1>1, <1>4, <1>5, <1>6, <1>7, <1>8, <1>9, <1>10, <1>a DEF WireMoves

\* One listing of a directory is open at a time.
OneOpen == \A q, r \in Reqs : Listing(q) /\ Listing(r) /\ dir[q] = dir[r] => q = r

\* A listing that sleeps before it is sent off has been answered by the server, and
\* no marker for it is under way.
Settled(l) ==
  /\ did[l.of] \in {"ok", "empty"} \/ (did[l.of] = "err" /\ l.res = "err")
  /\ \A m \in Markers : m.of # l.of
TimersTrue ==
  \A t \in timers : t.code < code /\ (ftLists[t.code].of # None => Settled(ftLists[t.code]))

\* A listing the server has not done yet is open.
CommandsOpen == \A q \in Commands : kind[q.of] = "list" => answers[q.of] = <<>>

\* What the user was told of a listing, in whatever connection.
ListingsTold ==
  \A r \in Reqs : kind[r] = "list" /\ Told(r, "ok") => did[r] \in {"ok", "empty"}

ListingInv ==
  OneOpen /\ OneMarker /\ MarkersTrue /\ TimersTrue /\ CommandsOpen /\ ListingsTold

\* Requests stay what they are, and their answers only grow.
LEMMA AnswersGrow ==
  ASSUME TypeInv, OwnerInv, [Next]_vars, NEW r \in Reqs, kind'[r] \notin Transfers, answers'[r] = <<>>
  PROVE  answers[r] = <<>>
<1>1. answers[r] \in Seq(Answers)
  BY DEF TypeInv, TypeOK
<1>2. answers'[r] = answers[r] \/ \E a : answers'[r] = Append(answers[r], a)
  BY AnswerMove DEF AnswerMoves
<1>3. ASSUME NEW a, answers'[r] = Append(answers[r], a) PROVE FALSE
  <2>1. Len(answers'[r]) = Len(answers[r]) + 1 /\ Len(answers[r]) \in Nat
    BY <1>1, <1>3
  <2> QED BY <2>1
<1> QED BY <1>2, <1>3

\* A new listing is of a directory that is not being listed.
LEMMA OpenStep ==
  ASSUME TypeInv, OwnerInv, OneOpen, "again" \notin Faults, [Next]_vars PROVE OneOpen'
<1>1. DirMoves
  BY DirMove
<1>2. \A r \in Reqs : Listing(r)' => answers[r] = <<>>
  BY AnswersGrow DEF Listing, Transfers
<1>3. CASE UNCHANGED asking
  BY <1>2, <1>3 DEF OneOpen, Listing, asking
<1>4. ASSUME NEW r \in Reqs,
             \A q \in Reqs : q # r => kind'[q] = kind[q] /\ dir'[q] = dir[q],
             kind'[r] = "list" => \A q \in Reqs : Listing(q) => dir[q] # dir'[r]
      PROVE  OneOpen'
  <2>1. \A q \in Reqs : q # r /\ Listing(q)' => Listing(q) /\ dir'[q] = dir[q]
    BY <1>2, <1>4 DEF Listing
  <2>2. Listing(r)' => \A q \in Reqs : Listing(q) => dir[q] # dir'[r]
    BY <1>4 DEF Listing
  <2> QED BY <2>1, <2>2 DEF OneOpen
<1> QED BY <1>1, <1>3, <1>4 DEF DirMoves

\* A listing that has been asked keeps its directory, and what the server did with it.
LEMMA ListingKept ==
  ASSUME TypeInv, OwnerInv, WireInv, [Next]_vars, NEW r \in Reqs, kind[r] = "list"
  PROVE  kind'[r] = "list" /\ dir'[r] = dir[r] /\ (did[r] # "none" => did'[r] = did[r])
<1>1. kind'[r] = kind[r]
  BY HistoryMove DEF HistoryMoves, Fresh
<1>2. dir'[r] = dir[r]
  BY DirMove DEF DirMoves, asking
<1>3. did'[r] # did[r] => did[r] = "none"
  BY DidStep DEF Transfers
<1> QED BY <1>1, <1>2, <1>3

\* Only its timer answers a listing that has left the queue.
LEMMA ListingAnswered ==
  ASSUME TypeInv, OwnerInv, [Next]_vars, NEW r \in Reqs, kind'[r] = "list", answers'[r] # answers[r]
  PROVE  \E a : /\ answers'[r] = Append(answers[r], a)
                /\ \/ a.what \in {"unsent", "refused", "lost"} /\ (r \in InQueue \/ kind[r] # "list")
                   \/ \E t \in timers :
                        LET l == ftLists[t.code] IN
                        /\ Fire(t) /\ t.code \in Codes /\ l.of = r
                        /\ a = Answer(IF l.res = "err" THEN "err" ELSE "ok", l.rows)
<1>1. ASSUME HandleResult, Item1.key \in Codes, r \in {permOps[Item1.key], ftOps[Item1.key]}
      PROVE  FALSE
  <2>1. kind[r] \in Tokens \cup {"op"}
    BY <1>1 DEF OwnerInv, Owned, None, Reqs
  <2>2. kind'[r] = kind[r]
    BY <1>1 DEF HandleResult, asking
  <2> QED BY <2>1, <2>2 DEF Tokens
<1>2. kind'[r] \notin Transfers
  BY DEF Transfers
<1>3. AnswerMoves
  BY AnswerMove
<1> DEFINE Late(a) == a.what \in {"unsent", "refused", "lost"} /\ (kind[r] = "list" => r \in InQueue)
           Result(a) == /\ HandleResult /\ Item1.key \in Codes
                        /\ r \in {permOps[Item1.key], ftOps[Item1.key]}
           Sent1(a) == \E t \in timers :
                        LET l == ftLists[t.code] IN
                        /\ Fire(t) /\ t.code \in Codes /\ l.of = r
                        /\ a = Answer(IF l.res = "err" THEN "err" ELSE "ok", l.rows)
<1>4. PICK a : answers'[r] = Append(answers[r], a) /\ (Late(a) \/ Result(a) \/ Sent1(a))
  BY <1>2, <1>3 DEF AnswerMoves
<1>5. ~Result(a)
  BY <1>1
<1>6. Late(a) => a.what \in {"unsent", "refused", "lost"} /\ (r \in InQueue \/ kind[r] # "list")
  OBVIOUS
<1> QED BY <1>4, <1>5, <1>6

\* A marker stays true until it is handled.
LEMMA MarkersStep ==
  ASSUME TypeInv, OwnerInv, WireInv, ListingInv, [Next]_vars PROVE MarkersTrue'
<1>1. MarkersGrow
  BY MarkerMove DEF ListingInv
<1>2. ASSUME NEW m \in Markers
      PROVE  m.of \in Reqs /\ Listing(m.of)' /\ dir'[m.of] = m.key /\ did'[m.of] = "ok"
  <2> DEFINE r == m.of
  <2>1. r \in Reqs /\ kind[r] = "list" /\ answers[r] = <<>> /\ dir[r] = m.key /\ did[r] = "ok"
    BY <1>2 DEF ListingInv, MarkersTrue, Listing
  <2>2. kind'[r] = "list" /\ dir'[r] = dir[r] /\ did'[r] = did[r]
    BY <2>1, ListingKept
  <2>3. r \notin InQueue
    BY <2>1 DEF WireInv
  <2>4. ~\E t \in timers : ftLists[t.code].of = r
    BY <1>2, <2>1 DEF ListingInv, TimersTrue, Settled, None, Reqs
  <2>5. answers'[r] = answers[r]
    BY <2>1, <2>2, <2>3, <2>4, ListingAnswered
  <2> QED BY <2>1, <2>2, <2>5 DEF Listing
<1>3. ASSUME NEW m, ServerAnswers, m.of = Head(srv).of, m.key = dir[m.of], kind[m.of] = "list",
             did'[m.of] = "ok"
      PROVE  m.of \in Reqs /\ Listing(m.of)' /\ dir'[m.of] = m.key /\ did'[m.of] = "ok"
  <2>1. srv \in Seq([of: Reqs, code: Codes]) /\ srv # <<>> /\ m.of \in Reqs
    BY <1>3, Asked DEF ServerAnswers, TypeInv, TypeOK
  <2>2. Head(srv) = srv[1] /\ 1 \in DOMAIN srv
    BY <2>1, HeadTailProperties, LenProperties, EmptySeq
  <2>3. answers[m.of] = <<>>
    BY <1>3, <2>2 DEF ListingInv, CommandsOpen, Commands
  <2>4. UNCHANGED <<kind, dir, answers>>
    BY <1>3 DEF ServerAnswers, asking
  <2> QED BY <1>3, <2>1, <2>3, <2>4 DEF Listing
<1> QED BY <1>1, <1>2, <1>3 DEF MarkersGrow, MarkersTrue

\* Without "swift" no timer outlives the connection it was started in.
LEMMA NoneSleeps ==
  ASSUME TypeInv, Anew, "swift" \notin Faults, [Next]_vars PROVE timers' = {}
<1>1. conn \in Nat /\ conn' # conn
  BY DEF TypeInv, TypeOK, Conns, Anew
<1>2. Reconnect \/ Connect
  BY <1>1, WireMove
     DEF WireMoves, Sends, Sent, Grows, Handles, ServerAnswers, Drop, End, Collect
<1> QED BY <1>2 DEF Reconnect, Connect, tables

\* The listing under a code is the one that was there, with its result or the one that
\* is handled, unless a command goes out.
LEMMA ListedKept ==
  ASSUME TypeInv, [Next]_vars, NEW c \in Codes, c # code \/ batch # <<>>, ftLists'[c].of # None
  PROVE  /\ ftLists'[c].of = ftLists[c].of
         /\ \/ ftLists'[c].res = ftLists[c].res
            \/ HandleResult /\ c = Item1.key /\ ftLists'[c].res = Item1.res
<1>1. CASE Shrinks
  BY <1>1 DEF Shrinks
<1>2. ASSUME NEW q \in Reqs, Files(q), c # code PROVE ftLists'[c] = ftLists[c]
  BY <1>2 DEF Files, NoList
<1>3. (\E q \in Reqs : Files(q)) => batch = <<>>
  BY DEF Files, Sends, Next1
<1> QED BY <1>1, <1>2, <1>3, TableMove DEF TableMoves

\* A listing that sleeps stays settled.
LEMMA SettledKept ==
  ASSUME TypeInv, OwnerInv, WireInv, ListingInv, [Next]_vars, NEW c \in Codes, c < code,
         ftLists[c].of # None, Settled(ftLists[c]), ftLists'[c].of # None
  PROVE  Settled(ftLists[c])'
<1> DEFINE r == ftLists[c].of
<1>1. r \in Reqs /\ kind[r] = "list" /\ did[r] # "none"
  <2>1. r \in Reqs
    BY DEF TypeInv, TypeOK, Lists
  <2> QED BY <2>1, Waits DEF Settled
<1>2. did'[r] = did[r]
  BY <1>1, ListingKept
<1>3. c # code
  BY DEF TypeInv, TypeOK, Codes
<1>4. /\ ftLists'[c].of = r
      /\ \/ ftLists'[c].res = ftLists[c].res
         \/ HandleResult /\ c = Item1.key /\ ftLists'[c].res = Item1.res
  BY <1>3, ListedKept
<1>5. did[r] = "err" => ftLists'[c].res = "err"
  <2>1. CASE HandleResult /\ c = Item1.key /\ ftLists'[c].res = Item1.res
    <3>1. Item1 \in Sound /\ ResultOK(Item1)
      BY <2>1, Handled1
    <3>2. r = Item1.of /\ Item1.res = did[r]
      BY <1>1, <2>1, <3>1 DEF ResultOK, Own, None, Reqs, Transfers
    <3> QED BY <2>1, <3>2
  <2> QED BY <1>4, <2>1 DEF Settled
<1>6. ASSUME NEW m \in Markers' PROVE m.of # r
  <2>1. MarkersGrow
    BY MarkerMove DEF ListingInv
  <2>2. CASE m \in Markers
    BY <2>2 DEF Settled
  <2>3. CASE ServerAnswers /\ m.of = Head(srv).of
    <3>1. srv \in Seq([of: Reqs, code: Codes]) /\ srv # <<>>
      BY <2>3 DEF ServerAnswers, TypeInv, TypeOK
    <3>2. Head(srv) = srv[1] /\ 1 \in DOMAIN srv
      BY <3>1, HeadTailProperties, LenProperties, EmptySeq
    <3>3. CommandOK(Head(srv))
      BY <3>2 DEF WireInv, Commands
    <3> QED BY <1>1, <2>3, <3>3 DEF CommandOK
  <2> QED BY <2>1, <2>2, <2>3 DEF MarkersGrow
<1> QED BY <1>2, <1>4, <1>5, <1>6 DEF Settled

\* The error of a listing settles it.
LEMMA ErrorSettles ==
  ASSUME TypeInv, OwnerInv, WireInv, ListingInv, TruthInv, HandleResult, [Next]_vars,
         NEW c \in Codes, c = Item1.key, Item1.res # "ok", ftLists'[c].of # None
  PROVE  Settled(ftLists[c])'
<1>1. Item1 \in Sound /\ ResultOK(Item1) /\ batch # <<>>
  BY Handled1 DEF HandleResult, Handling
<1>2. ftLists'[c].of = ftLists[c].of
  BY <1>1, ListedKept
<1> DEFINE r == ftLists[c].of
<1>3. r \in Reqs /\ kind[r] = "list"
  <2>1. r \in Reqs
    BY <1>2 DEF TypeInv, TypeOK, Lists
  <2> QED BY <2>1, Waits
<1>4. r = Item1.of /\ Item1.res = did[r] /\ Item1.res \in {"err", "empty"}
  BY <1>1, <1>2, <1>3 DEF ResultOK, Own, None, Reqs, Transfers, Sound, Items
<1>5. did'[r] = did[r]
  BY <1>3, <1>4, ListingKept
<1>6. ftLists'[c].res = Item1.res
  <2>1. ftLists[c].of # None /\ ftLists \in [Codes -> Lists]
    BY <1>2 DEF TypeInv, TypeOK
  <2> DEFINE lists == [ftLists EXCEPT ![c].res = Item1.res]
  <2>2. lists[c].res = Item1.res
    BY <2>1 DEF Lists
  <2>3. Schedule({c}, lists)
    BY <2>1 DEF HandleResult
  <2>4. lists \in [Codes -> Lists]
    BY <1>4, <2>1 DEF Lists
  <2> HIDE DEF lists
  <2>5. ftLists'[c].res = lists[c].res
    BY <2>3, <2>4 DEF Schedule, Lists
  <2> QED BY <2>2, <2>5
<1>7. ASSUME NEW m \in Markers' PROVE m.of # r
  <2>1. m \in Markers
    <3>1. ~ServerAnswers
      <4>1. srv' = srv /\ Handling("result")
        BY DEF HandleResult
      <4> QED BY <1>1, <4>1 DEF ServerAnswers, HandleResult, Schedule, TypeInv, TypeOK
    <3> QED BY <3>1, MarkerMove DEF ListingInv, MarkersGrow
  <2>2. did[m.of] = "ok"
    BY <2>1 DEF ListingInv, MarkersTrue
  <2> QED BY <1>4, <2>2
<1> QED BY <1>2, <1>4, <1>5, <1>6, <1>7 DEF Settled

\* So does its marker, which is the last that is said of it.
LEMMA MarkerSettles ==
  ASSUME TypeInv, OwnerInv, WireInv, ListingInv, HandleFin, [Next]_vars, NEW c \in Codes,
         ftLists[c].of # None, dir[ftLists[c].of] = Item1.key, ftLists'[c].of # None
  PROVE  Settled(ftLists[c])'
<1> DEFINE r == ftLists[c].of
<1>1. batch # <<>> /\ Item1.type = "fin"
  BY DEF HandleFin, Handling, Item1
<1>2. ftLists'[c].of = r
  BY <1>1, ListedKept
<1>3. r \in Reqs /\ kind[r] = "list" /\ answers[r] = <<>>
  <2>1. r \in Reqs
    BY DEF TypeInv, TypeOK, Lists
  <2> QED BY <2>1 DEF OwnerInv, Owned, Listed
<1>4. Item1 \in Markers
  <2>1. Item1 = batch[1] /\ 1 \in DOMAIN batch
    BY <1>1, Lengths, HeadTailProperties, EmptySeq DEF Item1
  <2> QED BY <1>1, <2>1 DEF Markers, IsMarker
<1>5. r = Item1.of
  BY <1>3, <1>4 DEF ListingInv, MarkersTrue, OneOpen, Listing
<1>6. did'[r] = "ok"
  <2>1. did[r] = "ok"
    BY <1>4, <1>5 DEF ListingInv, MarkersTrue
  <2> QED BY <1>3, <2>1, ListingKept
<1>7. \A m \in Markers' : m.of # r
  BY <1>5, MarkerMove DEF ListingInv
<1> QED BY <1>2, <1>6, <1>7 DEF Settled

\* Timers sleep for listings that are settled.
LEMMA TimersStep ==
  ASSUME TypeInv, OwnerInv, Phases, Below, WireInv, TruthInv, ListingInv, "swift" \notin Faults,
         [Next]_vars
  PROVE  TimersTrue'
<1>1. TimerMoves /\ (Same \/ Anew) /\ code \in Nat
  BY TimerMove, ConnStep DEF TypeInv, TypeOK, Codes
<1>2. CASE Anew
  BY <1>2, NoneSleeps DEF TimersTrue
<1>3. ASSUME Same, NEW t \in timers'
      PROVE  t.code < code' /\ (ftLists'[t.code].of # None => Settled(ftLists[t.code])')
  <2>1. \A n \in Nat : n < code => n < code'
    BY <1>1, <1>3 DEF Same
  <2>2. ASSUME NEW u \in timers, u.code = t.code
        PROVE  t.code < code' /\ (ftLists'[t.code].of # None => Settled(ftLists[t.code])')
    <3>1. u.code \in Codes /\ u.code \in Nat
      BY DEF TypeInv, TypeOK, Timers, Codes
    <3>2. u.code < code /\ (ftLists[u.code].of # None => Settled(ftLists[u.code]))
      BY DEF ListingInv, TimersTrue
    <3>3. ftLists'[u.code].of # None => ftLists[u.code].of # None
      <4>1. u.code # code
        BY <1>1, <3>1, <3>2
      <4> QED BY <3>1, <4>1, ListedKept
    <3>4. PICK c \in Codes : c = t.code
      BY <2>2, <3>1
    <3>5. ftLists'[c].of # None => Settled(ftLists[c])'
      BY <2>2, <3>2, <3>3, <3>4, SettledKept
    <3> QED BY <2>1, <2>2, <3>1, <3>2, <3>4, <3>5
  <2>3. ASSUME t.code \in Codes, ftLists[t.code].of # None, code' = code
        PROVE  t.code < code'
    <3>1. ~(t.code >= code)
      BY <2>3 DEF Below
    <3> QED BY <1>1, <2>3, <3>1 DEF Codes
  <2>4. CASE HandleResult /\ t.code = Item1.key /\ Item1.res # "ok" /\ ftLists[t.code].of # None
    <3>1. Item1.key \in Codes /\ code' = code
      BY <2>4, Handled1 DEF HandleResult
    <3>2. PICK c \in Codes : c = t.code
      BY <2>4, <3>1
    <3>3. ftLists'[c].of # None => Settled(ftLists[c])'
      BY <2>4, <3>2, ErrorSettles
    <3> QED BY <2>3, <2>4, <3>1, <3>2, <3>3
  <2>5. CASE /\ HandleFin /\ t.code \in Codes /\ ftLists[t.code].of # None
             /\ dir[ftLists[t.code].of] = Item1.key
    <3>1. code' = code
      BY <2>5 DEF HandleFin
    <3>2. PICK c \in Codes : c = t.code
      BY <2>5
    <3>3. ftLists'[c].of # None => Settled(ftLists[c])'
      BY <2>5, <3>2, MarkerSettles
    <3> QED BY <2>3, <2>5, <3>1, <3>2, <3>3
  <2> QED BY <1>1, <2>2, <2>4, <2>5 DEF TimerMoves
<1> QED BY <1>1, <1>2, <1>3 DEF TimersTrue

\* A listing is not answered before the server has done it.
LEMMA CommandsOpenStep ==
  ASSUME TypeInv, OwnerInv, WireInv, ListingInv, [Next]_vars PROVE CommandsOpen'
<1>0. srv \in Seq([of: Reqs, code: Codes]) /\ Len(srv) \in Nat /\ DOMAIN srv = 1..Len(srv)
  BY LenProperties DEF TypeInv, TypeOK
<1>1. ASSUME NEW q \in Commands, kind'[q.of] = "list" PROVE answers'[q.of] = <<>>
  <2>1. q.of \in Reqs /\ did[q.of] = "none" /\ q.of \notin InQueue /\ kind[q.of] # "none"
    <3>1. q \in [of: Reqs, code: Codes]
      BY <1>0, ElementOfSeq DEF Commands
    <3> QED BY <3>1 DEF WireInv, CommandOK
  <2>2. kind[q.of] = "list"
    BY <1>1, <2>1, HistoryMove DEF HistoryMoves, Fresh
  <2>3. ~\E t \in timers : ftLists[t.code].of = q.of
    BY <2>1 DEF ListingInv, TimersTrue, Settled, None, Reqs
  <2>4. answers'[q.of] = answers[q.of]
    BY <1>1, <2>1, <2>2, <2>3, ListingAnswered
  <2> QED BY <2>2, <2>4 DEF ListingInv, CommandsOpen
<1>2. ASSUME \A q \in Commands' : q \in Commands PROVE CommandsOpen'
  BY <1>1, <1>2 DEF CommandsOpen
<1>3. CASE srv' = srv
  BY <1>2, <1>3 DEF Commands
<1>4. CASE srv' = <<>>
  BY <1>4 DEF CommandsOpen, Commands
<1>5. CASE srv # <<>> /\ srv' = Tail(srv)
  <2>1. \A i \in DOMAIN srv' : i + 1 \in DOMAIN srv /\ srv'[i] = srv[i + 1]
    <3>1. Tail(srv) \in Seq([of: Reqs, code: Codes]) /\ Len(Tail(srv)) = Len(srv) - 1
          /\ \A i \in 1..Len(Tail(srv)) : Tail(srv)[i] = srv[i + 1]
      BY <1>0, <1>5, HeadTailProperties
    <3>2. DOMAIN srv' = 1..Len(srv) - 1
      BY <1>5, <3>1, LenProperties
    <3> QED BY <1>0, <1>5, <3>1, <3>2
  <2> QED BY <1>2, <2>1 DEF Commands
<1>6. ASSUME NEW r \in Reqs, Sends(r), srv' = Append(srv, [of |-> r, code |-> code])
      PROVE  CommandsOpen'
  <2> DEFINE n == [of |-> r, code |-> code]
  <2>1. n.of = r /\ n \in [of: Reqs, code: Codes]
    BY DEF TypeInv, TypeOK
  <2> HIDE DEF n
  <2>2. /\ Append(srv, n) \in Seq([of: Reqs, code: Codes]) /\ Len(Append(srv, n)) = Len(srv) + 1
        /\ \A i \in 1..Len(srv) : Append(srv, n)[i] = srv[i]
        /\ Append(srv, n)[Len(srv) + 1] = n
    BY <1>0, <2>1, AppendProperties
  <2>3. /\ \A i \in DOMAIN srv : srv'[i] = srv[i]
        /\ srv'[Len(srv) + 1] = n
        /\ \A i \in DOMAIN srv' : i \in DOMAIN srv \/ i = Len(srv) + 1
    <3>1. srv' = Append(srv, n)
      BY <1>6 DEF n
    <3> QED BY <1>0, <2>2, <3>1, LenProperties
  <2>4. \A q \in Commands' : q \in Commands \/ q = n
    BY <2>3 DEF Commands
  <2>5. kind'[r] = "list" => answers'[r] = <<>>
    <3>1. r \in InQueue /\ kind[r] # "none"
      <4>1. r \in InQueue
        BY <1>6, Taken DEF Sends, TypeInv
      <4> QED BY <4>1 DEF OwnerInv, Queued, InQueue
    <3>2. kind'[r] = kind[r]
      BY <3>1, HistoryMove DEF HistoryMoves, Fresh
    <3> QED BY <1>6, <3>1, <3>2 DEF OwnerInv, Transfers, Sends
  <2> QED BY <1>1, <2>1, <2>4, <2>5 DEF CommandsOpen
<1> QED BY <1>3, <1>4, <1>5, <1>6, CommandsMove

\* A listing that is sent off is settled.
LEMMA ToldStep ==
  ASSUME TypeInv, AnswerInv, WireInv, ListingInv, [Next]_vars PROVE ListingsTold'
<1>0. OwnerInv
  BY DEF AnswerInv
<1> SUFFICES ASSUME NEW r \in Reqs, kind'[r] = "list", Told(r, "ok")'
             PROVE  did'[r] \in {"ok", "empty"}
  BY DEF ListingsTold
<1>1. CASE answers'[r] = answers[r]
  <2>1. answers[r] # <<>> /\ Told(r, "ok")
    BY <1>1 DEF Told
  <2>2. kind[r] = "list"
    BY <1>0, <2>1, AnsweredKept
  <2>3. did[r] \in {"ok", "empty"}
    BY <2>1, <2>2 DEF ListingInv, ListingsTold
  <2> QED BY <1>0, <2>2, <2>3, ListingKept
<1>2. CASE answers'[r] # answers[r]
  <2>1. PICK a : /\ answers'[r] = Append(answers[r], a)
                 /\ \/ a.what \in {"unsent", "refused", "lost"} /\ (r \in InQueue \/ kind[r] # "list")
                    \/ \E t \in timers :
                         LET l == ftLists[t.code] IN
                         /\ Fire(t) /\ t.code \in Codes /\ l.of = r
                         /\ a = Answer(IF l.res = "err" THEN "err" ELSE "ok", l.rows)
    BY <1>0, <1>2, ListingAnswered
  <2>2. a.what = "ok"
    <3>1. \A i \in DOMAIN answers'[r] : answers'[r][i] = a
      <4>1. answers'[r] = Append(answers[r], a)
        BY <2>1
      <4> QED BY <4>1, OnlyEvent
    <3> QED BY <3>1 DEF Told
  <2>3. PICK t \in timers : /\ t.code \in Codes /\ ftLists[t.code].of = r
                            /\ a = Answer(IF ftLists[t.code].res = "err" THEN "err" ELSE "ok",
                                          ftLists[t.code].rows)
    BY <2>1, <2>2
  <2>4. ftLists[t.code].res # "err"
    BY <2>2, <2>3 DEF Answer
  <2>5. did[r] \in {"ok", "empty"}
    BY <2>3, <2>4 DEF ListingInv, TimersTrue, Settled, None, Reqs
  <2>6. kind[r] = "list"
    BY <1>0, <2>3, Waits
  <2> QED BY <1>0, <2>5, <2>6, ListingKept
<1> QED BY <1>1, <1>2

\* No listing is open at first.
LEMMA ListingInit == Init => ListingInv
<1> SUFFICES ASSUME Init PROVE ListingInv
  OBVIOUS
<1>1. DOMAIN <<>> = {} /\ net = <<>> /\ batch = <<>> /\ srv = <<>> /\ timers = {}
  BY DEF Init
<1>2. Markers = {} /\ Commands = {}
  BY <1>1 DEF Markers, Commands
<1>3. OneMarker
  BY <1>1 DEF OneMarker, Distinct
<1>4. \A r \in Reqs : kind[r] = "none"
  BY DEF Init
<1> QED BY <1>1, <1>2, <1>3, <1>4
        DEF ListingInv, OneOpen, MarkersTrue, TimersTrue, CommandsOpen, ListingsTold, Listing

\* Listings stay in order, unless a directory is listed twice at a time, or a timer
\* outlives its connection.
LEMMA ListingStep ==
  ASSUME {"again", "swift"} \cap Faults = {}, RequestsInv, ListingInv, [Next]_vars
  PROVE  ListingInv'
<1>1. /\ TypeInv /\ AnswerInv /\ OwnerInv /\ Phases /\ Below /\ WireInv /\ TruthInv
      /\ "again" \notin Faults /\ "swift" \notin Faults
  BY DEF RequestsInv, AnswerInv
<1>2. OneOpen' /\ OneMarker'
  BY <1>1, OpenStep, MarkerMove DEF ListingInv
<1> QED BY <1>1, <1>2, MarkersStep, TimersStep, CommandsOpenStep, ToldStep DEF ListingInv

\* Every answer to a permission request, a file operation or a listing is what the server
\* did with that request.  A listing needs that its directory is not listed again
\* while it is open, the marker being without a code, and that a reconnect takes longer
\* than the 600 ms of a timer, which is under a code that is handed out again.
THEOREM AnswersTold ==
  ASSUME {"again", "swift"} \cap Faults = {}
  PROVE  Spec => []AnswersTrue
<1>1. Init => RequestsInv /\ ListingInv
  BY RequestsInit, ListingInit
<1>2. RequestsInv /\ ListingInv /\ [Next]_vars => RequestsInv' /\ ListingInv'
  BY RequestsStep, ListingStep
<1>3. RequestsInv /\ ListingInv => AnswersTrue
  BY DEF RequestsInv, TruthInv, ListingInv, ListingsTold, AnswersTrue, ListingsTrue, Told, ToldHere
<1> QED BY <1>1, <1>2, <1>3, PTL DEF Spec

-----------------------------------------------------------------------------
(* Transfers: what is under way in one sequence, the batch before the stream. *)

Flow == batch \o net

\* Two sequences, one behind the other.
LEMMA Joined ==
  ASSUME NEW S, NEW b \in Seq(S), NEW n \in Seq(S), NEW s, s = b \o n
  PROVE  /\ s \in Seq(S) /\ Len(s) = Len(b) + Len(n) /\ Len(s) \in Nat
         /\ DOMAIN s = 1..Len(s) /\ \A i \in DOMAIN s : s[i] \in S
         /\ \A i \in DOMAIN b : i \in DOMAIN s /\ s[i] = b[i]
         /\ \A i \in DOMAIN n : Len(b) + i \in DOMAIN s /\ s[Len(b) + i] = n[i]
         /\ \A i \in DOMAIN s : \/ i \in DOMAIN b /\ s[i] = b[i]
                                \/ i - Len(b) \in DOMAIN n /\ s[i] = n[i - Len(b)]
<1>1. /\ Len(n) \in Nat /\ DOMAIN n = 1..Len(n)
      /\ Len(b) \in Nat /\ DOMAIN b = 1..Len(b)
  BY LenProperties
<1>2. /\ s \in Seq(S) /\ Len(s) = Len(b) + Len(n)
      /\ \A i \in 1..Len(b) + Len(n) : s[i] = IF i <= Len(b) THEN b[i] ELSE n[i - Len(b)]
  BY <1>1, ConcatProperties
<1>3. DOMAIN s = 1..Len(s) /\ \A i \in DOMAIN s : s[i] \in S
  BY <1>2, LenProperties, ElementOfSeq
<1>4. ASSUME NEW i \in DOMAIN n PROVE Len(b) + i \in DOMAIN s /\ s[Len(b) + i] = n[i]
  <2>1. Len(b) + i \in 1..Len(b) + Len(n) /\ ~(Len(b) + i <= Len(b)) /\ (Len(b) + i) - Len(b) = i
    BY <1>1
  <2> QED BY <1>2, <1>3, <2>1
<1>5. ASSUME NEW i \in DOMAIN s
      PROVE  \/ i \in DOMAIN b /\ s[i] = b[i]
             \/ i - Len(b) \in DOMAIN n /\ s[i] = n[i - Len(b)]
  <2>1. CASE i <= Len(b)
    BY <1>1, <1>2, <1>3, <2>1
  <2>2. CASE ~(i <= Len(b))
    <3>1. i - Len(b) \in 1..Len(n)
      BY <1>1, <1>2, <1>3, <2>2
    <3> QED BY <1>1, <1>2, <1>3, <2>2, <3>1
  <2> QED BY <2>1, <2>2
<1>6. \A i \in DOMAIN b : i \in DOMAIN s /\ s[i] = b[i]
  BY <1>1, <1>2, <1>3
<1>7. Len(s) \in Nat
  BY <1>1, <1>2
<1> QED BY <1>2, <1>3, <1>4, <1>5, <1>6, <1>7

\* The sequence starts with the batch.
LEMMA FlowTypes ==
  ASSUME TypeInv
  PROVE  /\ Flow \in Seq(Sound) /\ Len(Flow) = Len(batch) + Len(net) /\ Len(Flow) \in Nat
         /\ DOMAIN Flow = 1..Len(Flow) /\ \A i \in DOMAIN Flow : Flow[i] \in Sound
         /\ \A i \in DOMAIN batch : i \in DOMAIN Flow /\ Flow[i] = batch[i]
         /\ \A i \in DOMAIN net : Len(batch) + i \in DOMAIN Flow /\ Flow[Len(batch) + i] = net[i]
         /\ \A i \in DOMAIN Flow : \/ i \in DOMAIN batch /\ Flow[i] = batch[i]
                                   \/ i - Len(batch) \in DOMAIN net /\ Flow[i] = net[i - Len(batch)]
<1>1. net \in Seq(Sound) /\ batch \in Seq(Sound) /\ Flow = batch \o net
  BY DEF TypeInv, Flow
<1> HIDE DEF Flow
<1> QED BY <1>1, Joined

\* After a step as well.
LEMMA FlowNext ==
  ASSUME TypeInv'
  PROVE  /\ Flow' \in Seq(Sound') /\ Len(Flow') = Len(batch') + Len(net') /\ Len(Flow') \in Nat
         /\ DOMAIN Flow' = 1..Len(Flow') /\ \A i \in DOMAIN Flow' : Flow'[i] \in Sound'
         /\ Len(batch') \in Nat /\ Len(net') \in Nat
         /\ DOMAIN batch' = 1..Len(batch') /\ DOMAIN net' = 1..Len(net')
         /\ \A i \in DOMAIN batch' : i \in DOMAIN Flow' /\ Flow'[i] = batch'[i]
         /\ \A i \in DOMAIN net' : Len(batch') + i \in DOMAIN Flow' /\ Flow'[Len(batch') + i] = net'[i]
         /\ \A i \in DOMAIN Flow' : \/ i \in DOMAIN batch' /\ Flow'[i] = batch'[i]
                                    \/ i - Len(batch') \in DOMAIN net' /\ Flow'[i] = net'[i - Len(batch')]
<1>1. net' \in Seq(Sound') /\ batch' \in Seq(Sound') /\ Flow' = batch' \o net'
  BY DEF TypeInv, Flow
<1>2. Len(batch') \in Nat /\ Len(net') \in Nat /\ DOMAIN batch' = 1..Len(batch') /\ DOMAIN net' = 1..Len(net')
  BY <1>1, LenProperties
<1> DEFINE s == Flow'  b == batch'  n == net'  S == Sound'
<1> HIDE DEF s, b, n, S
<1>3. b \in Seq(S) /\ n \in Seq(S) /\ s = b \o n
  BY <1>1 DEF s, b, n, S
<1>4. /\ s \in Seq(S) /\ Len(s) = Len(b) + Len(n) /\ Len(s) \in Nat
      /\ DOMAIN s = 1..Len(s) /\ \A i \in DOMAIN s : s[i] \in S
      /\ \A i \in DOMAIN b : i \in DOMAIN s /\ s[i] = b[i]
      /\ \A i \in DOMAIN n : Len(b) + i \in DOMAIN s /\ s[Len(b) + i] = n[i]
      /\ \A i \in DOMAIN s : \/ i \in DOMAIN b /\ s[i] = b[i]
                             \/ i - Len(b) \in DOMAIN n /\ s[i] = n[i - Len(b)]
  BY <1>3, Joined
<1> QED BY <1>2, <1>4 DEF s, b, n, S

\* What it has is what the stream and the batch have.
LEMMA FlowHas ==
  ASSUME TypeInv, NEW m
  PROVE  (\E i \in DOMAIN Flow : Flow[i] = m) <=>
         ((\E i \in DOMAIN net : net[i] = m) \/ (\E i \in DOMAIN batch : batch[i] = m))
<1>1. ASSUME NEW i \in DOMAIN Flow, Flow[i] = m
      PROVE  (\E j \in DOMAIN net : net[j] = m) \/ (\E j \in DOMAIN batch : batch[j] = m)
  BY <1>1, FlowTypes
<1>2. ASSUME NEW j \in DOMAIN net, net[j] = m PROVE \E i \in DOMAIN Flow : Flow[i] = m
  BY <1>2, FlowTypes
<1>3. ASSUME NEW j \in DOMAIN batch, batch[j] = m PROVE \E i \in DOMAIN Flow : Flow[i] = m
  BY <1>3, FlowTypes
<1> QED BY <1>1, <1>2, <1>3

\* Items that are about a task.
Tasked(m) == m.type \in {"start", "status"}

\* Every such item was there, each at a place of its own; statuses stay.
Carries ==
  \E f : /\ \A i \in DOMAIN Flow' : Tasked(Flow'[i]) => f[i] \in DOMAIN Flow /\ Flow'[i] = Flow[f[i]]
         /\ \A i, j \in DOMAIN Flow' : Tasked(Flow'[i]) /\ Tasked(Flow'[j]) /\ f[i] = f[j] => i = j
Retains == \A i \in DOMAIN Flow : Tasked(Flow[i]) => \E j \in DOMAIN Flow' : Flow'[j] = Flow[i]

\* The first item goes.
LEMMA FlowTaken ==
  ASSUME TypeInv, TypeInv', batch # <<>>, batch' = Tail(batch), net' = net
  PROVE  /\ Item1 = Flow[1] /\ 1 \in DOMAIN Flow /\ DOMAIN Flow' = 1..Len(Flow) - 1 /\ Item1 \in Sound
         /\ \A i \in DOMAIN Flow' : i + 1 \in DOMAIN Flow /\ Flow'[i] = Flow[i + 1]
         /\ \A i \in DOMAIN Flow : i = 1 \/ (i - 1 \in DOMAIN Flow' /\ Flow'[i - 1] = Flow[i])
<1>1. /\ net \in Seq(Sound) /\ Len(net) \in Nat /\ DOMAIN net = 1..Len(net)
      /\ batch \in Seq(Sound) /\ Len(batch) \in Nat /\ DOMAIN batch = 1..Len(batch)
  BY Lengths
<1>2. /\ Len(batch) \in Nat \ {0} /\ Item1 = batch[1]
      /\ DOMAIN batch' = 1..Len(batch) - 1
      /\ \A i \in 1..Len(batch) - 1 : batch'[i] = batch[i + 1]
  BY TailOf
<1>3. Len(batch') = Len(batch) - 1
  <2>1. Len(batch') \in Nat /\ DOMAIN batch' = 1..Len(batch')
    BY FlowNext
  <2> QED BY <1>2, <2>1
<1>4. Len(Flow) = Len(batch) + Len(net) /\ Len(Flow') = Len(batch) - 1 + Len(net)
      /\ DOMAIN Flow = 1..Len(Flow) /\ DOMAIN Flow' = 1..Len(Flow')
  BY <1>3, FlowTypes, FlowNext
<1>5. 1 \in DOMAIN batch /\ 1 \in DOMAIN Flow /\ Item1 = Flow[1] /\ Item1 \in Sound
  BY <1>1, <1>2, FlowTypes
<1>6. ASSUME NEW i \in DOMAIN Flow'
      PROVE  i + 1 \in DOMAIN Flow /\ Flow'[i] = Flow[i + 1]
  <2>1. CASE i \in DOMAIN batch'
    <3>1. Flow'[i] = batch'[i] /\ batch'[i] = batch[i + 1] /\ i + 1 \in DOMAIN batch
      BY <1>1, <1>2, <2>1, FlowNext
    <3> QED BY <3>1, FlowTypes
  <2>2. CASE i \notin DOMAIN batch'
    <3>1. i - Len(batch') \in DOMAIN net' /\ Flow'[i] = net'[i - Len(batch')]
      BY <1>6, <2>2, FlowNext
    <3> DEFINE j == i - Len(batch')
    <3>2. j \in DOMAIN net /\ Flow'[i] = net[j] /\ Len(batch) + j = i + 1
      BY <1>1, <1>3, <1>4, <3>1
    <3> HIDE DEF j
    <3>3. Len(batch) + j \in DOMAIN Flow /\ Flow[Len(batch) + j] = net[j]
      BY <3>2, FlowTypes
    <3> QED BY <3>2, <3>3
  <2> QED BY <2>1, <2>2
<1>7. ASSUME NEW i \in DOMAIN Flow, i # 1
      PROVE  i - 1 \in DOMAIN Flow' /\ Flow'[i - 1] = Flow[i]
  <2>1. i - 1 \in DOMAIN Flow' /\ (i - 1) + 1 = i
    BY <1>1, <1>4, <1>7
  <2> QED BY <1>6, <2>1
<1>8. DOMAIN Flow' = 1..Len(Flow) - 1
  BY <1>1, <1>4
<1> QED BY <1>5, <1>6, <1>7, <1>8

\* Items are put behind what is under way.
LEMMA FlowGrown ==
  ASSUME TypeInv, TypeInv', NEW s \in Seq(Sound), net' = net \o s, batch' = batch
  PROVE  /\ Len(s) \in Nat /\ DOMAIN Flow' = 1..Len(Flow) + Len(s)
         /\ \A i \in DOMAIN Flow : i \in DOMAIN Flow' /\ Flow'[i] = Flow[i]
         /\ \A j \in 1..Len(s) : Flow'[Len(Flow) + j] = s[j]
         /\ \A i \in DOMAIN Flow' : i \in DOMAIN Flow \/ \E j \in 1..Len(s) : i = Len(Flow) + j
<1>1. net \in Seq(Sound) /\ batch \in Seq(Sound) /\ Flow \in Seq(Sound)
  BY Lengths, FlowTypes
<1>2. Flow' = Flow \o s
  BY <1>1, ConcatAssociative DEF Flow
<1>3. /\ Len(Flow) \in Nat /\ Len(s) \in Nat /\ DOMAIN Flow = 1..Len(Flow)
      /\ Len(Flow') = Len(Flow) + Len(s)
      /\ \A i \in 1..Len(Flow) + Len(s) : Flow'[i] = IF i <= Len(Flow) THEN Flow[i] ELSE s[i - Len(Flow)]
  BY <1>1, <1>2, ConcatProperties, LenProperties
<1>4. DOMAIN Flow' = 1..Len(Flow) + Len(s)
  BY <1>3, FlowNext
<1>5. ASSUME NEW j \in 1..Len(s) PROVE Flow'[Len(Flow) + j] = s[j]
  <2>1. /\ Len(Flow) + j \in 1..Len(Flow) + Len(s) /\ ~(Len(Flow) + j <= Len(Flow))
        /\ (Len(Flow) + j) - Len(Flow) = j
    BY <1>3
  <2> QED BY <1>3, <2>1
<1>6. ASSUME NEW i \in DOMAIN Flow'
      PROVE  i \in DOMAIN Flow \/ \E j \in 1..Len(s) : i = Len(Flow) + j
  <2>1. CASE i <= Len(Flow)
    BY <1>3, <1>4, <2>1
  <2>2. CASE ~(i <= Len(Flow))
    <3>1. i - Len(Flow) \in 1..Len(s)
      BY <1>3, <1>4, <2>2
    <3>2. i = Len(Flow) + (i - Len(Flow))
      BY <1>3, <1>4
    <3> QED BY <3>1, <3>2
  <2> QED BY <2>1, <2>2
<1>7. \A i \in DOMAIN Flow : i \in DOMAIN Flow' /\ Flow'[i] = Flow[i]
  BY <1>3, <1>4
<1> QED BY <1>3, <1>4, <1>5, <1>6, <1>7

\* The same for one item.
LEMMA FlowAdded ==
  ASSUME TypeInv, TypeInv', NEW m \in Sound, net' = Append(net, m), batch' = batch
  PROVE  /\ Len(Flow) + 1 \in DOMAIN Flow' /\ Flow'[Len(Flow) + 1] = m
         /\ \A i \in DOMAIN Flow : i \in DOMAIN Flow' /\ Flow'[i] = Flow[i]
         /\ \A i \in DOMAIN Flow' : i \in DOMAIN Flow \/ i = Len(Flow) + 1
<1>1. net \in Seq(Sound)
  BY Lengths
<1>2. <<m>> \in Seq(Sound) /\ Len(<<m>>) = 1 /\ <<m>>[1] = m /\ Append(net, m) = net \o <<m>>
  BY <1>1, AppendIsConcat
<1>3. \A j \in 1..1 : j = 1
  OBVIOUS
<1> DEFINE s == <<m>>
<1> HIDE DEF s
<1>4. s \in Seq(Sound) /\ Len(s) = 1 /\ s[1] = m /\ net' = net \o s
  BY <1>2 DEF s
<1>5. /\ DOMAIN Flow' = 1..Len(Flow) + 1
      /\ \A i \in DOMAIN Flow : i \in DOMAIN Flow' /\ Flow'[i] = Flow[i]
      /\ \A j \in 1..1 : Flow'[Len(Flow) + j] = s[j]
      /\ \A i \in DOMAIN Flow' : i \in DOMAIN Flow \/ \E j \in 1..1 : i = Len(Flow) + j
  BY <1>4, FlowGrown
<1>6. Len(Flow) + 1 \in DOMAIN Flow'
  BY <1>5, FlowTypes
<1> QED BY <1>3, <1>4, <1>5, <1>6

\* What is received is reordered: the first item of the batch goes behind the others.
LEMMA FlowTurned ==
  ASSUME TypeInv, TypeInv', NEW n \in 1..Len(net), Collect(n)
  PROVE  /\ DOMAIN Flow' = DOMAIN Flow /\ n \in DOMAIN Flow /\ Flow = net
         /\ \A i \in DOMAIN Flow : Flow'[i] = IF i = n THEN Flow[1] ELSE IF i < n THEN Flow[i + 1] ELSE Flow[i]
<1>1. /\ net \in Seq(Sound) /\ Len(net) \in Nat /\ DOMAIN net = 1..Len(net) /\ batch = <<>>
  BY Lengths DEF Collect
<1>2. Flow = net
  BY <1>1, ConcatEmptySeq DEF Flow
<1>3. /\ n \in Nat /\ DOMAIN batch' = 1..n
      /\ \A i \in 1..n : batch'[i] = IF i = n THEN net[1] ELSE net[i + 1]
      /\ Len(net') = Len(net) - n /\ DOMAIN net' = 1..Len(net) - n
      /\ \A i \in 1..Len(net) - n : net'[i] = net[n + i]
  BY Collected
<1>4. Len(batch') = n
  <2>1. Len(batch') \in Nat /\ DOMAIN batch' = 1..Len(batch')
    BY FlowNext
  <2> QED BY <1>3, <2>1
<1>5. DOMAIN Flow' = 1..Len(net)
  <2>1. DOMAIN Flow' = 1..Len(Flow') /\ Len(Flow') = n + (Len(net) - n)
    BY <1>3, <1>4, FlowNext
  <2> QED BY <1>1, <1>3, <2>1
<1>6. ASSUME NEW i \in DOMAIN Flow
      PROVE Flow'[i] = IF i = n THEN Flow[1] ELSE IF i < n THEN Flow[i + 1] ELSE Flow[i]
  <2>1. CASE i <= n
    <3>1. i \in DOMAIN batch' /\ Flow'[i] = batch'[i]
      BY <1>1, <1>2, <1>3, <2>1, FlowNext
    <3> QED BY <1>1, <1>2, <1>3, <2>1, <3>1
  <2>2. CASE ~(i <= n)
    <3>1. i - n \in DOMAIN net' /\ n + (i - n) = i /\ i - n \in 1..Len(net) - n
      BY <1>1, <1>2, <1>3, <2>2
    <3>2. Flow'[Len(batch') + (i - n)] = net'[i - n]
      BY <3>1, FlowNext
    <3> QED BY <1>1, <1>2, <1>3, <1>4, <2>2, <3>1, <3>2
  <2> QED BY <1>1, <1>2, <1>3, <2>1, <2>2
<1> QED BY <1>1, <1>2, <1>5, <1>6

\* A client transfer id belongs to one task, from when its command is taken.
Ids ==
  /\ \A q \in Reqs : ftid[q] # Placeholder =>
       /\ kind[q] \in Transfers /\ q \notin InQueue /\ ftid[q] < nextFt
       /\ \A r \in Reqs : ftid[r] = ftid[q] => r = q
  /\ nextFt <= Cardinality({q \in Reqs : ftid[q] # Placeholder})

\* A transfer whose stream is opened is accepted and has no worker; one that was
\* not opened gets none.
NoStart(r) == \A i \in DOMAIN Flow : ~(Flow[i].type = "start" /\ Flow[i].of = r)
Waiting1(r) == did[r] = "ok" /\ worker[r] = "none" /\ ftid[r] # Placeholder
Opening == \A r \in opening : Waiting1(r) /\ NoStart(r)

StartsOnce ==
  \A i, j \in DOMAIN Flow : Flow[i].type = "start" /\ Flow[j].type = "start" /\ Flow[i].of = Flow[j].of => i = j

ItemTrue(m) ==
  /\ m.of \in Reqs /\ ftid[m.of] # Placeholder /\ m.key = ftid[m.of]
  /\ m.type = "start" => Waiting1(m.of) /\ m.of \notin opening
  /\ m.type = "status" /\ m.res = "ok" => kind[m.of] = "up" /\ did[m.of] = "all"
  /\ m.type = "status" /\ m.res # "ok" =>
       did[m.of] = "err" \/ (Waiting1(m.of) /\ m.of \notin opening /\ NoStart(m.of))

ItemsTrue == \A i \in DOMAIN Flow : Flow[i].type \in {"start", "status"} => ItemTrue(Flow[i])

\* What a status tells of is told until the status is handled.
StatusFlows(r) == \E i \in DOMAIN Flow : Flow[i].type = "status" /\ Flow[i].of = r
WorkerTrue(r) ==
  /\ worker[r] # "none" => did[r] \in {"ok", "err", "all"} /\ ftid[r] # Placeholder
  /\ did[r] = "all" => worker[r] = "over" \/ (kind[r] = "up" /\ worker[r] = "grace")
  /\ worker[r] = "grace" => kind[r] = "up"
  /\ did[r] = "err" /\ worker[r] \in {"running", "grace"} /\ r \in tasks /\ link = "up" /\ sentIn[r] = conn =>
       StatusFlows(r)
WorkersTrue == \A r \in Reqs : WorkerTrue(r)

Codes1(c, r) == taskByRc[c] # None /\ sentIn[taskByRc[c]] = conn => taskByRc[c] = r
CodesTrue ==
  /\ \A c \in Codes : taskByRc[c] # None =>
       ftid[taskByRc[c]] # Placeholder /\ (c >= code => sentIn[taskByRc[c]] # conn)
  /\ \A q \in Commands : Codes1(q.code, q.of) /\ (kind[q.of] \in Transfers => ftid[q.of] # Placeholder)
  /\ \A m \in Results : Codes1(m.key, m.of) /\ (kind[m.of] \in Transfers => m.res = "err" /\ did[m.of] = "err")

\* What the user was told of a transfer.
Verdict(r) ==
  /\ kind[r] = "down" /\ Told(r, "ok") => did[r] = "all"
  /\ kind[r] = "up" /\ Told(r, "ok") => worker[r] = "over" \/ (worker[r] = "grace" /\ did[r] = "all")
  /\ kind[r] = "up" /\ ToldHere(r, "ok") => did[r] # "err"
  /\ kind[r] \in Transfers /\ ToldHere(r, "err") /\ r \notin cancelled =>
       did[r] = "err" \/ (did[r] = "ok" /\ worker[r] \in {"none", "over"})
ToldOf(r) ==
  /\ r \in InQueue => answers[r] = <<>> /\ sentIn[r] # None
  /\ ftid[r] # Placeholder => sentIn[r] # None
  /\ Verdict(r)
TransfersTold == \A r \in Reqs : ToldOf(r)

Story == Opening /\ StartsOnce /\ ItemsTrue /\ WorkersTrue
TransferInv == Ids /\ Story /\ CodesTrue /\ TransfersTold

-----------------------------------------------------------------------------
(* How a step changes what is known of the transfers. *)

\* What is under way is reordered, shortened, or grows by something that is not about
\* a task.
FlowSteps ==
  \/ UNCHANGED <<net, batch>>
  \/ \E m \in Sound : m.type = "error" /\ net' = Append(net, m) /\ batch' = batch
  \/ batch # <<>> /\ ~Tasked(Item1) /\ batch' = Tail(batch) /\ net' = net
  \/ Drop \/ End \/ \E n \in 1..Len(net) : Collect(n)

\* A step that neither the server, the streams nor the workers take.
Calm ==
  /\ UNCHANGED <<worker, did>> /\ opening' \in {opening, {}} /\ FlowSteps
  /\ \A q \in Reqs : ftid[q] # Placeholder => ftid'[q] = ftid[q] /\ sentIn'[q] = sentIn[q]
  /\ \A q \in tasks' : q \in tasks \/ kind[q] = "none"
Busy ==
  \/ \E r \in Reqs : \/ WorkerCancels(r) \/ GraceEnds(r)
                     \/ \E whole \in BOOLEAN : DownloadEnds(r, whole) \/ UploadSent(r, whole)
                     \/ \E ok \in BOOLEAN : Opened(r, ok)
                     \/ \E res \in {"ok", "err"} : ServerStatus(r, res)
  \/ ServerAnswers \/ HandleStart \/ HandleStatus

\* A request that is in the queue has no transfer id.
LEMMA Unsent ==
  ASSUME TypeInv, Ids, NEW r \in Reqs, Next1(r) PROVE ftid[r] = Placeholder
BY Taken DEF TypeInv, Ids

\* Every step is one of these as far as the streams and the workers go.
LEMMA CalmMove ==
  ASSUME TypeInv, Ids, [Next]_vars PROVE Calm \/ Busy
<1>0. TypeInv /\ TypeOK /\ Ids
  BY DEF TypeInv
<1>a. UNCHANGED <<worker, did, opening, net, batch, ftid, sentIn, tasks>> => Calm
  BY DEF Calm, FlowSteps
<1>b. ASSUME NEW r \in Reqs, Next1(r), UNCHANGED <<worker, did, opening, net, batch, ftid, tasks>>,
             \A q \in Reqs : q # r => sentIn'[q] = sentIn[q]
      PROVE  Calm
  BY <1>0, <1>b, Unsent DEF Calm, FlowSteps
<1>c. \A m \in Items : Tasked(m) <=> m.type \in {"start", "status"}
  BY DEF Tasked
<1>1. ASSUME NEW r \in Reqs, AskPlain(r) PROVE Calm \/ Busy
  BY <1>0, <1>1 DEF AskPlain, Queue, Calm, FlowSteps, Ids, TypeOK, wire, Fresh, Transfers
<1>2. ASSUME NEW r \in Reqs, AskMove(r) PROVE Calm \/ Busy
  BY <1>0, <1>2 DEF AskMove, Queue, Calm, FlowSteps, Ids, TypeOK, wire, Fresh, Transfers
<1>3. ASSUME NEW r \in Reqs, AskKick(r) PROVE Calm \/ Busy
  BY <1>0, <1>3 DEF AskKick, Queue, Calm, FlowSteps, Ids, TypeOK, wire, Fresh, Transfers
<1>4. ASSUME NEW r \in Reqs, AskGroup(r) PROVE Calm \/ Busy
  BY <1>0, <1>4 DEF AskGroup, Queue, Calm, FlowSteps, Ids, TypeOK, wire, Fresh, Transfers
<1>5. ASSUME NEW r \in Reqs, AskOp(r) PROVE Calm \/ Busy
  BY <1>0, <1>5 DEF AskOp, Queue, Calm, FlowSteps, Ids, TypeOK, wire, Fresh, Transfers
<1>6. ASSUME NEW r \in Reqs, NEW d \in Dirs, AskList(r, d) PROVE Calm \/ Busy
  BY <1>0, <1>6 DEF AskList, Queue, Calm, FlowSteps, Ids, TypeOK, wire, Fresh, Transfers
<1>7. ASSUME NEW r \in Reqs, AskDownload(r) PROVE Calm \/ Busy
  BY <1>0, <1>7 DEF AskDownload, Queue, Calm, FlowSteps, Ids, TypeOK, wire, Fresh, Transfers
<1>8. ASSUME NEW r \in Reqs, AskUpload(r) PROVE Calm \/ Busy
  BY <1>0, <1>8 DEF AskUpload, Queue, Calm, FlowSteps, Ids, TypeOK, wire, Fresh, Transfers
<1>9. ASSUME NEW r \in Reqs, NEW k \in Transfers, AskLate(r, k) PROVE Calm \/ Busy
  BY <1>a, <1>9 DEF AskLate, wire, transfer, history
<1>10. ASSUME NEW r \in Reqs, Cancel(r) PROVE Calm \/ Busy
  BY <1>a, <1>10 DEF Cancel, wire, transfer, history
<1>11. ASSUME NEW r \in Reqs, SendKick(r) PROVE Calm \/ Busy
  BY <1>0, <1>b, <1>11 DEF SendKick, Track, Sent, transfer, TypeOK
<1>12. ASSUME NEW r \in Reqs, SendGroup(r) PROVE Calm \/ Busy
  BY <1>0, <1>b, <1>12 DEF SendGroup, Track, Sent, transfer, TypeOK
<1>13. ASSUME NEW r \in Reqs, RefuseKick(r) PROVE Calm \/ Busy
  BY <1>a, <1>13 DEF RefuseKick, wire, transfer, history
<1>14. ASSUME NEW r \in Reqs, SendMove(r) PROVE Calm \/ Busy
  BY <1>0, <1>a, <1>b, <1>14 DEF SendMove, Sent, transfer, wire, history, TypeOK
<1>15. ASSUME NEW r \in Reqs, SendPlain(r) PROVE Calm \/ Busy
  <2> DEFINE m == [type |-> "error", key |-> 0, res |-> "err", of |-> r]
  <2>1. m \in Sound /\ m.type = "error"
    BY <1>15 DEF SendPlain, Sound, Items
  <2> HIDE DEF m
  <2>2. net' = net \/ net' = Append(net, m)
    BY <1>15 DEF SendPlain, m
  <2>3. FlowSteps
    BY <2>1, <2>2, <1>15 DEF SendPlain, FlowSteps
  <2> QED BY <2>3, <1>15 DEF SendPlain, Calm, transfer, history
<1>16. ASSUME NEW r \in Reqs, SendOp(r) PROVE Calm \/ Busy
  BY <1>0, <1>b, <1>16 DEF SendOp, Sent, transfer, TypeOK
<1>17. ASSUME NEW r \in Reqs, SendList(r) PROVE Calm \/ Busy
  BY <1>0, <1>b, <1>17 DEF SendList, Sent, transfer, TypeOK
<1>18. ASSUME NEW r \in Reqs, SendTransfer(r) PROVE Calm \/ Busy
  BY <1>0, <1>18, Unsent DEF SendTransfer, Sent, TakeId, Calm, FlowSteps, TypeOK
<1>19. ASSUME NEW r \in Reqs, SendFails(r) PROVE Calm \/ Busy
  BY <1>a, <1>19 DEF SendFails, wire, transfer, history
<1>20. ASSUME NEW r \in Reqs, TransferFails(r) PROVE Calm \/ Busy
  BY <1>0, <1>20, Unsent DEF TransferFails, TakeId, FinishTasks, Calm, FlowSteps, TypeOK, wire, history
<1>21. ASSUME NEW r \in Reqs, WorkerCancels(r) PROVE Calm \/ Busy
  BY <1>21 DEF Busy
<1>22. ASSUME NEW r \in Reqs, GraceEnds(r) PROVE Calm \/ Busy
  BY <1>22 DEF Busy
<1>23. ASSUME NEW r \in Reqs, NEW whole \in BOOLEAN, DownloadEnds(r, whole) PROVE Calm \/ Busy
  BY <1>23 DEF Busy
<1>24. ASSUME NEW r \in Reqs, NEW whole \in BOOLEAN, UploadSent(r, whole) PROVE Calm \/ Busy
  BY <1>24 DEF Busy
<1>25. ASSUME NEW r \in Reqs, NEW ok \in BOOLEAN, Opened(r, ok) PROVE Calm \/ Busy
  BY <1>25 DEF Busy
<1>26. ASSUME NEW r \in Reqs, NEW res \in {"ok", "err"}, ServerStatus(r, res) PROVE Calm \/ Busy
  BY <1>26 DEF Busy
<1>27. CASE ServerAnswers
  BY <1>27 DEF Busy
<1>28. CASE Drop
  BY <1>28 DEF Drop, Calm, FlowSteps, transfer, history
<1>29. CASE Reconnect
  BY <1>a, <1>29 DEF Reconnect, wire, transfer, history
<1>30. CASE End
  BY <1>30 DEF End, Calm, FlowSteps, transfer, history
<1>31. CASE Connect
  BY <1>a, <1>31 DEF Connect, wire, transfer, history
<1>32. ASSUME NEW n \in 1..Len(net), Collect(n) PROVE Calm \/ Busy
  BY <1>32 DEF Collect, Calm, FlowSteps, transfer, history
<1>33. CASE HandleResult
  BY <1>33 DEF HandleResult, Handling, Schedule, Item1, Tasked, Calm, FlowSteps, transfer, history
<1>34. CASE HandleRows
  BY <1>34 DEF HandleRows, Handled, Handling, Item1, Tasked, Calm, FlowSteps, transfer, history
<1>35. CASE HandleFin
  BY <1>35 DEF HandleFin, Handling, Schedule, Item1, Tasked, Calm, FlowSteps, transfer, history
<1>36. CASE HandleError
  BY <1>36 DEF HandleError, Handled, Handling, Item1, Tasked, Calm, FlowSteps, transfer, history
<1>37. CASE HandleStart
  BY <1>37 DEF Busy
<1>38. CASE HandleStatus
  BY <1>38 DEF Busy
<1>39. CASE HandleDrop
  BY <1>39 DEF HandleDrop, Handled, Handling, Item1, Tasked, Calm, FlowSteps, transfer, history
<1>40. ASSUME NEW t \in timers, Fire(t) PROVE Calm \/ Busy
  BY <1>a, <1>40 DEF Fire, wire, transfer, history
<1>41. CASE UNCHANGED vars
  BY <1>a, <1>41 DEF vars, wire, transfer, history
<1> QED
  BY <1>1, <1>2, <1>3, <1>4, <1>5, <1>6, <1>7, <1>8, <1>9, <1>10, <1>11, <1>12, <1>13,
     <1>14, <1>15, <1>16, <1>17, <1>18, <1>19, <1>20, <1>21, <1>22, <1>23, <1>24,
     <1>25, <1>26, <1>27, <1>28, <1>29, <1>30, <1>31, <1>32, <1>33, <1>34, <1>35,
     <1>36, <1>37, <1>38, <1>39, <1>40, <1>41
  DEF Next, Ask, Execute, Worker, Handle

\* Only a transfer that is sent, or would be, takes an id; only one that is sent has a
\* code in FT_TASK_BY_RC.
TransferMoves ==
  \/ UNCHANGED <<ftid, nextFt>> /\ \A c \in Codes : taskByRc'[c] \in {taskByRc[c], None}
  \/ \E r \in Reqs : SendTransfer(r) \/ TransferFails(r)

\* Every step is one of these as far as ids and codes go.
LEMMA TransferMove ==
  ASSUME TypeInv, [Next]_vars PROVE TransferMoves
<1>0. TypeOK
  BY DEF TypeInv
<1>a. UNCHANGED <<ftid, nextFt, taskByRc>> => TransferMoves
  BY DEF TransferMoves
<1>1. ASSUME NEW r \in Reqs, AskPlain(r) PROVE TransferMoves
  BY <1>a, <1>1 DEF AskPlain, Queue, tables
<1>2. ASSUME NEW r \in Reqs, AskMove(r) PROVE TransferMoves
  BY <1>a, <1>2 DEF AskMove, Queue, tables
<1>3. ASSUME NEW r \in Reqs, AskKick(r) PROVE TransferMoves
  BY <1>a, <1>3 DEF AskKick, Queue, tables
<1>4. ASSUME NEW r \in Reqs, AskGroup(r) PROVE TransferMoves
  BY <1>a, <1>4 DEF AskGroup, Queue, tables
<1>5. ASSUME NEW r \in Reqs, AskOp(r) PROVE TransferMoves
  BY <1>a, <1>5 DEF AskOp, Queue, tables
<1>6. ASSUME NEW r \in Reqs, NEW d \in Dirs, AskList(r, d) PROVE TransferMoves
  BY <1>a, <1>6 DEF AskList, Queue, tables
<1>7. ASSUME NEW r \in Reqs, AskDownload(r) PROVE TransferMoves
  BY <1>a, <1>7 DEF AskDownload, Queue, tables
<1>8. ASSUME NEW r \in Reqs, AskUpload(r) PROVE TransferMoves
  BY <1>a, <1>8 DEF AskUpload, Queue, tables
<1>9. ASSUME NEW r \in Reqs, NEW k \in Transfers, AskLate(r, k) PROVE TransferMoves
  BY <1>a, <1>9 DEF AskLate, tables, transfer
<1>10. ASSUME NEW r \in Reqs, Cancel(r) PROVE TransferMoves
  BY <1>a, <1>10 DEF Cancel, tables, transfer
<1>11. ASSUME NEW r \in Reqs, SendKick(r) PROVE TransferMoves
  BY <1>a, <1>11 DEF SendKick, Track, tables, transfer
<1>12. ASSUME NEW r \in Reqs, SendGroup(r) PROVE TransferMoves
  BY <1>a, <1>12 DEF SendGroup, Track, tables, transfer
<1>13. ASSUME NEW r \in Reqs, RefuseKick(r) PROVE TransferMoves
  BY <1>a, <1>13 DEF RefuseKick, tables, transfer
<1>14. ASSUME NEW r \in Reqs, SendMove(r) PROVE TransferMoves
  BY <1>a, <1>14 DEF SendMove, tables, transfer
<1>15. ASSUME NEW r \in Reqs, SendPlain(r) PROVE TransferMoves
  BY <1>a, <1>15 DEF SendPlain, tables, transfer
<1>16. ASSUME NEW r \in Reqs, SendOp(r) PROVE TransferMoves
  BY <1>a, <1>16 DEF SendOp, tables, transfer
<1>17. ASSUME NEW r \in Reqs, SendList(r) PROVE TransferMoves
  BY <1>a, <1>17 DEF SendList, tables, transfer
<1>18. ASSUME NEW r \in Reqs, SendTransfer(r) PROVE TransferMoves
  BY <1>18 DEF TransferMoves
<1>19. ASSUME NEW r \in Reqs, SendFails(r) PROVE TransferMoves
  BY <1>a, <1>19 DEF SendFails, tables, transfer
<1>20. ASSUME NEW r \in Reqs, TransferFails(r) PROVE TransferMoves
  BY <1>20 DEF TransferMoves
<1>21. ASSUME NEW r \in Reqs, WorkerCancels(r) PROVE TransferMoves
  BY <1>a, <1>21 DEF WorkerCancels, tables, transfer
<1>22. ASSUME NEW r \in Reqs, GraceEnds(r) PROVE TransferMoves
  BY <1>a, <1>22 DEF GraceEnds, tables, transfer
<1>23. ASSUME NEW r \in Reqs, NEW whole \in BOOLEAN, DownloadEnds(r, whole) PROVE TransferMoves
  BY <1>a, <1>23 DEF DownloadEnds, tables, transfer
<1>24. ASSUME NEW r \in Reqs, NEW whole \in BOOLEAN, UploadSent(r, whole) PROVE TransferMoves
  BY <1>a, <1>24 DEF UploadSent, tables, transfer
<1>25. ASSUME NEW r \in Reqs, NEW ok \in BOOLEAN, Opened(r, ok) PROVE TransferMoves
  BY <1>a, <1>25 DEF Opened, tables, transfer
<1>26. ASSUME NEW r \in Reqs, NEW res \in {"ok", "err"}, ServerStatus(r, res) PROVE TransferMoves
  BY <1>a, <1>26 DEF ServerStatus, tables, transfer
<1>27. CASE ServerAnswers
  BY <1>a, <1>27 DEF ServerAnswers, tables, transfer
<1>28. CASE Drop
  BY <1>a, <1>28 DEF Drop, tables, transfer
<1>29. CASE Reconnect
  BY <1>a, <1>29 DEF Reconnect, tables, transfer
<1>30. CASE End
  BY <1>a, <1>30 DEF End, tables, transfer
<1>31. CASE Connect
  BY <1>a, <1>31 DEF Connect, tables, transfer
<1>32. ASSUME NEW n \in 1..Len(net), Collect(n) PROVE TransferMoves
  BY <1>a, <1>32 DEF Collect, tables, transfer
<1>33. CASE HandleResult
  BY <1>0, <1>33 DEF HandleResult, TransferMoves, TypeOK
<1>34. CASE HandleRows
  BY <1>a, <1>34 DEF HandleRows, tables, transfer
<1>35. CASE HandleFin
  BY <1>a, <1>35 DEF HandleFin, tables, transfer
<1>36. CASE HandleError
  BY <1>a, <1>36 DEF HandleError, tables, transfer
<1>37. CASE HandleStart
  BY <1>a, <1>37 DEF HandleStart, tables, transfer
<1>38. CASE HandleStatus
  BY <1>a, <1>38 DEF HandleStatus, tables, transfer
<1>39. CASE HandleDrop
  BY <1>a, <1>39 DEF HandleDrop, tables, transfer
<1>40. ASSUME NEW t \in timers, Fire(t) PROVE TransferMoves
  BY <1>a, <1>40 DEF Fire, tables, transfer
<1>41. CASE UNCHANGED vars
  BY <1>a, <1>41 DEF vars, tables, transfer
<1> QED
  BY <1>1, <1>2, <1>3, <1>4, <1>5, <1>6, <1>7, <1>8, <1>9, <1>10, <1>11, <1>12, <1>13,
     <1>14, <1>15, <1>16, <1>17, <1>18, <1>19, <1>20, <1>21, <1>22, <1>23, <1>24,
     <1>25, <1>26, <1>27, <1>28, <1>29, <1>30, <1>31, <1>32, <1>33, <1>34, <1>35,
     <1>36, <1>37, <1>38, <1>39, <1>40, <1>41
  DEF Next, Ask, Execute, Worker, Handle

\* Whom a step answers, of the transfers.
TransferEvent(r, a) ==
  \/ a.what = "unsent" /\ ((kind[r] = "none" /\ cmds' = cmds) \/ Next1(r))
  \/ /\ HandleResult /\ r = taskByRc[Item1.key] /\ Item1.res # "ok" /\ a = Answer("err", 0)
  \/ /\ HandleStatus /\ r \in tasks /\ ftid[r] = Item1.key
     /\ a = Answer(IF Item1.res = "ok" /\ kind[r] = "up" THEN "ok" ELSE "err", 0)
  \/ WorkerCancels(r) /\ a.what = "err"
  \/ \E whole \in BOOLEAN : DownloadEnds(r, whole) /\ a.what = IF whole THEN "ok" ELSE "err"
  \/ UploadSent(r, FALSE) /\ a.what = "err"
  \/ GraceEnds(r) /\ r \in tasks /\ a = Answer("ok", 0)
EventMoves ==
  \A r \in Reqs : kind'[r] \in Transfers =>
    \/ answers'[r] = answers[r]
    \/ \E a : answers'[r] = Append(answers[r], a) /\ TransferEvent(r, a)

\* Every step is one of these as far as the answers to transfers go.
LEMMA EventMove ==
  ASSUME TypeInv, OwnerInv, [Next]_vars PROVE EventMoves
<1>0. TypeInv /\ TypeOK /\ OwnerInv
  BY DEF TypeInv
<1>a. UNCHANGED answers => EventMoves
  BY DEF EventMoves
<1>b. \A what, rows : Answer(what, rows).what = what
  BY DEF Answer
<1>c. \A k \in Tokens \cup {"op", "list"} : k \notin Transfers
  BY DEF Tokens, Transfers
<1>1. ASSUME NEW r \in Reqs, AskPlain(r) PROVE EventMoves
  BY <1>a, <1>1 DEF AskPlain, Queue
<1>2. ASSUME NEW r \in Reqs, AskMove(r) PROVE EventMoves
  BY <1>a, <1>2 DEF AskMove, Queue
<1>3. ASSUME NEW r \in Reqs, AskKick(r) PROVE EventMoves
  BY <1>a, <1>3 DEF AskKick, Queue
<1>4. ASSUME NEW r \in Reqs, AskGroup(r) PROVE EventMoves
  BY <1>a, <1>4 DEF AskGroup, Queue
<1>5. ASSUME NEW r \in Reqs, AskOp(r) PROVE EventMoves
  BY <1>a, <1>5 DEF AskOp, Queue
<1>6. ASSUME NEW r \in Reqs, NEW d \in Dirs, AskList(r, d) PROVE EventMoves
  BY <1>a, <1>6 DEF AskList, Queue
<1>7. ASSUME NEW r \in Reqs, AskDownload(r) PROVE EventMoves
  BY <1>a, <1>7 DEF AskDownload, Queue
<1>8. ASSUME NEW r \in Reqs, AskUpload(r) PROVE EventMoves
  BY <1>a, <1>8 DEF AskUpload, Queue
<1>9. ASSUME NEW r \in Reqs, NEW k \in Transfers, AskLate(r, k) PROVE EventMoves
  <2> DEFINE a == Answer("unsent", 0)
  <2>1. \A q \in Reqs : answers'[q] = answers[q] \/ (q = r /\ answers'[q] = Append(answers[q], a))
    BY <1>0, <1>9 DEF AskLate, Tell, TypeOK
  <2>2. a.what = "unsent"
    BY <1>b
  <2> HIDE DEF a
  <2>3. TransferEvent(r, a)
    BY <2>2, <1>9 DEF TransferEvent, AskLate, Fresh
  <2> QED BY <2>1, <2>3 DEF EventMoves
<1>10. ASSUME NEW r \in Reqs, Cancel(r) PROVE EventMoves
  BY <1>a, <1>10 DEF Cancel, transfer
<1>11. ASSUME NEW r \in Reqs, SendKick(r) PROVE EventMoves
  BY <1>a, <1>11 DEF SendKick, Track, transfer
<1>12. ASSUME NEW r \in Reqs, SendGroup(r) PROVE EventMoves
  BY <1>a, <1>12 DEF SendGroup, Track, transfer
<1>13. ASSUME NEW r \in Reqs, RefuseKick(r) PROVE EventMoves
  <2>1. \A q \in Reqs : answers'[q] = answers[q] \/ q = r
    BY <1>0, <1>13 DEF RefuseKick, Tell, TypeOK
  <2>2. kind'[r] \notin Transfers
    BY <1>13 DEF RefuseKick, asking, Transfers
  <2> QED BY <2>1, <2>2 DEF EventMoves
<1>14. ASSUME NEW r \in Reqs, SendMove(r) PROVE EventMoves
  BY <1>a, <1>14 DEF SendMove, transfer
<1>15. ASSUME NEW r \in Reqs, SendPlain(r) PROVE EventMoves
  BY <1>a, <1>15 DEF SendPlain, transfer
<1>16. ASSUME NEW r \in Reqs, SendOp(r) PROVE EventMoves
  BY <1>a, <1>16 DEF SendOp, transfer
<1>17. ASSUME NEW r \in Reqs, SendList(r) PROVE EventMoves
  BY <1>a, <1>17 DEF SendList, transfer
<1>18. ASSUME NEW r \in Reqs, SendTransfer(r) PROVE EventMoves
  BY <1>a, <1>18 DEF SendTransfer, transfer
<1>19. ASSUME NEW r \in Reqs, SendFails(r) PROVE EventMoves
  <2>1. \A q \in Reqs : answers'[q] = answers[q] \/ q = r
    BY <1>0, <1>19 DEF SendFails, Tell, TypeOK
  <2>2. kind'[r] \notin Transfers
    BY <1>c, <1>19 DEF SendFails, asking
  <2> QED BY <2>1, <2>2 DEF EventMoves
<1>20. ASSUME NEW r \in Reqs, TransferFails(r) PROVE EventMoves
  <2> DEFINE a == Answer("unsent", 0)
  <2>1. \A q \in Reqs : answers'[q] = answers[q] \/ (q = r /\ answers'[q] = Append(answers[q], a))
    BY <1>0, <1>20 DEF TransferFails, FinishTasks, Tell, TypeOK
  <2>2. a.what = "unsent"
    BY <1>b
  <2> HIDE DEF a
  <2>3. TransferEvent(r, a)
    BY <2>2, <1>20 DEF TransferEvent, TransferFails
  <2> QED BY <2>1, <2>3 DEF EventMoves
<1>21. ASSUME NEW r \in Reqs, WorkerCancels(r) PROVE EventMoves
  <2> DEFINE a == Answer("err", 0)
  <2>1. \A q \in Reqs : answers'[q] = answers[q] \/ (q = r /\ answers'[q] = Append(answers[q], a))
    BY <1>0, <1>21 DEF WorkerCancels, FinishTasks, Tell, TypeOK
  <2>2. a.what = "err"
    BY <1>b
  <2> HIDE DEF a
  <2>3. TransferEvent(r, a)
    BY <2>2, <1>21 DEF TransferEvent
  <2> QED BY <2>1, <2>3 DEF EventMoves
<1>22. ASSUME NEW r \in Reqs, GraceEnds(r) PROVE EventMoves
  <2> DEFINE a == Answer("ok", 0)
  <2>1. \A q \in Reqs : answers'[q] = answers[q] \/ (q = r /\ r \in tasks /\ answers'[q] = Append(answers[q], a))
    BY <1>0, <1>22 DEF GraceEnds, FinishTasks, Tell, TypeOK
  <2>2. r \in tasks => TransferEvent(r, a)
    BY <1>22 DEF TransferEvent
  <2> HIDE DEF a
  <2> QED BY <2>1, <2>2 DEF EventMoves
<1>23. ASSUME NEW r \in Reqs, NEW whole \in BOOLEAN, DownloadEnds(r, whole) PROVE EventMoves
  <2> DEFINE a == Answer((IF whole THEN "ok" ELSE "err"), 0)
  <2>1. \A q \in Reqs : answers'[q] = answers[q] \/ (q = r /\ answers'[q] = Append(answers[q], a))
    BY <1>0, <1>23 DEF DownloadEnds, FinishTasks, Tell, TypeOK
  <2>2. a.what = (IF whole THEN "ok" ELSE "err")
    BY <1>b
  <2> HIDE DEF a
  <2>3. TransferEvent(r, a)
    BY <2>2, <1>23 DEF TransferEvent
  <2> QED BY <2>1, <2>3 DEF EventMoves
<1>24. ASSUME NEW r \in Reqs, NEW whole \in BOOLEAN, UploadSent(r, whole) PROVE EventMoves
  <2>1. CASE whole
    BY <1>a, <2>1, <1>24 DEF UploadSent
  <2>2. CASE ~whole
    <3> DEFINE a == Answer("err", 0)
    <3>1. \A q \in Reqs : answers'[q] = answers[q] \/ (q = r /\ answers'[q] = Append(answers[q], a))
      BY <1>0, <2>2, <1>24 DEF UploadSent, FinishTasks, Tell, TypeOK
    <3>2. a.what = "err" /\ UploadSent(r, FALSE)
      BY <1>b, <2>2, <1>24
    <3> HIDE DEF a
    <3>3. TransferEvent(r, a)
      BY <3>2 DEF TransferEvent
    <3> QED BY <3>1, <3>3 DEF EventMoves
  <2> QED BY <2>1, <2>2
<1>25. ASSUME NEW r \in Reqs, NEW ok \in BOOLEAN, Opened(r, ok) PROVE EventMoves
  BY <1>a, <1>25 DEF Opened, transfer
<1>26. ASSUME NEW r \in Reqs, NEW res \in {"ok", "err"}, ServerStatus(r, res) PROVE EventMoves
  BY <1>a, <1>26 DEF ServerStatus, transfer
<1>27. CASE ServerAnswers
  BY <1>a, <1>27 DEF ServerAnswers, transfer
<1>28. CASE Drop
  BY <1>a, <1>28 DEF Drop, transfer
<1>29. CASE Reconnect
  BY <1>a, <1>29 DEF Reconnect, transfer
<1>30. CASE End
  BY <1>a, <1>30 DEF End, transfer
<1>31. CASE Connect
  BY <1>a, <1>31 DEF Connect, transfer
<1>32. ASSUME NEW n \in 1..Len(net), Collect(n) PROVE EventMoves
  BY <1>a, <1>32 DEF Collect, transfer
<1>33. CASE HandleResult
  <2> DEFINE k == Item1.key
             p == {permOps[k], ftOps[k]} \ {None}
             u == IF Item1.res = "ok" \/ taskByRc[k] = None THEN {} ELSE {taskByRc[k]} \cap tasks
             a == Answer(IF Item1.res = "ok" THEN "ok" ELSE "err", 0)
  <2>1. k \in Codes
    BY <1>0, <1>33, FirstSound DEF HandleResult, Handling, Item1, Sound
  <2>2. \A q \in Reqs : answers'[q] = IF q \in p \cup u THEN Append(answers[q], a) ELSE answers[q]
    BY <1>33 DEF HandleResult, Tell
  <2>3. \A q \in p : kind'[q] \notin Transfers
    BY <1>0, <1>c, <2>1, <1>33 DEF HandleResult, asking, OwnerInv, Owned
  <2>4. \A q \in u : Item1.res # "ok" /\ q = taskByRc[k] /\ a = Answer("err", 0)
    OBVIOUS
  <2> HIDE DEF a, p, u
  <2>5. \A q \in u : TransferEvent(q, a)
    BY <2>4, <1>33 DEF TransferEvent
  <2> QED BY <2>2, <2>3, <2>5 DEF EventMoves
<1>34. CASE HandleRows
  BY <1>a, <1>34 DEF HandleRows, transfer
<1>35. CASE HandleFin
  BY <1>a, <1>35 DEF HandleFin, transfer
<1>36. CASE HandleError
  <2>1. Item1.of \in Reqs /\ kind[Item1.of] = "plain"
    BY <1>0, <1>36, FirstSound DEF HandleError, Handling, Item1, Sound
  <2> QED BY <1>a, <2>1, <1>36 DEF HandleError
<1>37. CASE HandleStart
  BY <1>a, <1>37 DEF HandleStart, transfer
<1>38. CASE HandleStatus
  <2>1. CASE TaskOf(Item1.key) = {}
    BY <1>a, <2>1, <1>38 DEF HandleStatus
  <2>2. CASE TaskOf(Item1.key) # {}
    <3>1. PICK r \in TaskOf(Item1.key) :
            FinishTasks({r}, IF Item1.res = "ok" /\ kind[r] = "up" THEN "ok" ELSE "err")
      BY <2>2, <1>38 DEF HandleStatus
    <3> DEFINE a == Answer(IF Item1.res = "ok" /\ kind[r] = "up" THEN "ok" ELSE "err", 0)
    <3>2. r \in tasks /\ ftid[r] = Item1.key
      BY DEF TaskOf
    <3>3. \A q \in Reqs : answers'[q] = answers[q] \/ (q = r /\ answers'[q] = Append(answers[q], a))
      BY <1>0, <3>1 DEF FinishTasks, Tell, TypeOK
    <3>4. TransferEvent(r, a)
      BY <3>2, <1>38 DEF TransferEvent
    <3> QED BY <3>3, <3>4 DEF EventMoves
  <2> QED BY <2>1, <2>2
<1>39. CASE HandleDrop
  <2> DEFINE lost == {permOps[c] : c \in Codes} \ {None}
  <2>1. \A q \in lost : kind'[q] \notin Transfers
    BY <1>0, <1>c, <1>39 DEF OwnerInv, Owned, HandleDrop, asking
  <2>2. \A q \in Reqs : answers'[q] = answers[q] \/ q \in lost
    BY <1>39 DEF HandleDrop, Tell
  <2> HIDE DEF lost
  <2> QED BY <2>1, <2>2 DEF EventMoves
<1>40. ASSUME NEW t \in timers, Fire(t) PROVE EventMoves
  <2> DEFINE l == ftLists[t.code]
  <2>1. CASE l.of = None
    BY <1>a, <2>1, <1>40 DEF Fire
  <2>2. CASE l.of # None
    <3>1. t.code \in Codes
      BY <1>0, <1>40 DEF TypeOK, Timers
    <3>2. kind[l.of] = "list"
      BY <1>0, <2>2, <3>1 DEF OwnerInv, Owned, Listed
    <3>3. \A q \in Reqs : answers'[q] = answers[q] \/ q = l.of
      BY <1>0, <2>2, <1>40 DEF Fire, TypeOK
    <3>4. kind' = kind
      BY <1>40 DEF Fire, asking
    <3> QED BY <1>c, <3>2, <3>3, <3>4 DEF EventMoves
  <2> QED BY <2>1, <2>2
<1>41. CASE UNCHANGED vars
  BY <1>a, <1>41 DEF vars
<1> QED
  BY <1>1, <1>2, <1>3, <1>4, <1>5, <1>6, <1>7, <1>8, <1>9, <1>10, <1>11, <1>12, <1>13,
     <1>14, <1>15, <1>16, <1>17, <1>18, <1>19, <1>20, <1>21, <1>22, <1>23, <1>24,
     <1>25, <1>26, <1>27, <1>28, <1>29, <1>30, <1>31, <1>32, <1>33, <1>34, <1>35,
     <1>36, <1>37, <1>38, <1>39, <1>40, <1>41
  DEF Next, Ask, Execute, Worker, Handle

-----------------------------------------------------------------------------
(* What is known of the transfers stays true. *)

\* A calm step keeps the items that are about tasks, but where the connection is lost.
LEMMA FlowCarried ==
  ASSUME TypeInv, [Next]_vars, FlowSteps PROVE Carries /\ (Retains \/ Drop \/ End)
<1>0. TypeInv' /\ Len(Flow) \in Nat /\ DOMAIN Flow = 1..Len(Flow)
  BY TypeStep, FlowTypes
<1> DEFINE Old(f) ==
      /\ \A i \in DOMAIN Flow' : Tasked(Flow'[i]) => f[i] \in DOMAIN Flow /\ Flow'[i] = Flow[f[i]]
      /\ \A i, j \in DOMAIN Flow' : Tasked(Flow'[i]) /\ Tasked(Flow'[j]) /\ f[i] = f[j] => i = j
<1>a. ASSUME NEW f, Old(f) PROVE Carries
  BY <1>a DEF Carries
<1>b. ASSUME \A i \in DOMAIN Flow' : Tasked(Flow'[i]) => i \in DOMAIN Flow /\ Flow'[i] = Flow[i]
      PROVE  Carries
  <2> DEFINE f == [i \in DOMAIN Flow' |-> i]
  <2>1. Old(f)
    BY <1>b
  <2> QED BY <1>a, <2>1
<1> HIDE DEF Old
<1>1. CASE UNCHANGED <<net, batch>>
  <2>1. Flow' = Flow
    BY <1>1 DEF Flow
  <2> QED BY <1>b, <2>1 DEF Retains
<1>2. ASSUME NEW m \in Sound, m.type = "error", net' = Append(net, m), batch' = batch
      PROVE  Carries /\ Retains
  <2>1. /\ Flow'[Len(Flow) + 1] = m
        /\ \A i \in DOMAIN Flow : i \in DOMAIN Flow' /\ Flow'[i] = Flow[i]
        /\ \A i \in DOMAIN Flow' : i \in DOMAIN Flow \/ i = Len(Flow) + 1
    BY <1>0, <1>2, FlowAdded
  <2>2. ~Tasked(m)
    BY <1>2 DEF Tasked
  <2> QED BY <1>b, <2>1, <2>2 DEF Retains
<1>3. CASE batch # <<>> /\ ~Tasked(Item1) /\ batch' = Tail(batch) /\ net' = net
  <2>1. /\ Item1 = Flow[1] /\ 1 \in DOMAIN Flow /\ DOMAIN Flow' = 1..Len(Flow) - 1
        /\ \A i \in DOMAIN Flow' : i + 1 \in DOMAIN Flow /\ Flow'[i] = Flow[i + 1]
        /\ \A i \in DOMAIN Flow : i = 1 \/ (i - 1 \in DOMAIN Flow' /\ Flow'[i - 1] = Flow[i])
    BY <1>0, <1>3, FlowTaken
  <2> DEFINE f == [i \in DOMAIN Flow' |-> i + 1]
  <2>2. \A i, j \in DOMAIN Flow' : i + 1 = j + 1 => i = j
    BY <1>0, <2>1
  <2>3. Old(f)
    BY <2>1, <2>2 DEF Old
  <2>4. Retains
    BY <1>3, <2>1 DEF Retains
  <2> QED BY <1>a, <2>3, <2>4
<1>4. CASE Drop
  <2>1. /\ batch' = batch
        /\ \A i \in DOMAIN net' : \/ i \in DOMAIN net /\ net'[i] = net[i]
                                  \/ net'[i].type = "drop"
    BY <1>4, Cut
  <2>2. ASSUME NEW i \in DOMAIN Flow', Tasked(Flow'[i]) PROVE i \in DOMAIN Flow /\ Flow'[i] = Flow[i]
    <3>1. CASE i \in DOMAIN batch' /\ Flow'[i] = batch'[i]
      BY <2>1, <3>1, FlowTypes
    <3>2. CASE i - Len(batch') \in DOMAIN net' /\ Flow'[i] = net'[i - Len(batch')]
      <4> DEFINE k == i - Len(batch)
      <4>1. k \in DOMAIN net' /\ Flow'[i] = net'[k]
        BY <2>1, <3>2
      <4>2. k \in DOMAIN net /\ Flow'[i] = net[k]
        BY <2>1, <2>2, <4>1 DEF Tasked
      <4>3. Len(batch) + k = i
        BY <1>0, <2>1, FlowNext
      <4> HIDE DEF k
      <4>4. Len(batch) + k \in DOMAIN Flow /\ Flow[Len(batch) + k] = net[k]
        BY <4>2, FlowTypes
      <4> QED BY <4>2, <4>3, <4>4
    <3> QED BY <1>0, <3>1, <3>2, FlowNext
  <2> QED BY <1>4, <1>b, <2>2
<1>5. CASE End
  <2>1. batch = <<>> /\ batch' = batch /\ net' = <<>>
    BY <1>5 DEF End
  <2>2. Flow' = <<>>
    BY <2>1, Lengths, ConcatEmptySeq DEF Flow
  <2>3. DOMAIN Flow' = {}
    BY <2>2
  <2> QED BY <1>5, <1>b, <2>3
<1>6. ASSUME NEW n \in 1..Len(net), Collect(n) PROVE Carries /\ Retains
  <2>1. /\ DOMAIN Flow' = DOMAIN Flow /\ n \in DOMAIN Flow /\ Flow = net
        /\ \A i \in DOMAIN Flow : Flow'[i] = IF i = n THEN Flow[1] ELSE IF i < n THEN Flow[i + 1] ELSE Flow[i]
    BY <1>0, <1>6, FlowTurned
  <2> DEFINE f == [i \in DOMAIN Flow' |-> IF i = n THEN 1 ELSE IF i < n THEN i + 1 ELSE i]
  <2>2. \A i \in DOMAIN Flow' : f[i] \in DOMAIN Flow /\ Flow'[i] = Flow[f[i]]
    BY <1>0, <2>1
  <2>3. \A i, j \in DOMAIN Flow' : f[i] = f[j] => i = j
    BY <1>0, <2>1
  <2>4. ASSUME NEW i \in DOMAIN Flow PROVE \E j \in DOMAIN Flow' : Flow'[j] = Flow[i]
    <3>1. CASE i = 1
      BY <2>1, <3>1
    <3>2. CASE i > n
      BY <1>0, <2>1, <3>2
    <3>3. CASE i # 1 /\ ~(i > n)
      <4>1. i - 1 \in DOMAIN Flow /\ i - 1 < n /\ (i - 1) + 1 = i
        BY <1>0, <2>1, <3>3
      <4>2. Flow'[i - 1] = Flow[i]
        BY <1>0, <2>1, <4>1
      <4> QED BY <2>1, <4>1, <4>2
    <3> QED BY <3>1, <3>2, <3>3
  <2> HIDE DEF f
  <2>5. Old(f)
    BY <2>2, <2>3 DEF Old
  <2>6. Retains
    BY <2>4 DEF Retains
  <2> QED BY <1>a, <2>5, <2>6
<1> QED BY <1>1, <1>2, <1>3, <1>4, <1>5, <1>6 DEF FlowSteps

\* The requests that have an id keep it, their kind and their connection.
LEMMA IdsKept ==
  ASSUME TypeInv, OwnerInv, Ids, [Next]_vars, NEW q \in Reqs, ftid[q] # Placeholder
  PROVE  kind'[q] = kind[q] /\ kind[q] \in Transfers /\ q \notin InQueue' /\ sentIn'[q] = sentIn[q]
         /\ ftid'[q] = ftid[q] /\ ~Next1(q)
<1>1. kind[q] \in Transfers /\ q \notin InQueue
  BY DEF Ids
<1>2. kind[q] # "none"
  BY <1>1 DEF Transfers
<1>3. kind'[q] = kind[q]
  BY <1>2, HistoryMove DEF HistoryMoves, Fresh
<1>4. q \notin InQueue' /\ ~Next1(q)
  BY <1>1, <1>2, QueueSet, Taken DEF TypeInv
<1>5. sentIn'[q] = sentIn[q]
  BY <1>2, <1>4, HistoryMove DEF HistoryMoves
<1>6. ftid'[q] = ftid[q]
  BY <1>4, TransferMove DEF TransferMoves, SendTransfer, TransferFails, TakeId, TypeInv, TypeOK
<1> QED BY <1>1, <1>3, <1>4, <1>5, <1>6

\* There is an id for every request: fewer are taken than there are.
LEMMA IdFree ==
  ASSUME TypeInv, OwnerInv, Ids, MaxRequests < IdSpace, NEW r \in Reqs, Next1(r)
  PROVE  LET A == {q \in Reqs : ftid[q] # Placeholder} IN
         /\ nextFt # Placeholder /\ (nextFt + 1) % IdSpace = nextFt + 1
         /\ r \notin A /\ IsFiniteSet(A) /\ Cardinality(A) \in Nat /\ nextFt <= Cardinality(A)
<1> DEFINE A == {q \in Reqs : ftid[q] # Placeholder}
<1>0. MaxRequests \in Nat /\ IdSpace \in Nat /\ nextFt \in Nat
  <2>1. nextFt \in 0..IdSpace-1
    BY DEF TypeInv, TypeOK
  <2> QED BY <2>1, RequestsAssumption
<1>1. ftid[r] = Placeholder
  BY Unsent
<1>2. IsFiniteSet(Reqs) /\ Cardinality(Reqs) = MaxRequests
  <2>1. IsFiniteSet(1..MaxRequests) /\ Cardinality(1..MaxRequests) = IF 1 > MaxRequests THEN 0 ELSE MaxRequests - 1 + 1
    BY <1>0, FS_Interval
  <2> QED BY <1>0, <2>1 DEF Reqs
<1>3. IsFiniteSet(Reqs \ {r}) /\ Cardinality(Reqs \ {r}) = MaxRequests - 1
  BY <1>2, FS_RemoveElement
<1>4. IsFiniteSet(A) /\ Cardinality(A) <= MaxRequests - 1 /\ Cardinality(A) \in Nat
  <2>1. A \in SUBSET (Reqs \ {r})
    BY <1>1
  <2> HIDE DEF A
  <2>2. IsFiniteSet(A) /\ Cardinality(A) <= Cardinality(Reqs \ {r})
    BY <1>3, <2>1, FS_Subset
  <2> QED BY <1>3, <2>2, FS_CardinalityType
<1>5. nextFt <= MaxRequests - 1 /\ nextFt <= Cardinality(A)
  BY <1>0, <1>4 DEF Ids
<1>6. nextFt # Placeholder /\ (nextFt + 1) % IdSpace = nextFt + 1
  <2>1. nextFt + 1 < IdSpace /\ nextFt # IdSpace - 1
    BY <1>0, <1>5
  <2>2. (nextFt + 1) % IdSpace = nextFt + 1
    BY <1>0, <2>1
  <2> QED BY <2>1, <2>2 DEF Placeholder
<1> QED BY <1>1, <1>4, <1>5, <1>6

\* An id is given out once.
LEMMA IdsStep ==
  ASSUME TypeInv, OwnerInv, Ids, MaxRequests < IdSpace, [Next]_vars PROVE Ids'
<1>0. TypeOK /\ MaxRequests \in Nat /\ IdSpace \in Nat /\ nextFt \in Nat
      /\ \A q \in Reqs : ftid[q] \in Nat
  BY RequestsAssumption DEF TypeInv, TypeOK
<1>1. CASE UNCHANGED <<ftid, nextFt>>
  BY <1>1, IdsKept DEF Ids
<1>2. ASSUME NEW r \in Reqs, Next1(r), kind[r] \in Transfers, TakeId(r), UNCHANGED kind PROVE Ids'
  <2> DEFINE A == {q \in Reqs : ftid[q] # Placeholder}
  <2>1. ftid[r] = Placeholder /\ r \notin InQueue'
    BY <1>0, <1>2, Taken, Unsent DEF OwnerInv
  <2>4. r \notin A /\ IsFiniteSet(A) /\ Cardinality(A) \in Nat /\ nextFt <= Cardinality(A)
        /\ nextFt # Placeholder /\ (nextFt + 1) % IdSpace = nextFt + 1
    BY <1>2, IdFree
  <2>6. nextFt # Placeholder /\ nextFt' = nextFt + 1
    BY <1>2, <2>4 DEF TakeId
  <2>7. \A q \in Reqs : ftid'[q] = IF q = r THEN nextFt ELSE ftid[q]
    BY <1>0, <1>2 DEF TakeId, TypeOK
  <2>8. {q \in Reqs : ftid'[q] # Placeholder} = A \cup {r}
    BY <2>6, <2>7
  <2>9. Cardinality(A \cup {r}) = Cardinality(A) + 1
    <3> HIDE DEF A
    <3> QED BY <2>4, FS_AddElement
  <2>10. nextFt' <= Cardinality({q \in Reqs : ftid'[q] # Placeholder})
    <3> HIDE DEF A
    <3> QED BY <1>0, <2>4, <2>6, <2>8, <2>9
  <2>11. ASSUME NEW q \in Reqs, ftid'[q] # Placeholder
         PROVE  /\ kind'[q] \in Transfers /\ q \notin InQueue' /\ ftid'[q] < nextFt'
                /\ \A p \in Reqs : ftid'[p] = ftid'[q] => p = q
    <3>1. CASE q = r
      <4>1. ASSUME NEW p \in Reqs, p # r PROVE ftid'[p] # nextFt
        BY <1>0, <2>6, <2>7, <4>1 DEF Ids
      <4> QED BY <1>0, <1>2, <2>1, <2>6, <2>7, <3>1, <4>1
    <3>2. CASE q # r
      <4>1. ftid[q] # Placeholder /\ ftid'[q] = ftid[q]
        BY <2>7, <2>11, <3>2
      <4>2. kind'[q] \in Transfers /\ q \notin InQueue'
        BY <4>1, IdsKept
      <4>3. ftid[q] < nextFt /\ \A p \in Reqs : ftid[p] = ftid[q] => p = q
        BY <4>1 DEF Ids
      <4>4. ftid'[q] < nextFt'
        BY <1>0, <2>6, <4>1, <4>3
      <4>5. ASSUME NEW p \in Reqs, ftid'[p] = ftid'[q] PROVE p = q
        BY <1>0, <2>7, <4>1, <4>3, <4>5
      <4> QED BY <4>2, <4>4, <4>5
    <3> QED BY <3>1, <3>2
  <2> QED BY <2>10, <2>11 DEF Ids
<1>3. ASSUME NEW r \in Reqs, SendTransfer(r) \/ TransferFails(r) PROVE Ids'
  BY <1>2, <1>3 DEF SendTransfer, TransferFails, asking
<1> QED BY <1>1, <1>3, TransferMove DEF TransferMoves

\* What is not answered yet, or is being transferred, has no item under way.
LEMMA NoItem ==
  ASSUME Story, NEW r \in Reqs, did[r] = "none" \/ (did[r] = "ok" /\ worker[r] # "none"),
         NEW i \in DOMAIN Flow, Tasked(Flow[i])
  PROVE  Flow[i].of # r
BY DEF Story, ItemsTrue, ItemTrue, Tasked, Waiting1

\* An item stays true while what it is about stays as it is.
LEMMA ItemKept ==
  ASSUME TypeInv, OwnerInv, Ids, [Next]_vars, NEW m, Tasked(m), ItemTrue(m), did'[m.of] = did[m.of],
         \/ worker[m.of] # "none"
         \/ worker'[m.of] = "none" /\ (m.of \notin opening => m.of \notin opening')
            /\ (NoStart(m.of) => NoStart(m.of)')
  PROVE  ItemTrue(m)'
<1>1. m.of \in Reqs /\ ftid[m.of] # Placeholder
  BY DEF ItemTrue
<1>2. kind'[m.of] = kind[m.of] /\ ftid'[m.of] = ftid[m.of] /\ Placeholder' = Placeholder
  BY <1>1, IdsKept DEF Placeholder
<1>3. CASE worker[m.of] # "none"
  BY <1>1, <1>2, <1>3 DEF ItemTrue, Waiting1, Tasked
<1>4. CASE worker[m.of] = "none"
  BY <1>1, <1>2, <1>4 DEF ItemTrue, Waiting1, Tasked
<1> QED BY <1>3, <1>4

\* What nobody put on the stream is not on it.
LEMMA StartsCarried ==
  ASSUME Carries, NEW r, NoStart(r) PROVE NoStart(r)'
BY DEF Carries, NoStart, Tasked

\* A step that adds no item about a task keeps the items true.
LEMMA ItemsCarried ==
  ASSUME TypeInv, OwnerInv, Ids, Story, [Next]_vars, Carries,
         \A r \in Reqs : ftid[r] # Placeholder =>
           \/ /\ did'[r] = did[r]
              /\ worker[r] # "none" \/ (worker'[r] = "none" /\ (r \notin opening => r \notin opening'))
           \/ \A i \in DOMAIN Flow' : ~(Tasked(Flow'[i]) /\ Flow'[i].of = r)
  PROVE  ItemsTrue' /\ StartsOnce'
<1>1. StartsOnce'
  BY DEF Story, StartsOnce, Carries, Tasked
<1>2. ASSUME NEW i \in DOMAIN Flow', Tasked(Flow'[i]), NEW m, m = Flow'[i] PROVE ItemTrue(m)'
  <2>1. PICK j \in DOMAIN Flow : m = Flow[j] /\ Tasked(m)
    BY <1>2 DEF Carries
  <2>2. ItemTrue(m)
    BY <2>1 DEF Story, ItemsTrue, Tasked
  <2>3. m.of \in Reqs /\ ftid[m.of] # Placeholder
    BY <2>2 DEF ItemTrue
  <2>4. NoStart(m.of) => NoStart(m.of)'
    BY StartsCarried
  <2>5. /\ did'[m.of] = did[m.of]
        /\ worker[m.of] # "none" \/ (worker'[m.of] = "none" /\ (m.of \notin opening => m.of \notin opening'))
    BY <1>2, <2>3
  <2> QED BY <2>1, <2>2, <2>4, <2>5, ItemKept
<1>3. ItemsTrue'
  BY <1>2 DEF ItemsTrue, Tasked
<1> QED BY <1>1, <1>3

\* A step that adds one item about a task.
LEMMA ItemsAdded ==
  ASSUME TypeInv, OwnerInv, Ids, Story, [Next]_vars, NEW m \in Sound, Tasked(m),
         net' = Append(net, m), batch' = batch,
         \A i \in DOMAIN Flow : Tasked(Flow[i]) => Flow[i].of # m.of,
         ItemTrue(m)',
         \A r \in Reqs : r # m.of => did'[r] = did[r] /\ worker'[r] = worker[r] /\ (r \notin opening => r \notin opening')
  PROVE  /\ ItemsTrue' /\ StartsOnce' /\ Retains
         /\ \A r \in Reqs : r # m.of /\ NoStart(r) => NoStart(r)'
<1>0. TypeInv'
  BY TypeStep
<1>1. /\ Len(Flow) + 1 \in DOMAIN Flow' /\ Flow'[Len(Flow) + 1] = m
      /\ \A i \in DOMAIN Flow : i \in DOMAIN Flow' /\ Flow'[i] = Flow[i]
      /\ \A i \in DOMAIN Flow' : i \in DOMAIN Flow \/ i = Len(Flow) + 1
  BY <1>0, FlowAdded
<1>2. StartsOnce' /\ Retains
  BY <1>1 DEF Story, StartsOnce, Retains, Tasked
<1>3. \A r \in Reqs : r # m.of /\ NoStart(r) => NoStart(r)'
  BY <1>1 DEF NoStart
<1>4. ASSUME NEW i \in DOMAIN Flow', Tasked(Flow'[i]), NEW n, n = Flow'[i] PROVE ItemTrue(n)'
  <2>1. CASE i = Len(Flow) + 1
    BY <1>1, <1>4, <2>1
  <2>2. CASE i \in DOMAIN Flow
    <3>1. n = Flow[i] /\ Tasked(n) /\ n.of # m.of
      BY <1>1, <1>4, <2>2
    <3>2. ItemTrue(n) /\ n.of \in Reqs
      BY <2>2, <3>1 DEF Story, ItemsTrue, Tasked, ItemTrue
    <3>3. worker'[n.of] \in {"none"} \/ worker[n.of] # "none"
      BY <3>1, <3>2
    <3> QED BY <1>3, <3>1, <3>2, <3>3, ItemKept
  <2> QED BY <1>1, <2>1, <2>2
<1>5. ItemsTrue'
  BY <1>4 DEF ItemsTrue, Tasked
<1> QED BY <1>2, <1>3, <1>5

\* The connection of a request that is up was up.
LEMMA HereKept ==
  ASSUME TypeInv, OwnerInv, Phases, Below, Ids, [Next]_vars, NEW r \in Reqs, ftid[r] # Placeholder,
         link' = "up", sentIn'[r] = conn'
  PROVE  link = "up" /\ sentIn[r] = conn /\ ~Drop /\ ~End
<1>0. conn \in Conns
  BY DEF TypeInv, TypeOK
<1>1. sentIn'[r] = sentIn[r] /\ sentIn[r] \in 0..conn /\ conn \in Nat
  BY <1>0, IdsKept DEF Below, Conns
<1>2. conn' = conn /\ sentIn[r] = conn
  <2>1. ~Anew
    BY <1>1 DEF Anew
  <2> QED BY <1>1, <2>1, ConnStep DEF Same
<1>3. link = "up"
  <2>0. WireMoves
    BY WireMove
  <2>1. CASE Grows \/ Handles
    BY <2>1 DEF Grows, Handles
  <2>2. CASE ServerAnswers \/ Drop \/ End
    BY <2>2 DEF ServerAnswers, Drop, End
  <2>3. CASE Reconnect \/ Connect
    BY <1>1, <1>2, <2>3 DEF Reconnect, Connect
  <2>4. CASE \E q \in Reqs : Sends(q)
    BY <2>4 DEF Sends, Sent
  <2>5. CASE \E n \in 1..Len(net) : Collect(n)
    BY <2>5 DEF Collect
  <2>6. CASE UNCHANGED <<link, conn, code, srv, net, batch>>
    BY <2>6
  <2> QED BY <2>0, <2>1, <2>2, <2>3, <2>4, <2>5, <2>6 DEF WireMoves
<1> QED BY <1>2, <1>3 DEF Drop, End

\* A status stays under way.
LEMMA StatusKept ==
  ASSUME Retains, NEW r, StatusFlows(r) PROVE StatusFlows(r)'
BY DEF Retains, StatusFlows, Tasked

\* Nothing changes for a worker that rests.
LEMMA WorkersKept ==
  ASSUME TypeInv, OwnerInv, Phases, Below, Ids, Story, [Next]_vars, NEW r \in Reqs,
         worker'[r] = worker[r], did'[r] = did[r] \/ did[r] = "none", did'[r] # "all" \/ did[r] = "all",
         r \in tasks' => r \in tasks \/ kind[r] = "none",
         r \in tasks' => Drop \/ End \/ (StatusFlows(r) => StatusFlows(r)')
  PROVE  WorkerTrue(r)'
<1>1. CASE worker[r] = "none"
  BY <1>1 DEF Story, WorkersTrue, WorkerTrue
<1>2. CASE worker[r] # "none"
  <2>1. did[r] \in {"ok", "err", "all"} /\ ftid[r] # Placeholder
    BY <1>2 DEF Story, WorkersTrue, WorkerTrue
  <2>2. did'[r] = did[r] /\ kind'[r] = kind[r] /\ kind[r] \in Transfers /\ ftid'[r] = ftid[r] /\ Placeholder' = Placeholder
    BY <2>1, IdsKept DEF Placeholder
  <2>3. ASSUME did'[r] = "err", worker'[r] \in {"running", "grace"}, r \in tasks', link' = "up", sentIn'[r] = conn'
        PROVE StatusFlows(r)'
    <3>1. link = "up" /\ sentIn[r] = conn /\ ~Drop /\ ~End
      BY <2>1, <2>3, HereKept
    <3>2. r \in tasks
      BY <2>2, <2>3 DEF Transfers
    <3>3. StatusFlows(r)
      BY <2>2, <2>3, <3>1, <3>2 DEF Story, WorkersTrue, WorkerTrue
    <3> QED BY <2>3, <3>1, <3>3
  <2> QED BY <2>1, <2>2, <2>3 DEF Story, WorkersTrue, WorkerTrue
<1> QED BY <1>1, <1>2

\* The story goes on when nothing new is told of a task, but that its stream is opened.
LEMMA StoryQuiet ==
  ASSUME TypeInv, OwnerInv, Ids, Story, [Next]_vars, Carries,
         \A r \in Reqs : ftid[r] # Placeholder =>
           \/ /\ did'[r] = did[r]
              /\ worker[r] # "none" \/ (worker'[r] = "none" /\ (r \notin opening => r \notin opening'))
           \/ \A i \in DOMAIN Flow' : ~(Tasked(Flow'[i]) /\ Flow'[i].of = r),
         \A r \in opening' : (r \in opening /\ did'[r] = did[r] /\ worker'[r] = worker[r])
                             \/ (Waiting1(r)' /\ NoStart(r)'),
         \A r \in Reqs : WorkerTrue(r)'
  PROVE  Story'
<1>1. ItemsTrue' /\ StartsOnce'
  BY ItemsCarried
<1>2. ASSUME NEW r \in opening', r \in opening, did'[r] = did[r], worker'[r] = worker[r]
      PROVE  Waiting1(r)' /\ NoStart(r)'
  <2>1. r \in Reqs /\ Waiting1(r) /\ NoStart(r)
    BY <1>2 DEF Story, Opening, TypeInv, TypeOK
  <2>2. ftid'[r] = ftid[r] /\ Placeholder' = Placeholder
    BY <2>1, IdsKept DEF Waiting1, Placeholder
  <2> QED BY <1>2, <2>1, <2>2, StartsCarried DEF Waiting1
<1>3. Opening'
  BY <1>2 DEF Opening
<1>4. WorkersTrue'
  BY DEF WorkersTrue
<1> QED BY <1>1, <1>3, <1>4 DEF Story

\* A step that neither the server, the streams nor the workers take.
LEMMA StoryCalm ==
  ASSUME TypeInv, OwnerInv, Phases, Below, Ids, Story, [Next]_vars, Calm PROVE Story'
<1>1. Carries /\ (Retains \/ Drop \/ End)
  BY FlowCarried DEF Calm
<1>2. /\ worker' = worker /\ did' = did /\ \A r \in opening' : r \in opening
      /\ \A r \in tasks' : r \in tasks \/ kind[r] = "none"
  BY DEF Calm
<1>3. ASSUME NEW r \in Reqs PROVE WorkerTrue(r)'
  BY <1>1, <1>2, StatusKept, WorkersKept
<1> QED BY <1>1, <1>2, <1>3, StoryQuiet

\* A worker that acts has been started, so its stream is not being opened.
LEMMA Started ==
  ASSUME Story, NEW r \in Reqs, worker[r] # "none"
  PROVE  r \notin opening /\ ftid[r] # Placeholder /\ did[r] \in {"ok", "err", "all"}
BY DEF Story, Opening, Waiting1, WorkersTrue, WorkerTrue

\* A worker acts: its own clauses are what remains to be seen.
LEMMA StoryWorker ==
  ASSUME TypeInv, OwnerInv, Phases, Below, Ids, Story, [Next]_vars, NEW r \in Reqs,
         UNCHANGED <<net, batch, opening>>, worker[r] # "none",
         \A q \in Reqs : q # r => worker'[q] = worker[q] /\ did'[q] = did[q],
         \A q \in tasks' : q \in tasks,
         did'[r] = did[r] \/ (did[r] = "ok" /\ did'[r] # "none"), WorkerTrue(r)'
  PROVE  Story'
<1>1. Flow' = Flow
  BY DEF Flow
<1>2. FlowSteps
  BY DEF FlowSteps
<1>3. Carries
  BY <1>2, FlowCarried
<1>4. ASSUME NEW q \in Reqs, q # r PROVE WorkerTrue(q)'
  <2>1. StatusFlows(q) => StatusFlows(q)'
    BY <1>1 DEF StatusFlows
  <2> QED BY <1>4, <2>1, WorkersKept
<1>5. did'[r] # did[r] => \A i \in DOMAIN Flow' : ~(Tasked(Flow'[i]) /\ Flow'[i].of = r)
  BY <1>1, NoItem
<1>6. \A q \in opening' : q \in opening /\ q \in Reqs /\ q # r
  BY Started DEF TypeInv, TypeOK
<1>7. \A q \in Reqs :
           \/ /\ did'[q] = did[q]
              /\ worker[q] # "none" \/ (worker'[q] = "none" /\ (q \notin opening => q \notin opening'))
           \/ \A i \in DOMAIN Flow' : ~(Tasked(Flow'[i]) /\ Flow'[i].of = q)
  BY <1>5
<1> QED BY <1>3, <1>4, <1>6, <1>7, StoryQuiet

\* Cancelling, the end of the grace period, of a download, and of the bytes.
LEMMA StoryWorkers ==
  ASSUME TypeInv, OwnerInv, Phases, Below, Ids, Story, [Next]_vars, NEW r \in Reqs, Worker(r)
  PROVE  Story'
<1>0. TypeOK /\ Placeholder' = Placeholder
  BY DEF TypeInv, Placeholder
<1>1. CASE WorkerCancels(r)
  <2>1. worker[r] # "none" /\ worker'[r] = "over" /\ did' = did /\ ftid' = ftid
    BY <1>0, <1>1 DEF WorkerCancels, history, TypeOK
  <2>2. WorkerTrue(r)'
    BY <1>0, <2>1, Started DEF WorkerTrue
  <2> QED BY <1>0, <1>1, <2>1, <2>2, StoryWorker DEF WorkerCancels, FinishTasks, history, wire, TypeOK
<1>2. CASE GraceEnds(r)
  <2>1. worker[r] # "none" /\ worker'[r] = "over" /\ did' = did /\ ftid' = ftid
    BY <1>0, <1>2 DEF GraceEnds, history, TypeOK
  <2>2. WorkerTrue(r)'
    BY <1>0, <2>1, Started DEF WorkerTrue
  <2> QED BY <1>0, <1>2, <2>1, <2>2, StoryWorker DEF GraceEnds, FinishTasks, history, wire, TypeOK
<1>3. ASSUME NEW whole \in BOOLEAN, DownloadEnds(r, whole) PROVE Story'
  <2>1. /\ worker[r] # "none" /\ worker'[r] = "over" /\ ftid' = ftid
        /\ did'[r] = did[r] \/ (did[r] = "ok" /\ did'[r] = "all")
        /\ \A q \in Reqs : q # r => did'[q] = did[q]
    BY <1>0, <1>3 DEF DownloadEnds, TypeOK
  <2>2. WorkerTrue(r)'
    BY <1>0, <2>1, Started DEF WorkerTrue
  <2> QED BY <1>0, <1>3, <2>1, <2>2, StoryWorker DEF DownloadEnds, FinishTasks, wire, TypeOK
<1>4. ASSUME NEW whole \in BOOLEAN, UploadSent(r, whole) PROVE Story'
  <2>1. /\ worker[r] = "running" /\ worker'[r] \in {"over", "grace"} /\ did' = did /\ UNCHANGED <<ftid, kind>>
        /\ UNCHANGED <<net, batch, opening, link, conn, sentIn>> /\ kind[r] = "up"
        /\ \A q \in tasks' : q \in tasks
    BY <1>0, <1>4 DEF UploadSent, FinishTasks, asking, wire, history, TypeOK
  <2>2. WorkerTrue(r)'
    <3>1. StatusFlows(r)' <=> StatusFlows(r)
      BY <2>1 DEF StatusFlows, Flow
    <3>2. WorkerTrue(r) /\ did[r] # "all"
      BY <2>1 DEF Story, WorkersTrue, WorkerTrue
    <3> QED BY <1>0, <2>1, <3>1, <3>2 DEF WorkerTrue
  <2> QED BY <1>0, <1>4, <2>1, <2>2, StoryWorker DEF UploadSent, TypeOK
<1> QED BY <1>1, <1>2, <1>3, <1>4 DEF Worker

\* What the server answers is not about a task.
LEMMA ServerCarries ==
  ASSUME TypeInv, TypeInv', ServerAnswers PROVE Carries /\ Retains
<1> DEFINE q == Head(srv)
<1>0. q.of \in Reqs /\ q.code \in Codes /\ batch' = batch
  BY Asked DEF TypeInv, ServerAnswers
<1>1. PICK res \in {"ok", "err", "empty"}, n \in Nat : net' = net \/ net' = net \o Reply(q, res, n)
  <2>1. \A k \in 0..MaxFrames : k \in Nat
    BY RequestsAssumption
  <2> QED BY <2>1 DEF ServerAnswers
<1>2. CASE net' = net
  <2>1. Flow' = Flow
    BY <1>0, <1>2 DEF Flow
  <2> DEFINE f == [i \in DOMAIN Flow' |-> i]
  <2>2. \A i \in DOMAIN Flow' : f[i] = i
    OBVIOUS
  <2> HIDE DEF f
  <2> QED BY <2>1, <2>2 DEF Carries, Retains
<1>3. CASE net' = net \o Reply(q, res, n)
  <2> DEFINE S == {m \in Sound : ~Tasked(m)}
             s == Reply(q, res, n)
  <2>1. q.code \in Nat /\ dir[q.of] \in Nat
    <3>1. dir[q.of] \in Dirs
      BY <1>0 DEF TypeInv, TypeOK
    <3>2. Dirs \subseteq Nat /\ \A c \in Codes : c \in Nat
      BY RequestsAssumption DEF Codes
    <3> HIDE DEF q
    <3> QED BY <1>0, <3>1, <3>2
  <2>2. /\ Item("result", q.code, res, q.of) \in Sound
        /\ Item("rows", q.code, "ok", q.of) \in Sound
        /\ Item("fin", dir[q.of], "ok", q.of) \in Sound
    BY <1>0, <2>1, ItemSound
  <2>3. /\ Item("result", q.code, res, q.of) \in S
        /\ Item("rows", q.code, "ok", q.of) \in S
        /\ Item("fin", dir[q.of], "ok", q.of) \in S
    BY <2>2 DEF Item, Tasked
  <2> HIDE DEF S
  <2>4. s \in Seq(S)
    BY <2>3, ReplyIn
  <2> HIDE DEF s, q
  <2>5. \A i \in 1..Len(s) : ~Tasked(s[i])
    BY <2>4, ElementOfSeq DEF S
  <2>6. s \in Seq(Sound) /\ net' = net \o s
    BY <1>3, <2>4, SeqMonotonic DEF S, s
  <2>7. /\ \A i \in DOMAIN Flow : i \in DOMAIN Flow' /\ Flow'[i] = Flow[i]
        /\ \A j \in 1..Len(s) : Flow'[Len(Flow) + j] = s[j]
        /\ \A i \in DOMAIN Flow' : i \in DOMAIN Flow \/ \E j \in 1..Len(s) : i = Len(Flow) + j
    BY <1>0, <2>6, FlowGrown
  <2>8. \A i \in DOMAIN Flow' : Tasked(Flow'[i]) => i \in DOMAIN Flow
    BY <2>5, <2>7
  <2> DEFINE f == [i \in DOMAIN Flow' |-> i]
  <2>9. \A i \in DOMAIN Flow' : f[i] = i
    OBVIOUS
  <2> HIDE DEF f
  <2> QED BY <2>7, <2>8, <2>9 DEF Carries, Retains
<1> QED BY <1>1, <1>2, <1>3

\* The server accepts a transfer that has an id, and nobody has told of it.
LEMMA StoryAnswers ==
  ASSUME TypeInv, OwnerInv, Phases, Below, WireInv, Ids, Story, CodesTrue, [Next]_vars, ServerAnswers
  PROVE  Story'
<1>0. /\ Carries /\ Retains /\ worker' = worker /\ tasks' = tasks /\ ftid' = ftid
      /\ kind' = kind /\ Placeholder' = Placeholder /\ TypeOK
  BY TypeStep, ServerCarries DEF ServerAnswers, transfer, asking, TypeInv, Placeholder
<1>1. PICK q \in Commands : q = Head(srv) /\ q.of \in Reqs
  <2>1. srv # <<>> /\ srv \in Seq([of: Reqs, code: Codes])
    BY <1>0 DEF ServerAnswers, TypeOK
  <2>2. Head(srv) = srv[1] /\ 1 \in DOMAIN srv
    BY <2>1, HeadTailProperties, LenProperties, EmptySeq
  <2> QED BY <2>2, Asked DEF Commands, TypeInv, ServerAnswers
<1> DEFINE r == q.of
<1>2. r \in Reqs /\ did[r] = "none" /\ (kind[r] \in Transfers => ftid[r] # Placeholder)
  BY <1>1 DEF WireInv, CommandOK, CodesTrue
<1>3. worker[r] = "none"
  BY <1>2 DEF Story, WorkersTrue, WorkerTrue
<1>4. /\ did'[r] \in {"ok", "err", "empty"} /\ \A p \in Reqs : p # r => did'[p] = did[p]
      /\ \/ opening' = opening
         \/ opening' = opening \cup {r} /\ did'[r] = "ok" /\ kind[r] \in Transfers
  BY <1>0, <1>1 DEF ServerAnswers, TypeOK
<1> HIDE DEF r
<1>5. \A i \in DOMAIN Flow' : ~(Tasked(Flow'[i]) /\ Flow'[i].of = r)
  BY <1>0, <1>2, NoItem DEF Carries
<1>6. NoStart(r)'
  BY <1>5 DEF NoStart, Tasked
<1>7. ASSUME NEW p \in opening' PROVE (p \in opening /\ did'[p] = did[p] /\ worker'[p] = worker[p]) \/ (Waiting1(p)' /\ NoStart(p)')
  <2>1. CASE p # r
    BY <1>0, <1>4, <1>7, <2>1 DEF TypeOK
  <2>2. CASE p = r
    <3>1. r \notin opening
      BY <1>2 DEF Story, Opening, Waiting1
    <3> QED BY <1>0, <1>2, <1>3, <1>4, <1>6, <1>7, <2>2, <3>1 DEF Waiting1
  <2> QED BY <2>1, <2>2
<1>8. \A p \in Reqs : StatusFlows(p) => StatusFlows(p)'
  BY <1>0, StatusKept
<1>9. ASSUME NEW p \in Reqs PROVE WorkerTrue(p)'
  <2>1. did'[p] = did[p] \/ did[p] = "none"
    BY <1>2, <1>4
  <2>2. did'[p] # "all" \/ did[p] = "all"
    BY <1>4
  <2> QED BY <1>0, <1>8, <2>1, <2>2, WorkersKept
<1>10. \A p \in Reqs :
           \/ /\ did'[p] = did[p]
              /\ worker[p] # "none" \/ (worker'[p] = "none" /\ (p \notin opening => p \notin opening'))
           \/ \A i \in DOMAIN Flow' : ~(Tasked(Flow'[i]) /\ Flow'[i].of = p)
  BY <1>0, <1>4, <1>5
<1> QED BY <1>0, <1>7, <1>9, <1>10, StoryQuiet

\* A stream is opened, or could not be: the first thing told of that task.
LEMMA StoryOpened ==
  ASSUME TypeInv, OwnerInv, Phases, Below, Ids, Story, [Next]_vars, NEW r \in Reqs, NEW ok \in BOOLEAN, Opened(r, ok)
  PROVE  Story'
<1> DEFINE d == IF ok THEN Item("start", ftid[r], "ok", r) ELSE Item("status", ftid[r], "err", r)
<1>0. /\ net' = Append(net, d) /\ batch' = batch /\ opening' = opening \ {r} /\ r \in opening
      /\ did' = did /\ worker' = worker /\ tasks' = tasks /\ ftid' = ftid /\ kind' = kind
      /\ Placeholder' = Placeholder /\ TypeInv' /\ TypeOK
  BY TypeStep DEF Opened, transfer, history, asking, TypeInv, Placeholder
<1>1. Waiting1(r) /\ NoStart(r)
  BY <1>0 DEF Story, Opening
<1>2. PICK m \in Sound : m = d /\ Tasked(m) /\ m.of = r /\ m.key = ftid[r] /\ (m.type = "status" => m.res = "err")
  <2>1. ftid[r] \in Nat
    BY <1>0, RequestsAssumption DEF TypeOK
  <2>2. Item("start", ftid[r], "ok", r) \in Sound /\ Item("status", ftid[r], "err", r) \in Sound
    BY <2>1, ItemSound
  <2> QED BY <2>2 DEF Item, Tasked
<1> HIDE DEF d
<1>a. net' = Append(net, m)
  BY <1>0, <1>2
<1>3. \A i \in DOMAIN Flow : Tasked(Flow[i]) => Flow[i].of # r
  BY <1>0, <1>1 DEF Story, ItemsTrue, ItemTrue, Tasked, NoStart, Waiting1
<1>4. m.type # "start" => NoStart(r)'
  <2>1. /\ Flow'[Len(Flow) + 1] = m
        /\ \A i \in DOMAIN Flow : i \in DOMAIN Flow' /\ Flow'[i] = Flow[i]
        /\ \A i \in DOMAIN Flow' : i \in DOMAIN Flow \/ i = Len(Flow) + 1
    BY <1>0, <1>2, <1>a, FlowAdded
  <2> QED BY <1>1, <2>1 DEF NoStart
<1>5. Waiting1(r)'
  BY <1>0, <1>1 DEF Waiting1
<1>6. ItemTrue(m)'
  BY <1>0, <1>1, <1>2, <1>4, <1>5 DEF ItemTrue, Waiting1
<1>7. /\ ItemsTrue' /\ StartsOnce' /\ Retains
      /\ \A q \in Reqs : q # m.of /\ NoStart(q) => NoStart(q)'
  BY <1>0, <1>2, <1>3, <1>6, <1>a, ItemsAdded
<1>8. Opening'
  <2>1. ASSUME NEW q \in opening' PROVE Waiting1(q)' /\ NoStart(q)'
    <3>1. q \in opening /\ q \in Reqs /\ q # r
      BY <1>0, <2>1 DEF TypeOK
    <3>2. Waiting1(q) /\ NoStart(q)
      BY <3>1 DEF Story, Opening
    <3> QED BY <1>0, <1>2, <1>7, <3>1, <3>2 DEF Waiting1
  <2> QED BY <2>1 DEF Opening
<1>9. WorkersTrue'
  <2>1. ASSUME NEW q \in Reqs PROVE WorkerTrue(q)'
    <3>1. StatusFlows(q) => StatusFlows(q)'
      BY <1>7, StatusKept
    <3> QED BY <1>0, <3>1, WorkersKept
  <2> QED BY <2>1 DEF WorkersTrue
<1> QED BY <1>7, <1>8, <1>9 DEF Story

\* The server reports the end of an upload, or a failure, once.
LEMMA StoryStatus ==
  ASSUME TypeInv, OwnerInv, Phases, Below, WireInv, Ids, Story, [Next]_vars, "status" \notin Faults,
         NEW r \in Reqs, NEW res \in {"ok", "err"}, ServerStatus(r, res)
  PROVE  Story'
<1> DEFINE d == Item("status", ftid[r], res, r)
<1>0. /\ net' = Append(net, d) /\ batch' = batch /\ opening' = opening /\ did[r] = "ok"
      /\ worker' = worker /\ tasks' = tasks /\ ftid' = ftid /\ kind' = kind /\ worker[r] \in {"running", "grace"}
      /\ Placeholder' = Placeholder /\ TypeInv' /\ TypeOK
      /\ res = "ok" => kind[r] = "up" /\ worker[r] = "grace"
  BY TypeStep DEF ServerStatus, transfer, history, asking, TypeInv, Placeholder
<1>1. /\ did'[r] = (IF res = "ok" THEN "all" ELSE "err")
      /\ \A q \in Reqs : q # r => did'[q] = did[q]
  BY <1>0 DEF ServerStatus, TypeOK
<1>2. PICK m \in Sound : m = d /\ Tasked(m) /\ m.of = r /\ m.key = ftid[r] /\ m.type = "status" /\ m.res = res
  <2>1. ftid[r] \in Nat
    BY <1>0, RequestsAssumption DEF TypeOK
  <2>2. Item("status", ftid[r], res, r) \in Sound
    BY <2>1, ItemSound
  <2> QED BY <2>2 DEF Item, Tasked
<1> HIDE DEF d
<1>a. net' = Append(net, m)
  BY <1>0, <1>2
<1>3. r \notin opening /\ ftid[r] # Placeholder
  BY <1>0, Started
<1>4. \A i \in DOMAIN Flow : Tasked(Flow[i]) => Flow[i].of # r
  BY <1>0, NoItem
<1>5. ItemTrue(m)'
  BY <1>0, <1>1, <1>2, <1>3 DEF ItemTrue
<1>6. /\ ItemsTrue' /\ StartsOnce' /\ Retains
      /\ \A q \in Reqs : q # m.of /\ NoStart(q) => NoStart(q)'
  BY <1>0, <1>1, <1>2, <1>4, <1>5, <1>a, ItemsAdded
<1>7. Opening'
  <2>1. ASSUME NEW q \in opening' PROVE Waiting1(q)' /\ NoStart(q)'
    <3>1. q \in opening /\ q \in Reqs /\ q # r
      BY <1>0, <1>3, <2>1 DEF TypeOK
    <3>2. Waiting1(q) /\ NoStart(q)
      BY <3>1 DEF Story, Opening
    <3> QED BY <1>0, <1>1, <1>2, <1>6, <3>1, <3>2 DEF Waiting1
  <2> QED BY <2>1 DEF Opening
<1>8. ASSUME NEW q \in Reqs, q # r PROVE WorkerTrue(q)'
  <2>1. StatusFlows(q) => StatusFlows(q)'
    BY <1>6, StatusKept
  <2> QED BY <1>0, <1>1, <1>8, <2>1, WorkersKept
<1>9. StatusFlows(r)'
  <2>1. Len(Flow) + 1 \in DOMAIN Flow' /\ Flow'[Len(Flow) + 1] = m
    BY <1>0, <1>2, <1>a, FlowAdded
  <2> QED BY <1>2, <2>1 DEF StatusFlows
<1>10. WorkerTrue(r)'
  <2>1. worker[r] = "grace" => kind[r] = "up"
    BY DEF Story, WorkersTrue, WorkerTrue
  <2> QED BY <1>0, <1>1, <1>3, <1>9, <2>1 DEF WorkerTrue
<1> QED BY <1>6, <1>7, <1>8, <1>10 DEF Story, WorkersTrue

\* The item that is handled is true; the others move up by one.
LEMMA TaskTaken ==
  ASSUME TypeInv, TypeInv', Ids, Story, batch # <<>>, batch' = Tail(batch), net' = net, Tasked(Item1)
  PROVE  /\ Carries /\ ItemTrue(Item1) /\ TaskOf(Item1.key) \subseteq {Item1.of}
         /\ \A q \in tasks : q = Item1.of => q \in TaskOf(Item1.key)
         /\ \A i \in DOMAIN Flow' : \E j \in DOMAIN Flow : j # 1 /\ Flow'[i] = Flow[j]
         /\ \A q \in Reqs : StatusFlows(q) => StatusFlows(q)' \/ (Item1.type = "status" /\ Item1.of = q)
         /\ Item1 = Flow[1] /\ 1 \in DOMAIN Flow
<1>1. /\ Item1 = Flow[1] /\ 1 \in DOMAIN Flow /\ DOMAIN Flow' = 1..Len(Flow) - 1 /\ Item1 \in Sound
      /\ \A i \in DOMAIN Flow' : i + 1 \in DOMAIN Flow /\ Flow'[i] = Flow[i + 1]
      /\ \A i \in DOMAIN Flow : i = 1 \/ (i - 1 \in DOMAIN Flow' /\ Flow'[i - 1] = Flow[i])
  BY FlowTaken
<1>2. ItemTrue(Item1)
  BY <1>1 DEF Story, ItemsTrue, Tasked
<1>3. TaskOf(Item1.key) \subseteq {Item1.of} /\ \A q \in tasks : q = Item1.of => q \in TaskOf(Item1.key)
  BY <1>2 DEF TaskOf, ItemTrue, Ids, TypeInv, TypeOK
<1>4. Len(Flow) \in Nat
  BY FlowTypes
<1>5. \A i \in 1..Len(Flow) - 1 : i + 1 # 1 /\ \A j \in 1..Len(Flow) - 1 : i + 1 = j + 1 => i = j
  BY <1>4
<1> DEFINE f == [i \in DOMAIN Flow' |-> i + 1]
<1>6. \A i \in DOMAIN Flow' : f[i] = i + 1
  OBVIOUS
<1> HIDE DEF f
<1>7. Carries
  <2>1. \A i \in DOMAIN Flow' : f[i] \in DOMAIN Flow /\ Flow'[i] = Flow[f[i]]
    BY <1>1, <1>6
  <2>2. \A i, j \in DOMAIN Flow' : f[i] = f[j] => i = j
    BY <1>1, <1>5, <1>6
  <2> QED BY <2>1, <2>2 DEF Carries
<1>8. \A i \in DOMAIN Flow' : \E j \in DOMAIN Flow : j # 1 /\ Flow'[i] = Flow[j]
  BY <1>1, <1>5
<1>9. \A q \in Reqs : StatusFlows(q) => StatusFlows(q)' \/ (Item1.type = "status" /\ Item1.of = q)
  BY <1>1 DEF StatusFlows
<1> QED BY <1>1, <1>2, <1>3, <1>7, <1>8, <1>9

\* The worker of the task that is announced starts, and nothing else is told of it.
LEMMA StoryStart ==
  ASSUME TypeInv, OwnerInv, Phases, Below, Ids, Story, [Next]_vars, HandleStart PROVE Story'
<1>0. /\ did' = did /\ opening' = opening /\ tasks' = tasks /\ ftid' = ftid /\ kind' = kind
      /\ TypeOK /\ TypeInv' /\ Placeholder' = Placeholder /\ Item1.type = "start"
      /\ batch # <<>> /\ batch' = Tail(batch) /\ net' = net
  BY TypeStep DEF HandleStart, Handled, Handling, Item1, TypeInv, Placeholder, history, asking
<1>a. Tasked(Item1)
  BY <1>0 DEF Tasked
<1>1. /\ Carries /\ ItemTrue(Item1) /\ TaskOf(Item1.key) \subseteq {Item1.of}
      /\ \A i \in DOMAIN Flow' : \E j \in DOMAIN Flow : j # 1 /\ Flow'[i] = Flow[j]
      /\ \A q \in Reqs : StatusFlows(q) => StatusFlows(q)' \/ (Item1.type = "status" /\ Item1.of = q)
      /\ Item1 = Flow[1] /\ 1 \in DOMAIN Flow
  BY <1>0, <1>a, TaskTaken
<1>2. PICK r \in Reqs : r = Item1.of /\ ftid[r] # Placeholder /\ Waiting1(r) /\ r \notin opening
  BY <1>0, <1>1 DEF ItemTrue
<1>3. worker'[r] \in {worker[r], "running"} /\ \A q \in Reqs : q # r => worker'[q] = worker[q]
  BY <1>0, <1>1, <1>2 DEF HandleStart, TypeOK
<1>4. ASSUME NEW i \in DOMAIN Flow', Tasked(Flow'[i]), Flow'[i].of = r PROVE FALSE
  <2>1. PICK j \in DOMAIN Flow : j # 1 /\ Flow'[i] = Flow[j]
    BY <1>1
  <2>2. ItemTrue(Flow[j])
    BY <1>4, <2>1 DEF Story, ItemsTrue, Tasked
  <2>3. Flow[j].type # "start"
    BY <1>0, <1>1, <1>2, <1>4, <2>1 DEF Story, StartsOnce
  <2>4. ~NoStart(r)
    BY <1>0, <1>1, <1>2 DEF NoStart
  <2> QED BY <1>2, <1>4, <2>1, <2>2, <2>3, <2>4 DEF ItemTrue, Tasked, Waiting1
<1>5. ASSUME NEW q \in Reqs PROVE WorkerTrue(q)'
  <2>1. CASE q = r
    BY <1>0, <1>2, <1>3, <2>1 DEF WorkerTrue, Waiting1
  <2>2. CASE q # r
    BY <1>0, <1>1, <1>3, <2>2, WorkersKept
  <2> QED BY <2>1, <2>2
<1>6. \A q \in opening' : q \in opening /\ q \in Reqs /\ q # r
  BY <1>0, <1>2 DEF TypeOK
<1>7. \A q \in Reqs :
           \/ /\ did'[q] = did[q]
              /\ worker[q] # "none" \/ (worker'[q] = "none" /\ (q \notin opening => q \notin opening'))
           \/ \A i \in DOMAIN Flow' : ~(Tasked(Flow'[i]) /\ Flow'[i].of = q)
  BY <1>0, <1>3, <1>4
<1> QED BY <1>0, <1>1, <1>3, <1>5, <1>6, <1>7, StoryQuiet

\* The status that is handled ends the task it tells of.
LEMMA StoryTold ==
  ASSUME TypeInv, OwnerInv, Phases, Below, Ids, Story, [Next]_vars, HandleStatus PROVE Story'
<1>0. /\ did' = did /\ opening' = opening /\ worker' = worker
      /\ TypeOK /\ TypeInv' /\ Item1.type = "status"
      /\ batch # <<>> /\ batch' = Tail(batch) /\ net' = net
  BY TypeStep DEF HandleStatus, Handled, Handling, Item1, TypeInv, history
<1>a. Tasked(Item1)
  BY <1>0 DEF Tasked
<1>1. /\ Carries /\ TaskOf(Item1.key) \subseteq {Item1.of}
      /\ \A q \in tasks : q = Item1.of => q \in TaskOf(Item1.key)
      /\ \A q \in Reqs : StatusFlows(q) => StatusFlows(q)' \/ (Item1.type = "status" /\ Item1.of = q)
  BY <1>0, <1>a, TaskTaken
<1>2. \A q \in tasks' : q \in tasks /\ q # Item1.of
  BY <1>1 DEF HandleStatus, FinishTasks
<1>3. ASSUME NEW q \in Reqs PROVE WorkerTrue(q)'
  BY <1>0, <1>1, <1>2, WorkersKept
<1>4. \A q \in opening' : q \in opening /\ q \in Reqs
  BY <1>0 DEF TypeOK
<1>5. \A q \in Reqs : did'[q] = did[q] /\ worker'[q] = worker[q]
  BY <1>0
<1> QED BY <1>1, <1>3, <1>4, <1>5, StoryQuiet

\* Every step goes on with the story.
LEMMA StoryStep ==
  ASSUME TypeInv, OwnerInv, Phases, Below, WireInv, Ids, Story, CodesTrue, [Next]_vars, "status" \notin Faults
  PROVE  Story'
<1>1. CASE Calm
  BY <1>1, StoryCalm
<1>2. ASSUME NEW r \in Reqs,
             WorkerCancels(r) \/ GraceEnds(r) \/ \E whole \in BOOLEAN : DownloadEnds(r, whole) \/ UploadSent(r, whole)
      PROVE  Story'
  BY <1>2, StoryWorkers DEF Worker
<1>3. ASSUME NEW r \in Reqs, NEW ok \in BOOLEAN, Opened(r, ok) PROVE Story'
  BY <1>3, StoryOpened
<1>4. ASSUME NEW r \in Reqs, NEW res \in {"ok", "err"}, ServerStatus(r, res) PROVE Story'
  BY <1>4, StoryStatus
<1>5. CASE ServerAnswers
  BY <1>5, StoryAnswers
<1>6. CASE HandleStart
  BY <1>6, StoryStart
<1>7. CASE HandleStatus
  BY <1>7, StoryTold
<1> QED BY <1>1, <1>2, <1>3, <1>4, <1>5, <1>6, <1>7, CalmMove DEF Busy

-----------------------------------------------------------------------------
(* Return codes of transfers. *)

\* A transfer whose command goes out is sent as one.
LEMMA SendsTask ==
  ASSUME TypeInv, [Next]_vars, NEW q \in Reqs, Sends(q), kind[q] \in Transfers PROVE SendTransfer(q)
<1>0. code' = code + 1 /\ code' # code /\ code' # 0 /\ q = Head(cmds) /\ kind[q] \notin {"kick", "group", "op", "list"}
      /\ kind[q] # "move"
  <2>1. code \in Nat
    BY DEF TypeInv, TypeOK, Codes
  <2> QED BY <2>1 DEF Sends, Sent, Next1, Transfers
<1>1. ASSUME NEW r \in Reqs PROVE ~Ask(r)
  BY <1>0 DEF Ask, AskPlain, AskMove, AskKick, AskGroup, AskOp, AskList, AskDownload, AskUpload, Queue, wire
<1>2. ASSUME NEW r \in Reqs PROVE ~Cancel(r) /\ ~Worker(r) /\ \A k \in Transfers : ~AskLate(r, k)
  BY <1>0 DEF AskLate, Cancel, Worker, WorkerCancels, GraceEnds, DownloadEnds, UploadSent, wire
<1>3. ASSUME NEW r \in Reqs, Execute(r) PROVE SendTransfer(q)
  <2>1. ~SendKick(r) /\ ~SendGroup(r) /\ ~SendOp(r) /\ ~SendList(r) /\ ~SendMove(r)
    BY <1>0 DEF SendKick, SendGroup, SendOp, SendList, SendMove, Next1
  <2>2. ~RefuseKick(r) /\ ~SendPlain(r) /\ ~SendFails(r) /\ ~TransferFails(r)
    BY <1>0 DEF RefuseKick, SendPlain, SendFails, TransferFails, wire
  <2>3. SendTransfer(r) => r = q
    BY <1>0 DEF SendTransfer, Next1
  <2> QED BY <1>3, <2>1, <2>2, <2>3 DEF Execute
<1>4. ASSUME NEW r \in Reqs
      PROVE  (\A ok \in BOOLEAN : ~Opened(r, ok)) /\ (\A res \in {"ok", "err"} : ~ServerStatus(r, res))
  BY <1>0 DEF Opened, ServerStatus
<1>5. ~ServerAnswers /\ ~Drop /\ ~Reconnect /\ ~End /\ ~Connect
  BY <1>0 DEF ServerAnswers, Drop, Reconnect, End, Connect
<1>6. (\A n \in 1..Len(net) : ~Collect(n)) /\ (\A t \in timers : ~Fire(t))
  BY <1>0 DEF Collect, Fire, wire
<1>7. ~Handle
  BY <1>0 DEF Handle, HandleResult, HandleRows, HandleFin, HandleError, HandleStart, HandleStatus, HandleDrop
<1>8. ~UNCHANGED vars
  BY <1>0 DEF vars, wire
<1> QED BY <1>1, <1>2, <1>3, <1>4, <1>5, <1>6, <1>7, <1>8 DEF Next

\* The commands the server gets are sent in that step.
LEMMA CommandsGrow ==
  ASSUME TypeInv, [Next]_vars, NEW q \in Commands'
  PROVE  q \in Commands \/ \E r \in Reqs : Sends(r) /\ q = [of |-> r, code |-> code]
<1>0. srv \in Seq([of: Reqs, code: Codes]) /\ Len(srv) \in Nat /\ DOMAIN srv = 1..Len(srv)
  <2>1. srv \in Seq([of: Reqs, code: Codes])
    BY DEF TypeInv, TypeOK
  <2> QED BY <2>1, LenProperties
<1>1. CASE srv' = srv \/ srv' = <<>>
  BY <1>1 DEF Commands
<1>2. CASE srv # <<>> /\ srv' = Tail(srv)
  <2>1. /\ srv' \in Seq([of: Reqs, code: Codes]) /\ Len(srv') = Len(srv) - 1
        /\ \A i \in 1..Len(srv) - 1 : srv'[i] = srv[i + 1]
    BY <1>0, <1>2, HeadTailProperties
  <2>2. DOMAIN srv' = 1..Len(srv) - 1 /\ \A i \in DOMAIN srv' : i + 1 \in DOMAIN srv
    BY <1>0, <2>1, LenProperties
  <2> QED BY <2>1, <2>2 DEF Commands
<1>3. ASSUME NEW r \in Reqs, Sends(r), srv' = Append(srv, [of |-> r, code |-> code])
      PROVE  q \in Commands \/ q = [of |-> r, code |-> code]
  <2>1. code \in Codes
    BY DEF TypeInv, TypeOK
  <2>2. PICK n \in [of: Reqs, code: Codes] : n = [of |-> r, code |-> code]
    BY <2>1
  <2>3. /\ srv' \in Seq([of: Reqs, code: Codes]) /\ Len(srv') = Len(srv) + 1
        /\ \A i \in 1..Len(srv) : srv'[i] = srv[i]
        /\ srv'[Len(srv) + 1] = n
    BY <1>0, <1>3, <2>2, AppendProperties
  <2>4. DOMAIN srv' = 1..Len(srv) + 1
    BY <2>3, LenProperties
  <2>5. \A i \in DOMAIN srv' : i \in DOMAIN srv \/ i = Len(srv) + 1
    BY <1>0, <2>4
  <2> QED BY <1>0, <2>2, <2>3, <2>5 DEF Commands
<1> QED BY <1>1, <1>2, <1>3, CommandsMove

\* What is under a code has an id; only a transfer that is sent is put under one.
LEMMA TaskKept ==
  ASSUME TypeInv, OwnerInv, Ids, CodesTrue, [Next]_vars, NEW c \in Codes
  PROVE  /\ taskByRc[c] # None =>
              /\ taskByRc[c] \in Reqs /\ ftid[taskByRc[c]] # Placeholder /\ sentIn'[taskByRc[c]] = sentIn[taskByRc[c]]
              /\ ftid'[taskByRc[c]] = ftid[taskByRc[c]]
         /\ \/ taskByRc'[c] \in {taskByRc[c], None}
            \/ \E r \in Reqs : SendTransfer(r) /\ c = code /\ taskByRc'[c] = r
<1>1. taskByRc[c] \in Reqs \cup {None} /\ TypeOK
  BY DEF TypeInv, TypeOK
<1>2. taskByRc[c] # None => taskByRc[c] \in Reqs /\ ftid[taskByRc[c]] # Placeholder
  BY <1>1 DEF CodesTrue
<1>3. CASE \A d \in Codes : taskByRc'[d] \in {taskByRc[d], None}
  BY <1>2, <1>3, IdsKept
<1>4. ASSUME NEW r \in Reqs, SendTransfer(r) PROVE taskByRc'[c] = taskByRc[c] \/ (c = code /\ taskByRc'[c] = r)
  BY <1>1, <1>4 DEF SendTransfer, TypeOK
<1>5. ASSUME NEW r \in Reqs, TransferFails(r) PROVE taskByRc'[c] = taskByRc[c]
  BY <1>5 DEF TransferFails, tables
<1> QED BY <1>2, <1>3, <1>4, <1>5, IdsKept, TransferMove DEF TransferMoves

\* A code that is handed out keeps its transfer as long as the connection lasts.
LEMMA CodeKept ==
  ASSUME TypeInv, OwnerInv, Ids, CodesTrue, [Next]_vars, Same, NEW c \in Codes, c < code, NEW r, Codes1(c, r)
  PROVE  Codes1(c, r)'
<1>1. c # code /\ conn' = conn
  BY DEF TypeInv, TypeOK, Codes, Same
<1> QED BY <1>1, TaskKept DEF Codes1

\* A transfer is filed under its code with its id, and told what that code says.
LEMMA CodesStep ==
  ASSUME TypeInv, AnswerInv, Phases, Below, WireInv, Ids, CodesTrue, [Next]_vars, MaxRequests < IdSpace PROVE CodesTrue'
<1>0. /\ TypeInv /\ OwnerInv /\ TypeOK /\ TypeInv' /\ (Same \/ Anew) /\ code \in Nat /\ conn \in Nat
      /\ (\A c \in Codes : c \in Nat) /\ Placeholder' = Placeholder
  <2>1. TypeOK /\ TypeInv' /\ OwnerInv /\ TypeInv
    BY TypeStep DEF TypeInv, AnswerInv
  <2>2. code \in Codes /\ conn \in Conns
    BY <2>1 DEF TypeOK
  <2> QED BY <2>1, <2>2, ConnStep DEF Codes, Conns, Placeholder
<1>1. ASSUME NEW r \in Reqs, SendTransfer(r) PROVE Same /\ code' = code + 1 /\ ftid'[r] # Placeholder
  <2>1. conn' = conn /\ code' = code + 1 /\ Next1(r) /\ ftid'[r] = nextFt
    BY <1>0, <1>1 DEF SendTransfer, Sent, TakeId, TypeOK
  <2> QED BY <1>0, <2>1, IdFree DEF Same
<1>2. ASSUME NEW c \in Codes, taskByRc'[c] # None
      PROVE  ftid'[taskByRc'[c]] # Placeholder' /\ (c >= code' => sentIn'[taskByRc'[c]] # conn')
  <2>1. CASE taskByRc'[c] = taskByRc[c]
    <3>1. taskByRc[c] \in Reqs /\ ftid'[taskByRc[c]] # Placeholder /\ sentIn'[taskByRc[c]] = sentIn[taskByRc[c]]
      BY <1>0, <1>2, <2>1, TaskKept
    <3>2. CASE Same
      <4>1. c >= code' => c >= code
        BY <1>0, <3>2 DEF Same
      <4> QED BY <1>0, <1>2, <2>1, <3>1, <3>2, <4>1 DEF CodesTrue, Same
    <3>3. CASE Anew
      <4>1. sentIn[taskByRc[c]] \in 0..conn
        BY <3>1 DEF Below
      <4> QED BY <1>0, <2>1, <3>1, <3>3, <4>1 DEF Anew
    <3> QED BY <1>0, <3>2, <3>3
  <2>2. ASSUME NEW r \in Reqs, SendTransfer(r), c = code, taskByRc'[c] = r
        PROVE  ftid'[taskByRc'[c]] # Placeholder' /\ ~(c >= code')
    BY <1>0, <1>1, <2>2
  <2> QED BY <1>0, <1>2, <2>1, <2>2, TaskKept
<1>3. ASSUME NEW q \in Commands PROVE q.of \in Reqs /\ q.code \in Codes /\ Own(q.code, q.of) /\ did[q.of] = "none"
  <2>1. srv \in Seq([of: Reqs, code: Codes])
    BY <1>0 DEF TypeOK
  <2> DEFINE S == [of: Reqs, code: Codes]
  <2> HIDE DEF S
  <2>2. \A i \in DOMAIN srv : srv[i] \in S
    BY <2>1, LenProperties, ElementOfSeq DEF S
  <2>3. q \in S /\ CommandOK(q)
    BY <2>2 DEF Commands, WireInv
  <2> QED BY <2>3 DEF CommandOK, S
<1>4. ASSUME Same, NEW q \in Commands PROVE Codes1(q.code, q.of)' /\ (kind'[q.of] \in Transfers => ftid'[q.of] # Placeholder')
  <2>1. q.of \in Reqs /\ q.code \in Codes /\ q.code < code /\ kind[q.of] # "none"
    BY <1>3 DEF Own, WireInv, CommandOK
  <2>2. Codes1(q.code, q.of)' 
    BY <1>0, <1>4, <2>1, CodeKept DEF CodesTrue
  <2>3. kind'[q.of] = kind[q.of]
    BY <2>1, HistoryMove DEF HistoryMoves, Fresh
  <2>4. kind[q.of] \in Transfers => ftid[q.of] # Placeholder
    BY DEF CodesTrue
  <2> QED BY <1>0, <2>1, <2>2, <2>3, <2>4, IdsKept
<1>5. ASSUME NEW r \in Reqs, Sends(r), NEW c \in Codes, c = code
      PROVE  Codes1(c, r)' /\ (kind'[r] \in Transfers => ftid'[r] # Placeholder')
  <2>2. kind[r] # "none" /\ kind'[r] = kind[r]
    <3>1. kind[r] # "none"
      BY <1>0, <1>5, Taken DEF Sends, OwnerInv, Queued, InQueue
    <3> QED BY <3>1, HistoryMove DEF HistoryMoves, Fresh
  <2>3. conn' = conn
    BY <1>5 DEF Sends, Sent
  <2>4. taskByRc[c] # None => sentIn[taskByRc[c]] # conn
    BY <1>0, <1>5 DEF CodesTrue
  <2>5. ASSUME NEW p \in Reqs, SendTransfer(p) PROVE p = r
    BY <1>5, <2>5 DEF Sends, SendTransfer, Next1
  <2>6. Codes1(c, r)'
    BY <1>0, <1>5, <2>3, <2>4, <2>5, TaskKept DEF Codes1
  <2> QED BY <1>0, <1>1, <1>5, <2>2, <2>6, SendsTask
<1>6. ASSUME Same, NEW m \in Results PROVE Codes1(m.key, m.of)' /\ (kind'[m.of] \in Transfers => m.res = "err" /\ did'[m.of] = "err")
  <2>1. m \in Sound /\ m.type = "result" /\ ResultOK(m)
    BY <1>0, ElementOfSeq, Lengths DEF Results, WireInv
  <2>2. m.of \in Reqs /\ m.key \in Codes /\ m.key < code /\ kind[m.of] # "none"
    BY <2>1 DEF ResultOK, Own, Sound
  <2>3. Codes1(m.key, m.of)'
    BY <1>0, <1>6, <2>2, CodeKept DEF CodesTrue
  <2>4. kind'[m.of] = kind[m.of]
    BY <2>2, HistoryMove DEF HistoryMoves, Fresh
  <2> QED BY <2>2, <2>3, <2>4, DidStep DEF CodesTrue
<1>7. ASSUME Same, ServerAnswers, NEW m \in Results', m \notin Results,
             m = Item("result", Head(srv).code, did'[Head(srv).of], Head(srv).of)
      PROVE  Codes1(m.key, m.of)' /\ (kind'[m.of] \in Transfers => m.res = "err" /\ did'[m.of] = "err")
  <2>1. PICK q \in Commands : q = Head(srv) /\ q.of \in Reqs
    <3>1. srv # <<>> /\ srv \in Seq([of: Reqs, code: Codes])
      BY <1>0, <1>7 DEF ServerAnswers, TypeOK
    <3>2. Head(srv) = srv[1] /\ 1 \in DOMAIN srv
      BY <3>1, HeadTailProperties, LenProperties, EmptySeq
    <3> QED BY <1>0, <1>7, <3>2, Asked DEF Commands, ServerAnswers
  <2>2. m.of = q.of /\ m.key = q.code /\ m.res = did'[q.of] /\ kind' = kind
    BY <1>7, <2>1 DEF Item, ServerAnswers, asking
  <2>3. net' # net
    BY <1>7 DEF Results, ServerAnswers
  <2>4. kind[q.of] \in Transfers => did'[q.of] = "err"
    BY <1>0, <1>7, <2>1, <2>3 DEF ServerAnswers, TypeOK, Transfers
  <2> QED BY <1>4, <1>7, <2>2, <2>4
<1>8. CASE Same
  <2>1. \A m \in Results' : Codes1(m.key, m.of)' /\ (kind'[m.of] \in Transfers => m.res = "err" /\ did'[m.of] = "err")
    BY <1>0, <1>6, <1>7, <1>8, ResultsMove
  <2>2. ASSUME NEW q \in Commands' PROVE q \in Commands \/ \E r \in Reqs : Sends(r) /\ q = [of |-> r, code |-> code]
    BY <1>0, CommandsGrow
  <2>3. \A q \in Commands' : Codes1(q.code, q.of)' /\ (kind'[q.of] \in Transfers => ftid'[q.of] # Placeholder')
    <3> SUFFICES ASSUME NEW q \in Commands'
                 PROVE  Codes1(q.code, q.of)' /\ (kind'[q.of] \in Transfers => ftid'[q.of] # Placeholder')
      OBVIOUS
    <3>1. CASE q \in Commands
      BY <1>4, <1>8, <3>1
    <3>2. ASSUME NEW r \in Reqs, Sends(r), q = [of |-> r, code |-> code]
          PROVE  Codes1(q.code, q.of)' /\ (kind'[q.of] \in Transfers => ftid'[q.of] # Placeholder')
      <4>1. q.of = r /\ q.code = code /\ q.code \in Codes
        BY <1>0, <3>2 DEF TypeOK
      <4> QED BY <1>5, <3>2, <4>1
    <3> QED BY <2>2, <3>1, <3>2
  <2> QED BY <1>2, <2>1, <2>3 DEF CodesTrue
<1>9. CASE Anew
  <2>1. Commands' = {} /\ Results' = {}
    <3>1. DOMAIN srv' = {} /\ DOMAIN net' = {} /\ DOMAIN batch' = {}
      BY <1>9 DEF Anew
    <3> QED BY <3>1 DEF Commands, Results
  <2> QED BY <1>2, <2>1 DEF CodesTrue
<1> QED BY <1>0, <1>8, <1>9

-----------------------------------------------------------------------------
(* What the user is told of a transfer. *)

\* Who enters the queue is made in this connection.
LEMMA QueuedSent ==
  ASSUME TypeInv, Queued, [Next]_vars, NEW q \in Reqs, q \in InQueue', q \notin InQueue
  PROVE  sentIn'[q] = conn
<1>0. cmds' # cmds /\ TypeOK
  BY DEF InQueue, TypeInv
<1>1. kind[q] = "none" /\ kind'[q] # "none"
  <2>1. kind[q] = "none"
    BY QueueSet
  <2>2. Queued'
    BY QueuedStep
  <2> QED BY <2>1, <2>2 DEF Queued, InQueue
<1>2. ASSUME NEW r \in Reqs, Ask(r) PROVE sentIn'[q] = conn
  <2>1. PICK k \in Kinds : Queue(r, k)
    BY <1>2 DEF Ask, AskPlain, AskMove, AskKick, AskGroup, AskOp, AskList, AskDownload, AskUpload, Queue
  <2> QED BY <1>0, <1>1, <2>1 DEF Queue, TypeOK
<1>3. ASSUME NEW r \in Reqs PROVE ~Cancel(r) /\ ~Worker(r) /\ \A k \in Transfers : ~AskLate(r, k)
  BY <1>0, <1>1 DEF AskLate, Cancel, Worker, WorkerCancels, GraceEnds, DownloadEnds, UploadSent, asking
<1>4. ASSUME NEW r \in Reqs PROVE ~Execute(r)
  BY <1>1 DEF Execute, SendKick, SendGroup, Track, SendOp, SendList, SendMove, RefuseKick, SendPlain, SendFails,
     TransferFails, SendTransfer, asking
<1>5. ASSUME NEW r \in Reqs
      PROVE  (\A ok \in BOOLEAN : ~Opened(r, ok)) /\ (\A res \in {"ok", "err"} : ~ServerStatus(r, res))
  BY <1>1 DEF Opened, ServerStatus, asking
<1>6. ~ServerAnswers /\ ~Drop /\ ~Reconnect /\ ~End /\ ~Connect
  BY <1>1 DEF ServerAnswers, Drop, Reconnect, End, Connect, asking
<1>7. (\A n \in 1..Len(net) : ~Collect(n)) /\ (\A t \in timers : ~Fire(t))
  BY <1>1 DEF Collect, Fire, asking
<1>8. ~Handle
  BY <1>1 DEF Handle, HandleResult, HandleRows, HandleFin, HandleError, HandleStart, HandleStatus, HandleDrop, asking
<1>9. ~UNCHANGED vars
  BY <1>1 DEF vars, asking
<1> QED BY <1>2, <1>3, <1>4, <1>5, <1>6, <1>7, <1>8, <1>9 DEF Next

\* A cancel flag stays set.
LEMMA CancelledKept ==
  ASSUME TypeInv, [Next]_vars PROVE cancelled \subseteq cancelled'
<1>1. ASSUME NEW r \in Reqs, Ask(r) PROVE cancelled' = cancelled
  BY <1>1 DEF Ask, AskPlain, AskMove, AskKick, AskGroup, AskOp, AskList, AskDownload, AskUpload, Queue
<1>2. ASSUME NEW r \in Reqs, Cancel(r) PROVE cancelled \subseteq cancelled'
  BY <1>2 DEF Cancel
<1>3. ASSUME NEW r \in Reqs, Worker(r) \/ \E k \in Transfers : AskLate(r, k) PROVE cancelled' = cancelled
  BY <1>3 DEF AskLate, Worker, WorkerCancels, GraceEnds, DownloadEnds, UploadSent, transfer
<1>4. ASSUME NEW r \in Reqs, Execute(r) PROVE cancelled' = cancelled
  BY <1>4 DEF Execute, SendKick, SendGroup, Track, SendOp, SendList, SendMove, RefuseKick, SendPlain, SendFails,
     TransferFails, SendTransfer, transfer
<1>5. ASSUME NEW r \in Reqs, NEW ok \in BOOLEAN, Opened(r, ok) PROVE cancelled' = cancelled
  BY <1>5 DEF Opened, transfer
<1>6. ASSUME NEW r \in Reqs, NEW res \in {"ok", "err"}, ServerStatus(r, res) PROVE cancelled' = cancelled
  BY <1>6 DEF ServerStatus, transfer
<1>7. CASE ServerAnswers \/ Drop \/ Reconnect \/ End \/ Connect
  BY <1>7 DEF ServerAnswers, Drop, Reconnect, End, Connect, transfer
<1>8. CASE (\E n \in 1..Len(net) : Collect(n)) \/ (\E t \in timers : Fire(t))
  BY <1>8 DEF Collect, Fire, transfer
<1>9. CASE Handle
  BY <1>9 DEF Handle, HandleResult, HandleRows, HandleFin, HandleError, HandleStart, HandleStatus, HandleDrop, transfer
<1>10. CASE UNCHANGED vars
  BY <1>10 DEF vars, transfer
<1> QED BY <1>1, <1>2, <1>3, <1>4, <1>5, <1>6, <1>7, <1>8, <1>9, <1>10 DEF Next

\* A worker whose task has ended only ends, and what was done changes only under a worker
\* that runs.
LEMMA RestMove ==
  ASSUME TypeInv, Ids, [Next]_vars, "status" \notin Faults, NEW q \in Reqs
  PROVE  /\ \/ worker'[q] = worker[q] \/ q \in tasks
            \/ worker[q] \in {"running", "grace"}
         /\ worker[q] = "grace" /\ q \notin tasks => worker'[q] \in {"grace", "over"}
         /\ \/ did'[q] = did[q] \/ (ServerAnswers /\ q = Head(srv).of)
            \/ did[q] = "ok" /\ worker[q] \in {"running", "grace"}
<1>0. TypeOK
  BY DEF TypeInv
<1>1. CASE Calm
  BY <1>1 DEF Calm
<1>2. ASSUME NEW r \in Reqs,
             WorkerCancels(r) \/ GraceEnds(r) \/ \E whole \in BOOLEAN : DownloadEnds(r, whole) \/ UploadSent(r, whole)
      PROVE  /\ worker'[q] = worker[q] \/ worker[q] \in {"running", "grace"}
             /\ worker[q] = "grace" => worker'[q] \in {"grace", "over"}
             /\ did'[q] = did[q] \/ (did[q] = "ok" /\ worker[q] \in {"running", "grace"})
  BY <1>0, <1>2 DEF WorkerCancels, GraceEnds, DownloadEnds, UploadSent, history, TypeOK
<1>3. ASSUME NEW r \in Reqs, NEW ok \in BOOLEAN, Opened(r, ok) PROVE UNCHANGED <<worker, did>>
  BY <1>3 DEF Opened, transfer, history
<1>4. ASSUME NEW r \in Reqs, NEW res \in {"ok", "err"}, ServerStatus(r, res)
      PROVE  worker' = worker /\ (did'[q] = did[q] \/ (did[q] = "ok" /\ worker[q] \in {"running", "grace"}))
  BY <1>0, <1>4 DEF ServerStatus, transfer, TypeOK
<1>5. CASE ServerAnswers
  BY <1>0, <1>5 DEF ServerAnswers, transfer, TypeOK
<1>6. CASE HandleStart
  BY <1>0, <1>6 DEF HandleStart, TaskOf, history, TypeOK
<1>7. CASE HandleStatus
  BY <1>7 DEF HandleStatus, history
<1> QED BY <1>0, <1>1, <1>2, <1>3, <1>4, <1>5, <1>6, <1>7, CalmMove DEF Busy, TypeOK

\* Who is in the queue or has an id is made in some connection.
LEMMA MadeHere ==
  ASSUME TypeInv, OwnerInv, Ids, TransfersTold, [Next]_vars, NEW r \in Reqs
  PROVE  (r \in InQueue' => sentIn'[r] # None) /\ (ftid'[r] # Placeholder' => sentIn'[r] # None)
<1>0. TypeOK /\ conn # None /\ Placeholder' = Placeholder /\ ToldOf(r) /\ HistoryMoves
  <2>1. TypeOK /\ conn \in Conns
    BY DEF TypeInv, TypeOK
  <2>2. conn # None
    BY <2>1 DEF Conns, None
  <2>3. ToldOf(r)
    BY DEF TransfersTold
  <2>4. Placeholder' = Placeholder
    BY DEF Placeholder
  <2> QED BY <2>1, <2>2, <2>3, <2>4, HistoryMove
<1>1. CASE r \in InQueue
  BY <1>0, <1>1 DEF ToldOf, HistoryMoves
<1>2. CASE r \notin InQueue
  <2>1. r \in InQueue' => sentIn'[r] # None
    BY <1>0, <1>2, QueuedSent DEF OwnerInv
  <2>2. CASE ftid[r] # Placeholder
    BY <1>0, <2>1, <2>2, IdsKept DEF ToldOf
  <2>3. CASE ftid[r] = Placeholder
    <3>1. ~Next1(r)
      BY <1>0, <1>2, Taken
    <3>2. ftid'[r] = ftid[r]
      BY <1>0, <3>1, TransferMove DEF TransferMoves, SendTransfer, TransferFails, TakeId, TypeOK
    <3> QED BY <1>0, <2>1, <2>3, <3>2
  <2> QED BY <2>2, <2>3
<1> QED BY <1>1, <1>2

\* The server answers what was not done yet.
LEMMA ServedNone ==
  ASSUME TypeInv, WireInv, ServerAnswers PROVE did[Head(srv).of] = "none"
<1>1. srv # <<>> /\ srv \in Seq([of: Reqs, code: Codes])
  BY DEF ServerAnswers, TypeInv, TypeOK
<1>2. Head(srv) = srv[1] /\ 1 \in DOMAIN srv
  BY <1>1, HeadTailProperties, LenProperties, EmptySeq
<1>3. CommandOK(Head(srv))
  BY <1>2 DEF WireInv, Commands
<1> QED BY <1>3 DEF CommandOK

\* What was told stays true: what a worker that is over, or never started, has done does
\* not change.
LEMMA VerdictKept ==
  ASSUME TypeInv, OwnerInv, WireInv, Ids, Story, TransfersTold, [Next]_vars, "status" \notin Faults,
         NEW r \in Reqs, answers'[r] = answers[r], kind'[r] \in Transfers
  PROVE  Verdict(r)' /\ (r \in InQueue' => answers'[r] = <<>>)
<1>1. CASE answers[r] = <<>>
  BY <1>1 DEF Verdict, Told, ToldHere
<1>2. CASE answers[r] # <<>>
  <2>1. kind'[r] = kind[r] /\ kind[r] # "none" /\ r \notin tasks
    BY <1>2, AnsweredKept DEF OwnerInv
  <2>2. r \notin InQueue /\ Verdict(r)
    BY <1>2 DEF TransfersTold, ToldOf
  <2>3. r \notin InQueue' /\ ~Next1(r)
    BY <2>1, <2>2, QueueSet, Taken DEF TypeInv
  <2>4. sentIn'[r] = sentIn[r]
    BY <2>1, <2>3, HistoryMove DEF HistoryMoves
  <2>5. \A w : (Told(r, w)' <=> Told(r, w)) /\ (ToldHere(r, w)' <=> ToldHere(r, w))
    BY <2>4 DEF Told, ToldHere
  <2>6. cancelled \subseteq cancelled' /\ WorkerTrue(r)
    BY CancelledKept DEF Story, WorkersTrue
  <2>7. /\ worker'[r] = worker[r] \/ worker[r] \in {"running", "grace"}
        /\ worker[r] = "grace" => worker'[r] \in {"grace", "over"}
    BY <2>1, RestMove
  <2>8. did'[r] = did[r] \/ did[r] = "none" \/ (did[r] = "ok" /\ worker[r] \in {"running", "grace"})
    <3>1. \/ did'[r] = did[r] \/ (ServerAnswers /\ r = Head(srv).of)
          \/ did[r] = "ok" /\ worker[r] \in {"running", "grace"}
      BY RestMove
    <3>2. CASE did'[r] = did[r]
      BY <3>2
    <3>3. ASSUME did'[r] # did[r], ServerAnswers, r = Head(srv).of PROVE did[r] = "none"
      BY <3>3, ServedNone
    <3> QED BY <3>1, <3>2, <3>3
  <2>9. kind[r] = "down" /\ Told(r, "ok") => did'[r] = "all"
    BY <2>2, <2>8 DEF Verdict
  <2>10. kind[r] = "up" /\ Told(r, "ok") => worker'[r] = "over" \/ (worker'[r] = "grace" /\ did'[r] = "all")
    BY <2>2, <2>7, <2>8 DEF Verdict
  <2>11. kind[r] = "up" /\ ToldHere(r, "ok") => did'[r] # "err"
    <3>1. ToldHere(r, "ok") => Told(r, "ok")
      BY DEF ToldHere, Told
    <3> QED BY <2>2, <2>6, <2>8, <3>1 DEF Verdict, WorkerTrue
  <2>12. ToldHere(r, "err") /\ r \notin cancelled' =>
           did'[r] = "err" \/ (did'[r] = "ok" /\ worker'[r] \in {"none", "over"})
    BY <2>1, <2>2, <2>6, <2>7, <2>8 DEF Verdict
  <2> QED BY <2>1, <2>3, <2>5, <2>9, <2>10, <2>11, <2>12 DEF Verdict
<1> QED BY <1>1, <1>2

\* The item that is handled is true.
LEMMA StatusTrue ==
  ASSUME TypeInv, Ids, Story, HandleStatus, NEW r \in tasks, ftid[r] = Item1.key
  PROVE  /\ Item1.res = "ok" => kind[r] = "up" /\ did[r] = "all"
         /\ Item1.res # "ok" => did[r] = "err" \/ Waiting1(r)
<1>1. batch # <<>> /\ Item1.type = "status"
  BY DEF HandleStatus, Handling, Item1
<1>2. 1 \in DOMAIN batch /\ Item1 = batch[1]
  BY <1>1, Lengths, HeadTailProperties, EmptySeq DEF Item1
<1>3. 1 \in DOMAIN Flow /\ Flow[1] = Item1
  BY <1>2, FlowTypes
<1>4. ItemTrue(Item1)
  BY <1>1, <1>3 DEF Story, ItemsTrue
<1>5. r \in Reqs /\ r = Item1.of
  BY <1>4 DEF ItemTrue, Ids, TypeInv, TypeOK
<1> QED BY <1>1, <1>4, <1>5 DEF ItemTrue

\* An answer is about this connection only while it is up.
LEMMA AnsweredHere ==
  ASSUME TypeInv, AnswerInv, Ids, TransfersTold, [Next]_vars, NEW r \in Reqs, NEW what, NEW w,
         answers'[r] = Append(answers[r], Answer(what, 0)), ftid[r] # Placeholder, ToldHere(r, w)'
  PROVE  w = what /\ link = "up" /\ sentIn[r] = conn
<1>1. sentIn'[r] = sentIn[r] /\ sentIn[r] # None
  BY IdsKept DEF TransfersTold, ToldOf, AnswerInv
<1>2. PICK a : a = Answer(what, 0)
  OBVIOUS
<1>3. \A i \in DOMAIN answers'[r] : answers'[r][i] = a
  BY <1>2, OnlyEvent
<1>4. a.what = what /\ a.conn = IF link = "up" THEN conn ELSE None
  BY <1>2 DEF Answer
<1> QED BY <1>1, <1>3, <1>4 DEF ToldHere

\* The event of a step tells what has been done.
LEMMA VerdictNew ==
  ASSUME TypeInv, AnswerInv, WireInv, Ids, Story, CodesTrue, TransfersTold, [Next]_vars,
         {"status", "slow"} \cap Faults = {},
         NEW r \in Reqs, NEW a, answers'[r] = Append(answers[r], a), TransferEvent(r, a), kind'[r] \in Transfers
  PROVE  Verdict(r)' /\ r \notin InQueue'
<1>0. TypeInv /\ TypeOK /\ OwnerInv /\ WorkerTrue(r) /\ "status" \notin Faults /\ "slow" \notin Faults
  BY DEF AnswerInv, TypeInv, Story, WorkersTrue
<1>1. /\ \A w : Told(r, w)' => w = a.what
      /\ \A w : ToldHere(r, w)' => w = a.what
  BY OnlyEvent DEF Told, ToldHere
<1>a. ASSUME ftid[r] # Placeholder PROVE r \notin InQueue' /\ kind'[r] = kind[r]
  BY <1>0, <1>a, IdsKept
<1>2. CASE a.what = "unsent" /\ ((kind[r] = "none" /\ cmds' = cmds) \/ Next1(r))
  <2>1. r \notin InQueue'
    <3>1. CASE Next1(r)
      BY <1>0, <3>1, Taken DEF OwnerInv
    <3>2. CASE kind[r] = "none" /\ cmds' = cmds
      BY <1>0, <3>2 DEF OwnerInv, Queued, InQueue
    <3> QED BY <1>2, <3>1, <3>2
  <2> QED BY <1>1, <1>2, <2>1 DEF Verdict
<1>3. CASE HandleResult /\ r = taskByRc[Item1.key] /\ Item1.res # "ok" /\ a = Answer("err", 0)
  <2>1. Item1 \in Sound /\ Item1.key \in Codes /\ Item1 \in Results
    <3>1. batch # <<>> /\ Item1.type = "result"
      BY <1>3 DEF HandleResult, Handling, Item1
    <3>2. 1 \in DOMAIN batch /\ Item1 = batch[1]
      BY <3>1, Lengths, HeadTailProperties, EmptySeq DEF Item1
    <3> QED BY <1>0, <1>3, <3>1, <3>2, Handled1 DEF Results
  <2>2. ftid[r] # Placeholder /\ r # None
    BY <1>3, <2>1 DEF CodesTrue, Reqs, None
  <2>3. did' = did
    BY <1>3 DEF HandleResult, history
  <2>4. a.what = "err"
    BY <1>3 DEF Answer
  <2>5. ToldHere(r, "err")' => did[r] = "err"
    <3>1. SUFFICES ASSUME ToldHere(r, "err")' PROVE did[r] = "err"
      OBVIOUS
    <3>2. sentIn[r] = conn
      BY <1>3, <2>2, <3>1, AnsweredHere
    <3>3. r = Item1.of /\ kind[r] \in Transfers
      BY <1>0, <1>3, <2>1, <2>2, <3>2, IdsKept DEF CodesTrue, Codes1
    <3> QED BY <2>1, <3>3 DEF CodesTrue
  <2> QED BY <1>1, <1>a, <2>2, <2>3, <2>4, <2>5 DEF Verdict
<1>4. CASE /\ HandleStatus /\ r \in tasks /\ ftid[r] = Item1.key
           /\ a = Answer(IF Item1.res = "ok" /\ kind[r] = "up" THEN "ok" ELSE "err", 0)
  <2>1. /\ Item1.res = "ok" => kind[r] = "up" /\ did[r] = "all"
        /\ Item1.res # "ok" => did[r] = "err" \/ Waiting1(r)
    BY <1>0, <1>4, StatusTrue
  <2>2. ftid[r] # Placeholder
    <3>1. batch # <<>> /\ Item1.type = "status"
      BY <1>4 DEF HandleStatus, Handling, Item1
    <3>2. 1 \in DOMAIN batch /\ Item1 = batch[1]
      BY <3>1, Lengths, HeadTailProperties, EmptySeq DEF Item1
    <3>3. ItemTrue(Item1)
      BY <3>1, <3>2, FlowTypes DEF Story, ItemsTrue
    <3> QED BY <1>4, <3>3 DEF ItemTrue
  <2>3. did' = did /\ worker' = worker
    BY <1>4 DEF HandleStatus, history
  <2>4. a.what = IF Item1.res = "ok" THEN "ok" ELSE "err"
    BY <1>4, <2>1 DEF Answer
  <2> QED BY <1>0, <1>1, <1>a, <2>1, <2>2, <2>3, <2>4 DEF Verdict, WorkerTrue, Waiting1
<1>5. CASE WorkerCancels(r) /\ a.what = "err"
  <2>1. r \in cancelled' /\ worker[r] # "none"
    BY <1>5 DEF WorkerCancels
  <2> QED BY <1>0, <1>1, <1>5, <1>a, <2>1 DEF Verdict, WorkerTrue
<1>6. ASSUME NEW whole \in BOOLEAN, DownloadEnds(r, whole), a.what = IF whole THEN "ok" ELSE "err"
      PROVE  Verdict(r)' /\ r \notin InQueue'
  <2>1. worker[r] = "running" /\ worker'[r] = "over" /\ kind[r] = "down"
        /\ did'[r] = (IF whole /\ did[r] = "ok" THEN "all" ELSE did[r]) /\ (whole => did[r] # "err")
    BY <1>0, <1>6 DEF DownloadEnds, TypeOK
  <2> QED BY <1>0, <1>1, <1>6, <1>a, <2>1 DEF Verdict, WorkerTrue
<1>7. CASE UploadSent(r, FALSE) /\ a.what = "err"
  <2>1. worker[r] = "running" /\ worker'[r] = "over" /\ did'[r] = did[r]
    BY <1>0, <1>7 DEF UploadSent, history, TypeOK
  <2> QED BY <1>0, <1>1, <1>7, <1>a, <2>1 DEF Verdict, WorkerTrue
<1>8. CASE GraceEnds(r) /\ r \in tasks /\ a = Answer("ok", 0)
  <2>1. worker[r] = "grace" /\ worker'[r] = "over" /\ did'[r] = did[r] /\ ~StatusUnderWay(r)
    BY <1>0, <1>8 DEF GraceEnds, history, TypeOK
  <2>2. kind[r] = "up" /\ ftid[r] # Placeholder /\ kind'[r] = "up"
    BY <1>0, <1>a, <2>1 DEF WorkerTrue
  <2>3. a.what = "ok"
    BY <1>8 DEF Answer
  <2>4. ToldHere(r, "ok")' => did[r] # "err"
    <3>1. SUFFICES ASSUME ToldHere(r, "ok")', did[r] = "err" PROVE FALSE
      OBVIOUS
    <3>2. link = "up" /\ sentIn[r] = conn
      BY <1>8, <2>2, <3>1, AnsweredHere
    <3>3. PICK i \in DOMAIN Flow : Flow[i].type = "status" /\ Flow[i].of = r
      BY <1>0, <1>8, <2>1, <3>1, <3>2 DEF WorkerTrue, StatusFlows
    <3>4. (\E j \in DOMAIN net : net[j] = Flow[i]) \/ (\E j \in DOMAIN batch : batch[j] = Flow[i])
      BY <1>0, <3>3, FlowHas
    <3> QED BY <2>1, <3>3, <3>4 DEF StatusUnderWay
  <2> QED BY <1>1, <1>a, <2>1, <2>2, <2>3, <2>4 DEF Verdict
<1> QED BY <1>2, <1>3, <1>4, <1>5, <1>6, <1>7, <1>8 DEF TransferEvent

\* Every transfer is told once, and what it is told is true.
LEMMA TransfersToldStep ==
  ASSUME TypeInv, AnswerInv, AnswerInv', WireInv, Ids, Story, CodesTrue, TransfersTold, [Next]_vars,
         {"status", "slow"} \cap Faults = {}
  PROVE  TransfersTold'
<1>0. OwnerInv /\ OwnerInv' /\ EventMoves /\ "status" \notin Faults
  BY EventMove DEF AnswerInv
<1>1. ASSUME NEW r \in Reqs PROVE ToldOf(r)'
  <2>1. (r \in InQueue' => sentIn'[r] # None) /\ (ftid'[r] # Placeholder' => sentIn'[r] # None)
    BY <1>0, MadeHere
  <2>2. Verdict(r)' /\ (r \in InQueue' => answers'[r] = <<>>)
    <3>1. CASE kind'[r] \notin Transfers
      BY <1>0, <3>1 DEF Verdict, OwnerInv, Transfers
    <3>2. CASE kind'[r] \in Transfers
      BY <1>0, <3>2, VerdictKept, VerdictNew DEF EventMoves
    <3> QED BY <3>1, <3>2
  <2> QED BY <2>1, <2>2 DEF ToldOf
<1> QED BY <1>1 DEF TransfersTold

\* At first no transfer is asked for.
LEMMA TransferInit == Init => TransferInv
<1> SUFFICES ASSUME Init PROVE TransferInv
  OBVIOUS
<1>1. DOMAIN Flow = {} /\ DOMAIN srv = {} /\ DOMAIN net = {} /\ DOMAIN batch = {} /\ DOMAIN cmds = {}
  BY ConcatEmptySeq, EmptySeq DEF Init, Flow
<1>2. InQueue = {} /\ Commands = {} /\ Results = {}
  BY <1>1 DEF InQueue, Commands, Results
<1>3. Ids
  <2>1. {q \in Reqs : ftid[q] # Placeholder} = {}
    BY DEF Init
  <2>2. nextFt = 0 /\ Cardinality({}) = 0
    BY FS_EmptySet DEF Init
  <2> QED BY <2>1, <2>2 DEF Ids
<1>4. Story
  BY <1>1 DEF Init, Story, Opening, StartsOnce, ItemsTrue, WorkersTrue, WorkerTrue
<1>5. CodesTrue
  BY <1>2 DEF Init, CodesTrue
<1>6. TransfersTold
  BY <1>2 DEF Init, TransfersTold, ToldOf, Verdict, Told, ToldHere
<1> QED BY <1>3, <1>4, <1>5, <1>6 DEF TransferInv

\* Every step keeps the invariant.
LEMMA TransferStep ==
  ASSUME {"status", "slow"} \cap Faults = {}, MaxRequests < IdSpace
  PROVE  RequestsInv /\ TransferInv /\ [Next]_vars => TransferInv'
<1> SUFFICES ASSUME RequestsInv, TransferInv, [Next]_vars PROVE TransferInv'
  OBVIOUS
<1>1. TypeInv /\ AnswerInv /\ OwnerInv /\ Phases /\ Below /\ WireInv /\ AnswerInv'
  BY RequestsStep DEF RequestsInv, AnswerInv
<1>2. Ids /\ Story /\ CodesTrue /\ TransfersTold /\ "status" \notin Faults
  BY DEF TransferInv
<1> QED BY <1>1, <1>2, IdsStep, StoryStep, CodesStep, TransfersToldStep DEF TransferInv

\* A transfer that is reported done is done, and one reported failed without having been
\* cancelled has failed, with batches reordered, connections lost and workers that end on
\* their own; as long as a status comes within the grace period of an upload, none comes
\* for downloads, and no more transfers are asked for than there are ids.
THEOREM TransfersReported ==
  ASSUME {"status", "slow"} \cap Faults = {}, MaxRequests < IdSpace
  PROVE  Spec => []TransferTrue
<1>1. TransferInv => TransferTrue
  BY DEF TransferInv, TransfersTold, ToldOf, Verdict, TransferTrue
<1>2. RequestsInv /\ TransferInv /\ [Next]_vars => TransferInv'
  BY TransferStep
<1> QED BY RequestsInit, RequestsStep, TransferInit, <1>1, <1>2, PTL DEF Spec

-----------------------------------------------------------------------------
(* Listings: that a listing has all its rows when it is sent off. *)

IsRow(m) == m.type = "rows"
RowsAt(r) == {i \in DOMAIN Flow : IsRow(Flow[i]) /\ Flow[i].of = r}
Coming(r) == Cardinality(RowsAt(r))

\* Only a listing that the server has done has rows; they are under its code.
Unserved == \A r \in Reqs : kind[r] # "list" \/ did[r] # "ok" => served[r] = 0
Coded(k, r) == \A c \in Codes : ftLists[c].of = r => c = k
CommandsCoded == \A q \in Commands : Coded(q.code, q.of)
RowTrue(m) ==
  /\ m.of \in Reqs /\ m.key \in Codes /\ kind[m.of] = "list" /\ did[m.of] = "ok"
  /\ Own(m.key, m.of) /\ Coded(m.key, m.of)
RowsTrue == \A i \in DOMAIN Flow : IsRow(Flow[i]) => RowTrue(Flow[i])

\* The rows of a listing come before its marker, but for those in the same batch.
RowsFirst ==
  \A i, j \in DOMAIN Flow : IsRow(Flow[i]) /\ IsMarker(Flow[j]) /\ Flow[i].of = Flow[j].of =>
    i < j \/ i <= Len(batch)

\* While the marker is under way, and when the listing sleeps before it is sent off, no
\* row is lost.
Whole(c) == (\E m \in Markers : m.of = ftLists[c].of) \/ \E t \in timers : t.code = c
RowsCounted ==
  \A c \in Codes : ftLists[c].of # None =>
    /\ did[ftLists[c].of] # "ok" => ftLists[c].rows = 0
    /\ Whole(c) => ftLists[c].rows + Coming(ftLists[c].of) = served[ftLists[c].of]

\* A timer sleeps until the rows of its listing, all of them in the batch, are handled.
RowsAwaited ==
  \A t \in timers, i \in DOMAIN Flow :
    ftLists[t.code].of # None /\ IsRow(Flow[i]) /\ Flow[i].of = ftLists[t.code].of =>
      i <= t.left /\ i <= Len(batch)

RowsInv == Unserved /\ CommandsCoded /\ RowsTrue /\ RowsFirst /\ RowsCounted /\ RowsAwaited /\ ListingComplete

\* Two sets are of the same size when one is what a function makes of the other.
LEMMA SameSize ==
  ASSUME NEW A, NEW B, IsFiniteSet(B), NEW f \in [A -> B],
         \A x, y \in A : f[x] = f[y] => x = y, \A b \in B : \E x \in A : f[x] = b
  PROVE  Cardinality(A) = Cardinality(B)
<1>1. f \in Injection(A, B) /\ f \in Surjection(A, B)
  BY DEF Injection, Surjection, IsInjective
<1> QED BY <1>1, FS_Injection

\* The rows of a listing that are on their way can be counted.
LEMMA RowsCount ==
  ASSUME TypeInv, NEW r PROVE IsFiniteSet(RowsAt(r)) /\ Coming(r) \in Nat /\ RowsAt(r) \subseteq 1..Len(Flow)
<1>1. Len(Flow) \in Nat /\ DOMAIN Flow = 1..Len(Flow)
  BY FlowTypes
<1>2. RowsAt(r) \in SUBSET (1..Len(Flow))
  BY <1>1 DEF RowsAt
<1>3. IsFiniteSet(1..Len(Flow))
  BY <1>1, FS_Interval
<1>4. IsFiniteSet(RowsAt(r))
  BY <1>2, <1>3, FS_Subset
<1> QED BY <1>2, <1>4, FS_CardinalityType DEF Coming

\* The item that is handled is counted no more.
LEMMA RowsTaken ==
  ASSUME TypeInv, TypeInv', batch # <<>>, batch' = Tail(batch), net' = net, NEW r
  PROVE  Coming(r)' = IF IsRow(Item1) /\ Item1.of = r THEN Coming(r) - 1 ELSE Coming(r)
<1>1. /\ Item1 = Flow[1] /\ 1 \in DOMAIN Flow /\ DOMAIN Flow' = 1..Len(Flow) - 1
      /\ \A i \in DOMAIN Flow' : i + 1 \in DOMAIN Flow /\ Flow'[i] = Flow[i + 1]
      /\ \A i \in DOMAIN Flow : i = 1 \/ (i - 1 \in DOMAIN Flow' /\ Flow'[i - 1] = Flow[i])
  BY FlowTaken
<1>2. Len(Flow) \in Nat /\ DOMAIN Flow = 1..Len(Flow) /\ IsFiniteSet(RowsAt(r))
  BY FlowTypes, RowsCount
<1> DEFINE A == RowsAt(r)'  B == RowsAt(r) \ {1}  f == [i \in A |-> i + 1]
<1>3. \A i \in A : i \in 1..Len(Flow) - 1 /\ i + 1 \in B
  BY <1>1, <1>2 DEF RowsAt
<1>4. \A i \in B : i - 1 \in A /\ (i - 1) + 1 = i
  BY <1>1, <1>2 DEF RowsAt
<1>5. IsFiniteSet(B) /\ Cardinality(B) = IF 1 \in RowsAt(r) THEN Coming(r) - 1 ELSE Coming(r)
  BY <1>2, FS_RemoveElement DEF Coming
<1>6. 1 \in RowsAt(r) <=> IsRow(Item1) /\ Item1.of = r
  BY <1>1 DEF RowsAt
<1> HIDE DEF A, B
<1>7. f \in [A -> B] /\ (\A x, y \in A : f[x] = f[y] => x = y) /\ \A b \in B : \E x \in A : f[x] = b
  <2>1. \A x, y \in A : x + 1 = y + 1 => x = y
    BY <1>3
  <2> QED BY <1>3, <1>4, <2>1
<1> HIDE DEF f
<1>8. Cardinality(A) = Cardinality(B)
  BY <1>5, <1>7, SameSize
<1> QED BY <1>5, <1>6, <1>8 DEF A, Coming

\* Reordering changes no number.
LEMMA RowsTurned ==
  ASSUME TypeInv, TypeInv', NEW n \in 1..Len(net), Collect(n), NEW r PROVE Coming(r)' = Coming(r)
<1>1. /\ DOMAIN Flow' = DOMAIN Flow /\ n \in DOMAIN Flow
      /\ \A i \in DOMAIN Flow : Flow'[i] = IF i = n THEN Flow[1] ELSE IF i < n THEN Flow[i + 1] ELSE Flow[i]
  BY FlowTurned
<1>2. Len(Flow) \in Nat /\ DOMAIN Flow = 1..Len(Flow) /\ IsFiniteSet(RowsAt(r))
  BY FlowTypes, RowsCount
<1> DEFINE A == RowsAt(r)'  B == RowsAt(r)
           g(i) == IF i = n THEN 1 ELSE IF i < n THEN i + 1 ELSE i
           f == [i \in A |-> g(i)]
<1>3. \A i \in DOMAIN Flow : g(i) \in DOMAIN Flow /\ Flow'[i] = Flow[g(i)]
  BY <1>1, <1>2
<1>4. \A i, j \in DOMAIN Flow : g(i) = g(j) => i = j
  BY <1>1, <1>2
<1>5. \A i \in DOMAIN Flow : \E j \in DOMAIN Flow : g(j) = i
  <2>1. ASSUME NEW i \in DOMAIN Flow PROVE \E j \in DOMAIN Flow : g(j) = i
    <3>1. CASE i = 1
      BY <1>1, <3>1
    <3>2. CASE i > n
      BY <1>1, <1>2, <3>2
    <3>3. CASE i # 1 /\ ~(i > n)
      <4>1. i - 1 \in DOMAIN Flow /\ i - 1 < n /\ i - 1 # n /\ (i - 1) + 1 = i
        BY <1>1, <1>2, <3>3
      <4> QED BY <4>1
    <3> QED BY <3>1, <3>2, <3>3
  <2> QED BY <2>1
<1> HIDE DEF g
<1>6. \A i \in DOMAIN Flow : i \in A <=> g(i) \in B
  BY <1>1, <1>3 DEF RowsAt
<1>7. A \subseteq DOMAIN Flow /\ B \subseteq DOMAIN Flow
  BY <1>1 DEF RowsAt
<1> HIDE DEF A, B
<1>8. f \in [A -> B] /\ (\A x, y \in A : f[x] = f[y] => x = y) /\ \A b \in B : \E x \in A : f[x] = b
  <2>1. ASSUME NEW b \in B PROVE \E x \in A : f[x] = b
    <3>1. PICK j \in DOMAIN Flow : g(j) = b
      BY <1>5, <1>7
    <3> QED BY <1>6, <3>1
  <2> QED BY <1>4, <1>6, <1>7, <2>1
<1>9. IsFiniteSet(B)
  BY <1>2 DEF B
<1> HIDE DEF f
<1>10. Cardinality(A) = Cardinality(B)
  BY <1>8, <1>9, SameSize
<1> QED BY <1>10 DEF A, B, Coming

\* Items about listings, results aside; and a step that leaves these where they are.
Lists1(m) == IsRow(m) \/ IsMarker(m)
Still ==
  /\ batch' = batch /\ \A i \in DOMAIN Flow : i \in DOMAIN Flow' /\ Flow'[i] = Flow[i]
  /\ \A i \in DOMAIN Flow' : i \in DOMAIN Flow \/ ~Lists1(Flow'[i])
Takes == batch # <<>> /\ batch' = Tail(batch) /\ net' = net
RowMoves ==
  \/ Still \/ Takes \/ ServerAnswers \/ Drop
  \/ (\E n \in 1..Len(net) : Collect(n)) \/ (End /\ DOMAIN Flow' = {})

\* Every step is one of these as far as the rows go.
LEMMA RowMove ==
  ASSUME TypeInv, TypeInv', [Next]_vars PROVE RowMoves
<1>1. CASE UNCHANGED <<net, batch>>
  <2>1. Flow' = Flow
    BY <1>1 DEF Flow
  <2> QED BY <1>1, <2>1 DEF Still, RowMoves
<1>2. ASSUME NEW m \in Sound, m.type \in {"error", "start", "status"}, net' = Append(net, m), batch' = batch
      PROVE  Still
  <2>1. /\ Flow'[Len(Flow) + 1] = m
        /\ \A i \in DOMAIN Flow : i \in DOMAIN Flow' /\ Flow'[i] = Flow[i]
        /\ \A i \in DOMAIN Flow' : i \in DOMAIN Flow \/ i = Len(Flow) + 1
    BY <1>2, FlowAdded
  <2>2. ~Lists1(m)
    BY <1>2 DEF Lists1, IsRow, IsMarker
  <2> QED BY <1>2, <2>1, <2>2 DEF Still
<1>3. CASE End
  <2>1. batch = <<>> /\ batch' = batch /\ net' = <<>>
    BY <1>3 DEF End
  <2>2. Flow' = <<>>
    BY <2>1, Lengths, ConcatEmptySeq DEF Flow
  <2>3. DOMAIN Flow' = {}
    BY <2>2
  <2> QED BY <1>3, <2>3 DEF RowMoves
<1>4. CASE Handles
  BY <1>4 DEF Handles, Takes, RowMoves
<1>5. CASE \E r \in Reqs : Sends(r)
  BY <1>1, <1>5 DEF Sends, Sent
<1>6. CASE Reconnect \/ Connect
  BY <1>1, <1>6 DEF Reconnect, Connect
<1> QED BY <1>1, <1>2, <1>3, <1>4, <1>5, <1>6, WireMove DEF WireMoves, Grows, RowMoves

\* What is kept when the connection breaks is the batch and how the stream begins.
LEMMA FlowCut ==
  ASSUME TypeInv, TypeInv', Drop
  PROVE  \E k \in Nat :
           /\ Len(batch) <= k /\ k <= Len(Flow)
           /\ \A i \in DOMAIN Flow : i <= k => i \in DOMAIN Flow' /\ Flow'[i] = Flow[i]
           /\ \A i \in DOMAIN Flow' : (i <= k /\ i \in DOMAIN Flow) \/ ~Lists1(Flow'[i])
<1>0. /\ net \in Seq(Sound) /\ Len(net) \in Nat /\ DOMAIN net = 1..Len(net) /\ batch' = batch
      /\ batch \in Seq(Sound) /\ Len(batch) \in Nat /\ DOMAIN batch = 1..Len(batch)
  BY Lengths DEF Drop
<1>1. PICK n \in 0..Len(net) : net' = Append(SubSeq(net, 1, n), Item("drop", 0, "ok", None))
  BY DEF Drop
<1> DEFINE s == SubSeq(net, 1, n)  d == Item("drop", 0, "ok", None)  k == Len(batch) + n
<1>2. \A i \in 1..Len(net) : net[i] \in Sound
  BY <1>0, ElementOfSeq
<1>3. s \in Seq(Sound) /\ Len(s) = n /\ \A i \in 1..n : s[i] = net[i]
  BY <1>0, <1>2, SubSeqProperties
<1>4. d \in Sound /\ ~Lists1(d)
  BY ItemSound DEF Item, Lists1, IsRow, IsMarker
<1> HIDE DEF s, d
<1>5. /\ Append(s, d) \in Seq(Sound) /\ Len(Append(s, d)) = n + 1
      /\ \A i \in 1..n : Append(s, d)[i] = s[i]
      /\ Append(s, d)[n + 1] = d
  BY <1>3, <1>4, AppendProperties
<1>6. net' = Append(s, d)
  BY <1>1 DEF s, d
<1>7. Len(net') = n + 1 /\ (\A i \in 1..n : net'[i] = net[i]) /\ net'[n + 1] = d
  BY <1>3, <1>5, <1>6
<1>8. /\ Len(Flow) = Len(batch) + Len(net) /\ DOMAIN Flow = 1..Len(batch) + Len(net)
      /\ DOMAIN Flow' = 1..Len(batch) + (n + 1)
  BY <1>0, <1>7, FlowTypes, FlowNext
<1>9. k \in Nat /\ Len(batch) <= k /\ k <= Len(Flow)
  BY <1>0, <1>8
<1>10. ASSUME NEW i \in DOMAIN Flow, i <= k PROVE i \in DOMAIN Flow' /\ Flow'[i] = Flow[i]
  <2>1. i \in DOMAIN Flow'
    BY <1>0, <1>8, <1>10
  <2>2. CASE i <= Len(batch)
    <3>1. i \in DOMAIN batch /\ i \in DOMAIN batch' /\ batch'[i] = batch[i]
      BY <1>0, <1>8, <2>2
    <3> QED BY <2>1, <3>1, FlowTypes, FlowNext
  <2>3. CASE ~(i <= Len(batch))
    <3> DEFINE j == i - Len(batch)
    <3>1. j \in 1..n /\ j \in DOMAIN net /\ Len(batch) + j = i
      BY <1>0, <1>8, <1>10, <2>3
    <3>2. j \in DOMAIN net' /\ net'[j] = net[j]
      BY <1>7, <3>1, FlowNext
    <3> HIDE DEF j
    <3>3. Flow[Len(batch) + j] = net[j] /\ Flow'[Len(batch') + j] = net'[j]
      BY <3>1, <3>2, FlowTypes, FlowNext
    <3> QED BY <1>0, <2>1, <3>1, <3>2, <3>3
  <2> QED BY <2>2, <2>3
<1>11. ASSUME NEW i \in DOMAIN Flow', ~(i <= k) PROVE ~Lists1(Flow'[i])
  <2>1. i = Len(batch) + (n + 1) /\ n + 1 \in DOMAIN net'
    BY <1>0, <1>7, <1>8, <1>11, FlowNext
  <2>2. Flow'[Len(batch') + (n + 1)] = net'[n + 1]
    BY <2>1, FlowNext
  <2> QED BY <1>0, <1>4, <1>7, <2>1, <2>2
<1>12. \A i \in DOMAIN Flow' : i <= k => i \in DOMAIN Flow
  BY <1>0, <1>8
<1> HIDE DEF k
<1> QED BY <1>9, <1>10, <1>11, <1>12

\* The answer to a listing is its result, its rows and its marker, in this order.
LEMMA ReplyRows ==
  ASSUME TypeInv, ServerAnswers
  PROVE  LET q == Head(srv) IN
         \E s \in Seq(Sound), n \in 0..MaxFrames :
           /\ net' = net \o s /\ served'[q.of] = n
           /\ kind[q.of] # "list" \/ did'[q.of] # "ok" => n = 0
           /\ n # 0 => Len(s) = n + 2
           /\ \A i \in 1..Len(s) :
                /\ IsRow(s[i]) <=> i \in 2..n + 1
                /\ IsRow(s[i]) => s[i].of = q.of /\ s[i].key = q.code /\ kind[q.of] = "list" /\ did'[q.of] = "ok"
                /\ IsMarker(s[i]) => i = Len(s)
<1> DEFINE q == Head(srv)
<1>1. q.of \in Reqs /\ q.code \in Codes /\ q \in [of: Reqs, code: Codes]
  <2>1. srv # <<>> /\ srv \in Seq([of: Reqs, code: Codes])
    BY DEF ServerAnswers, TypeInv, TypeOK
  <2> DEFINE S == [of: Reqs, code: Codes]
  <2> HIDE DEF S
  <2>2. Head(srv) \in S
    BY <2>1, HeadTailProperties DEF S
  <2> QED BY <2>2 DEF S
<1>2. PICK res \in {"ok", "err", "empty"}, n \in 0..MaxFrames :
        /\ did' = [did EXCEPT ![q.of] = res] /\ served' = [served EXCEPT ![q.of] = n]
        /\ kind[q.of] # "list" \/ res # "ok" => n = 0
        /\ net' = net \/ net' = net \o Reply(q, res, n)
        /\ net' = net => kind[q.of] \in Transfers \/ net' = net \o Reply(q, res, n)
  <2>1. 0 \in 0..MaxFrames
    BY RequestsAssumption
  <2> QED BY <2>1 DEF ServerAnswers
<1>3. did'[q.of] = res /\ served'[q.of] = n /\ n \in Nat
  BY <1>1, <1>2, RequestsAssumption DEF TypeInv, TypeOK
<1>4. CASE net' = net /\ kind[q.of] \in Transfers
  <2>1. net' = net \o <<>> /\ <<>> \in Seq(Sound)
    BY <1>4, Lengths, ConcatEmptySeq
  <2>2. 1..Len(<<>>) = {}
    OBVIOUS
  <2>3. n = 0
    BY <1>2, <1>4 DEF Transfers
  <2>4. \E s \in Seq(Sound) : net' = net \o s /\ 1..Len(s) = {}
    BY <2>1, <2>2
  <2> HIDE DEF q
  <2> QED BY <1>2, <1>3, <2>3, <2>4 DEF q
<1>5. CASE net' = net \o Reply(q, res, n)
  <2> DEFINE rows == [i \in 1..n |-> Item("rows", q.code, "ok", q.of)]
             fin == Item("fin", dir[q.of], "ok", q.of)
             first == Item("result", q.code, res, q.of)
             s == Reply(q, res, n)
             All == {rows[i] : i \in 1..n} \cup {fin, first}
  <2>1. s \in Seq(Sound)
    BY <1>1, <1>3, ReplySound
  <2>2. ~IsRow(fin) /\ ~Lists1(first)
    BY DEF Item, IsMarker, IsRow, Lists1
  <2>3. /\ rows \in Seq(All) /\ Len(rows) = n
        /\ \A i \in 1..n : IsRow(rows[i]) /\ ~IsMarker(rows[i]) /\ rows[i].of = q.of /\ rows[i].key = q.code
    BY <1>3 DEF Item, IsMarker, IsRow
  <2>4. s = <<first>> \o (IF kind[q.of] = "list" /\ res = "ok" THEN rows \o <<fin>> ELSE <<>>)
    BY DEF Reply
  <2>5. fin \in All /\ first \in All
    OBVIOUS
  <2> HIDE DEF rows, fin, first, s, q, All
  <2>6. /\ <<first>> \in Seq(All) /\ Len(<<first>>) = 1 /\ <<first>>[1] = first
        /\ <<fin>> \in Seq(All) /\ Len(<<fin>>) = 1 /\ <<fin>>[1] = fin
    BY <2>5
  <2>7. CASE kind[q.of] = "list" /\ res = "ok"
    <3> DEFINE rest == rows \o <<fin>>
    <3>1. /\ rest \in Seq(All) /\ Len(rest) = n + 1
          /\ \A i \in 1..n + 1 : rest[i] = IF i <= n THEN rows[i] ELSE <<fin>>[i - n]
      BY <1>3, <2>3, <2>6, ConcatProperties
    <3>2. s = <<first>> \o rest
      BY <2>4, <2>7
    <3> HIDE DEF rest
    <3>3. /\ Len(s) = n + 2
          /\ \A i \in 1..n + 2 : s[i] = IF i <= 1 THEN <<first>>[i] ELSE rest[i - 1]
      <4>1. Len(<<first>>) + Len(rest) = n + 2
        BY <1>3, <2>6, <3>1
      <4> QED BY <1>3, <2>6, <3>1, <3>2, <4>1, ConcatProperties
    <3>4. s[1] = first
      BY <1>3, <2>6, <3>3
    <3>5. ASSUME NEW i \in 2..n + 1 PROVE s[i] = rows[i - 1] /\ i - 1 \in 1..n
      <4>1. i \in 1..n + 2 /\ i - 1 \in 1..n + 1 /\ i - 1 \in 1..n /\ i - 1 <= n /\ ~(i <= 1)
        BY <1>3
      <4>2. s[i] = rest[i - 1] /\ rest[i - 1] = rows[i - 1]
        BY <3>1, <3>3, <4>1
      <4> QED BY <4>1, <4>2
    <3>6. s[n + 2] = fin
      <4>1. n + 2 \in 1..n + 2 /\ ~(n + 2 <= 1) /\ (n + 2) - 1 = n + 1 /\ n + 1 \in 1..n + 1
            /\ ~(n + 1 <= n) /\ (n + 1) - n = 1
        BY <1>3
      <4>2. s[n + 2] = rest[n + 1] /\ rest[n + 1] = <<fin>>[1]
        BY <3>1, <3>3, <4>1
      <4> QED BY <2>6, <4>2
    <3>7. \A i \in 1..n + 2 : i = 1 \/ i \in 2..n + 1 \/ i = n + 2
      BY <1>3
    <3>8. ASSUME NEW i \in 1..n + 2
          PROVE  /\ IsRow(s[i]) <=> i \in 2..n + 1
                 /\ IsRow(s[i]) => s[i].of = q.of /\ s[i].key = q.code
                 /\ IsMarker(s[i]) => i = n + 2
      <4>1. CASE i = 1
        BY <1>3, <2>2, <3>4, <4>1 DEF Lists1
      <4>2. CASE i \in 2..n + 1
        BY <2>3, <3>5, <4>2
      <4>3. CASE i = n + 2
        BY <1>3, <2>2, <3>6, <4>3
      <4> QED BY <3>7, <4>1, <4>2, <4>3
    <3>9. /\ net' = net \o s /\ served'[q.of] = n /\ (kind[q.of] # "list" \/ did'[q.of] # "ok" => n = 0)
          /\ Len(s) = n + 2 /\ did'[q.of] = "ok"
      BY <1>2, <1>3, <1>5, <2>7, <3>3 DEF s
    <3> QED BY <2>1, <2>7, <3>8, <3>9 DEF q
  <2>8. CASE ~(kind[q.of] = "list" /\ res = "ok")
    <3>1. s = <<first>> \o <<>>
      BY <2>4, <2>8
    <3>2. s = <<first>>
      BY <2>6, <3>1, ConcatEmptySeq
    <3>3. \A i \in 1..Len(s) : ~IsMarker(s[i]) /\ ~IsRow(s[i])
      BY <2>2, <2>6, <3>2 DEF Lists1
    <3>4. n = 0
      BY <1>2, <2>8
    <3>5. net' = net \o s /\ served'[q.of] = 0 /\ 2..0 + 1 = {} /\ 0 \in 0..MaxFrames
      BY <1>2, <1>3, <1>5, <3>4 DEF s
    <3> QED BY <2>1, <3>3, <3>5 DEF q
  <2> QED BY <2>7, <2>8
<1> QED BY <1>2, <1>4, <1>5

\* Rows and marker of a listing that is answered go behind all that is under way.
LEMMA RowsAnswered ==
  ASSUME TypeInv, TypeInv', ServerAnswers
  PROVE  LET q == Head(srv) IN
         \E n \in 0..MaxFrames :
           /\ served'[q.of] = n /\ (kind[q.of] # "list" \/ did'[q.of] # "ok" => n = 0)
           /\ \A i \in DOMAIN Flow : i \in DOMAIN Flow' /\ Flow'[i] = Flow[i]
           /\ \A j \in 1..n : Len(Flow) + 1 + j \in DOMAIN Flow'
           /\ \A i \in DOMAIN Flow' : i \notin DOMAIN Flow =>
                /\ IsRow(Flow'[i]) <=> \E j \in 1..n : i = Len(Flow) + 1 + j
                /\ IsRow(Flow'[i]) => /\ Flow'[i].of = q.of /\ Flow'[i].key = q.code
                                      /\ kind[q.of] = "list" /\ did'[q.of] = "ok"
                /\ IsMarker(Flow'[i]) => \A j \in DOMAIN Flow' : j <= i
<1> DEFINE q == Head(srv)
<1> HIDE DEF q
<1>1. PICK s \in Seq(Sound), n \in 0..MaxFrames :
           /\ net' = net \o s /\ served'[q.of] = n
           /\ kind[q.of] # "list" \/ did'[q.of] # "ok" => n = 0
           /\ n # 0 => Len(s) = n + 2
           /\ \A i \in 1..Len(s) :
                /\ IsRow(s[i]) <=> i \in 2..n + 1
                /\ IsRow(s[i]) => s[i].of = q.of /\ s[i].key = q.code /\ kind[q.of] = "list" /\ did'[q.of] = "ok"
                /\ IsMarker(s[i]) => i = Len(s)
  BY ReplyRows DEF q
<1>2. n \in Nat /\ Len(Flow) \in Nat /\ DOMAIN Flow = 1..Len(Flow) /\ batch' = batch
  BY FlowTypes, RequestsAssumption DEF ServerAnswers
<1>3. /\ Len(s) \in Nat /\ DOMAIN Flow' = 1..Len(Flow) + Len(s)
      /\ \A i \in DOMAIN Flow : i \in DOMAIN Flow' /\ Flow'[i] = Flow[i]
      /\ \A j \in 1..Len(s) : Flow'[Len(Flow) + j] = s[j]
  BY <1>1, <1>2, FlowGrown
<1>4. ASSUME NEW j \in 1..n PROVE Len(Flow) + 1 + j \in DOMAIN Flow'
  BY <1>1, <1>2, <1>3
<1>5. ASSUME NEW i \in DOMAIN Flow', i \notin DOMAIN Flow
      PROVE  /\ IsRow(Flow'[i]) <=> \E j \in 1..n : i = Len(Flow) + 1 + j
             /\ IsRow(Flow'[i]) => /\ Flow'[i].of = q.of /\ Flow'[i].key = q.code
                                   /\ kind[q.of] = "list" /\ did'[q.of] = "ok"
             /\ IsMarker(Flow'[i]) => \A j \in DOMAIN Flow' : j <= i
  <2> DEFINE k == i - Len(Flow)
  <2>1. k \in 1..Len(s) /\ i = Len(Flow) + k
    BY <1>2, <1>3, <1>5
  <2> HIDE DEF k
  <2>2. Flow'[i] = s[k]
    BY <1>3, <2>1
  <2>3. k \in 2..n + 1 <=> \E j \in 1..n : i = Len(Flow) + 1 + j
    <3>1. ASSUME k \in 2..n + 1 PROVE \E j \in 1..n : i = Len(Flow) + 1 + j
      <4>1. k - 1 \in 1..n /\ i = Len(Flow) + 1 + (k - 1)
        BY <1>2, <2>1, <3>1
      <4> QED BY <4>1
    <3>2. ASSUME NEW j \in 1..n, i = Len(Flow) + 1 + j PROVE k \in 2..n + 1
      BY <1>2, <2>1, <3>2
    <3> QED BY <3>1, <3>2
  <2>4. k = Len(s) => \A j \in DOMAIN Flow' : j <= i
    BY <1>2, <1>3, <2>1
  <2> QED BY <1>1, <2>1, <2>2, <2>3, <2>4
<1> QED BY <1>1, <1>3, <1>4, <1>5 DEF q

\* The rows that are sent of a listing are counted when the server answers it.
LEMMA ServedMove ==
  ASSUME TypeInv, [Next]_vars, NEW q \in Reqs
  PROVE  served'[q] = served[q] \/ (ServerAnswers /\ q = Head(srv).of)
<1>1. ASSUME NEW r \in Reqs, Ask(r) \/ Cancel(r) PROVE served' = served
  BY <1>1 DEF Ask, AskPlain, AskMove, AskKick, AskGroup, AskOp, AskList, AskDownload, AskUpload, Queue, Cancel, history
<1>2. ASSUME NEW r \in Reqs, Worker(r) \/ \E k \in Transfers : AskLate(r, k) PROVE served' = served
  BY <1>2 DEF AskLate, Worker, WorkerCancels, GraceEnds, DownloadEnds, UploadSent, history
<1>3. ASSUME NEW r \in Reqs, Execute(r) PROVE served' = served
  BY <1>3 DEF Execute, SendKick, SendGroup, Track, SendOp, SendList, SendMove, RefuseKick, SendPlain, SendFails,
     TransferFails, SendTransfer, Sent, history
<1>4. ASSUME NEW r \in Reqs, \/ \E ok \in BOOLEAN : Opened(r, ok)
                             \/ \E res \in {"ok", "err"} : ServerStatus(r, res)
      PROVE  served' = served
  BY <1>4 DEF Opened, ServerStatus, history
<1>5. CASE ServerAnswers
  BY <1>5 DEF ServerAnswers, TypeInv, TypeOK
<1>6. CASE Drop \/ Reconnect \/ End \/ Connect
  BY <1>6 DEF Drop, Reconnect, End, Connect, history
<1>7. CASE (\E n \in 1..Len(net) : Collect(n)) \/ (\E t \in timers : Fire(t))
  BY <1>7 DEF Collect, Fire, history
<1>8. CASE Handle
  BY <1>8 DEF Handle, HandleResult, HandleRows, HandleFin, HandleError, HandleStart, HandleStatus, HandleDrop, history
<1>9. CASE UNCHANGED vars
  BY <1>9 DEF vars, history
<1> QED BY <1>1, <1>2, <1>3, <1>4, <1>5, <1>6, <1>7, <1>8, <1>9 DEF Next

\* Scheduling changes neither the rows of a listing nor whose it is.
LEMMA ScheduledRows ==
  ASSUME NEW C, NEW lists \in [Codes -> Lists], Schedule(C, lists), NEW c \in Codes
  PROVE  ftLists'[c].rows = lists[c].rows /\ ftLists'[c].of = lists[c].of
BY DEF Schedule, Lists

\* The rows that are collected change when rows are handled, and begin with a command.
LEMMA CollectedRows ==
  ASSUME TypeInv, [Next]_vars, NEW c \in Codes, ftLists'[c].of # None
  PROVE  \/ ftLists'[c].rows = ftLists[c].rows /\ ftLists'[c].of = ftLists[c].of
         \/ HandleRows
         \/ \E r \in Reqs : SendList(r) /\ ftLists'[c].of = r /\ ftLists'[c].rows = 0
<1>0. ftLists \in [Codes -> Lists]
  BY DEF TypeInv, TypeOK
<1>1. ASSUME NEW r \in Reqs, Ask(r) \/ Cancel(r) PROVE ftLists' = ftLists
  BY <1>1 DEF Ask, AskPlain, AskMove, AskKick, AskGroup, AskOp, AskList, AskDownload, AskUpload, Queue, Cancel, tables
<1>2. ASSUME NEW r \in Reqs, Worker(r) \/ \E k \in Transfers : AskLate(r, k) PROVE ftLists' = ftLists
  BY <1>2 DEF AskLate, Worker, WorkerCancels, GraceEnds, DownloadEnds, UploadSent, tables
<1>3. ASSUME NEW r \in Reqs, SendList(r)
      PROVE  ftLists'[c] = ftLists[c] \/ (ftLists'[c].of = r /\ ftLists'[c].rows = 0)
  BY <1>0, <1>3 DEF SendList, Next1, NoList
<1>4. ASSUME NEW r \in Reqs, Execute(r), ~SendList(r) PROVE ftLists' = ftLists
  BY <1>4 DEF Execute, SendKick, SendGroup, Track, SendOp, SendMove, RefuseKick, SendPlain, SendFails,
     TransferFails, SendTransfer, tables
<1>5. ASSUME NEW r \in Reqs, \/ \E ok \in BOOLEAN : Opened(r, ok)
                             \/ \E res \in {"ok", "err"} : ServerStatus(r, res)
      PROVE  ftLists' = ftLists
  BY <1>5 DEF Opened, ServerStatus, tables
<1>6. CASE ServerAnswers \/ Drop \/ Reconnect \/ End \/ Connect
  BY <1>6 DEF ServerAnswers, Drop, Reconnect, End, Connect, tables, NoList
<1>7. CASE (\E n \in 1..Len(net) : Collect(n)) \/ (\E t \in timers : Fire(t))
  BY <1>0, <1>7 DEF Collect, Fire, tables, NoList
<1>8. CASE HandleResult
  <2> DEFINE ok == Item1.res = "ok"
             C == IF ok THEN {} ELSE {Item1.key}
             lists == IF ftLists[Item1.key].of = None THEN ftLists
                      ELSE [ftLists EXCEPT ![Item1.key].res = Item1.res]
  <2>1. Schedule(C, lists)
    BY <1>8 DEF HandleResult
  <2>2. Item1.res \in {"ok", "err", "empty"}
    BY <1>8, FirstSound DEF HandleResult, Handling, Sound, Items
  <2>3. ASSUME NEW d \in Codes
        PROVE  lists[d] \in Lists /\ lists[d].rows = ftLists[d].rows /\ lists[d].of = ftLists[d].of
    <3>1. ftLists[d] \in Lists
      BY <1>0
    <3> DEFINE l == [ftLists[d] EXCEPT !.res = Item1.res]
    <3>2. l \in Lists /\ l.rows = ftLists[d].rows /\ l.of = ftLists[d].of
      BY <2>2, <3>1 DEF Lists
    <3>3. lists[d] = ftLists[d] \/ lists[d] = l
      BY <1>0
    <3> HIDE DEF l, lists
    <3> QED BY <3>1, <3>2, <3>3
  <2>4. lists \in [Codes -> Lists]
    <3>1. lists = [d \in Codes |-> lists[d]]
      BY <1>0
    <3> HIDE DEF lists
    <3> QED BY <2>3, <3>1
  <2> HIDE DEF lists, C
  <2> QED BY <2>1, <2>3, <2>4, ScheduledRows
<1>9. CASE HandleFin
  <2> DEFINE C == {d \in Codes : /\ ftLists[d].of # None /\ dir[ftLists[d].of] = Item1.key
                                 /\ ~ftLists[d].finished}
             lists == [d \in Codes |-> IF d \in C THEN [ftLists[d] EXCEPT !.finished = TRUE] ELSE ftLists[d]]
  <2>1. Schedule(C, lists)
    BY <1>9 DEF HandleFin
  <2> HIDE DEF C
  <2>2. lists \in [Codes -> Lists] /\ lists[c].rows = ftLists[c].rows /\ lists[c].of = ftLists[c].of
    BY <1>0 DEF Lists
  <2> HIDE DEF lists
  <2> QED BY <2>1, <2>2, ScheduledRows
<1>10. CASE HandleError \/ HandleStart \/ HandleStatus
  BY <1>10 DEF HandleError, HandleStart, HandleStatus
<1>11. CASE HandleDrop
  BY <1>11 DEF HandleDrop, NoList
<1>12. CASE UNCHANGED vars
  BY <1>12 DEF vars, tables
<1> QED BY <1>1, <1>2, <1>3, <1>4, <1>5, <1>6, <1>7, <1>8, <1>9, <1>10, <1>11, <1>12 DEF Next, Handle

\* Rows that are taken from the batch are put to their listing.
LEMMA RowsHandled ==
  ASSUME TypeInv, [Next]_vars, Takes, IsRow(Item1) PROVE HandleRows
<1>0. batch # <<>> /\ batch' # batch
  <2>1. batch \in Seq(Sound) /\ batch # <<>> /\ batch' = Tail(batch)
    BY Lengths DEF Takes
  <2>2. Len(batch') = Len(batch) - 1 /\ Len(batch) \in Nat
    BY <2>1, HeadTailProperties, LenProperties
  <2>3. Len(batch') # Len(batch)
    BY <2>2
  <2> QED BY <2>3 DEF Takes
<1>1. ASSUME NEW r \in Reqs PROVE ~Ask(r) /\ ~Cancel(r)
  BY <1>0 DEF Ask, AskPlain, AskMove, AskKick, AskGroup, AskOp, AskList, AskDownload, AskUpload, Queue, Cancel, wire
<1>2. ASSUME NEW r \in Reqs PROVE ~Worker(r) /\ \A k \in Transfers : ~AskLate(r, k)
  BY <1>0 DEF AskLate, Worker, WorkerCancels, GraceEnds, DownloadEnds, UploadSent, wire
<1>3. ASSUME NEW r \in Reqs PROVE ~Execute(r)
  BY <1>0 DEF Execute, SendKick, SendGroup, Track, SendOp, SendList, SendMove, RefuseKick, SendPlain, SendFails,
     TransferFails, SendTransfer, Next1
<1>4. ASSUME NEW r \in Reqs
      PROVE  (\A ok \in BOOLEAN : ~Opened(r, ok)) /\ (\A res \in {"ok", "err"} : ~ServerStatus(r, res))
  BY <1>0 DEF Opened, ServerStatus
<1>5. ~ServerAnswers /\ ~Drop /\ ~Reconnect /\ ~End /\ ~Connect
  BY <1>0 DEF ServerAnswers, Drop, Reconnect, End, Connect
<1>6. (\A n \in 1..Len(net) : ~Collect(n)) /\ (\A t \in timers : ~Fire(t))
  BY <1>0 DEF Collect, Fire, wire
<1>7. ~HandleResult /\ ~HandleFin /\ ~HandleError /\ ~HandleStart /\ ~HandleStatus /\ ~HandleDrop
  BY DEF IsRow, Item1, HandleResult, HandleFin, HandleError, HandleStart, HandleStatus, HandleDrop, Handling
<1>8. ~UNCHANGED vars
  BY <1>0 DEF vars, wire
<1> QED BY <1>1, <1>2, <1>3, <1>4, <1>5, <1>6, <1>7, <1>8 DEF Next, Handle

\* A timer is older, by the item that is handled, or new, and then waits for all that
\* is under way.
Older(t) ==
  \E u \in timers : /\ u.code = t.code
                    /\ t.left = u.left \/ (Takes /\ t.left = IF u.left = 0 THEN 0 ELSE u.left - 1)
LeftMoves ==
  \A t \in timers' :
    \/ Older(t)
    \/ /\ Takes /\ t.left = Waiting /\ t.code \in Codes /\ ftLists[t.code].of # None
       /\ \/ HandleResult /\ t.code = Item1.key /\ Item1.res # "ok"
          \/ HandleFin /\ dir[ftLists[t.code].of] = Item1.key

\* What scheduling does to the timers.
LEMMA ScheduledLeft ==
  ASSUME TypeOK, batch # <<>>, net' = net, NEW C, C \subseteq Codes, NEW lists, Schedule(C, lists),
         \A c \in Codes : lists[c].of = ftLists[c].of, NEW t \in timers'
  PROVE  Older(t) \/ (t.left = Waiting /\ t.code \in C /\ ftLists[t.code].of # None)
<1> DEFINE new == {c \in C : lists[c].of # None /\ ~lists[c].scheduled}
<1>1. \/ \E u \in timers : t = [u EXCEPT !.left = IF u.left = 0 THEN 0 ELSE u.left - 1]
      \/ \E c \in new : t = [code |-> c, conn |-> conn, left |-> Waiting]
  BY DEF Schedule
<1>2. \A u \in timers : u = [code |-> u.code, conn |-> u.conn, left |-> u.left]
  BY DEF TypeOK, Timers
<1>3. ASSUME NEW u \in timers, t = [u EXCEPT !.left = IF u.left = 0 THEN 0 ELSE u.left - 1]
      PROVE  Older(t)
  <2>1. t.code = u.code /\ t.left = IF u.left = 0 THEN 0 ELSE u.left - 1
    BY <1>2, <1>3
  <2>2. Takes
    BY DEF Takes, Schedule
  <2> QED BY <2>1, <2>2 DEF Older
<1>4. \A c \in new : c \in C /\ ftLists[c].of # None
  OBVIOUS
<1> HIDE DEF new
<1> QED BY <1>1, <1>3, <1>4

\* The same when nothing is scheduled.
LEMMA HandledLeft ==
  ASSUME TypeOK, batch # <<>>, net' = net, Handled, NEW t \in timers' PROVE Older(t)
<1>1. PICK u \in timers : t = [u EXCEPT !.left = IF u.left = 0 THEN 0 ELSE u.left - 1]
  BY DEF Handled
<1>2. u = [code |-> u.code, conn |-> u.conn, left |-> u.left]
  BY DEF TypeOK, Timers
<1>3. t.code = u.code /\ t.left = IF u.left = 0 THEN 0 ELSE u.left - 1
  BY <1>1, <1>2
<1>4. Takes
  BY DEF Takes, Handled
<1> QED BY <1>3, <1>4 DEF Older

\* Every step is one of these as far as the timers go.
LEMMA LeftMove ==
  ASSUME TypeInv, [Next]_vars PROVE LeftMoves
<1>0. TypeOK /\ TypeInv
  BY DEF TypeInv
<1>a. ASSUME \A t \in timers' : t \in timers PROVE LeftMoves
  BY <1>a DEF LeftMoves, Older
<1>b. ASSUME Handled, batch # <<>>, net' = net PROVE LeftMoves
  BY <1>0, <1>b, HandledLeft DEF LeftMoves
<1>1. ASSUME NEW r \in Reqs, Ask(r) \/ Cancel(r) PROVE timers' = timers
  BY <1>1 DEF Ask, AskPlain, AskMove, AskKick, AskGroup, AskOp, AskList, AskDownload, AskUpload, Queue, Cancel, tables
<1>2. ASSUME NEW r \in Reqs, Worker(r) \/ \E k \in Transfers : AskLate(r, k) PROVE timers' = timers
  BY <1>2 DEF AskLate, Worker, WorkerCancels, GraceEnds, DownloadEnds, UploadSent, tables
<1>3. ASSUME NEW r \in Reqs, Execute(r) PROVE timers' = timers
  BY <1>3 DEF Execute, SendKick, SendGroup, Track, SendOp, SendList, SendMove, RefuseKick, SendPlain, SendFails,
     TransferFails, SendTransfer, tables
<1>5. ASSUME NEW r \in Reqs, \/ \E ok \in BOOLEAN : Opened(r, ok)
                             \/ \E res \in {"ok", "err"} : ServerStatus(r, res)
      PROVE  timers' = timers
  BY <1>5 DEF Opened, ServerStatus, tables
<1>6. CASE ServerAnswers \/ Drop \/ Reconnect \/ End \/ Connect
  <2>1. timers' = timers
    BY <1>6 DEF ServerAnswers, Drop, Reconnect, End, Connect, tables
  <2> QED BY <1>a, <2>1
<1>7. CASE (\E n \in 1..Len(net) : Collect(n)) \/ (\E t \in timers : Fire(t))
  <2>1. timers' \subseteq timers
    BY <1>7 DEF Collect, Fire, tables
  <2> QED BY <1>a, <2>1
<1>8. CASE HandleResult
  <2> DEFINE C == IF Item1.res = "ok" THEN {} ELSE {Item1.key}
             lists == IF ftLists[Item1.key].of = None THEN ftLists
                      ELSE [ftLists EXCEPT ![Item1.key].res = Item1.res]
  <2>1. Schedule(C, lists) /\ batch # <<>> /\ net' = net
    BY <1>8 DEF HandleResult, Handling
  <2>2. Item1.key \in Codes
    BY <1>8, FirstSound DEF HandleResult, Handling, Sound, Item1
  <2>3. C \subseteq Codes /\ \A c \in C : c = Item1.key /\ Item1.res # "ok"
    BY <2>2
  <2>4. \A c \in Codes : lists[c].of = ftLists[c].of
    BY <1>0 DEF TypeOK, Lists
  <2> HIDE DEF lists, C
  <2>5. ASSUME NEW t \in timers' PROVE Older(t) \/ (t.left = Waiting /\ t.code \in C /\ ftLists[t.code].of # None)
    BY <1>0, <2>1, <2>3, <2>4, ScheduledLeft
  <2>6. Takes
    BY <2>1 DEF Takes, Schedule
  <2> QED BY <1>8, <2>3, <2>5, <2>6 DEF LeftMoves
<1>9. CASE HandleFin
  <2> DEFINE C == {d \in Codes : /\ ftLists[d].of # None /\ dir[ftLists[d].of] = Item1.key
                                 /\ ~ftLists[d].finished}
             lists == [d \in Codes |-> IF d \in C THEN [ftLists[d] EXCEPT !.finished = TRUE] ELSE ftLists[d]]
  <2>1. Schedule(C, lists) /\ batch # <<>> /\ net' = net
    BY <1>9 DEF HandleFin, Handling
  <2>2. C \subseteq Codes /\ \A c \in C : dir[ftLists[c].of] = Item1.key
    OBVIOUS
  <2> HIDE DEF C
  <2>3. \A c \in Codes : lists[c].of = ftLists[c].of
    BY <1>0 DEF TypeOK, Lists
  <2> HIDE DEF lists
  <2>4. ASSUME NEW t \in timers' PROVE Older(t) \/ (t.left = Waiting /\ t.code \in C /\ ftLists[t.code].of # None)
    BY <1>0, <2>1, <2>2, <2>3, ScheduledLeft
  <2>5. Takes
    BY <2>1 DEF Takes, Schedule
  <2> QED BY <1>9, <2>2, <2>4, <2>5 DEF LeftMoves
<1>10. CASE HandleRows \/ HandleError
  BY <1>b, <1>10 DEF HandleRows, HandleError, Handling
<1>11. CASE HandleStart \/ HandleStatus \/ HandleDrop
  BY <1>b, <1>11 DEF HandleStart, HandleStatus, HandleDrop, Handling
<1>12. CASE UNCHANGED vars
  BY <1>a, <1>12 DEF vars, tables
<1> QED BY <1>a, <1>1, <1>2, <1>3, <1>5, <1>6, <1>7, <1>8, <1>9, <1>10, <1>11, <1>12 DEF Next, Handle

\* A listing is under no other code than the one it was sent with.
LEMMA CodedKept ==
  ASSUME TypeInv, OwnerInv, [Next]_vars, NEW k, NEW r \in Reqs, r \notin InQueue, Coded(k, r) PROVE Coded(k, r)'
<1>0. TableMoves /\ r # None /\ TypeInv
  BY TableMove DEF Reqs, None
<1>1. ASSUME NEW c \in Codes, ftLists'[c].of = r PROVE ftLists[c].of = r
  <2>1. CASE Shrinks
    BY <1>0, <1>1, <2>1 DEF Shrinks
  <2>2. ASSUME NEW q \in Reqs, Files(q) PROVE ftLists[c].of = r
    <3>1. q # r
      BY <1>0, <2>2, Taken DEF Files, Sends, TypeInv
    <3> QED BY <1>0, <1>1, <2>2, <3>1 DEF Files, NoList
  <2> QED BY <1>0, <2>1, <2>2 DEF TableMoves
<1> QED BY <1>1 DEF Coded

\* A command is under its own code.
LEMMA CommandsCodedStep ==
  ASSUME TypeInv, OwnerInv, WireInv, CommandsCoded, [Next]_vars PROVE CommandsCoded'
<1>a. TableMoves
  BY TableMove
<1>0. srv \in Seq([of: Reqs, code: Codes]) /\ Len(srv) \in Nat /\ DOMAIN srv = 1..Len(srv)
  BY LenProperties DEF TypeInv, TypeOK
<1>1. ASSUME NEW q \in Commands PROVE Coded(q.code, q.of)'
  <2>1. q \in [of: Reqs, code: Codes]
    BY <1>0, ElementOfSeq DEF Commands
  <2>2. q.of \in Reqs /\ q.of \notin InQueue
    BY <2>1 DEF WireInv, CommandOK
  <2>3. Coded(q.code, q.of)
    BY DEF CommandsCoded
  <2> DEFINE k == q.code  r == q.of
  <2> HIDE DEF k, r
  <2>4. r \in Reqs /\ r \notin InQueue /\ Coded(k, r)
    BY <2>2, <2>3 DEF k, r
  <2>5. Coded(k, r)'
    BY <2>4, CodedKept
  <2> QED BY <2>5 DEF k, r
<1>2. ASSUME NEW r \in Reqs, Sends(r), NEW c \in Codes, ftLists'[c].of = r PROVE c = code
  <2>1. r \in InQueue /\ r # None
    BY <1>2, Taken DEF Sends, TypeInv, Reqs, None
  <2>2. ftLists[c].of # r
    BY <2>1 DEF OwnerInv, Owned, Listed
  <2> QED BY <1>a, <1>2, <2>1, <2>2 DEF TableMoves, Shrinks, Files, NoList
<1>3. ASSUME NEW q \in Commands' PROVE \A c \in Codes : ftLists'[c].of = q.of => c = q.code
  <2>1. CASE q \in Commands
    BY <1>1, <2>1 DEF Coded
  <2>2. ASSUME NEW r \in Reqs, Sends(r), q = [of |-> r, code |-> code]
        PROVE  \A c \in Codes : ftLists'[c].of = q.of => c = q.code
    BY <1>2, <2>2
  <2> QED BY <2>1, <2>2, CommandsGrow
<1> QED BY <1>3 DEF CommandsCoded, Coded

\* A row under way stays what it is, as long as the connection lasts.
LEMMA RowKept ==
  ASSUME TypeInv, OwnerInv, WireInv, [Next]_vars, Same, NEW m, RowTrue(m) PROVE RowTrue(m)'
<1> DEFINE r == m.of  k == m.key
<1>1. r \in Reqs /\ k \in Codes /\ kind[r] = "list" /\ did[r] = "ok" /\ Own(k, r) /\ Coded(k, r)
  BY DEF RowTrue
<1> HIDE DEF r, k
<1>2. kind'[r] = "list" /\ did'[r] = "ok"
  BY <1>1, ListingKept
<1>3. r \notin InQueue
  BY <1>1 DEF WireInv
<1>4. Own(k, r)' /\ Coded(k, r)'
  BY <1>1, <1>3, OwnStep, CodedKept
<1>5. r \in Reqs' /\ k \in Codes'
  BY <1>1 DEF Reqs, Codes
<1> QED BY <1>2, <1>4, <1>5 DEF RowTrue, r, k

\* The command that is answered.
LEMMA AnswersCommand ==
  ASSUME TypeInv, WireInv, ServerAnswers
  PROVE  LET q == Head(srv) IN q \in Commands /\ q \in [of: Reqs, code: Codes] /\ CommandOK(q)
<1>1. srv # <<>> /\ srv \in Seq([of: Reqs, code: Codes])
  BY DEF ServerAnswers, TypeInv, TypeOK
<1>4. Head(srv) = srv[1] /\ 1 \in DOMAIN srv
  BY <1>1, HeadTailProperties, LenProperties, EmptySeq
<1> DEFINE S == [of: Reqs, code: Codes]
<1>5. srv \in Seq(S) /\ srv # <<>>
  BY <1>1
<1> HIDE DEF S
<1>6. Head(srv) \in S
  BY <1>5, HeadTailProperties
<1>2. Head(srv) = srv[1] /\ 1 \in DOMAIN srv /\ Head(srv) \in S
  BY <1>4, <1>6
<1>3. Head(srv) \in Commands
  BY <1>2 DEF Commands
<1> QED BY <1>2, <1>3 DEF WireInv, S

\* The rows under way are of listings the server has done.
LEMMA RowsTrueStep ==
  ASSUME TypeInv, OwnerInv, Phases, WireInv, CommandsCoded, RowsTrue, [Next]_vars PROVE RowsTrue'
<1>0. TypeInv' /\ RowMoves /\ (Same \/ Anew)
  BY TypeStep, RowMove, ConnStep
<1> SUFFICES ASSUME NEW i \in DOMAIN Flow', NEW m, m = Flow'[i], IsRow(m) PROVE RowTrue(m)'
  BY DEF RowsTrue, RowTrue, Own, Coded
<1>1. ASSUME NEW j \in DOMAIN Flow, m = Flow[j] PROVE RowTrue(m)'
  <2>1. CASE Same
    <3>1. RowTrue(m)
      BY <1>1 DEF RowsTrue
    <3> QED BY <2>1, <3>1, RowKept
  <2>2. CASE Anew
    <3>1. Flow = <<>>
      BY <2>2, Lengths, ConcatEmptySeq DEF Anew, Flow
    <3> QED BY <1>1, <3>1
  <2> QED BY <1>0, <2>1, <2>2
<1>2. CASE Still
  <2>1. i \in DOMAIN Flow /\ m = Flow[i]
    BY <1>2 DEF Still, Lists1
  <2> QED BY <1>1, <2>1
<1>3. CASE Takes
  <2>1. i + 1 \in DOMAIN Flow /\ m = Flow[i + 1]
    BY <1>0, <1>3, FlowTaken DEF Takes
  <2> QED BY <1>1, <2>1
<1>4. CASE ServerAnswers
  <2> DEFINE q == Head(srv)
  <2>1. q \in Commands /\ q.of \in Reqs /\ q.code \in Codes /\ Own(q.code, q.of) /\ Coded(q.code, q.of)
        /\ q.of \notin InQueue
    BY <1>4, AnswersCommand DEF CommandOK, CommandsCoded
  <2>2. (\A j \in DOMAIN Flow : j \in DOMAIN Flow' /\ Flow'[j] = Flow[j])
        /\ (i \notin DOMAIN Flow => m.of = q.of /\ m.key = q.code /\ kind[q.of] = "list" /\ did'[q.of] = "ok")
    BY <1>0, <1>4, RowsAnswered
  <2> HIDE DEF q
  <2>3. CASE i \notin DOMAIN Flow
    <3> DEFINE k == q.code  r == q.of
    <3> HIDE DEF k, r
    <3>1. k \in Codes /\ r \in Reqs /\ Own(k, r) /\ Coded(k, r) /\ r \notin InQueue
      BY <2>1 DEF k, r
    <3>2. Same /\ kind' = kind
      <4>1. ~Anew
        BY <1>4 DEF Anew, ServerAnswers
      <4> QED BY <1>0, <1>4, <4>1 DEF ServerAnswers, asking
    <3>3. m.of = r /\ m.key = k /\ kind'[r] = "list" /\ did'[r] = "ok"
      BY <2>2, <2>3, <3>2 DEF r, k
    <3>4. m.key \in Codes /\ m.of \in Reqs /\ Own(m.key, m.of) /\ Coded(m.key, m.of) /\ m.of \notin InQueue
          /\ kind'[m.of] = "list" /\ did'[m.of] = "ok"
      BY <3>1, <3>3
    <3> DEFINE mk == m.key  mo == m.of
    <3> HIDE DEF mk, mo
    <3>5. mk \in Codes /\ mo \in Reqs /\ Own(mk, mo) /\ Coded(mk, mo) /\ mo \notin InQueue
      BY <3>4 DEF mk, mo
    <3>6. Own(mk, mo)'
      BY <3>2, <3>5, OwnStep
    <3>7. Coded(mk, mo)'
      BY <3>5, CodedKept
    <3>8. m.of \in Reqs' /\ m.key \in Codes'
      BY <3>4 DEF Reqs, Codes
    <3> QED BY <3>4, <3>6, <3>7, <3>8 DEF RowTrue, mk, mo
  <2> QED BY <1>1, <2>2, <2>3
<1>5. CASE Drop
  <2>1. i \in DOMAIN Flow /\ m = Flow[i]
    BY <1>0, <1>5, FlowCut DEF Lists1
  <2> QED BY <1>1, <2>1
<1>6. ASSUME NEW n \in 1..Len(net), Collect(n) PROVE RowTrue(m)'
  <2>1. /\ DOMAIN Flow' = DOMAIN Flow /\ n \in DOMAIN Flow
        /\ \A j \in DOMAIN Flow : Flow'[j] = IF j = n THEN Flow[1] ELSE IF j < n THEN Flow[j + 1] ELSE Flow[j]
    BY <1>0, <1>6, FlowTurned
  <2>2. Len(Flow) \in Nat /\ DOMAIN Flow = 1..Len(Flow)
    BY FlowTypes
  <2>3. \E j \in DOMAIN Flow : m = Flow[j]
    BY <2>1, <2>2
  <2> QED BY <1>1, <2>3
<1>7. CASE DOMAIN Flow' = {}
  BY <1>7
<1> QED BY <1>0, <1>2, <1>3, <1>4, <1>5, <1>6, <1>7 DEF RowMoves

\* What is not a listing done has no rows to wait for.
LEMMA UnservedStep ==
  ASSUME TypeInv, OwnerInv, WireInv, Unserved, [Next]_vars PROVE Unserved'
<1>0. HistoryMoves /\ TypeInv'
  BY HistoryMove, TypeStep
<1>1. ASSUME NEW r \in Reqs, kind'[r] # "list" \/ did'[r] # "ok" PROVE served'[r] = 0
  <2>1. CASE served'[r] = served[r]
    <3>1. CASE kind[r] # "list"
      BY <2>1, <3>1 DEF Unserved
    <3>2. CASE kind[r] = "list"
      BY <1>1, <2>1, <3>2, ListingKept DEF Unserved
    <3> QED BY <3>1, <3>2
  <2>2. CASE ServerAnswers /\ r = Head(srv).of
    <3>1. kind' = kind
      BY <2>2 DEF ServerAnswers, asking
    <3>2. served'[r] = 0 \/ (kind[r] = "list" /\ did'[r] = "ok")
      BY <1>0, <2>2, RowsAnswered
    <3> QED BY <1>1, <3>1, <3>2
  <2> QED BY <2>1, <2>2, ServedMove
<1> QED BY <1>1 DEF Unserved, Reqs

\* The rows of a listing stay before its marker, or in its batch.
LEMMA RowsFirstStep ==
  ASSUME TypeInv, OwnerInv, WireInv, RowsTrue, RowsFirst, ListingInv, [Next]_vars PROVE RowsFirst'
<1>0. /\ TypeInv' /\ RowMoves /\ Len(Flow) \in Nat /\ DOMAIN Flow = 1..Len(Flow)
      /\ Len(batch) \in Nat /\ Len(net) \in Nat /\ Len(batch') \in Nat
      /\ Len(Flow') \in Nat /\ DOMAIN Flow' = 1..Len(Flow')
  BY TypeStep, RowMove, FlowTypes, FlowNext, Lengths
<1>1. ASSUME Len(batch') = Len(batch),
             \A i \in DOMAIN Flow' : Lists1(Flow'[i]) => i \in DOMAIN Flow /\ Flow'[i] = Flow[i]
      PROVE  RowsFirst'
  BY <1>1 DEF RowsFirst, Lists1
<1>2. CASE Still
  BY <1>1, <1>2 DEF Still
<1>3. CASE Takes
  <2>1. \A i \in DOMAIN Flow' : i + 1 \in DOMAIN Flow /\ Flow'[i] = Flow[i + 1]
    BY <1>0, <1>3, FlowTaken DEF Takes
  <2>2. Len(batch') = Len(batch) - 1
    <3>1. batch \in Seq(Sound) /\ batch # <<>> /\ batch' = Tail(batch)
      BY <1>3, Lengths DEF Takes
    <3> QED BY <3>1, HeadTailProperties
  <2>3. ASSUME NEW i \in DOMAIN Flow', NEW j \in DOMAIN Flow', IsRow(Flow'[i]), IsMarker(Flow'[j]),
               Flow'[i].of = Flow'[j].of
        PROVE  i < j \/ i <= Len(batch')
    <3>1. i + 1 < j + 1 \/ i + 1 <= Len(batch)
      BY <2>1, <2>3 DEF RowsFirst
    <3> QED BY <1>0, <2>2, <3>1
  <2> QED BY <2>3 DEF RowsFirst
<1>4. CASE ServerAnswers
  <2> DEFINE q == Head(srv)
  <2>1. /\ batch' = batch /\ \A i \in DOMAIN Flow : i \in DOMAIN Flow' /\ Flow'[i] = Flow[i]
        /\ \A i \in DOMAIN Flow' : i \notin DOMAIN Flow =>
             /\ IsRow(Flow'[i]) => Flow'[i].of = q.of
             /\ IsMarker(Flow'[i]) => \A j \in DOMAIN Flow' : j <= i
    BY <1>0, <1>4, RowsAnswered DEF ServerAnswers
  <2>2. did[q.of] = "none"
    BY <1>4, AnswersCommand DEF CommandOK
  <2> HIDE DEF q
  <2>3. ASSUME NEW i \in DOMAIN Flow', NEW j \in DOMAIN Flow', IsRow(Flow'[i]), IsMarker(Flow'[j]),
               Flow'[i].of = Flow'[j].of
        PROVE  i < j \/ i <= Len(batch')
    <3>1. CASE j \notin DOMAIN Flow
      <4>1. i <= j /\ i # j
        BY <2>1, <2>3, <3>1 DEF IsRow, IsMarker
      <4> QED BY <1>0, <4>1
    <3>2. CASE j \in DOMAIN Flow
      <4>1. did[Flow[j].of] = "ok"
        <5>1. IsMarker(Flow[j])
          BY <2>1, <2>3, <3>2
        <5>2. Flow[j] \in Markers
          BY <3>2, <5>1, FlowTypes DEF Markers
        <5> QED BY <5>2 DEF ListingInv, MarkersTrue
      <4>2. i \in DOMAIN Flow
        BY <2>1, <2>2, <2>3, <3>2, <4>1
      <4> QED BY <2>1, <2>3, <3>2, <4>2 DEF RowsFirst
    <3> QED BY <3>1, <3>2
  <2> QED BY <2>3 DEF RowsFirst
<1>5. CASE Drop
  <2>1. \A i \in DOMAIN Flow' : Lists1(Flow'[i]) => i \in DOMAIN Flow /\ Flow'[i] = Flow[i]
    BY <1>0, <1>5, FlowCut
  <2> QED BY <1>1, <1>5, <2>1 DEF Drop
<1>6. ASSUME NEW n \in 1..Len(net), Collect(n) PROVE RowsFirst'
  <2>1. /\ DOMAIN Flow' = DOMAIN Flow /\ n \in DOMAIN Flow /\ Flow = net
        /\ \A i \in DOMAIN Flow : Flow'[i] = IF i = n THEN Flow[1] ELSE IF i < n THEN Flow[i + 1] ELSE Flow[i]
    BY <1>0, <1>6, FlowTurned
  <2>2. Len(batch') = n /\ Len(batch) = 0 /\ n \in Nat
    <3>1. DOMAIN batch' = 1..n /\ DOMAIN batch' = 1..Len(batch') /\ n \in Nat
      BY <1>0, <1>6, Collected, FlowNext
    <3>2. batch = <<>>
      BY <1>6 DEF Collect
    <3> QED BY <1>0, <3>1, <3>2
  <2>3. ASSUME NEW i \in DOMAIN Flow', NEW j \in DOMAIN Flow', IsRow(Flow'[i]), IsMarker(Flow'[j]),
               Flow'[i].of = Flow'[j].of
        PROVE  i < j \/ i <= Len(batch')
    <3>1. CASE i <= n
      BY <2>2, <3>1
    <3>2. CASE ~(i <= n) /\ j <= n
      <4>1. PICK k \in DOMAIN Flow : Flow'[j] = Flow[k] /\ k <= n
        BY <1>0, <2>1, <2>2, <3>2
      <4>2. Flow'[i] = Flow[i] /\ i \in DOMAIN Flow
        BY <1>0, <2>1, <2>2, <3>2
      <4>3. i < k
        BY <1>0, <2>2, <2>3, <4>1, <4>2 DEF RowsFirst
      <4> QED BY <1>0, <2>1, <3>2, <4>1, <4>3
    <3>3. CASE ~(i <= n) /\ ~(j <= n)
      <4>1. Flow'[j] = Flow[j] /\ Flow'[i] = Flow[i] /\ i \in DOMAIN Flow /\ j \in DOMAIN Flow
        BY <1>0, <2>1, <2>2, <3>3
      <4> QED BY <1>0, <2>2, <2>3, <4>1 DEF RowsFirst
    <3> QED BY <3>1, <3>2, <3>3
  <2> QED BY <2>3 DEF RowsFirst
<1>7. CASE DOMAIN Flow' = {}
  BY <1>7 DEF RowsFirst
<1> QED BY <1>0, <1>2, <1>3, <1>4, <1>5, <1>6, <1>7 DEF RowMoves

\* No rows under way, or at least one.
LEMMA NoneComing ==
  ASSUME NEW r
  PROVE  (RowsAt(r) = {} => Coming(r) = 0) /\ (RowsAt(r)' = {} => Coming(r)' = 0)
BY FS_EmptySet DEF Coming

LEMMA SomeComing ==
  ASSUME TypeInv, NEW r, RowsAt(r) # {} PROVE Coming(r) \in Nat \ {0}
<1>1. IsFiniteSet(RowsAt(r)) /\ Coming(r) \in Nat
  BY RowsCount
<1>2. Cardinality(RowsAt(r)) # 0
  BY <1>1, FS_EmptySet
<1> QED BY <1>1, <1>2 DEF Coming

\* What takes an item makes the batch shorter.
LEMMA TakesFirst ==
  ASSUME TypeInv, Takes
  PROVE  /\ Len(batch') = Len(batch) - 1 /\ Len(batch) \in Nat /\ batch' # batch
         /\ ~Still /\ ~ServerAnswers /\ ~Drop /\ ~End /\ \A n \in 1..Len(net) : ~Collect(n)
<1>1. batch \in Seq(Sound) /\ batch # <<>> /\ batch' = Tail(batch)
  BY Lengths DEF Takes
<1>2. Len(batch') = Len(batch) - 1 /\ Len(batch) \in Nat
  BY <1>1, HeadTailProperties, LenProperties
<1>3. Len(batch') # Len(batch)
  BY <1>2
<1> QED BY <1>1, <1>2, <1>3 DEF Still, ServerAnswers, Drop, End, Collect

\* When the server does a listing, as many rows are under way as it served.
LEMMA RowsServed ==
  ASSUME TypeInv, TypeInv', RowsTrue, ServerAnswers, NEW r, r = Head(srv).of, did[r] # "ok"
  PROVE  Coming(r)' = served'[r]
<1> DEFINE A == RowsAt(r)'
<1>1. PICK n \in 0..MaxFrames :
           /\ served'[r] = n
           /\ \A i \in DOMAIN Flow : i \in DOMAIN Flow' /\ Flow'[i] = Flow[i]
           /\ \A j \in 1..n : Len(Flow) + 1 + j \in DOMAIN Flow'
           /\ \A i \in DOMAIN Flow' : i \notin DOMAIN Flow =>
                /\ IsRow(Flow'[i]) <=> \E j \in 1..n : i = Len(Flow) + 1 + j
                /\ IsRow(Flow'[i]) => Flow'[i].of = r
  BY RowsAnswered
<1>2. n \in Nat /\ Len(Flow) \in Nat /\ DOMAIN Flow = 1..Len(Flow)
  BY FlowTypes, RequestsAssumption
<1>3. \A i \in DOMAIN Flow : ~(IsRow(Flow[i]) /\ Flow[i].of = r)
  BY DEF RowsTrue, RowTrue
<1>4. \A i \in A : i \in DOMAIN Flow' /\ i \notin DOMAIN Flow /\ IsRow(Flow'[i])
  BY <1>1, <1>3 DEF RowsAt
<1>5. ASSUME NEW j \in 1..n PROVE Len(Flow) + 1 + j \in A
  <2> DEFINE i == Len(Flow) + 1 + j
  <2>a. i \in DOMAIN Flow'
    BY <1>1
  <2>b. i \notin 1..Len(Flow)
    BY <1>2
  <2>1. i \in DOMAIN Flow' /\ i \notin DOMAIN Flow
    BY <1>2, <2>a, <2>b
  <2>2. IsRow(Flow'[i]) /\ Flow'[i].of = r
    BY <1>1, <2>1
  <2> QED BY <2>1, <2>2 DEF RowsAt
<1>6. ASSUME NEW i \in A PROVE \E j \in 1..n : i = Len(Flow) + 1 + j
  BY <1>1, <1>4
<1> HIDE DEF A
<1> DEFINE f == [i \in A |-> i - (Len(Flow) + 1)]
<1>7. \A i \in A : i - (Len(Flow) + 1) \in 1..n /\ i \in Nat
  BY <1>2, <1>6
<1>8. f \in [A -> 1..n] /\ (\A x, y \in A : f[x] = f[y] => x = y) /\ \A b \in 1..n : \E x \in A : f[x] = b
  <2>1. \A x, y \in A : x - (Len(Flow) + 1) = y - (Len(Flow) + 1) => x = y
    BY <1>2, <1>7
  <2>2. \A b \in 1..n : (Len(Flow) + 1 + b) - (Len(Flow) + 1) = b
    BY <1>2
  <2> QED BY <1>5, <1>7, <2>1, <2>2
<1>9. IsFiniteSet(1..n) /\ Cardinality(1..n) = n
  BY <1>2, FS_Interval
<1> HIDE DEF f
<1>10. Cardinality(A) = Cardinality(1..n)
  BY <1>8, <1>9, SameSize
<1> QED BY <1>1, <1>9, <1>10 DEF A, Coming

\* The marker that ends a listing is its own.
LEMMA OwnMarker ==
  ASSUME TypeInv, OwnerInv, ListingInv, HandleFin, NEW c \in Codes,
         ftLists[c].of # None, dir[ftLists[c].of] = Item1.key
  PROVE  Item1 \in Markers /\ Item1.of = ftLists[c].of
<1> DEFINE r == ftLists[c].of
<1>1. batch # <<>> /\ Item1.type = "fin"
  BY DEF HandleFin, Handling, Item1
<1>2. r \in Reqs /\ kind[r] = "list" /\ answers[r] = <<>>
  <2>1. r \in Reqs
    BY DEF TypeInv, TypeOK, Lists
  <2> QED BY <2>1 DEF OwnerInv, Owned, Listed
<1>3. Item1 \in Markers
  <2>1. Item1 = batch[1] /\ 1 \in DOMAIN batch
    BY <1>1, Lengths, HeadTailProperties, EmptySeq DEF Item1
  <2> QED BY <1>1, <2>1 DEF Markers, IsMarker
<1> QED BY <1>2, <1>3 DEF ListingInv, MarkersTrue, OneOpen, Listing

\* An error or an emptiness that is handled for a listing is what the server said of it.
LEMMA OwnResult ==
  ASSUME TypeInv, OwnerInv, WireInv, HandleResult, NEW c \in Codes, c = Item1.key, ftLists[c].of # None,
         [Next]_vars
  PROVE  Item1.res = did[ftLists[c].of]
<1>1. Item1 \in Sound /\ ResultOK(Item1)
  BY Handled1
<1>2. ftLists[c].of \in Reqs
  BY DEF TypeInv, TypeOK, Lists
<1>3. kind[ftLists[c].of] = "list"
  BY <1>2, Waits
<1> QED BY <1>1, <1>2, <1>3 DEF ResultOK, Own, None, Reqs, Transfers

\* Nothing becomes whole that was not.
LEMMA WholeKept ==
  ASSUME TypeInv, OwnerInv, WireInv, ListingInv, [Next]_vars, NEW c \in Codes, NEW r \in Reqs,
         ftLists[c].of = r, ftLists'[c].of = r, did[r] = "ok", Whole(c)'
  PROVE  Whole(c)
<1>1. MarkersGrow /\ LeftMoves /\ r # None
  BY MarkerMove, LeftMove DEF ListingInv, Reqs, None
<1>2. ASSUME NEW m \in Markers', m.of = r PROVE Whole(c)
  <2>1. ~(ServerAnswers /\ m.of = Head(srv).of)
    BY <1>2, AnswersCommand DEF CommandOK
  <2> QED BY <1>1, <1>2, <2>1 DEF MarkersGrow, Whole
<1>3. ASSUME NEW t \in timers', t.code = c PROVE Whole(c)
  <2>1. CASE Older(t)
    BY <1>3, <2>1 DEF Older, Whole
  <2>2. CASE HandleResult /\ t.code = Item1.key /\ Item1.res # "ok"
    BY <1>1, <1>3, <2>2, OwnResult
  <2>3. CASE HandleFin /\ dir[ftLists[t.code].of] = Item1.key
    BY <1>1, <1>3, <2>3, OwnMarker DEF Whole
  <2> QED BY <1>1, <2>1, <2>2, <2>3 DEF LeftMoves
<1> QED BY <1>2, <1>3 DEF Whole

\* Rows that are handled are counted for their listing, and for no other.
LEMMA RowsPut ==
  ASSUME TypeInv, TypeInv', RowsTrue, HandleRows, NEW c \in Codes, NEW r \in Reqs, ftLists[c].of = r
  PROVE  /\ did[r] # "ok" => ftLists'[c].rows = ftLists[c].rows
         /\ ftLists[c].rows + Coming(r) <= MaxFrames =>
              ftLists'[c].rows + Coming(r)' = ftLists[c].rows + Coming(r)
<1>0. /\ batch # <<>> /\ batch' = Tail(batch) /\ net' = net /\ IsRow(Item1) /\ r # None
      /\ ftLists \in [Codes -> Lists] /\ ftLists[c].rows \in Nat /\ MaxFrames \in Nat
  <2>1. ftLists \in [Codes -> Lists]
    BY DEF TypeInv, TypeOK
  <2>2. ftLists[c].rows \in Nat /\ MaxFrames \in Nat
    BY <2>1, RequestsAssumption DEF Lists
  <2> QED BY <2>1, <2>2 DEF HandleRows, Handled, Handling, IsRow, Item1, Reqs, None
<1>1. Item1 = Flow[1] /\ 1 \in DOMAIN Flow
  BY <1>0, FlowTaken
<1>2. RowTrue(Item1)
  BY <1>0, <1>1 DEF RowsTrue
<1> DEFINE k == Item1.key  q == Item1.of
<1>3. k \in Codes /\ ftLists[k].of \in {None, q} /\ did[q] = "ok" /\ (ftLists[c].of = q => c = k)
  BY <1>2 DEF RowTrue, Own, Coded
<1>4. Coming(r) \in Nat /\ Coming(r)' = IF q = r THEN Coming(r) - 1 ELSE Coming(r)
  BY <1>0, RowsCount, RowsTaken
<1>5. ftLists' = IF ftLists[k].of = None \/ ftLists[k].rows = MaxFrames THEN ftLists
                 ELSE [ftLists EXCEPT ![k].rows = @ + 1]
  BY DEF HandleRows
<1> HIDE DEF k
<1>6. CASE q # r
  <2>1. c # k
    BY <1>0, <1>3, <1>6
  <2>2. ftLists'[c].rows = ftLists[c].rows
    BY <1>0, <1>5, <2>1
  <2> QED BY <1>4, <1>6, <2>2
<1>7. CASE q = r
  <2>1. c = k /\ ftLists[k].of # None
    BY <1>0, <1>3, <1>7
  <2>2. RowsAt(r) # {}
    BY <1>0, <1>1, <1>7 DEF RowsAt
  <2>3. Coming(r) \in Nat \ {0}
    BY <2>2, SomeComing
  <2>4. ASSUME ftLists[c].rows + Coming(r) <= MaxFrames
        PROVE  ftLists'[c].rows = ftLists[c].rows + 1
    <3>1. ftLists[c].rows # MaxFrames
      BY <1>0, <2>3, <2>4
    <3>2. ftLists' = [ftLists EXCEPT ![c] = [ftLists[c] EXCEPT !.rows = ftLists[c].rows + 1]]
      BY <1>5, <2>1, <3>1
    <3> QED BY <1>0, <3>2 DEF Lists
  <2> QED BY <1>0, <1>3, <1>4, <1>7, <2>3, <2>4
<1> QED BY <1>6, <1>7

\* The rows under way stay the same, but for those that are handled, while the listing is whole.
LEMMA ComingKept ==
  ASSUME TypeInv, TypeInv', OwnerInv, WireInv, ListingInv, RowsFirst, RowsAwaited, [Next]_vars, NEW c \in Codes,
         NEW r \in Reqs, ftLists[c].of = r, ftLists'[c].of = r, did[r] = "ok", Whole(c)', ~HandleRows
  PROVE  Coming(r)' = Coming(r)
<1>0. RowMoves /\ r # None /\ Len(Flow) \in Nat /\ DOMAIN Flow = 1..Len(Flow)
  BY RowMove, FlowTypes DEF Reqs, None
<1>1. RowsAt(r)' = RowsAt(r) => Coming(r)' = Coming(r)
  BY DEF Coming
<1>2. CASE Still
  <2>1. RowsAt(r)' = RowsAt(r)
    BY <1>2 DEF RowsAt, Still, Lists1
  <2> QED BY <1>1, <2>1
<1>3. CASE Takes
  <2>1. ~IsRow(Item1)
    BY <1>3, RowsHandled
  <2> QED BY <1>3, <2>1, RowsTaken DEF Takes
<1>4. CASE ServerAnswers
  <2>1. r # Head(srv).of
    BY <1>4, AnswersCommand DEF CommandOK
  <2>2. /\ \A i \in DOMAIN Flow : i \in DOMAIN Flow' /\ Flow'[i] = Flow[i]
        /\ \A i \in DOMAIN Flow' : i \notin DOMAIN Flow /\ IsRow(Flow'[i]) => Flow'[i].of = Head(srv).of
    BY <1>4, RowsAnswered
  <2>3. RowsAt(r)' = RowsAt(r)
    BY <2>1, <2>2 DEF RowsAt
  <2> QED BY <1>1, <2>3
<1>5. CASE Drop
  <2>1. PICK k \in Nat :
           /\ Len(batch) <= k /\ k <= Len(Flow)
           /\ \A i \in DOMAIN Flow : i <= k => i \in DOMAIN Flow' /\ Flow'[i] = Flow[i]
           /\ \A i \in DOMAIN Flow' : (i <= k /\ i \in DOMAIN Flow) \/ ~Lists1(Flow'[i])
    BY <1>5, FlowCut
  <2>2. Len(batch) \in Nat
    BY Lengths
  <2>3. ASSUME NEW m \in Markers', m.of = r, NEW i \in DOMAIN Flow, IsRow(Flow[i]), Flow[i].of = r
        PROVE  i <= k
    <3>1. PICK j \in DOMAIN Flow' : Flow'[j] = m
      BY FlowNext DEF Markers
    <3>2. IsMarker(Flow'[j])
      BY <3>1 DEF Markers
    <3>3. j \in DOMAIN Flow /\ j <= k /\ Flow'[j] = Flow[j]
      BY <2>1, <3>2 DEF Lists1
    <3>4. i < j \/ i <= Len(batch)
      BY <2>3, <3>1, <3>2, <3>3 DEF RowsFirst
    <3> QED BY <1>0, <2>1, <2>2, <3>3, <3>4
  <2>4. ASSUME NEW t \in timers', t.code = c, NEW i \in DOMAIN Flow, IsRow(Flow[i]), Flow[i].of = r
        PROVE  i <= k
    <3>1. t \in timers
      BY <1>5 DEF Drop, tables
    <3>2. i <= Len(batch)
      BY <1>0, <2>4, <3>1 DEF RowsAwaited
    <3> QED BY <1>0, <2>1, <2>2, <3>2
  <2>5. \A i \in RowsAt(r) : i <= k
    BY <2>3, <2>4 DEF Whole, RowsAt
  <2>6. RowsAt(r)' = RowsAt(r)
    BY <2>1, <2>5 DEF RowsAt, Lists1
  <2> QED BY <1>1, <2>6
<1>6. ASSUME NEW n \in 1..Len(net), Collect(n) PROVE Coming(r)' = Coming(r)
  BY <1>6, RowsTurned
<1>7. CASE End
  BY <1>0, <1>7 DEF End, NoList
<1> QED BY <1>0, <1>2, <1>3, <1>4, <1>5, <1>6, <1>7 DEF RowMoves

\* What the server is done with goes on so; and what it did becomes known with its answer.
LEMMA DoneOk ==
  ASSUME TypeInv, OwnerInv, WireInv, [Next]_vars, NEW r \in Reqs, kind[r] = "list"
  PROVE  /\ did[r] = "ok" => did'[r] = "ok" /\ served'[r] = served[r]
         /\ did'[r] = "ok" => did[r] = "ok" \/ (ServerAnswers /\ r = Head(srv).of)
<1>1. did[r] # "none" => did'[r] = did[r]
  BY ListingKept
<1>2. ServerAnswers /\ r = Head(srv).of => did[r] = "none"
  BY AnswersCommand DEF CommandOK
<1>3. did'[r] = did[r] \/ (ServerAnswers /\ r = Head(srv).of) \/ did'[r] \in {"all", "err"}
  BY HistoryMove DEF HistoryMoves
<1> QED BY <1>1, <1>2, <1>3, ServedMove

\* Every row is collected, or on its way.
LEMMA RowsCountedStep ==
  ASSUME TypeInv, TypeInv', OwnerInv, WireInv, ListingInv, Unserved, Unserved', RowsTrue, RowsTrue',
         RowsFirst, RowsCounted, RowsAwaited, [Next]_vars
  PROVE  RowsCounted'
<1> SUFFICES ASSUME NEW c \in Codes, NEW r, r = ftLists'[c].of, r # None
             PROVE  /\ did'[r] # "ok" => ftLists'[c].rows = 0
                    /\ Whole(c)' => ftLists'[c].rows + Coming(r)' = served'[r]
  BY DEF RowsCounted, Codes, None
<1>0. r \in Reqs
  BY DEF TypeInv, TypeOK, Lists
<1>1. ASSUME did'[r] # "ok", ftLists'[c].rows = 0
      PROVE  ftLists'[c].rows + Coming(r)' = served'[r]
  <2>1. RowsAt(r)' = {}
    BY <1>1 DEF RowsTrue, RowTrue, RowsAt
  <2>2. Coming(r)' = 0
    BY <2>1, NoneComing
  <2>3. served'[r] = 0
    BY <1>0, <1>1 DEF Unserved, Reqs
  <2> QED BY <1>1, <2>2, <2>3
<1>2. CASE \E q \in Reqs : SendList(q) /\ ftLists'[c].of = q /\ ftLists'[c].rows = 0
  <2>1. SendList(r) /\ ftLists'[c].rows = 0
    BY <1>2
  <2>2. did'[r] # "ok"
    <3>1. r \in InQueue
      BY <1>0, <2>1, Taken DEF SendList, TypeInv
    <3>2. did[r] = "none"
      BY <1>0, <3>1 DEF WireInv
    <3> QED BY <2>1, <3>2 DEF SendList, Sent
  <2> QED BY <1>1, <2>1, <2>2
<1>3. ASSUME ftLists[c].of = r,
             ftLists'[c].rows = ftLists[c].rows \/ HandleRows
      PROVE  /\ did'[r] # "ok" => ftLists'[c].rows = 0
             /\ Whole(c)' => ftLists'[c].rows + Coming(r)' = served'[r]
  <2>1. kind[r] = "list"
    BY <1>0, <1>3, Waits
  <2>2. /\ did[r] # "ok" => ftLists[c].rows = 0
        /\ Whole(c) => ftLists[c].rows + Coming(r) = served[r]
    BY <1>3 DEF RowsCounted
  <2>3. CASE did'[r] # "ok"
    <3>1. did[r] # "ok"
      BY <1>0, <2>1, <2>3, DoneOk
    <3>2. ftLists'[c].rows = 0
      BY <1>0, <1>3, <2>2, <3>1, RowsPut
    <3> QED BY <1>1, <2>3, <3>2
  <2>4. CASE did[r] = "ok" /\ did'[r] = "ok" /\ Whole(c)'
    <3>1. Whole(c) /\ served'[r] = served[r]
      BY <1>0, <1>3, <2>1, <2>4, WholeKept, DoneOk
    <3>2. ftLists[c].rows + Coming(r) = served[r] /\ served[r] <= MaxFrames
      <4>1. served[r] \in 0..MaxFrames
        BY <1>0 DEF TypeInv, TypeOK
      <4> QED BY <2>2, <3>1, <4>1, RequestsAssumption
    <3>3. CASE HandleRows
      BY <1>0, <1>3, <2>4, <3>1, <3>2, <3>3, RowsPut
    <3>4. CASE ~HandleRows
      <4>1. Coming(r)' = Coming(r)
        BY <1>0, <1>3, <2>4, <3>4, ComingKept
      <4> QED BY <1>3, <2>4, <3>1, <3>2, <3>4, <4>1
    <3> QED BY <2>4, <3>3, <3>4
  <2>5. CASE did[r] # "ok" /\ did'[r] = "ok"
    <3>1. ServerAnswers /\ r = Head(srv).of
      BY <1>0, <2>1, <2>5, DoneOk
    <3>2. Coming(r)' = served'[r]
      BY <2>5, <3>1, RowsServed
    <3>3. ftLists'[c].rows = 0
      BY <2>2, <2>5, <3>1 DEF ServerAnswers, tables
    <3>4. served'[r] \in Nat
      <4>1. served' \in [Reqs -> 0..MaxFrames]
        BY DEF TypeInv, TypeOK, Reqs
      <4> QED BY <1>0, <4>1, RequestsAssumption
    <3> QED BY <2>5, <3>2, <3>3, <3>4
  <2> QED BY <2>3, <2>4, <2>5
<1>4. HandleRows => ftLists[c].of = r
  <2>1. HandleRows => ftLists'[c].of = ftLists[c].of
    BY DEF HandleRows, TypeInv, TypeOK, Lists
  <2> QED BY <2>1
<1> QED BY <1>2, <1>3, <1>4, CollectedRows

\* A timer that gets older goes on waiting for the rows of its listing.
LEMMA AwaitedOn ==
  ASSUME TypeInv, TypeInv', WireInv, RowsAwaited, [Next]_vars, NEW t \in timers', Older(t),
         NEW r \in Reqs, ftLists[t.code].of = r, did[r] # "none",
         NEW i \in DOMAIN Flow', IsRow(Flow'[i]), Flow'[i].of = r
  PROVE  i <= t.left /\ i <= Len(batch')
<1>0. /\ RowMoves /\ r # None /\ Len(Flow) \in Nat /\ DOMAIN Flow = 1..Len(Flow)
      /\ Len(batch) \in Nat /\ Len(net) \in Nat
  BY RowMove, FlowTypes, Lengths DEF Reqs, None
<1>1. PICK u \in timers : /\ u.code = t.code
                          /\ t.left = u.left \/ (Takes /\ t.left = IF u.left = 0 THEN 0 ELSE u.left - 1)
  BY DEF Older
<1>2. u.left \in Nat
  BY DEF TypeInv, TypeOK, Timers
<1>3. ASSUME NEW j \in DOMAIN Flow, IsRow(Flow[j]), Flow[j].of = r
      PROVE  j <= u.left /\ j <= Len(batch) /\ j \in Nat /\ j > 0
  BY <1>0, <1>1, <1>3 DEF RowsAwaited
<1>4. ASSUME ~Takes, batch' = batch, i \in DOMAIN Flow, Flow'[i] = Flow[i]
      PROVE  i <= t.left /\ i <= Len(batch')
  BY <1>1, <1>3, <1>4
<1>5. CASE Still
  <2>1. ~Takes
    BY <1>5, TakesFirst
  <2> QED BY <1>4, <1>5, <2>1 DEF Still, Lists1
<1>6. CASE Takes
  <2>1. i + 1 \in DOMAIN Flow /\ Flow'[i] = Flow[i + 1]
    BY <1>6, FlowTaken DEF Takes
  <2>2. Len(batch') = Len(batch) - 1
    BY <1>6, TakesFirst
  <2>3. i + 1 <= u.left /\ i + 1 <= Len(batch) /\ i \in Nat
    <3>1. i \in Nat
      BY FlowNext
    <3> QED BY <1>3, <2>1, <3>1
  <2> QED BY <1>0, <1>1, <1>2, <2>2, <2>3
<1>7. CASE ServerAnswers
  <2>1. ~Takes
    BY <1>7, TakesFirst
  <2>2. r # Head(srv).of
    BY <1>7, AnswersCommand DEF CommandOK
  <2>3. /\ \A j \in DOMAIN Flow : j \in DOMAIN Flow' /\ Flow'[j] = Flow[j]
        /\ \A j \in DOMAIN Flow' : j \notin DOMAIN Flow /\ IsRow(Flow'[j]) => Flow'[j].of = Head(srv).of
    BY <1>7, RowsAnswered
  <2> QED BY <1>4, <1>7, <2>1, <2>2, <2>3 DEF ServerAnswers
<1>8. CASE Drop
  <2>1. ~Takes
    BY <1>8, TakesFirst
  <2>2. i \in DOMAIN Flow /\ Flow'[i] = Flow[i]
    BY <1>8, FlowCut DEF Lists1
  <2> QED BY <1>4, <1>8, <2>1, <2>2 DEF Drop
<1>9. ASSUME NEW n \in 1..Len(net), Collect(n) PROVE FALSE
  <2>1. /\ DOMAIN Flow' = DOMAIN Flow /\ n \in DOMAIN Flow
        /\ \A j \in DOMAIN Flow : Flow'[j] = IF j = n THEN Flow[1] ELSE IF j < n THEN Flow[j + 1] ELSE Flow[j]
    BY <1>9, FlowTurned
  <2>2. \E j \in DOMAIN Flow : Flow'[i] = Flow[j]
    BY <1>0, <2>1
  <2>3. Len(batch) = 0
    BY <1>9 DEF Collect
  <2> QED BY <1>3, <2>2, <2>3
<1>10. CASE End /\ DOMAIN Flow' = {}
  BY <1>10
<1> QED BY <1>0, <1>5, <1>6, <1>7, <1>8, <1>9, <1>10 DEF RowMoves

\* A timer that a marker starts waits for the rows of the batch.
LEMMA AwaitedNew ==
  ASSUME TypeInv, TypeInv', OwnerInv, ListingInv, RowsFirst, [Next]_vars, NEW t \in timers', Takes,
         t.left = Waiting, HandleFin, NEW c \in Codes, ftLists[c].of # None, dir[ftLists[c].of] = Item1.key,
         NEW i \in DOMAIN Flow', IsRow(Flow'[i]), Flow'[i].of = ftLists[c].of
  PROVE  i <= t.left /\ i <= Len(batch')
<1>1. Item1.of = ftLists[c].of /\ Item1 \in Markers
  BY OwnMarker
<1>2. /\ Item1 = Flow[1] /\ 1 \in DOMAIN Flow
      /\ i + 1 \in DOMAIN Flow /\ Flow'[i] = Flow[i + 1]
  BY FlowTaken DEF Takes
<1>3. IsMarker(Flow[1])
  BY <1>1, <1>2 DEF Markers
<1>4. i + 1 < 1 \/ i + 1 <= Len(batch)
  BY <1>1, <1>2, <1>3 DEF RowsFirst
<1>5. i \in Nat /\ Len(net) \in Nat /\ Len(batch) \in Nat /\ Len(batch') = Len(batch) - 1
  <2>1. i \in 1..Len(Flow') /\ Len(Flow') \in Nat
    BY FlowNext
  <2>2. i \in Nat
    BY <2>1
  <2> QED BY <2>2, Lengths, TakesFirst
<1>6. t.left = Len(batch') + Len(net)
  BY DEF Waiting, Takes
<1> QED BY <1>4, <1>5, <1>6

\* Timers wait for the rows of their listings.
LEMMA RowsAwaitedStep ==
  ASSUME TypeInv, TypeInv', OwnerInv, Phases, WireInv, ListingInv, RowsTrue', RowsFirst, RowsAwaited,
         "swift" \notin Faults, [Next]_vars
  PROVE  RowsAwaited'
<1> SUFFICES ASSUME NEW t \in timers', NEW i \in DOMAIN Flow', ftLists'[t.code].of # None,
                    IsRow(Flow'[i]), Flow'[i].of = ftLists'[t.code].of
             PROVE  i <= t.left /\ i <= Len(batch')
  BY DEF RowsAwaited, None
<1>0. LeftMoves /\ (Same \/ Anew)
  BY LeftMove, ConnStep
<1>1. CASE Anew
  BY <1>1, NoneSleeps
<1>2. PICK c \in Codes : c = t.code
  BY DEF TypeInv, TypeOK, Timers, Codes
<1> DEFINE r == ftLists'[c].of
<1>3. r \in Reqs /\ r # None
  BY <1>2 DEF TypeInv, TypeOK, Lists, Reqs, Codes, None
<1>4. did'[r] = "ok"
  BY <1>2 DEF RowsTrue, RowTrue
<1>5. CASE Older(t)
  <2>1. PICK u \in timers : u.code = c
    BY <1>2, <1>5 DEF Older
  <2>2. c < code /\ (ftLists[c].of # None => Settled(ftLists[c]))
    BY <2>1 DEF ListingInv, TimersTrue
  <2>3. ftLists[c].of = r
    <3>1. c # code
      BY <2>2 DEF TypeInv, TypeOK, Codes
    <3> QED BY <1>2, <3>1, ListedKept
  <2>4. did[r] # "none"
    BY <1>3, <2>2, <2>3 DEF Settled
  <2> QED BY <1>2, <1>3, <1>5, <2>3, <2>4, AwaitedOn
<1>6. ASSUME Takes, t.left = Waiting, ftLists[c].of # None,
             \/ HandleResult /\ c = Item1.key /\ Item1.res # "ok"
             \/ HandleFin /\ dir[ftLists[c].of] = Item1.key
      PROVE  i <= t.left /\ i <= Len(batch')
  <2>1. ftLists[c].of = r
    BY <1>2, <1>6, ListedKept DEF Takes
  <2>2. CASE HandleResult /\ c = Item1.key /\ Item1.res # "ok"
    <3>1. Item1.res = did[r] /\ Item1 \in Sound /\ Item1.type = "result"
      BY <1>6, <2>1, <2>2, OwnResult, Handled1 DEF HandleResult, Handling, Item1
    <3>2. did[r] # "ok" /\ did[r] # "none"
      BY <2>2, <3>1 DEF Sound, Items
    <3>3. did'[r] = did[r]
      BY <1>3, <2>1, <3>2, Waits, ListingKept
    <3> QED BY <1>4, <3>2, <3>3
  <2>3. CASE HandleFin /\ dir[ftLists[c].of] = Item1.key
    BY <1>2, <1>6, <2>1, <2>3, AwaitedNew
  <2> QED BY <1>6, <2>2, <2>3
<1> QED BY <1>0, <1>1, <1>2, <1>5, <1>6 DEF LeftMoves

\* A listing that is sent off has all its rows.
LEMMA ListingCompleteStep ==
  ASSUME TypeInv, TypeInv', AnswerInv, WireInv, ListingInv, RowsCounted, RowsAwaited, ListingComplete,
         "slow" \notin Faults, [Next]_vars
  PROVE  ListingComplete'
<1>0. OwnerInv
  BY DEF AnswerInv
<1> SUFFICES ASSUME NEW r \in Reqs, NEW i \in DOMAIN answers'[r], kind'[r] = "list",
                    answers'[r][i].what = "ok"
             PROVE  answers'[r][i].rows = served'[r]
  BY DEF ListingComplete, Reqs
<1>1. CASE answers'[r] = answers[r]
  <2>1. answers[r] # <<>>
    BY <1>1
  <2>2. kind[r] = "list"
    BY <1>0, <2>1, AnsweredKept
  <2>3. ~(ServerAnswers /\ r = Head(srv).of)
    BY <2>1, <2>2, AnswersCommand DEF ListingInv, CommandsOpen
  <2>4. served'[r] = served[r]
    BY <2>3, ServedMove
  <2> QED BY <1>1, <2>2, <2>4 DEF ListingComplete
<1>2. CASE answers'[r] # answers[r]
  <2>1. PICK a : /\ answers'[r] = Append(answers[r], a)
                 /\ \/ a.what \in {"unsent", "refused", "lost"} /\ (r \in InQueue \/ kind[r] # "list")
                    \/ \E t \in timers :
                         LET l == ftLists[t.code] IN
                         /\ Fire(t) /\ t.code \in Codes /\ l.of = r
                         /\ a = Answer(IF l.res = "err" THEN "err" ELSE "ok", l.rows)
    BY <1>0, <1>2, ListingAnswered
  <2>2. answers'[r][i] = a
    <3>1. answers'[r] = Append(answers[r], a)
      BY <2>1
    <3> QED BY <3>1, OnlyEvent
  <2>3. PICK t \in timers : /\ Fire(t) /\ t.code \in Codes /\ ftLists[t.code].of = r
                            /\ a = Answer(IF ftLists[t.code].res = "err" THEN "err" ELSE "ok",
                                          ftLists[t.code].rows)
    BY <2>1, <2>2
  <2> DEFINE c == t.code
  <2>4. c \in Codes /\ ftLists[c].of = r /\ a.rows = ftLists[c].rows /\ r # None
    BY <2>3 DEF Answer, Reqs, None
  <2>5. t.left = 0 /\ served' = served
    BY <2>3 DEF Fire, history
  <2>6. RowsAt(r) = {}
    <3>1. \A j \in DOMAIN Flow : IsRow(Flow[j]) /\ Flow[j].of = r => j <= 0
      BY <2>4, <2>5 DEF RowsAwaited
    <3>2. \A j \in DOMAIN Flow : ~(j <= 0)
      BY FlowTypes
    <3> QED BY <3>1, <3>2 DEF RowsAt
  <2>7. Whole(c)
    BY DEF Whole
  <2>8. ftLists[c].rows + Coming(r) = served[r]
    BY <2>4, <2>7 DEF RowsCounted
  <2>9. Coming(r) = 0 /\ ftLists[c].rows \in Nat
    <3>1. ftLists \in [Codes -> Lists]
      BY DEF TypeInv, TypeOK
    <3>2. ftLists[c].rows \in 0..MaxFrames
      BY <2>4, <3>1 DEF Lists
    <3>3. ftLists[c].rows \in Nat
      BY <3>2, RequestsAssumption
    <3> QED BY <2>6, <3>3, NoneComing
  <2> QED BY <2>2, <2>4, <2>5, <2>8, <2>9
<1> QED BY <1>1, <1>2

\* No rows at first.
LEMMA RowsInit == Init => RowsInv
<1> SUFFICES ASSUME Init PROVE RowsInv
  OBVIOUS
<1>1. DOMAIN Flow = {} /\ DOMAIN srv = {} /\ timers = {}
  BY ConcatEmptySeq, EmptySeq DEF Init, Flow
<1>2. \A c \in Codes : ftLists[c].of = None
  BY DEF Init, NoList
<1>3. Commands = {}
  BY <1>1 DEF Commands
<1>4. Unserved /\ ListingComplete
  BY DEF Init, Unserved, ListingComplete
<1> QED BY <1>1, <1>2, <1>3, <1>4
        DEF RowsInv, CommandsCoded, RowsTrue, RowsFirst, RowsCounted, RowsAwaited

\* Every step keeps the rows together.
LEMMA RowsStep ==
  ASSUME {"again", "slow", "swift"} \cap Faults = {}, RequestsInv, RequestsInv', ListingInv, RowsInv,
         [Next]_vars
  PROVE  RowsInv'
<1>1. /\ TypeInv /\ AnswerInv /\ OwnerInv /\ Phases /\ Below /\ WireInv /\ TypeInv'
      /\ "slow" \notin Faults /\ "swift" \notin Faults
  BY DEF RequestsInv, AnswerInv
<1>2. Unserved /\ CommandsCoded /\ RowsTrue /\ RowsFirst /\ RowsCounted /\ RowsAwaited /\ ListingComplete
  BY DEF RowsInv
<1>3. Unserved' /\ CommandsCoded'
  BY <1>1, <1>2, UnservedStep, CommandsCodedStep
<1>4. RowsTrue' /\ RowsFirst'
  BY <1>1, <1>2, RowsTrueStep, RowsFirstStep
<1>5. RowsCounted'
  BY <1>1, <1>2, <1>3, <1>4, RowsCountedStep
<1>6. RowsAwaited'
  BY <1>1, <1>2, <1>4, RowsAwaitedStep
<1>7. ListingComplete'
  BY <1>1, <1>2, ListingCompleteStep
<1> QED BY <1>3, <1>4, <1>5, <1>6, <1>7 DEF RowsInv

\* A listing that is shown without an error has every row the server sent for it, although
\* its marker, the first of a batch, is handled after the rows behind it, and a
\* connection may break at any row.  It needs that rows arrive within the 600 ms, that no
\* directory is listed again while it is open, and that no timer outlives its connection.
THEOREM ListingsComplete ==
  ASSUME {"again", "slow", "swift"} \cap Faults = {}
  PROVE  Spec => []ListingComplete
<1>1. Init => RequestsInv /\ ListingInv /\ RowsInv
  BY RequestsInit, ListingInit, RowsInit
<1>2. RequestsInv /\ ListingInv /\ RowsInv /\ [Next]_vars => RequestsInv' /\ ListingInv' /\ RowsInv'
  BY RequestsStep, ListingStep, RowsStep
<1>3. RowsInv => ListingComplete
  BY DEF RowsInv
<1> QED BY <1>1, <1>2, <1>3, PTL DEF Spec

=============================================================================
