---------------------------- MODULE Requests ----------------------------
(***************************************************************************)
(* Requests of the user interface to the server and their answers: the     *)
(* Command arms of event_loop that carry a token or a transfer task, the   *)
(* return codes of tsclientlib, the four tables keyed by them (PERM_OPS,   *)
(* FT_OPS, FT_TASK_BY_RC, FT_LISTS), handle_control_item for the messages  *)
(* that answer them, the 600 ms timers of directory listings and the       *)
(* transfer workers.  The session life cycle is module Session: here a     *)
(* session is up, lost without anybody having noticed, down while          *)
(* tsclientlib reconnects, or closed.                                      *)
(***************************************************************************)
EXTENDS Naturals, Sequences, FiniteSets

CONSTANTS
  MaxRequests,    \* bound: requests of the user interface
  MaxConns,       \* bound: connections, reconnects included
  Kinds,          \* which kinds of requests are made
  Dirs,           \* directories that are listed, by number
  MaxFrames,      \* bound: frames of rows of one listing
  IdSpace,        \* values of a client transfer id (2^16 in the code)
  Faults          \* what the network, the server and the user may do

AllKinds == {"kick",    \* kick, ban or move another client
             "group",   \* server and channel groups, permissions
             "move",    \* enter a channel
             "plain",   \* chat, mute, away, poke
             "op",      \* create a directory, delete files
             "list", "down", "up"}
AllFaults == {"drop",        \* a temporary disconnect
              "end",         \* a session ends; another may follow
              "cancel",      \* transfers are cancelled
              "status",      \* the server reports status Ok for downloads
              "again",       \* a directory is listed while a listing of it is open
              "slow",        \* rows arrive after the 600 ms of the timer
              "stall",       \* the server leaves a listing open for 30 s
              "swift"}       \* a reconnect takes less than those 600 ms

ASSUME RequestsAssumption ==
  /\ MaxRequests \in Nat \ {0} /\ MaxConns \in Nat \ {0} /\ MaxFrames \in Nat
  /\ IdSpace \in Nat \ {0} /\ Dirs \subseteq Nat /\ Dirs # {}
  /\ Kinds \subseteq AllKinds /\ Faults \subseteq AllFaults

Reqs == 1..MaxRequests
Codes == 0..MaxRequests
Conns == 1..MaxConns
None == 0
AnyDir == CHOOSE d \in Dirs : TRUE
Placeholder == IdSpace - 1   \* client_ft_id of a task whose command is not sent yet
Transfers == {"down", "up"}
Tokens == {"kick", "group"}  \* tracked in PERM_OPS

VARIABLES
  kind, dir,     \* what request r is; "none" before it is asked
  cmds,          \* COMMAND_TX: requests the event loop has not taken yet
  link,          \* "up", "dead" (lost, not noticed), "down" (reconnecting), "closed"
  conn,          \* number of the connection; the code has none
  code,          \* cur_return_code
  srv,           \* commands the server has not answered
  opening,       \* transfers whose TCP stream tsclientlib is opening
  net,           \* items of the events stream, in order
  batch,         \* items collected by one iteration, in the order of handling
  permOps, ftOps, taskByRc, ftLists,   \* PERM_OPS, FT_OPS, FT_TASK_BY_RC, FT_LISTS
  timers,        \* sleeping finalisations of listings
  pendingMove,   \* TsState.pending_move
  tasks,         \* FT_TASKS
  ftid, nextFt,  \* client_ft_id of a task; FT_CLIENT_FT
  cancelled,     \* tasks with the cancel flag set
  worker,        \* the transfer worker of a request
  answers,       \* events pushed for request r
  sentIn, did, served, over   \* history: the connection r was made in, what the
                        \* server did with it, the frames of rows it sent, and
                        \* the requests of sessions that have ended

asking == <<kind, dir>>
tables == <<permOps, ftOps, taskByRc, ftLists, timers, pendingMove>>
transfer == <<tasks, ftid, nextFt, cancelled, worker>>
history == <<sentIn, did, served, over>>
wire == <<link, conn, code, srv, opening, net, batch>>
vars == <<asking, cmds, wire, tables, transfer, answers, history>>

NoList == [of |-> None, rows |-> 0, res |-> "none", finished |-> FALSE, scheduled |-> FALSE]
Lists == [of: Reqs \cup {None}, rows: 0..MaxFrames, res: {"none", "ok", "err", "empty"},
          finished: BOOLEAN, scheduled: BOOLEAN]
Timers == [code: Codes, conn: Conns, left: Nat]
Items == [type: {"result", "rows", "fin", "start", "status", "error", "drop"},
          key: Nat, res: {"ok", "err", "empty"}, of: Reqs \cup {None}]
Answers == [what: {"ok", "err", "lost", "refused", "unsent", "rejected"},
            rows: 0..MaxFrames, conn: Conns \cup {None}]

TypeOK ==
  /\ kind \in [Reqs -> AllKinds \cup {"none"}] /\ dir \in [Reqs -> Dirs]
  /\ cmds \in Seq(Reqs)
  /\ link \in {"up", "dead", "down", "closed"} /\ conn \in Conns /\ code \in Codes
  /\ srv \in Seq([of: Reqs, code: Codes]) /\ opening \subseteq Reqs
  /\ net \in Seq(Items) /\ batch \in Seq(Items)
  /\ permOps \in [Codes -> Reqs \cup {None}] /\ ftOps \in [Codes -> Reqs \cup {None}]
  /\ taskByRc \in [Codes -> Reqs \cup {None}] /\ ftLists \in [Codes -> Lists]
  /\ timers \subseteq Timers /\ pendingMove \in Reqs \cup {None}
  /\ tasks \subseteq Reqs /\ ftid \in [Reqs -> 0..IdSpace-1] /\ nextFt \in 0..IdSpace-1
  /\ cancelled \subseteq Reqs
  /\ worker \in [Reqs -> {"none", "running", "grace", "over"}]
  /\ answers \in [Reqs -> Seq(Answers)]
  /\ sentIn \in [Reqs -> Conns \cup {None}]
  /\ did \in [Reqs -> {"none", "ok", "err", "empty", "all"}]
  /\ served \in [Reqs -> 0..MaxFrames] /\ over \subseteq Reqs

Init ==
  /\ kind = [r \in Reqs |-> "none"] /\ dir = [r \in Reqs |-> AnyDir] /\ cmds = <<>>
  /\ link = "up" /\ conn = 1 /\ code = 0
  /\ srv = <<>> /\ opening = {} /\ net = <<>> /\ batch = <<>>
  /\ permOps = [c \in Codes |-> None] /\ ftOps = [c \in Codes |-> None]
  /\ taskByRc = [c \in Codes |-> None] /\ ftLists = [c \in Codes |-> NoList]
  /\ timers = {} /\ pendingMove = None
  /\ tasks = {} /\ ftid = [r \in Reqs |-> Placeholder] /\ nextFt = 0 /\ cancelled = {}
  /\ worker = [r \in Reqs |-> "none"] /\ answers = [r \in Reqs |-> <<>>]
  /\ sentIn = [r \in Reqs |-> None] /\ did = [r \in Reqs |-> "none"]
  /\ served = [r \in Reqs |-> 0] /\ over = {}

-----------------------------------------------------------------------------
(* Events for the user interface. *)

\* An event carries, as history, the connection it was pushed in, if that is alive.
Answer(what, rows) ==
  [what |-> what, rows |-> rows, conn |-> IF link = "up" THEN conn ELSE None]

\* One event with the same text for each request of R.
Tell(R, what) == answers' = [r \in Reqs |->
                   IF r \in R THEN Append(answers[r], Answer(what, 0)) ELSE answers[r]]

\* Mutant: the task is reported by everyone who finds it ended.
FinishTasksTwice(R, what) == tasks' = tasks \ R /\ Tell(R, what)

\* finish_ft_task: only whoever removes the task reports it.
FinishTasks(R, what) == tasks' = tasks \ R /\ Tell(R \cap tasks, what)

-----------------------------------------------------------------------------
(* The user interface. *)

\* Every call is refused at once unless a session is up; otherwise the command
\* is queued.
Ready == link # "closed"
Fresh(r) == kind[r] = "none" /\ \A q \in 1..r-1 : kind[q] # "none"
Queue(r, k) ==
  /\ Ready /\ Fresh(r) /\ k \in Kinds
  /\ kind' = [kind EXCEPT ![r] = k] /\ cmds' = Append(cmds, r)
  /\ sentIn' = [sentIn EXCEPT ![r] = conn]
  /\ UNCHANGED <<wire, tables, ftid, nextFt, cancelled, worker, answers, did, served, over>>

AskPlain(r) == Queue(r, "plain") /\ UNCHANGED <<dir, tasks>>
AskMove(r) == Queue(r, "move") /\ UNCHANGED <<dir, tasks>>
AskKick(r) == Queue(r, "kick") /\ UNCHANGED <<dir, tasks>>
AskGroup(r) == Queue(r, "group") /\ UNCHANGED <<dir, tasks>>
AskOp(r) == Queue(r, "op") /\ UNCHANGED <<dir, tasks>>

Listing(r) == kind[r] = "list" /\ answers[r] = <<>>
AskList(r, d) ==
  /\ "again" \notin Faults => \A q \in Reqs : Listing(q) => dir[q] # d
  /\ Queue(r, "list") /\ dir' = [dir EXCEPT ![r] = d] /\ UNCHANGED tasks

\* A transfer is a task before its command is queued.
AskDownload(r) == Queue(r, "down") /\ tasks' = tasks \cup {r} /\ UNCHANGED dir
AskUpload(r) == Queue(r, "up") /\ tasks' = tasks \cup {r} /\ UNCHANGED dir

Ask(r) == \/ AskPlain(r) \/ AskMove(r) \/ AskKick(r) \/ AskGroup(r) \/ AskOp(r)
          \/ \E d \in Dirs : AskList(r, d)
          \/ AskDownload(r) \/ AskUpload(r)

\* A transfer asked for while the session ends: ft_ready still saw it, COMMAND_TX
\* is gone, and the task fails at once.
AskLate(r, k) ==
  /\ link = "closed" /\ k \in Transfers \cap Kinds /\ Fresh(r)
  /\ kind' = [kind EXCEPT ![r] = k] /\ Tell({r}, "unsent")
  /\ UNCHANGED <<dir, cmds, wire, tables, transfer, history>>

\* ts_ft_cancel: sets the flag, which only a worker reads.
Cancel(r) ==
  /\ "cancel" \in Faults /\ r \in tasks \ cancelled
  /\ cancelled' = cancelled \cup {r}
  /\ UNCHANGED <<asking, cmds, wire, tables, tasks, ftid, nextFt, worker, answers, history>>

-----------------------------------------------------------------------------
(* Step 1 of the event loop: one command of the queue. *)

CanSend == link \in {"up", "dead"}

Next1(r) == batch = <<>> /\ Ready /\ cmds # <<>> /\ r = Head(cmds) /\ cmds' = Tail(cmds)

\* send_command_with_result hands out the next return code.  Nobody answers
\* what is sent into a dead connection.
Sent(r) ==
  /\ code' = code + 1
  /\ srv' = IF link = "up" THEN Append(srv, [of |-> r, code |-> code]) ELSE srv
  /\ sentIn' = [sentIn EXCEPT ![r] = conn]
  /\ UNCHANGED <<link, conn, opening, net, batch, did, served, over>>

\* The send fails while tsclientlib reconnects: the request is answered here.
SendFails(r) ==
  /\ Next1(r) /\ ~CanSend /\ kind[r] \in Tokens \cup {"op", "list"}
  /\ Tell({r}, "unsent")
  /\ UNCHANGED <<asking, wire, tables, transfer, history>>

\* The next client transfer id, taken before the command is sent.
TakeId(r) == nextFt' = (nextFt + 1) % IdSpace /\ ftid' = [ftid EXCEPT ![r] = nextFt]

TransferFails(r) ==
  /\ Next1(r) /\ ~CanSend /\ kind[r] \in Transfers
  /\ TakeId(r) /\ FinishTasks({r}, "unsent")
  /\ UNCHANGED <<asking, wire, tables, cancelled, worker, history>>

\* perm_op_send remembers who waits for the result.
Track(r) ==
  /\ Sent(r) /\ permOps' = [permOps EXCEPT ![code] = r]
  /\ UNCHANGED <<asking, ftOps, taskByRc, ftLists, timers, pendingMove, transfer, answers>>

SendKick(r) == Next1(r) /\ CanSend /\ kind[r] = "kick" /\ Track(r)
SendGroup(r) == Next1(r) /\ CanSend /\ kind[r] = "group" /\ Track(r)

\* Kicking or banning oneself, and a permanent ban without a reason, are refused
\* without a command.
RefuseKick(r) ==
  /\ Next1(r) /\ kind[r] = "kick" /\ Tell({r}, "refused")
  /\ UNCHANGED <<asking, wire, tables, transfer, history>>

\* A move of the own client has no token; it is remembered in pending_move.
SendMove(r) ==
  /\ Next1(r) /\ kind[r] = "move" /\ pendingMove' = r
  /\ IF CanSend THEN Sent(r) ELSE UNCHANGED <<wire, history>>
  /\ UNCHANGED <<asking, permOps, ftOps, taskByRc, ftLists, timers, transfer, answers>>

\* Chat, mute, away, poke and list refreshes go out without a return code.
SendPlain(r) ==
  /\ Next1(r) /\ kind[r] = "plain"
  /\ IF link = "up" THEN net' \in {net, Append(net,
            [type |-> "error", key |-> 0, res |-> "err", of |-> r])} ELSE net' = net
  /\ UNCHANGED <<asking, link, conn, code, srv, opening, batch, tables, transfer, answers, history>>

SendOp(r) ==
  /\ Next1(r) /\ CanSend /\ kind[r] = "op" /\ Sent(r)
  /\ ftOps' = [ftOps EXCEPT ![code] = r]
  /\ UNCHANGED <<asking, permOps, taskByRc, ftLists, timers, pendingMove, transfer, answers>>

\* A new listing removes, silently, those the server left open for 30 s.
SendList(r) ==
  /\ Next1(r) /\ CanSend /\ kind[r] = "list" /\ Sent(r)
  /\ \E old \in IF "stall" \in Faults THEN SUBSET (Codes \ {code}) ELSE {{}} :
       ftLists' = [c \in Codes |-> IF c = code THEN [NoList EXCEPT !.of = r]
                                   ELSE IF c \in old THEN NoList ELSE ftLists[c]]
  /\ UNCHANGED <<asking, permOps, ftOps, taskByRc, timers, pendingMove, transfer, answers>>

SendTransfer(r) ==
  /\ Next1(r) /\ CanSend /\ kind[r] \in Transfers /\ Sent(r) /\ TakeId(r)
  /\ taskByRc' = [taskByRc EXCEPT ![code] = r]
  /\ UNCHANGED <<asking, permOps, ftOps, ftLists, timers, pendingMove, tasks, cancelled,
                 worker, answers>>

Execute(r) == \/ SendKick(r) \/ RefuseKick(r) \/ SendGroup(r) \/ SendMove(r) \/ SendPlain(r) \/ SendOp(r)
              \/ SendList(r) \/ SendTransfer(r) \/ SendFails(r) \/ TransferFails(r)

-----------------------------------------------------------------------------
(* The server and the connection (external, as the code relies on them).   *)

Item(type, key, res, r) == [type |-> type, key |-> key, res |-> res, of |-> r]

\* A listing is answered by the result, then its rows, then the marker.
Reply(q, res, n) ==
  <<Item("result", q.code, res, q.of)>>
    \o (IF kind[q.of] = "list" /\ res = "ok"
          THEN [i \in 1..n |-> Item("rows", q.code, "ok", q.of)]
                 \o <<Item("fin", dir[q.of], "ok", q.of)>>
          ELSE <<>>)

\* The server takes commands in order.  An accepted transfer is announced by a
\* port to connect to, not by a result.
ServerAnswers ==
  /\ srv # <<>> /\ srv' = Tail(srv)
  /\ LET q == Head(srv) r == q.of IN
     /\ \E res \in IF kind[r] = "list" THEN {"ok", "err", "empty"} ELSE {"ok", "err"},
           n \in IF kind[r] = "list" THEN 0..MaxFrames ELSE {0} :
          /\ res # "ok" => n = 0
          /\ did' = [did EXCEPT ![r] = res]
          /\ served' = [served EXCEPT ![r] = n]
          /\ IF kind[r] \in Transfers /\ res = "ok"
               THEN opening' = opening \cup {r} /\ net' = net
               ELSE opening' = opening /\ net' = net \o Reply(q, res, n)
  /\ UNCHANGED <<asking, cmds, link, conn, code, batch, tables, transfer, answers, sentIn, over>>

\* tsclientlib has opened the TCP stream of a transfer, or failed to.
Opened(r, ok) ==
  /\ r \in opening /\ link = "up" /\ opening' = opening \ {r}
  /\ net' = Append(net, IF ok THEN Item("start", ftid[r], "ok", r)
                              ELSE Item("status", ftid[r], "err", r))
  /\ UNCHANGED <<asking, cmds, link, conn, code, srv, batch, tables, transfer, answers, history>>

\* notifystatusfiletransfer: the end of an upload, a failure on the server, and,
\* for some servers, the end of a download.
ServerStatus(r, res) ==
  /\ link = "up" /\ sentIn[r] = conn /\ did[r] = "ok"
  /\ \/ kind[r] = "up" /\ worker[r] = "grace" /\ res = "ok"
     \/ "status" \in Faults /\ kind[r] = "down" /\ worker[r] # "none" /\ res = "ok"
     \/ worker[r] \in {"running", "grace"} /\ res = "err"
  /\ did' = [did EXCEPT ![r] = IF res = "ok" THEN "all" ELSE "err"]
  /\ net' = Append(net, Item("status", ftid[r], res, r))
  /\ UNCHANGED <<asking, cmds, link, conn, code, srv, opening, batch, tables, transfer,
                 answers, sentIn, served, over>>

\* The connection breaks: what was under way is lost, except a prefix that
\* tsclientlib has already received.
Drop ==
  /\ "drop" \in Faults /\ link = "up" /\ conn < MaxConns
  /\ link' = "dead" /\ srv' = <<>> /\ opening' = {}
  /\ \E n \in 0..Len(net) : net' = Append(SubSeq(net, 1, n), Item("drop", 0, "ok", None))
  /\ UNCHANGED <<asking, cmds, conn, code, batch, tables, transfer, answers, history>>

\* tsclientlib's reconnect: return codes start again at 0.
Reconnect ==
  /\ link = "down" /\ batch = <<>> /\ conn < MaxConns
  /\ "swift" \in Faults \/ timers = {}
  /\ link' = "up" /\ conn' = conn + 1 /\ code' = 0
  /\ UNCHANGED <<asking, cmds, srv, opening, net, batch, tables, transfer, answers, history>>

\* Every way out of the event loop: listings, operations and permission requests
\* are forgotten, transfers are not; commands not taken are lost.
End ==
  /\ "end" \in Faults /\ Ready /\ batch = <<>> /\ conn < MaxConns
  /\ link' = "closed" /\ cmds' = <<>> /\ srv' = <<>> /\ opening' = {} /\ net' = <<>>
  /\ permOps' = [c \in Codes |-> None] /\ ftOps' = [c \in Codes |-> None]
  /\ ftLists' = [c \in Codes |-> NoList]
  /\ over' = {r \in Reqs : kind[r] # "none"}
  /\ UNCHANGED <<asking, conn, code, batch, taskByRc, timers, pendingMove, transfer,
                 answers, sentIn, did, served>>

\* The user connects again.
Connect ==
  /\ link = "closed" /\ link' = "up" /\ conn' = conn + 1 /\ code' = 0
  /\ "swift" \in Faults \/ timers = {}
  /\ UNCHANGED <<asking, cmds, srv, opening, net, batch, tables, transfer, answers, history>>

-----------------------------------------------------------------------------
(* Steps 2 and 3 of the event loop: a batch of items.  The first item of a *)
(* batch is set aside (deferred) and handled after those drained behind it. *)

Collect(n) ==
  /\ batch = <<>> /\ Ready /\ n \in 1..Len(net)
  /\ \A i \in 1..n-1 : net[i].type # "drop"
  /\ batch' = Append(SubSeq(net, 2, n), net[1])
  /\ net' = SubSeq(net, n + 1, Len(net))
  /\ link' = IF net[n].type = "drop" THEN "down" ELSE link
  /\ UNCHANGED <<asking, cmds, conn, code, srv, opening, tables, transfer, answers, history>>

\* What has been received when a timer starts is handled before it fires, unless
\* the pipeline is slow.
Handled == batch' = Tail(batch)
           /\ timers' = {[t EXCEPT !.left = IF t.left = 0 THEN 0 ELSE t.left - 1] : t \in timers}
Handling(type) == batch # <<>> /\ Head(batch).type = type
Item1 == Head(batch)

\* schedule_ft_list_finish for the listings under the codes C, one timer each.
\* `Waiting` counts the items received and not handled.
Waiting == Len(Tail(batch)) + Len(net)
\* Mutant: the listing is sent off as soon as it looks complete.
ScheduleAtOnce(C, lists) ==
  LET new == {c \in C : lists[c].of # None /\ ~lists[c].scheduled} IN
  /\ ftLists' = [c \in Codes |-> IF c \in new THEN [lists[c] EXCEPT !.scheduled = TRUE]
                                 ELSE lists[c]]
  /\ batch' = Tail(batch)
  /\ timers' = timers \cup {[code |-> c, conn |-> conn, left |-> 0] : c \in new}

Schedule(C, lists) ==
  LET new == {c \in C : lists[c].of # None /\ ~lists[c].scheduled} IN
  /\ ftLists' = [c \in Codes |-> IF c \in new THEN [lists[c] EXCEPT !.scheduled = TRUE]
                                 ELSE lists[c]]
  /\ batch' = Tail(batch)
  /\ timers' = {[t EXCEPT !.left = IF t.left = 0 THEN 0 ELSE t.left - 1] : t \in timers}
               \cup {[code |-> c, conn |-> conn, left |-> Waiting] : c \in new}

\* Mutant: a rejected listing waits for its marker as well.
HandleResultWaits ==
  /\ Handling("result") /\ Handled
  /\ LET c == Item1.key  ok == Item1.res = "ok"
         p == {permOps[c], ftOps[c]} \ {None}
         t == IF ok \/ taskByRc[c] = None THEN {} ELSE {taskByRc[c]} \cap tasks
     IN /\ Tell(p \cup t, IF ok THEN "ok" ELSE "err")
        /\ tasks' = tasks \ t
        /\ permOps' = [permOps EXCEPT ![c] = None] /\ ftOps' = [ftOps EXCEPT ![c] = None]
        /\ taskByRc' = [taskByRc EXCEPT ![c] = None]
        /\ ftLists' = IF ftLists[c].of = None THEN ftLists
                      ELSE [ftLists EXCEPT ![c].res = Item1.res]
  /\ UNCHANGED <<asking, cmds, link, conn, code, srv, opening, net, pendingMove, ftid, nextFt,
                 cancelled, worker, history>>

\* MessageResult: a result may be awaited in any of the four tables.
HandleResult ==
  /\ Handling("result")
  /\ LET c == Item1.key  ok == Item1.res = "ok"
         p == {permOps[c], ftOps[c]} \ {None}
         t == IF ok \/ taskByRc[c] = None THEN {} ELSE {taskByRc[c]} \cap tasks
     IN /\ Tell(p \cup t, IF ok THEN "ok" ELSE "err")
        /\ tasks' = tasks \ t
        /\ permOps' = [permOps EXCEPT ![c] = None] /\ ftOps' = [ftOps EXCEPT ![c] = None]
        /\ taskByRc' = [taskByRc EXCEPT ![c] = None]
        /\ LET lists == IF ftLists[c].of = None THEN ftLists
                        ELSE [ftLists EXCEPT ![c].res = Item1.res]
           IN Schedule(IF ok THEN {} ELSE {c}, lists)
  /\ UNCHANGED <<asking, cmds, link, conn, code, srv, opening, net, pendingMove, ftid, nextFt,
                 cancelled, worker, history>>

\* FileList: rows for the listing under the echoed code, if there is one.
HandleRows ==
  /\ Handling("rows") /\ Handled
  /\ ftLists' = IF ftLists[Item1.key].of = None \/ ftLists[Item1.key].rows = MaxFrames
                THEN ftLists ELSE [ftLists EXCEPT ![Item1.key].rows = @ + 1]
  /\ UNCHANGED <<asking, cmds, link, conn, code, srv, opening, net, permOps, ftOps, taskByRc,
                 pendingMove, transfer, answers, history>>

\* FileListFinished carries no code: it ends every open listing of the directory.
HandleFin ==
  /\ Handling("fin")
  /\ LET C == {c \in Codes : /\ ftLists[c].of # None /\ dir[ftLists[c].of] = Item1.key
                             /\ ~ftLists[c].finished}
     IN Schedule(C, [c \in Codes |-> IF c \in C THEN [ftLists[c] EXCEPT !.finished = TRUE]
                                     ELSE ftLists[c]])
  /\ UNCHANGED <<asking, cmds, link, conn, code, srv, opening, net, permOps, ftOps, taskByRc,
                 pendingMove, transfer, answers, history>>

\* CommandError without a code: only a channel password error answers the move
\* remembered, and the server sends that one with the code of the move.
HandleError ==
  /\ Handling("error") /\ Handled
  /\ IF kind[Item1.of] = "move" /\ pendingMove # None
       THEN Tell({pendingMove}, "rejected") /\ pendingMove' = None
       ELSE UNCHANGED <<answers, pendingMove>>
  /\ UNCHANGED <<asking, cmds, link, conn, code, srv, opening, net, permOps, ftOps, taskByRc,
                 ftLists, transfer, history>>

TaskOf(id) == {r \in tasks : ftid[r] = id}

\* handle_file_download, handle_file_upload: the worker of some task with that id.
HandleStart ==
  /\ Handling("start") /\ Handled
  /\ IF TaskOf(Item1.key) = {} THEN worker' = worker
     ELSE \E r \in TaskOf(Item1.key) : worker' = [worker EXCEPT ![r] = "running"]
  /\ UNCHANGED <<asking, cmds, link, conn, code, srv, opening, net, permOps, ftOps, taskByRc,
                 ftLists, pendingMove, tasks, ftid, nextFt, cancelled, answers, history>>

\* Mutant: any status completes an upload.
HandleStatusAny ==
  /\ Handling("status") /\ Handled
  /\ IF TaskOf(Item1.key) = {} THEN UNCHANGED <<tasks, answers>>
     ELSE \E r \in TaskOf(Item1.key) : FinishTasks({r}, IF kind[r] = "up" THEN "ok" ELSE "err")
  /\ UNCHANGED <<asking, cmds, link, conn, code, srv, opening, net, permOps, ftOps, taskByRc,
                 ftLists, pendingMove, ftid, nextFt, cancelled, worker, history>>

\* FiletransferFailed: status Ok completes an upload; all else fails the task.
HandleStatus ==
  /\ Handling("status") /\ Handled
  /\ IF TaskOf(Item1.key) = {} THEN UNCHANGED <<tasks, answers>>
     ELSE \E r \in TaskOf(Item1.key) :
            FinishTasks({r}, IF Item1.res = "ok" /\ kind[r] = "up" THEN "ok" ELSE "err")
  /\ UNCHANGED <<asking, cmds, link, conn, code, srv, opening, net, permOps, ftOps, taskByRc,
                 ftLists, pendingMove, ftid, nextFt, cancelled, worker, history>>

\* Mutant: permission requests are kept like operations.
HandleDropKeeps ==
  /\ Handling("drop") /\ Handled
  /\ ftLists' = [c \in Codes |-> NoList]
  /\ UNCHANGED <<asking, cmds, link, conn, code, srv, opening, net, permOps, ftOps, taskByRc,
                 pendingMove, transfer, answers, history>>

\* DisconnectedTemporarily: permission requests are answered, listings forgotten,
\* operations and transfer codes kept.
HandleDrop ==
  /\ Handling("drop") /\ Handled
  /\ Tell({permOps[c] : c \in Codes} \ {None}, "lost")
  /\ permOps' = [c \in Codes |-> None] /\ ftLists' = [c \in Codes |-> NoList]
  /\ UNCHANGED <<asking, cmds, link, conn, code, srv, opening, net, ftOps, taskByRc, pendingMove,
                 transfer, history>>

Handle == HandleResult \/ HandleRows \/ HandleFin \/ HandleError \/ HandleStart \/ HandleStatus
          \/ HandleDrop

\* The 600 ms of a timer are over: whatever is under its code is sent off.
Fire(t) ==
  /\ t \in timers /\ ("slow" \in Faults \/ t.left = 0)
  /\ timers' = timers \ {t}
  /\ LET l == ftLists[t.code] IN
     IF l.of = None THEN UNCHANGED <<answers, ftLists>>
     ELSE /\ answers' = [answers EXCEPT ![l.of] =
                           Append(@, Answer(IF l.res = "err" THEN "err" ELSE "ok", l.rows))]
          /\ ftLists' = [ftLists EXCEPT ![t.code] = NoList]
  /\ UNCHANGED <<asking, cmds, wire, permOps, ftOps, taskByRc, pendingMove, transfer, history>>

-----------------------------------------------------------------------------
(* The transfer workers, threads of their own. *)

\* Between two blocks, and every 250 ms of the grace period.
WorkerCancels(r) ==
  /\ worker[r] \in {"running", "grace"} /\ r \in cancelled
  /\ worker' = [worker EXCEPT ![r] = "over"] /\ FinishTasks({r}, "err")
  /\ UNCHANGED <<asking, cmds, wire, tables, ftid, nextFt, cancelled, history>>

\* The download's stream ends: complete, early, or with an error.
DownloadEnds(r, whole) ==
  /\ kind[r] = "down" /\ worker[r] = "running" /\ (whole => did[r] # "err")
  /\ worker' = [worker EXCEPT ![r] = "over"] /\ FinishTasks({r}, IF whole THEN "ok" ELSE "err")
  /\ did' = IF whole /\ did[r] = "ok" THEN [did EXCEPT ![r] = "all"] ELSE did
  /\ UNCHANGED <<asking, cmds, wire, tables, ftid, nextFt, cancelled, sentIn, served, over>>

\* All bytes are handed over, or the stream breaks.
UploadSent(r, whole) ==
  /\ kind[r] = "up" /\ worker[r] = "running"
  /\ worker' = [worker EXCEPT ![r] = IF whole THEN "grace" ELSE "over"]
  /\ IF whole THEN UNCHANGED <<tasks, answers>> ELSE FinishTasks({r}, "err")
  /\ UNCHANGED <<asking, cmds, wire, tables, ftid, nextFt, cancelled, history>>

StatusUnderWay(r) ==
  \E m \in {net[i] : i \in DOMAIN net} \cup {batch[i] : i \in DOMAIN batch} :
    m.type = "status" /\ m.of = r

\* Eight seconds without a status: the upload is taken to be complete.
GraceEnds(r) ==
  /\ worker[r] = "grace" /\ ("slow" \in Faults \/ ~StatusUnderWay(r)) /\ worker' = [worker EXCEPT ![r] = "over"]
  /\ FinishTasks({r}, "ok")
  /\ UNCHANGED <<asking, cmds, wire, tables, ftid, nextFt, cancelled, history>>

Worker(r) == \/ WorkerCancels(r) \/ GraceEnds(r)
             \/ \E whole \in BOOLEAN : DownloadEnds(r, whole) \/ UploadSent(r, whole)

-----------------------------------------------------------------------------
Next ==
  \/ \E r \in Reqs : \/ Ask(r) \/ \E k \in Transfers : AskLate(r, k)
                     \/ Cancel(r) \/ Execute(r) \/ Worker(r)
                     \/ \E ok \in BOOLEAN : Opened(r, ok)
                     \/ \E res \in {"ok", "err"} : ServerStatus(r, res)
  \/ ServerAnswers \/ Drop \/ Reconnect \/ End \/ Connect
  \/ \E n \in 1..Len(net) : Collect(n)
  \/ Handle
  \/ \E t \in timers : Fire(t)

Spec == Init /\ [][Next]_vars

\* The event loop, the timers and the workers run; a server that is connected
\* answers what it was sent, in order.
FairSpec ==
  /\ Spec
  /\ WF_vars(\E r \in Reqs : Execute(r)) /\ WF_vars(Handle)
  /\ WF_vars(\E n \in 1..Len(net) : Collect(n))
  /\ WF_vars(\E t \in timers : Fire(t)) /\ WF_vars(ServerAnswers) /\ WF_vars(Reconnect)
  /\ \A r \in Reqs : WF_vars(Worker(r)) /\ WF_vars(\E ok \in BOOLEAN : Opened(r, ok))

(* Properties. *)

\* No request is answered twice, whoever else knows of it: the event loop, a timer,
\* a worker, the FFI call itself.
AnsweredOnce == \A r \in Reqs : Len(answers[r]) <= 1

\* Where the answer was pushed in the connection the request was made in; permission
\* requests are answered when that connection is lost, the others must not be
\* judged by what a later connection says under the same return code.
Told(r, what) == \E i \in DOMAIN answers[r] : answers[r][i].what = what
ToldHere(r, what) ==
  \E i \in DOMAIN answers[r] : answers[r][i].what = what /\ answers[r][i].conn = sentIn[r]

\* A permission request is reported done or refused only when the server has done or
\* refused that very request, in spite of reconnects and reordered batches; so is a
\* file operation, at least while its connection lasts.
PermissionsTrue ==
  \A r \in Reqs : kind[r] \in Tokens =>
    (Told(r, "ok") => did[r] = "ok") /\ (Told(r, "err") => did[r] = "err")
OperationsTrue ==
  \A r \in Reqs : kind[r] = "op" =>
    (ToldHere(r, "ok") => did[r] = "ok") /\ (ToldHere(r, "err") => did[r] = "err")

\* A listing is reported failed only when the server refused it, and as complete or
\* empty, while its connection lasts, only when the server did not.
RefusalsTrue == \A r \in Reqs : kind[r] = "list" /\ Told(r, "err") => did[r] = "err"
ListingsTrue ==
  \A r \in Reqs : kind[r] = "list" /\ ToldHere(r, "ok") => did[r] \in {"ok", "empty"}

AnswersTrue == PermissionsTrue /\ OperationsTrue /\ RefusalsTrue /\ ListingsTrue

\* A listing shown without an error has every row the server sent for it.
ListingComplete ==
  \A r \in Reqs : \A i \in DOMAIN answers[r] :
    kind[r] = "list" /\ answers[r][i].what = "ok" => answers[r][i].rows = served[r]

\* A transfer reported done is done, and one reported failed (and not cancelled) has
\* failed: the status messages, the results and the worker tell one story.
TransferTrue ==
  \A r \in Reqs :
    /\ kind[r] = "down" /\ Told(r, "ok") => did[r] = "all"
    /\ kind[r] = "up" /\ Told(r, "ok") => worker[r] \in {"grace", "over"}
    /\ kind[r] = "up" /\ ToldHere(r, "ok") => did[r] # "err"
    /\ kind[r] \in Transfers /\ ToldHere(r, "err") /\ r \notin cancelled => did[r] # "all"

\* The same for operations without regard to reconnects (FT_OPS survives a temporary
\* disconnect, return codes start again at 0; README, section 4).
OwnAnswer == \A r \in Reqs : kind[r] = "op" /\ Told(r, "ok") => did[r] = "ok"

\* ts_move_to_channel: a wrong channel password is reported as MoveRejected
\* (api.rs:2230, "already reported through MoveRejected").
MoveReported ==
  [][\A r \in Reqs : /\ HandleResult /\ Item1.of = r /\ kind[r] = "move" /\ Item1.res = "err"
                     => Told(r, "rejected")']_vars

\* Every request is answered, unless its connection is lost; a permission request
\* even then, unless the session ends.
Lost(r) == r \in over \/ (kind[r] \notin Tokens /\ (link # "up" \/ sentIn[r] # conn))
\* A transfer that was announced ends, also when its session does (api.rs:4026, "fail
\* the task immediately so no job hangs"; README, section 4).
StartedEnds == \A r \in Reqs : r \in tasks ~> r \notin tasks

Answered ==
  \A r \in Reqs : kind[r] \notin {"none", "move", "plain"} ~> (answers[r] # <<>> \/ Lost(r))

=============================================================================
