------------------------------ MODULE Resolver ------------------------------
(***************************************************************************)
(* resolver.rs: the addresses a server's name stands for, in the order     *)
(* tsclientlib tries them.  An ip is taken as it is; a name goes through   *)
(* four steps, and a step that fails adds nothing: the nickname service,   *)
(* the SRV record of the name, the tsdns server another SRV record names,  *)
(* and the name itself.  SRV records are taken by priority and, within a   *)
(* priority, drawn by weight.                                              *)
(*                                                                         *)
(* A step that takes longer than TIMEOUT_SECONDS is still waited for: the  *)
(* timeout yields an error in between, which the stream filters out.       *)
(*                                                                         *)
(* Module Connect takes an address at a time from this stream.  What the   *)
(* services answer is the environment's choice; a host stands for the one  *)
(* address it resolves to.                                                 *)
(***************************************************************************)
EXTENDS Naturals, Sequences, SequencesExt, FiniteSets

CONSTANTS
  MaxRecords,  \* bound: records in an answer to an SRV lookup
  Priorities, Weights, \* of SRV records
  Ports        \* whether the user has typed a port, a subset of BOOLEAN

ASSUME ResolverAssumption ==
  /\ MaxRecords \in Nat /\ Priorities \subseteq Nat /\ Weights \subseteq Nat
  /\ Ports \subseteq BOOLEAN

Lookups == UNION {[1 .. n -> [priority : Priorities, weight : Weights]] : n \in 1 .. MaxRecords}

VARIABLES
  typed,   \* what parse_ip makes of the address: an ip or a name, with a port
  step,    \* the step the stream is at
  lookup,  \* the answer to the step's SRV lookup
  groups,  \* prios, sorted: the records of each priority still to come
  entries, \* the records of the current priority that are not drawn yet
  sorted,  \* sorted_entries
  at,      \* how many of them have been resolved
  tried    \* the addresses the stream has yielded

vars == <<typed, step, lookup, groups, entries, sorted, at, tried>>

Typed == [kind : {"ip", "nickname", "domain"}, port : Ports]

\* parse_ip and the head of resolve: an ip is an address already.
Init ==
  /\ typed \in Typed
  /\ step = IF typed.kind = "ip" THEN "ip" ELSE "nick"
  /\ lookup = <<>> /\ groups = <<>> /\ entries = <<>> /\ sorted = <<>>
  /\ at = 0 /\ tried = <<>>

\* Where the port of an address comes from.
PortOf(from) ==
  CASE from \in {"ip", "host"} -> IF typed.port THEN "typed" ELSE "default"
    [] from \in {"nick", "tsdns"} -> IF typed.port THEN "typed" ELSE "found"
    [] from = "srv" -> "found"

Yield(from, host) ==
  tried' = Append(tried, [from |-> from, host |-> host, port |-> PortOf(from)])

After(s) == CASE s = "ip" -> "done" [] s = "nick" -> "srv" [] s = "srv" -> "tsdns"
              [] s = "tsdns" -> "host" [] s = "host" -> "done"

NothingDrawn == lookup' = <<>> /\ groups' = <<>> /\ entries' = <<>> /\ sorted' = <<>> /\ at' = 0

Drawing == groups # <<>> \/ entries # <<>>

\* A step is over: it has failed or has nothing left.
StepOver ==
  /\ step \in {"nick", "srv", "tsdns", "host"}
  /\ ~Drawing /\ at = Len(sorted)
  /\ step' = After(step) /\ NothingDrawn
  /\ UNCHANGED <<typed, tried>>

\* The address itself, and the last step, lookup_host.
Direct ==
  /\ step \in {"ip", "host"}
  /\ Yield(step, "name") /\ step' = "done"
  /\ UNCHANGED <<typed, lookup, groups, entries, sorted, at>>

\* resolve_nickname is asked for a name without a dot.
Nickname ==
  /\ step = "nick" /\ typed.kind = "nickname"
  /\ Yield("nick", "found") /\ step' = "srv"
  /\ UNCHANGED <<typed, lookup, groups, entries, sorted, at>>

\* The stretches of equal priority in the answer, as pairs of first and last.
Runs(l) ==
  {r \in (DOMAIN l) \X (DOMAIN l) :
     /\ r[1] <= r[2]
     /\ \A k \in r[1] .. r[2] : l[k].priority = l[r[1]].priority
     /\ r[1] - 1 \in DOMAIN l => l[r[1] - 1].priority # l[r[1]].priority
     /\ r[2] + 1 \in DOMAIN l => l[r[2] + 1].priority # l[r[1]].priority}

\* Mutant: the runs are taken as the answer has them.
AsAnswered(l) ==
  LET Before(r, q) == r[1] < q[1]
  IN  [i \in 1 .. Cardinality(Runs(l)) |->
         LET r == SetToSortSeq(Runs(l), Before)[i] IN SubSeq(l, r[1], r[2])]

\* chunk_by and sorted_by_key: the runs, the lowest priority first.
ByPriority(l) ==
  LET Before(r, q) == \/ l[r[1]].priority < l[q[1]].priority
                      \/ l[r[1]].priority = l[q[1]].priority /\ r[1] < q[1]
  IN  [i \in 1 .. Cardinality(Runs(l)) |->
         LET r == SetToSortSeq(Runs(l), Before)[i] IN SubSeq(l, r[1], r[2])]

SrvLookup ==
  /\ step \in {"srv", "tsdns"} /\ lookup = <<>>
  /\ lookup' \in Lookups
  /\ groups' = ByPriority(lookup')
  /\ UNCHANGED <<typed, step, entries, sorted, at, tried>>

\* The next priority: its records with a weight go to entries, the others to
\* zero_entries, which nothing reads.
NextPriority ==
  /\ entries = <<>> /\ groups # <<>>
  /\ entries' = SelectSeq(Head(groups), LAMBDA e : e.weight # 0)
  /\ groups' = Tail(groups)
  /\ UNCHANGED <<typed, step, lookup, sorted, at, tried>>

WeightTo(s, i) == FoldLeft(LAMBDA sum, e : sum + e.weight, 0, SubSeq(s, 1, i))

\* The record the number w falls to.
Drawn(s, w) == CHOOSE i \in DOMAIN s : /\ w <= WeightTo(s, i)
                                       /\ i = 1 \/ WeightTo(s, i - 1) < w

\* gen_range(0..=weight): one record of the priority.
Draw ==
  /\ entries # <<>>
  /\ \E w \in 0 .. WeightTo(entries, Len(entries)) :
       /\ sorted' = Append(sorted, entries[Drawn(entries, w)])
       /\ entries' = RemoveAt(entries, Drawn(entries, w))
  /\ UNCHANGED <<typed, step, lookup, groups, at, tried>>

\* All priorities are drawn: the next record's target is looked up, and in the
\* tsdns step asked for the name.  Either may fail; the next one follows.
Resolve ==
  /\ ~Drawing /\ at < Len(sorted)
  /\ at' = at + 1
  /\ Yield(step, sorted[at']) \/ UNCHANGED tried
  /\ UNCHANGED <<typed, step, lookup, groups, entries, sorted>>

Next == StepOver \/ Direct \/ Nickname \/ SrvLookup \/ NextPriority \/ Draw \/ Resolve

Spec == Init /\ [][Next]_vars

----------------------------------------------------------------------------
(* Properties.                                                             *)

\* Every record of the answer gets its turn, the ones of weight 0 too ("Pick the
\* first entry with weight 0" is what the code says of them).
EveryRecordDrawn == lookup # <<>> /\ ~Drawing => Len(sorted) = Len(lookup)

\* A record of a lower priority is never drawn before one of a higher (resolve_srv
\* groups what the server sent in any order).
ByPriorityDrawn ==
  \A i, j \in DOMAIN sorted : i < j => sorted[i].priority <= sorted[j].priority

\* A port the user typed is the one that is used ("If a port is given with
\* `:port`, it overwrites the automatically determined port").
PortKept == \A i \in DOMAIN tried : typed.port => tried[i].port = "typed"

=============================================================================
