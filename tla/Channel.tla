------------------------------ MODULE Channel -------------------------------
(***************************************************************************)
(* What the reliable part of tsproto promises to its user: the commands    *)
(* handed to Connection::send_packet come out of the other end's stream    *)
(* once each and in the order they were handed in, until one of the two    *)
(* ends breaks.  One command, or a run of commands, may come out in one    *)
(* step.                                                                   *)
(***************************************************************************)
EXTENDS Naturals, Sequences

CONSTANT Command    \* the commands that may be sent

VARIABLES sent,      \* the commands handed in, in order
          delivered, \* the commands handed out, in order
          broken     \* an end has given the connection up

chanVars == <<sent, delivered, broken>>

Init == sent = <<>> /\ delivered = <<>> /\ broken = FALSE

Send == /\ ~broken
        /\ \E c \in Command : sent' = Append(sent, c)
        /\ UNCHANGED <<delivered, broken>>

Deliver == /\ \E k \in Len(delivered) + 1 .. Len(sent) :
                 delivered' = SubSeq(sent, 1, k)
           /\ UNCHANGED <<sent, broken>>

Break == ~broken /\ broken' = TRUE /\ UNCHANGED <<sent, delivered>>

Next == Send \/ Deliver \/ Break

Spec == Init /\ [][Next]_chanVars
=============================================================================
