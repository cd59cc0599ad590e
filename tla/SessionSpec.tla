---------------------------- MODULE SessionSpec ----------------------------
(***************************************************************************)
(* What the native library promises about sessions, whatever threads do:   *)
(* sessions are numbered in the order in which they are established, the   *)
(* server sees at most one of them, and the library is ready for a new one *)
(* only after it has left the previous one.                                *)
(***************************************************************************)
EXTENDS Naturals

VARIABLES
  phase,   \* what ts_connect sees: "idle", "connecting" or "connected"
  joined,  \* the sessions the server counts as present
  n        \* sessions established so far

vars == <<phase, joined, n>>

Init == phase = "idle" /\ joined = {} /\ n = 0

Start     == phase = "idle"       /\ phase' = "connecting" /\ UNCHANGED <<joined, n>>
Fail      == phase = "connecting" /\ joined = {} /\ phase' = "idle" /\ UNCHANGED <<joined, n>>
Join      == /\ phase = "connecting" /\ joined = {}
             /\ n' = n + 1 /\ joined' = {n'}
             /\ UNCHANGED phase
Establish == phase = "connecting" /\ joined = {n} /\ phase' = "connected" /\ UNCHANGED <<joined, n>>
Leave     == phase = "connected"  /\ joined = {n} /\ joined' = {} /\ UNCHANGED <<phase, n>>
End       == phase = "connected"  /\ joined = {} /\ phase' = "idle" /\ UNCHANGED <<joined, n>>

Next == Start \/ Fail \/ Join \/ Establish \/ Leave \/ End

Spec == Init /\ [][Next]_vars

=============================================================================
