----------------------------- MODULE MCSession -----------------------------
(***************************************************************************)
(* Instances of Session for TLC: named choices of what the network and the *)
(* user may do, for the .cfg files.                                        *)
(***************************************************************************)
EXTENDS Session

AnyNetwork == {"drop", "close", "error", "level"}
AnyGesture == {"cancel", "retap", "swipe"}

=============================================================================
