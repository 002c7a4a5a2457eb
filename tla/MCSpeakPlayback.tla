-------------------------- MODULE MCSpeakPlayback --------------------------
(* Values for checking SpeakPlayback with TLC: two answers, each with a    *)
(* button of its own.                                                      *)
EXTENDS SpeakPlayback, TLC

CONSTANTS first, second, t1, t2

TwoButtons == (first :> t1) @@ (second :> t2)
=============================================================================
