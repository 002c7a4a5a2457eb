---------------------------- MODULE MCChatTurns ----------------------------
(* Values for checking ChatTurns with TLC.                                 *)
EXTENDS ChatTurns

CONSTANTS r1, r2, r3, l1

\* Two tabs go on with the conversation that r1 started.
TwoTabs == (r1 :> None) @@ (r2 :> r1) @@ (r3 :> r1)
\* Both of them ask the same thing.
SameQuestion == (r1 :> "q1") @@ (r2 :> "q2") @@ (r3 :> "q2")
ReopensFirst == l1 :> r1
=============================================================================
