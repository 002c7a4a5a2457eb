----------------------------- MODULE RetryBudget -----------------------------
(***************************************************************************)
(* What the retry policy of the chat graph promises, whatever the nodes do *)
(* with their data: a question gets one round of at most MaxAttempts SQL   *)
(* generations, one more round if deeper schema linking found new tables,  *)
(* and one more if the first result was empty; nothing is generated after  *)
(* the run is over, and it never reports more attempts than it made.       *)
(***************************************************************************)
EXTENDS Naturals

CONSTANT MaxAttempts

VARIABLES
    attempts,    \* generations of this round; at the end, those reported
    calls,       \* generations altogether
    expanded,    \* the deeper-linking retry is used up
    rewritten,   \* the empty-result retry is used up
    over

vars == <<attempts, calls, expanded, rewritten, over>>

Init ==
    /\ attempts = 0 /\ calls = 0
    /\ expanded = FALSE /\ rewritten = FALSE /\ over = FALSE

Generate ==
    /\ ~over /\ attempts < MaxAttempts
    /\ attempts' = attempts + 1 /\ calls' = calls + 1
    /\ over' \in BOOLEAN
    /\ UNCHANGED <<expanded, rewritten>>

\* The call itself fails: the attempt is not counted and the run is over.
GenerateFails ==
    /\ ~over /\ attempts < MaxAttempts
    /\ calls' = calls + 1 /\ over' = TRUE
    /\ UNCHANGED <<attempts, expanded, rewritten>>

RoundAfterExpand ==
    /\ ~over /\ ~expanded /\ attempts > 0
    /\ expanded' = TRUE /\ attempts' = 0
    /\ UNCHANGED <<calls, rewritten, over>>

RoundAfterEmptyResult ==
    /\ ~over /\ ~rewritten /\ attempts > 0
    /\ rewritten' = TRUE /\ attempts' = 0
    /\ UNCHANGED <<calls, expanded, over>>

\* Expanding found nothing new: the retry is used up without a new round.
ExpandInVain ==
    /\ ~over /\ ~expanded
    /\ expanded' = TRUE /\ over' \in BOOLEAN
    /\ UNCHANGED <<attempts, calls, rewritten>>

Finish ==
    /\ ~over /\ over' = TRUE
    /\ attempts' \in attempts..calls
    /\ UNCHANGED <<calls, expanded, rewritten>>

Next ==
    \/ Generate \/ GenerateFails \/ RoundAfterExpand \/ RoundAfterEmptyResult
    \/ ExpandInVain \/ Finish

Spec == Init /\ [][Next]_vars
=============================================================================
