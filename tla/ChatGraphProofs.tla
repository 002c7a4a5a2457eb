-------------------------- MODULE ChatGraphProofs --------------------------
(***************************************************************************)
(* Theorems about ChatGraph, for every set of tables and every value of    *)
(* MaxTables, MaxAttempts and RecursionLimit.                              *)
(***************************************************************************)
EXTENDS ChatGraph, TLAPS

-----------------------------------------------------------------------------
(* Types                                                                   *)

\* The literals the nodes write have the types of the keys they are written to.
LEMMA Literals ==
    /\ NoSql \in Sqls /\ BadSql \in Sqls /\ Queries \subseteq Sqls
    /\ NoError \in Errors /\ OtherError \in Errors /\ EmptyResultHint \in Errors
    /\ \A t \in SqlNames : AllowlistMiss(t) \in Errors
    /\ NullRows \in RowSets /\ NothingRun \in RowSets
    /\ \A q \in Sqls, size \in {"empty", "some"} : ResultOf(q, size) \in RowSets
    /\ \A k \in AnswerKinds, q \in Sqls : Answer(k, q) \in Answers
    /\ NoAnswer \in Answers
<1>1. NoSql \in Sqls /\ BadSql \in Sqls /\ Queries \subseteq Sqls
  BY DEF Sqls
<1>2. NoError \in Errors /\ OtherError \in Errors /\ EmptyResultHint \in Errors
  BY DEF Errors
<1>3. \A t \in SqlNames : AllowlistMiss(t) \in Errors
  BY DEF Errors
<1>4. \A q \in Sqls, size \in {"null", "empty", "some"} : ResultOf(q, size) \in RowSets
  BY DEF RowSets, ResultOf
<1>5. \A k \in AnswerKinds, q \in Sqls : Answer(k, q) \in Answers
  BY DEF Answers, Answer
<1>6. QED
  BY <1>1, <1>2, <1>3, <1>4, <1>5 DEF NullRows, NothingRun, NoAnswer, AnswerKinds

\* A conditional edge leads to a node of the graph or ends the run.
LEMMA Routes ==
    /\ RouteAfterRelevance \in {"END", "generate_sql"}
    /\ RouteAfterGenerate \in {"expand_schema", "resolve_empty_retry", "END", "validate_sql"}
    /\ RouteAfterValidate \in {"execute_sql", "generate_sql", "expand_schema",
                               "resolve_empty_retry", "finalize_failure"}
    /\ RouteAfterExecute \in {"summarize", "generate_sql", "resolve_empty_retry",
                              "finalize_failure"}
    /\ RouteAfterSummarize \in {"prepare_empty_retry", "resolve_empty_retry", "END"}
    /\ RouteAfterExpand \in {"END", "finalize_failure", "generate_sql"}
BY DEF RouteAfterRelevance, RouteAfterGenerate, RouteAfterValidate, RouteAfterExecute,
       RouteAfterSummarize, RouteAfterExpand

\* Whatever is retrieved or merged is made of tables and the overview chunk.
LEMMA RetrievedChunks ==
    ASSUME TypeOK, NEW chunks \in Retrieved
    PROVE  chunks \subseteq Tables \cup {Synthetic}
<1>1. catalog \subseteq Tables
  BY DEF TypeOK
<1>2. \A S : \A T \in Capped(S) : T \subseteq S
  BY DEF Capped
<1>3. \A T \in Introspected : T \subseteq Chunks
  BY <1>2 DEF Introspected, Chunks
<1>4. \A T : Real(T) \subseteq T
  BY DEF Real
<1>5. CASE overview /\ catalog # {}
  BY <1>1, <1>5 DEF Retrieved
<1>6. CASE ~(overview /\ catalog # {})
  <2> DEFINE Found == (SUBSET Chunks) \ {{}}
             Indexed == {IF Aside THEN Real(found) ELSE found : found \in Found}
             Live == {IF overview \/ Aside THEN Real(live) ELSE live : live \in Introspected}
             Listed == IF Aside /\ catalog # {} THEN {Real(some) : some \in Capped(Chunks)} ELSE {{}}
             From(found) == chunks = found \/ chunks = Real(found)
  <2>1. \E found \in SUBSET Chunks : From(found)
    <3>1. chunks \in Indexed \/ chunks \in Live \/ chunks \in Listed
      BY <1>6 DEF Retrieved
    <3>2. \A found \in Found : found \subseteq Chunks
      OBVIOUS
    <3>3. CASE chunks \in Indexed
      <4> HIDE DEF Found
      <4>1. QED
        BY <3>2, <3>3
    <3>4. CASE chunks \in Live
      BY <1>3, <3>4
    <3>5. CASE chunks \in Listed
      BY <1>2, <3>5
    <3>6. QED
      <4> HIDE DEF Indexed, Live, Listed, From
      <4>1. QED
        BY <3>1, <3>3, <3>4, <3>5
  <2>2. QED
    BY <1>4, <2>1 DEF Chunks
<1>7. QED
  BY <1>5, <1>6

\* Merging two selections adds nothing that was in neither.
LEMMA MergedChunks ==
    ASSUME NEW existing, NEW extra, NEW merged \in Merged(existing, extra)
    PROVE  merged \subseteq existing \cup extra
<1>1. \A S : \A T \in Capped(S) : T \subseteq S
  BY DEF Capped
<1>2. QED
  BY <1>1 DEF Merged, Real

\* A proposed scope names tables of the catalog, or the synthetic one.
LEMMA ProposedChunks ==
    ASSUME TypeOK, NEW index \in Reloaded, NEW proposed \in Proposed(index)
    PROVE  proposed \subseteq Tables \cup {Synthetic}
<1>1. index \subseteq Tables
  BY DEF Reloaded, TypeOK
<1>2. QED
  BY <1>1 DEF Proposed, TypeOK

\* Typing is preserved by every node; Progress bounds the attempt counter.
LEMMA TypeStep ==
    ASSUME TypeOK, Progress, [Next]_vars
    PROVE  TypeOK'
<1> USE Literals, BoundsAssumption DEF TypeOK, prep, verdict, query, retry, Run
<1>1. CASE RouteIntent
  BY <1>1 DEF RouteIntent, GraphNodes
<1>2. CASE LinkEntities
  BY <1>2 DEF LinkEntities, GraphNodes
<1>3. CASE RetrieveAndLink
  <2>1. linked' \in Retrieved
    BY <1>3 DEF RetrieveAndLink
  <2>2. linked' \subseteq Tables \cup {Synthetic}
    BY <2>1, RetrievedChunks
  <2>3. QED
    BY <1>3, <2>2 DEF RetrieveAndLink, GraphNodes
<1>4. CASE AssessRelevance
  <2>1. node' \in GraphNodes \cup Ended
    BY <1>4 DEF AssessRelevance, RouteAfterRelevance, GraphNodes, Ended
  <2>2. /\ scope' \in Scopes /\ status' \in Statuses /\ sql' \in Sqls
        /\ sqlError' \in Errors /\ rows' \in RowSets /\ answer' \in Answers
    BY <1>4 DEF AssessRelevance, Refuse, Scopes, Statuses, AnswerKinds
  <2>3. QED
    BY <1>4, <2>1, <2>2 DEF AssessRelevance
<1>5. CASE GenerateSql
  <2>1. node' \in GraphNodes \cup Ended
    BY <1>5 DEF GenerateSql, RouteAfterGenerate, GraphNodes, Ended
  <2>2. /\ scope' \in Scopes /\ status' \in Statuses /\ sql' \in Sqls
        /\ sqlError' \in Errors /\ rows' \in RowSets /\ answer' \in Answers
    BY <1>5 DEF GenerateSql, Refuse, Scopes, Statuses, AnswerKinds
  <2>3. attempts' \in 0..(2 * MaxAttempts)
    BY <1>5 DEF GenerateSql, Progress
  <2>4. QED
    BY <1>5, <2>1, <2>2, <2>3 DEF GenerateSql
<1>6. CASE ValidateSql
  <2>1. node' \in GraphNodes \cup Ended
    BY <1>6 DEF ValidateSql, RouteAfterValidate, GraphNodes, Ended
  <2>2. sqlError' \in Errors
    <3>1. Sqls \subseteq [kind : {"select", "none", "bad"}, tables : SUBSET SqlNames]
      BY DEF Sqls, Queries, NoSql, BadSql
    <3>2. sql.tables \subseteq SqlNames
      BY <3>1
    <3>3. Violations(sql) \subseteq Errors
      BY <3>2 DEF Violations
    <3>4. QED
      BY <1>6, <3>3 DEF ValidateSql
  <2>3. QED
    BY <1>6, <2>1, <2>2 DEF ValidateSql, Statuses
<1>7. CASE ExecuteSql
  <2>1. node' \in GraphNodes \cup Ended
    BY <1>7 DEF ExecuteSql, RouteAfterExecute, GraphNodes, Ended
  <2>2. rows' \in RowSets /\ sqlError' \in Errors
    BY <1>7 DEF ExecuteSql
  <2>3. QED
    BY <1>7, <2>1, <2>2 DEF ExecuteSql, Statuses
<1>8. CASE Summarize
  <2>1. node' \in GraphNodes \cup Ended
    BY <1>8 DEF Summarize, RouteAfterSummarize, GraphNodes, Ended
  <2>2. answer' \in Answers
    BY <1>8 DEF Summarize, AnswerKinds
  <2>3. QED
    BY <1>8, <2>1, <2>2 DEF Summarize, Statuses
<1>9. CASE ExpandSchema
  <2>1. node' \in GraphNodes \cup Ended
    BY <1>9 DEF ExpandSchema, RouteAfterExpand, GraphNodes, Ended
  <2>2. PICK index \in Reloaded :
          \/ index = {} /\ ExpandNoop
          \/ \E proposed \in Proposed(index) : \E merged \in Merged(linked, proposed) :
               IF merged \subseteq linked THEN ExpandNoop ELSE ExpandTo(merged)
    BY <1>9 DEF ExpandSchema
  <2>3. CASE ExpandNoop
    BY <1>9, <2>1, <2>3 DEF ExpandSchema, ExpandNoop
  <2>4. ASSUME NEW proposed \in Proposed(index), NEW merged \in Merged(linked, proposed),
               ExpandTo(merged)
        PROVE  TypeOK'
    <3>1. linked' \subseteq Tables \cup {Synthetic}
      BY <2>4, ProposedChunks, MergedChunks DEF ExpandTo
    <3>2. Run("expand_schema") /\ UNCHANGED <<prep, didEmpty, snapshot, calls>>
      BY <1>9 DEF ExpandSchema
    <3>3. /\ scope' \in Scopes /\ status' \in Statuses /\ sql' \in Sqls
          /\ sqlError' \in Errors /\ rows' \in RowSets /\ answer' \in Answers
      BY <2>4 DEF ExpandTo, Scopes, Statuses
    <3>4. attempts' \in 0..(2 * MaxAttempts)
      BY <2>4 DEF ExpandTo
    <3>5. didExpand' \in BOOLEAN /\ expandNoop' \in BOOLEAN
      BY <2>4 DEF ExpandTo
    <3>6. QED
      BY <2>1, <3>1, <3>2, <3>3, <3>4, <3>5
  <2>5. QED
    BY <2>2, <2>3, <2>4
<1>10. CASE PrepareEmptyRetry
  <2>1. snapshot' \in Snapshots
    BY <1>10 DEF PrepareEmptyRetry, Progress, Snapshots
  <2>2. QED
    BY <1>10, <2>1 DEF PrepareEmptyRetry, GraphNodes, Scopes, Statuses
<1>11. CASE ResolveEmptyRetry
  <2>1. attempts \in 1..MaxAttempts
    BY <1>11 DEF ResolveEmptyRetry, Progress
  <2>2. snapshot.attempts + attempts \in 0..(2 * MaxAttempts)
    BY <2>1 DEF Snapshots
  <2>3. /\ scope' \in Scopes /\ status' \in Statuses /\ sql' \in Sqls
        /\ sqlError' \in Errors /\ rows' \in RowSets /\ answer' \in Answers
    BY <1>11 DEF ResolveEmptyRetry, Snapshots
  <2>4. NoSnapshot \in Snapshots
    BY DEF NoSnapshot, Snapshots, Statuses, Scopes
  <2>5. QED
    BY <1>11, <2>2, <2>3, <2>4 DEF ResolveEmptyRetry, Ended
<1>12. CASE FinalizeFailure
  BY <1>12 DEF FinalizeFailure, Ended, Statuses, AnswerKinds
<1>13. CASE NodeRaises
  BY <1>13 DEF NodeRaises, Ended
<1>14. CASE OutOfSteps
  BY <1>14 DEF OutOfSteps, Ended
<1>15. CASE UNCHANGED vars
  BY <1>15 DEF vars
<1>16. QED
  BY <1>1, <1>2, <1>3, <1>4, <1>5, <1>6, <1>7, <1>8, <1>9, <1>10, <1>11, <1>12, <1>13,
     <1>14, <1>15 DEF Next

-----------------------------------------------------------------------------
(* The retry budget and the step bound                                     *)

\* The inductive bounds give the two simple ones at every node.
LEMMA BoundsHold ==
    ASSUME TypeOK, Progress
    PROVE  StepsBounded /\ CallsBounded
<1> USE BoundsAssumption DEF GraphNodes, Ended
<1>1. /\ attempts \in Nat /\ steps \in Nat /\ calls \in Nat /\ MaxAttempts \in Nat
      /\ MaxAttempts >= 1
      /\ didExpand \in BOOLEAN /\ didEmpty \in BOOLEAN /\ expandNoop \in BOOLEAN
  BY DEF TypeOK
<1>2. ClosedCalls \in 0..(2 * MaxAttempts) /\ ClosedSteps \in 4..(6 * MaxAttempts + 6)
  BY <1>1 DEF ClosedCalls, ClosedSteps
<1>3. CASE node \in Ended
  BY <1>3 DEF Progress, StepsBounded, CallsBounded
<1>4. CASE node \in GraphNodes
  <2>1. attempts <= MaxAttempts /\ calls <= ClosedCalls + attempts
    BY <1>1, <1>4 DEF Progress
  <2>2. CallsBounded
    BY <1>1, <1>2, <2>1 DEF CallsBounded
  <2>3. StepsBounded
    BY <1>1, <1>2, <1>4, <2>1 DEF Progress, StepsBounded
  <2>4. QED
    BY <2>2, <2>3
<1>5. QED
  BY <1>3, <1>4 DEF TypeOK

\* Within an open round an attempt pays for its nodes; closing a round adds its
\* whole cost to ClosedSteps and ClosedCalls and starts the count again.
LEMMA ProgressStep ==
    ASSUME TypeOK, Progress, [Next]_vars
    PROVE  Progress'
<1> USE BoundsAssumption
    DEF prep, verdict, query, retry, Run, GraphNodes, Ended, Expanded, ClosedCalls, ClosedSteps
<1>a. /\ attempts \in Nat /\ steps \in Nat /\ calls \in Nat /\ MaxAttempts \in Nat
      /\ MaxAttempts >= 1
      /\ didExpand \in BOOLEAN /\ didEmpty \in BOOLEAN /\ expandNoop \in BOOLEAN
      /\ snapshot.taken \in BOOLEAN /\ snapshot.attempts \in 0..MaxAttempts
  BY DEF TypeOK, Snapshots
<1>1. CASE RouteIntent
  BY <1>a, <1>1 DEF RouteIntent, Progress
<1>2. CASE LinkEntities
  BY <1>a, <1>2 DEF LinkEntities, Progress
<1>3. CASE RetrieveAndLink
  BY <1>a, <1>3 DEF RetrieveAndLink, Progress
<1>4. CASE AssessRelevance
  BY <1>a, <1>4 DEF AssessRelevance, Progress, RouteAfterRelevance
<1>5. CASE GenerateSql
  <2>1. /\ node = "generate_sql" /\ steps' = steps + 1
        /\ attempts' = attempts + 1 /\ calls' = calls + 1
        /\ UNCHANGED <<didExpand, didEmpty, expandNoop, snapshot>>
    BY <1>5 DEF GenerateSql
  <2>2. /\ attempts < MaxAttempts /\ steps <= ClosedSteps + 3 * attempts
        /\ calls <= ClosedCalls + attempts /\ attempts <= calls
        /\ expandNoop => didExpand
        /\ snapshot.taken => didEmpty /\ snapshot.attempts >= 1
        /\ snapshot.taken => snapshot.attempts + attempts <= calls
    BY <2>1 DEF Progress
  <2>3. \/ node' = "expand_schema" /\ ~didExpand
        \/ node' \in {"resolve_empty_retry", "END", "validate_sql"}
    BY <1>5, <2>1 DEF GenerateSql, RouteAfterGenerate, needs_unanswerable_expand
  <2>4. CASE node' = "expand_schema" /\ ~didExpand
    BY <1>a, <2>1, <2>2, <2>4 DEF Progress
  <2>5. CASE node' = "resolve_empty_retry"
    BY <1>a, <2>1, <2>2, <2>5 DEF Progress
  <2>6. CASE node' = "END"
    BY <1>a, <2>1, <2>2, <2>6 DEF Progress
  <2>7. CASE node' = "validate_sql"
    BY <1>a, <2>1, <2>2, <2>7 DEF Progress
  <2>8. QED
    BY <2>3, <2>4, <2>5, <2>6, <2>7
<1>6. CASE ValidateSql
  BY <1>a, <1>6 DEF ValidateSql, Progress, RouteAfterValidate, needs_allowlist_expand
<1>7. CASE ExecuteSql
  BY <1>a, <1>7 DEF ExecuteSql, Progress, RouteAfterExecute
<1>8. CASE Summarize
  BY <1>a, <1>8 DEF Summarize, Progress, RouteAfterSummarize, needs_empty_result_retry
<1>9. CASE ExpandSchema
  <2>1. ExpandNoop \/ \E merged : ExpandTo(merged)
    BY <1>9 DEF ExpandSchema
  <2>2. CASE ExpandNoop
    BY <1>a, <1>9, <2>2 DEF ExpandSchema, ExpandNoop, Progress, RouteAfterExpand
  <2>3. CASE \E merged : ExpandTo(merged)
    BY <1>a, <1>9, <2>3 DEF ExpandSchema, ExpandTo, Progress, RouteAfterExpand
  <2>4. QED
    BY <2>1, <2>2, <2>3
<1>10. CASE PrepareEmptyRetry
  BY <1>a, <1>10 DEF PrepareEmptyRetry, Progress
<1>11. CASE ResolveEmptyRetry
  BY <1>a, <1>11 DEF ResolveEmptyRetry, Progress, NoSnapshot
<1>12. CASE FinalizeFailure
  BY <1>a, <1>12 DEF FinalizeFailure, Progress
<1>13. CASE NodeRaises
  BY <1>a, <1>13 DEF NodeRaises, Fallible, Progress
<1>14. CASE OutOfSteps
  <2>1. node \in GraphNodes
    BY <1>14 DEF OutOfSteps, TypeOK
  <2>2. steps <= 9 * MaxAttempts + 8 /\ calls <= 3 * MaxAttempts
    BY <2>1, BoundsHold DEF StepsBounded, CallsBounded
  <2>3. QED
    BY <1>a, <1>14, <2>2 DEF OutOfSteps, Progress
<1>15. CASE UNCHANGED vars
  BY <1>15 DEF vars, Progress
<1>16. QED
  BY <1>1, <1>2, <1>3, <1>4, <1>5, <1>6, <1>7, <1>8, <1>9, <1>10, <1>11, <1>12, <1>13,
     <1>14, <1>15 DEF Next

\* Type correctness and the inductive bounds hold from the start.
LEMMA InitTyped == Init => TypeOK /\ Progress
<1> SUFFICES ASSUME Init PROVE TypeOK /\ Progress
  OBVIOUS
<1>1. TypeOK
  <2>1. NoSnapshot \in Snapshots
    BY Literals, BoundsAssumption DEF NoSnapshot, Snapshots, Statuses, Scopes
  <2>2. catalog \subseteq Tables /\ linked \subseteq Tables \cup {Synthetic}
    BY DEF Init
  <2>3. /\ sql \in Sqls /\ sqlError \in Errors /\ rows \in RowSets
        /\ answer \in Answers /\ snapshot \in Snapshots
    BY <2>1, Literals DEF Init
  <2>4. attempts \in 0..(2 * MaxAttempts) /\ steps \in Nat /\ calls \in Nat
    BY BoundsAssumption DEF Init
  <2>5. /\ question \in [analytics : BOOLEAN, overview : BOOLEAN]
        /\ intent \in Intents /\ overview \in BOOLEAN /\ node \in GraphNodes \cup Ended
        /\ scope \in Scopes /\ status \in Statuses
        /\ didExpand \in BOOLEAN /\ didEmpty \in BOOLEAN /\ expandNoop \in BOOLEAN
    BY DEF Init, Intents, GraphNodes, Scopes, Statuses
  <2>6. QED
    BY <2>2, <2>3, <2>4, <2>5 DEF TypeOK
<1>2. Progress
  BY BoundsAssumption
     DEF Init, Progress, GraphNodes, Ended, ClosedCalls, ClosedSteps, Expanded, NoSnapshot
<1>3. QED
  BY <1>1, <1>2

\* In every reachable state each state key holds a value the nodes and the
\* routers can read (state.py, with the values of initial_chat_state and of
\* every node's patch).
THEOREM TypeCorrect == Spec => [](TypeOK /\ Progress)
<1>1. TypeOK /\ Progress /\ [Next]_vars => (TypeOK /\ Progress)'
  BY TypeStep, ProgressStep
<1>2. QED
  BY InitTyped, <1>1, PTL DEF Spec

\* The retry edges run at most 9 * MaxAttempts + 8 nodes for a question.
THEOREM StepBound == Spec => []StepsBounded
BY TypeCorrect, BoundsHold, PTL

\* The provider is asked for SQL at most 3 * MaxAttempts times for a question.
THEOREM CallBound == Spec => []CallsBounded
BY TypeCorrect, BoundsHold, PTL

\* A run is cut off only where the rounds it opened may cost more nodes than the
\* limit: the flags that let a round be opened once make this a bound at all.
THEOREM CutOffOnlyOverBudget == Spec => []CutOffOverBudget
<1>1. Init => CutOffOverBudget
  BY DEF Init, CutOffOverBudget, CutOff
<1>2. TypeOK /\ Progress /\ CutOffOverBudget /\ [Next]_vars => CutOffOverBudget'
  <2> SUFFICES ASSUME TypeOK, Progress, CutOffOverBudget, [Next]_vars
               PROVE  CutOffOverBudget'
    OBVIOUS
  <2>1. CASE OutOfSteps
    <3>1. node \in GraphNodes /\ steps >= RecursionLimit /\ UNCHANGED <<didExpand, expandNoop, didEmpty>>
      BY <2>1 DEF OutOfSteps, TypeOK, retry
    <3>2. steps < RoundsCost
      BY <3>1, BoundsAssumption DEF TypeOK, Progress, GraphNodes, Expanded, ClosedSteps, RoundsCost
    <3>3. RoundsCost' = RoundsCost /\ RoundsCost \in Nat /\ steps \in Nat
      BY <3>1, BoundsAssumption DEF RoundsCost, ClosedSteps, Expanded, TypeOK
    <3>4. QED
      BY <3>1, <3>2, <3>3, BoundsAssumption DEF CutOffOverBudget
  <2>2. CASE UNCHANGED vars
    BY <2>2 DEF vars, retry, CutOffOverBudget, CutOff, RoundsCost, ClosedSteps, Expanded
  <2>3. CASE Next /\ ~OutOfSteps
    <3>1. RouteIntent \/ LinkEntities \/ RetrieveAndLink \/ PrepareEmptyRetry
          \/ ResolveEmptyRetry \/ FinalizeFailure \/ NodeRaises => ~CutOff'
      BY DEF RouteIntent, LinkEntities, RetrieveAndLink, PrepareEmptyRetry,
             ResolveEmptyRetry, FinalizeFailure, NodeRaises, CutOff
    <3>2. AssessRelevance \/ ExecuteSql \/ Summarize => ~CutOff'
      BY DEF AssessRelevance, ExecuteSql, Summarize, RouteAfterRelevance,
             RouteAfterExecute, RouteAfterSummarize, CutOff
    <3>3. GenerateSql => ~CutOff'
      BY DEF GenerateSql, RouteAfterGenerate, CutOff
    <3>4. ValidateSql => ~CutOff'
      BY DEF ValidateSql, RouteAfterValidate, CutOff
    <3>5. ExpandSchema => ~CutOff'
      BY DEF ExpandSchema, RouteAfterExpand, CutOff
    <3>6. QED
      BY <2>3, <3>1, <3>2, <3>3, <3>4, <3>5 DEF Next, CutOffOverBudget
  <2>4. QED
    BY <2>1, <2>2, <2>3
<1>3. QED
  BY TypeCorrect, <1>1, <1>2, PTL DEF Spec

\* With the default three attempts and the default limit of 25 a run that opens one
\* extra round may be cut off; a limit of 9 * MaxAttempts + 8, which the graph would
\* have to be invoked with, lets its own edges end every run.
THEOREM LimitSuffices ==
    ASSUME RecursionLimit >= 9 * MaxAttempts + 8
    PROVE  Spec => []NeverOutOfSteps
<1>1. RoundsCost <= 9 * MaxAttempts + 8
  BY BoundsAssumption DEF RoundsCost, ClosedSteps
<1>2. RoundsCost \in Nat
  BY BoundsAssumption DEF RoundsCost, ClosedSteps
<1>3. CutOffOverBudget => NeverOutOfSteps
  BY <1>1, <1>2, BoundsAssumption DEF CutOffOverBudget, CutOff, NeverOutOfSteps
<1>4. QED
  BY CutOffOnlyOverBudget, <1>3, PTL

-----------------------------------------------------------------------------
(* What the run carries and returns                                        *)

\* A non-empty result is held only by the nodes that narrate or return it, and
\* each node hands on what the next one relies on.
LEMMA CustodyStep ==
    ASSUME TypeOK, Progress, Custody, [Next]_vars
    PROVE  Custody'
<1> USE DEF prep, verdict, query, retry, Run, GraphNodes, Refused
<1>1. CASE RouteIntent
  BY <1>1 DEF RouteIntent, Custody, Pending, ExecutesSelect, EvidenceConsistent,
              KeepsFirstResult
<1>2. CASE LinkEntities
  BY <1>2 DEF LinkEntities, Custody, Pending, ExecutesSelect, EvidenceConsistent,
              KeepsFirstResult
<1>3. CASE RetrieveAndLink
  BY <1>3 DEF RetrieveAndLink, Custody, Pending, ExecutesSelect, EvidenceConsistent,
              KeepsFirstResult
<1>4. CASE AssessRelevance
  BY <1>4 DEF AssessRelevance, RouteAfterRelevance, Refuse, Custody, Pending, Progress,
              ExecutesSelect, EvidenceConsistent, KeepsFirstResult
<1>5. CASE GenerateSql
  <2>1. /\ Pending /\ snapshot' = snapshot /\ didEmpty' = didEmpty /\ linked' = linked
        /\ snapshot.taken => Summarized(snapshot)
        /\ didEmpty => snapshot.taken
    BY <1>5 DEF GenerateSql, Custody
  <2>2. (snapshot.taken => Summarized(snapshot))'
    BY <2>1 DEF Summarized
  <2>3. CASE Refuse("out_of_scope", "planning_failed")
    <3>1. /\ Refusal' /\ rows' = NothingRun /\ answer' = Answer("planning_failed", NoSql)
          /\ scope' = "out_of_scope"
      BY <2>3 DEF Refuse, Refusal
    <3>2. answer' # NoAnswer
      BY <3>1 DEF Answer, NoAnswer
    <3>3. \/ node' = "expand_schema"
          \/ node' = "resolve_empty_retry" /\ snapshot'.taken
          \/ node' = "END" /\ ~snapshot'.taken
      BY <1>5, <3>1, <3>2 DEF GenerateSql, RouteAfterGenerate
    <3>4. rows'.size # "some"
      BY <3>1 DEF NothingRun, ResultOf
    <3>5. ExecutesSelect' /\ KeepsFirstResult'
      BY <2>1, <3>3 DEF ExecutesSelect, KeepsFirstResult
    <3>6. EvidenceConsistent'
      BY <3>1 DEF EvidenceConsistent, Refusal
    <3>7. QED
      BY <2>1, <2>2, <3>1, <3>3, <3>4, <3>5, <3>6 DEF Custody
  <2>4. CASE ~Refuse("out_of_scope", "planning_failed")
    <3>1. status' = "running" /\ UNCHANGED <<scope, rows, answer>>
      BY <1>5, <2>4 DEF GenerateSql
    <3>2. Pending' /\ node' = "validate_sql"
      BY <1>5, <2>1, <3>1 DEF GenerateSql, RouteAfterGenerate, Pending
    <3>3. ExecutesSelect' /\ KeepsFirstResult' /\ EvidenceConsistent'
      BY <3>2 DEF ExecutesSelect, KeepsFirstResult, EvidenceConsistent
    <3>4. QED
      BY <2>1, <2>2, <3>2, <3>3 DEF Custody
  <2>5. QED
    BY <2>3, <2>4
<1>6. CASE ValidateSql
  <2>1. /\ Pending /\ (snapshot.taken => Summarized(snapshot))
        /\ didEmpty => snapshot.taken
    BY <1>6 DEF ValidateSql, Custody
  <2>2. /\ sql' = sql /\ linked' = linked /\ scope' = scope /\ rows' = rows
        /\ answer' = answer /\ snapshot' = snapshot /\ didEmpty' = didEmpty
        /\ status' = "running"
    BY <1>6 DEF ValidateSql
  <2>3. Pending' /\ (snapshot.taken => Summarized(snapshot))'
    BY <2>1, <2>2 DEF Pending, Summarized
  <2>4. rows'.size # "some"
    BY <2>3 DEF Pending, NullRows, ResultOf
  <2>5. \/ node' = "execute_sql" /\ sqlError' = NoError
        \/ node' \in {"generate_sql", "expand_schema"}
        \/ node' = "resolve_empty_retry" /\ snapshot'.taken
        \/ node' = "finalize_failure" /\ ~snapshot'.taken
    BY <1>6 DEF ValidateSql, RouteAfterValidate
  <2>6. NoError \notin Violations(sql)
    BY DEF Violations, NoError, OtherError, AllowlistMiss
  <2>7. node' = "execute_sql" => Acceptable(sql)
    BY <1>6, <2>5, <2>6 DEF ValidateSql
  <2>8. ExecutesSelect'
    BY <2>2, <2>7 DEF ExecutesSelect, Acceptable
  <2>9. KeepsFirstResult' /\ EvidenceConsistent'
    BY <2>5 DEF KeepsFirstResult, EvidenceConsistent
  <2>10. QED
    BY <2>1, <2>2, <2>3, <2>4, <2>5, <2>8, <2>9 DEF Custody
<1>7. CASE ExecuteSql
  <2>1. /\ Pending /\ (snapshot.taken => Summarized(snapshot))
        /\ didEmpty => snapshot.taken
        /\ sql.kind = "select"
    BY <1>7 DEF ExecuteSql, Custody, ExecutesSelect, Acceptable
  <2>2. /\ sql' = sql /\ scope' = scope /\ answer' = answer
        /\ snapshot' = snapshot /\ didEmpty' = didEmpty
        /\ status' = "running"
    BY <1>7 DEF ExecuteSql
  <2>3. (snapshot.taken => Summarized(snapshot))'
    BY <2>1, <2>2 DEF Summarized
  <2>4. \/ node' = "summarize" /\ sqlError' = NoError
        \/ node' = "generate_sql" /\ sqlError' # NoError
        \/ node' = "resolve_empty_retry" /\ snapshot'.taken /\ sqlError' # NoError
        \/ node' = "finalize_failure" /\ ~snapshot'.taken /\ sqlError' # NoError
    BY <1>7 DEF ExecuteSql, RouteAfterExecute
  <2>5. OtherError # NoError
    BY DEF OtherError, NoError
  <2>6. ExecutesSelect' /\ KeepsFirstResult' /\ EvidenceConsistent'
    BY <2>4 DEF ExecutesSelect, KeepsFirstResult, EvidenceConsistent
  <2>7. CASE sqlError' = NoError
    <3>1. rows' \in {ResultOf(sql, "some"), ResultOf(sql, "empty")}
      BY <1>7, <2>5, <2>7 DEF ExecuteSql
    <3>2. node' = "summarize" /\ scope' = "answerable" /\ answer' = NoAnswer
      BY <2>1, <2>2, <2>4, <2>7 DEF Pending
    <3>3. QED
      BY <2>1, <2>2, <2>3, <2>6, <3>1, <3>2 DEF Custody
  <2>8. CASE sqlError' # NoError
    <3>1. rows' = NullRows
      BY <1>7, <2>8 DEF ExecuteSql
    <3>2. Pending' /\ rows'.size # "some"
      BY <2>1, <2>2, <3>1 DEF Pending, NullRows, ResultOf
    <3>3. QED
      BY <2>1, <2>2, <2>3, <2>4, <2>6, <2>8, <3>2 DEF Custody
  <2>9. QED
    BY <2>7, <2>8
<1>8. CASE Summarize
  <2>1. /\ scope = "answerable" /\ sql.kind = "select"
        /\ rows \in {ResultOf(sql, "some"), ResultOf(sql, "empty")}
        /\ snapshot.taken => Summarized(snapshot)
        /\ didEmpty => snapshot.taken
    BY <1>8 DEF Summarize, Custody
  <2>2. /\ UNCHANGED <<sql, rows, scope, snapshot, didEmpty>> /\ status' = "ok"
        /\ answer' = Answer(IF rows.size = "some" THEN "summary" ELSE "empty", sql)
    BY <1>8 DEF Summarize
  <2>3. (snapshot.taken => Summarized(snapshot))'
    BY <2>1, <2>2 DEF Summarized
  <2>4. \/ rows' = ResultOf(sql', "some") /\ answer' = Answer("summary", sql')
        \/ rows' = ResultOf(sql', "empty") /\ answer' = Answer("empty", sql')
    BY <2>1, <2>2 DEF ResultOf
  <2>5. \/ node' = "prepare_empty_retry" /\ rows'.size = "empty"
        \/ node' = "resolve_empty_retry" /\ snapshot'.taken
        \/ node' = "END" /\ ~snapshot'.taken
    BY <1>8 DEF Summarize, RouteAfterSummarize, needs_empty_result_retry
  <2>6. ExecutesSelect' /\ KeepsFirstResult'
    BY <2>1, <2>2, <2>5 DEF ExecutesSelect, KeepsFirstResult
  <2>7. EvidenceConsistent'
    BY <2>1, <2>2, <2>4 DEF EvidenceConsistent
  <2>8. node' = "prepare_empty_retry" =>
          Summarized([status |-> status, scope |-> scope, sql |-> sql,
                      rows |-> rows, answer |-> answer])'
    BY <2>1, <2>2, <2>4, <2>5 DEF Summarized, ResultOf
  <2>9. node' = "resolve_empty_retry" /\ rows'.size = "some" =>
          rows' = ResultOf(sql', "some") /\ answer' = Answer("summary", sql')
    BY <2>4 DEF ResultOf
  <2>10. QED
    BY <2>1, <2>2, <2>3, <2>5, <2>6, <2>7, <2>8, <2>9 DEF Custody
<1>9. CASE ExpandSchema
  <2>1. /\ Refusal \/ Pending
        /\ snapshot.taken => Summarized(snapshot)
        /\ didEmpty => snapshot.taken
        /\ UNCHANGED <<snapshot, didEmpty>>
    BY <1>9 DEF ExpandSchema, Custody
  <2>2. (snapshot.taken => Summarized(snapshot))'
    BY <2>1 DEF Summarized
  <2>3. ExpandNoop \/ \E merged : ExpandTo(merged)
    BY <1>9 DEF ExpandSchema
  <2>4. CASE ExpandNoop
    <3>1. UNCHANGED <<scope, status, sql, rows, answer>> /\ expandNoop' = TRUE
      BY <2>4 DEF ExpandNoop
    <3>2. Refusal => answer # NoAnswer
      BY DEF Refusal, Answer, NoAnswer
    <3>3. \/ node' = "END" /\ Refusal'
          \/ node' = "finalize_failure" /\ Pending'
      BY <1>9, <2>1, <3>1, <3>2
         DEF ExpandSchema, RouteAfterExpand, Refusal, Pending
    <3>4. ExecutesSelect' /\ KeepsFirstResult'
      BY <3>1, <3>3 DEF ExecutesSelect, KeepsFirstResult
    <3>5. EvidenceConsistent'
      BY <3>3 DEF EvidenceConsistent, Refusal
    <3>6. QED
      BY <2>1, <2>2, <3>1, <3>3, <3>4, <3>5 DEF Custody
  <2>5. CASE \E merged : ExpandTo(merged)
    <3>1. Pending' /\ node' = "generate_sql"
      BY <1>9, <2>5 DEF ExpandTo, Pending, ExpandSchema, RouteAfterExpand
    <3>2. ExecutesSelect' /\ KeepsFirstResult' /\ EvidenceConsistent'
      BY <3>1 DEF ExecutesSelect, KeepsFirstResult, EvidenceConsistent
    <3>3. QED
      BY <2>1, <2>2, <3>1, <3>2 DEF Custody
  <2>6. QED
    BY <2>3, <2>4, <2>5
<1>10. CASE PrepareEmptyRetry
  BY <1>10 DEF PrepareEmptyRetry, Custody, Pending, Summarized,
              ExecutesSelect, EvidenceConsistent, KeepsFirstResult
<1>11. CASE ResolveEmptyRetry
  BY <1>11 DEF ResolveEmptyRetry, Custody, empty_retry_improves, Summarized, NoSnapshot,
              ExecutesSelect, EvidenceConsistent, KeepsFirstResult, ResultOf
<1>12. CASE FinalizeFailure
  BY <1>12 DEF FinalizeFailure, Custody, Pending,
              ExecutesSelect, EvidenceConsistent, KeepsFirstResult
<1>13. CASE NodeRaises
  BY <1>13 DEF NodeRaises, Custody, Summarized,
              ExecutesSelect, EvidenceConsistent, KeepsFirstResult
<1>14. CASE OutOfSteps
  BY <1>14 DEF OutOfSteps, Custody, Summarized,
              ExecutesSelect, EvidenceConsistent, KeepsFirstResult
<1>15. CASE UNCHANGED vars
  BY <1>15 DEF vars, Custody, Pending, Refusal, Summarized, Acceptable, TablesChecked,
               AllowedTables, Real, ExecutesSelect, EvidenceConsistent, KeepsFirstResult
<1>16. QED
  BY <1>1, <1>2, <1>3, <1>4, <1>5, <1>6, <1>7, <1>8, <1>9, <1>10, <1>11, <1>12, <1>13,
     <1>14, <1>15 DEF Next

\* The custody of question, SQL, rows and answer holds in every reachable state.
THEOREM CustodyKept == Spec => []Custody
<1>1. Init => Custody
  BY DEF Init, Custody, GraphNodes, Pending, NoSnapshot, ExecutesSelect,
         EvidenceConsistent, KeepsFirstResult, NullRows, ResultOf
<1>2. TypeOK /\ Progress /\ Custody /\ [Next]_vars => Custody'
  BY CustodyStep
<1>3. QED
  BY TypeCorrect, <1>1, <1>2, PTL DEF Spec

\* The answer, SQL and rows that ChatService persists and returns belong together.
THEOREM ConsistentEvidence == Spec => []EvidenceConsistent
<1>1. Custody => EvidenceConsistent
  BY DEF Custody
<1>2. QED
  BY CustodyKept, <1>1, PTL

\* resolve_empty_retry_node restores the first result unless the rewrite is
\* better, on every way the rewrite round can end except expanding in vain.
THEOREM FirstResultKept == Spec => []KeepsFirstResult
<1>1. Custody => KeepsFirstResult
  BY DEF Custody
<1>2. QED
  BY CustodyKept, <1>1, PTL

\* No node and no later round takes a non-empty result away again.
THEOREM NonEmptyKept == Spec => NonEmptyResultKept
<1>1. ASSUME Custody, [Next]_vars, rows.size = "some"
      PROVE  rows' = rows
  <2> USE DEF prep, verdict, query, retry, Run, GraphNodes
  <2>1. ~Pending /\ ~Refusal
    BY <1>1 DEF Pending, Refusal, NullRows, NothingRun, ResultOf
  <2>2. node \notin GraphNodes \ {"summarize", "resolve_empty_retry"}
    BY <1>1, <2>1 DEF Custody, Summarized, ResultOf
  <2>3. CASE node = "summarize"
    BY <1>1, <2>3
       DEF Next, vars, RouteIntent, LinkEntities, RetrieveAndLink, AssessRelevance,
           GenerateSql, ValidateSql, ExecuteSql, Summarize, ExpandSchema,
           PrepareEmptyRetry, ResolveEmptyRetry, FinalizeFailure, NodeRaises, OutOfSteps
  <2>4. CASE node = "resolve_empty_retry"
    <3>1. empty_retry_improves
      BY <1>1, <2>4 DEF Custody, empty_retry_improves, Refused
    <3>2. QED
      BY <1>1, <2>4, <3>1
         DEF Next, vars, RouteIntent, LinkEntities, RetrieveAndLink, AssessRelevance,
             GenerateSql, ValidateSql, ExecuteSql, Summarize, ExpandSchema,
             PrepareEmptyRetry, ResolveEmptyRetry, FinalizeFailure, NodeRaises, OutOfSteps
  <2>5. CASE node \notin GraphNodes
    BY <1>1, <2>5
       DEF Next, vars, RouteIntent, LinkEntities, RetrieveAndLink, AssessRelevance,
           GenerateSql, ValidateSql, ExecuteSql, Summarize, ExpandSchema,
           PrepareEmptyRetry, ResolveEmptyRetry, FinalizeFailure, NodeRaises, OutOfSteps,
           Fallible
  <2>6. QED
    BY <2>2, <2>3, <2>4, <2>5
<1>2. QED
  BY CustodyKept, <1>1, PTL DEF Spec, NonEmptyResultKept

-----------------------------------------------------------------------------
(* The retry policy                                                        *)

\* Every node is a step of RetryBudget, or does not touch the budget.
LEMMA BudgetStep ==
    ASSUME TypeOK, Progress, Custody, [Next]_vars
    PROVE  [Budget!Next]_Budget!vars
<1> USE BoundsAssumption DEF prep, verdict, query, retry, Run, GraphNodes, Ended,
        Budget!Next, Budget!vars
<1>a. /\ attempts \in Nat /\ calls \in Nat /\ MaxAttempts \in Nat
      /\ didExpand \in BOOLEAN /\ didEmpty \in BOOLEAN
      /\ snapshot.taken \in BOOLEAN /\ snapshot.attempts \in 0..MaxAttempts
  BY DEF TypeOK, Snapshots
<1>b. node \in GraphNodes => attempts <= calls
  BY DEF Progress
<1>1. CASE RouteIntent \/ LinkEntities \/ RetrieveAndLink
  BY <1>1 DEF RouteIntent, LinkEntities, RetrieveAndLink
<1>2. CASE AssessRelevance \/ ExecuteSql \/ Summarize
  BY <1>2, <1>a, <1>b, Routes DEF AssessRelevance, ExecuteSql, Summarize, Budget!Finish,
     RouteAfterRelevance, RouteAfterExecute, RouteAfterSummarize
<1>3. CASE GenerateSql
  BY <1>3 DEF GenerateSql, Progress, Budget!Generate
<1>4. CASE ValidateSql
  BY <1>4 DEF ValidateSql, RouteAfterValidate
<1>5. CASE ExpandSchema
  BY <1>5, <1>a DEF ExpandSchema, Progress, ExpandNoop, ExpandTo, Budget!ExpandInVain,
     Budget!RoundAfterExpand, RouteAfterExpand
<1>6. CASE PrepareEmptyRetry
  <2>1. /\ node = "prepare_empty_retry" /\ node' = "generate_sql"
        /\ attempts' = 0 /\ calls' = calls /\ didEmpty' = TRUE /\ didExpand' = didExpand
    BY <1>6 DEF PrepareEmptyRetry
  <2>2. ~didEmpty /\ attempts > 0
    BY <2>1, <1>a DEF Progress
  <2>3. node \notin Ended /\ (node' \in Ended) = (node \in Ended)
    BY <2>1
  <2>4. QED
    BY <2>1, <2>2, <2>3 DEF Budget!RoundAfterEmptyResult
<1>7. CASE ResolveEmptyRetry
  <2>1. snapshot.taken
    BY <1>7 DEF ResolveEmptyRetry, Custody
  <2>2. snapshot.attempts + attempts \in attempts..calls
    BY <1>7, <1>a, <2>1 DEF ResolveEmptyRetry, Progress
  <2>3. QED
    BY <1>7, <2>2 DEF ResolveEmptyRetry, Budget!Finish
<1>8. CASE FinalizeFailure
  BY <1>8, <1>a, <1>b DEF FinalizeFailure, Budget!Finish
<1>9. CASE NodeRaises
  BY <1>9, <1>a, <1>b DEF NodeRaises, Fallible, Progress, Budget!Finish, Budget!GenerateFails
<1>10. CASE OutOfSteps
  BY <1>10, <1>a, <1>b DEF OutOfSteps, TypeOK, Budget!Finish
<1>11. CASE UNCHANGED vars
  BY <1>11 DEF vars
<1>12. QED
  BY <1>1, <1>2, <1>3, <1>4, <1>5, <1>6, <1>7, <1>8, <1>9, <1>10, <1>11 DEF Next

\* The graph with its routers and its retry flags implements RetryBudget: one
\* round, one more for deeper linking, one more for an empty result.
THEOREM BudgetImplemented == Spec => ImplementsBudget
<1>1. Init => Budget!Init
  BY DEF Init, Budget!Init, Ended
<1>2. TypeOK /\ Progress /\ Custody /\ [Next]_vars => [Budget!Next]_Budget!vars
  BY BudgetStep
<1>3. QED
  BY TypeCorrect, CustodyKept, <1>1, <1>2, PTL DEF Spec, ImplementsBudget, Budget!Spec
=============================================================================
