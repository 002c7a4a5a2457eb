------------------------------ MODULE ChatGraph ------------------------------
(***************************************************************************)
(* The analytics agent of backend/app/graph: one LangGraph run that        *)
(* answers one question.  Every node of the compiled graph is an action;   *)
(* the conditional edges are the RouteAfter... operators, evaluated on the *)
(* state the node's patch produced, as LangGraph does.                     *)
(*                                                                         *)
(* Data is abstracted to what the routing and the result tell apart: a SQL *)
(* text is the set of tables it names, a result set is empty or not and    *)
(* remembers the query that returned it, an answer remembers the query it  *)
(* narrates.  What the language model, the embedding index and the         *)
(* warehouse reply is a nondeterministic choice.                           *)
(***************************************************************************)
EXTENDS Naturals, FiniteSets

CONSTANTS
    Tables,          \* the tables of the connected warehouse
    Invented,        \* a name in generated SQL that is no table (e.g. a CTE alias)
    Synthetic,       \* the overview chunk the index holds beside the tables
    MaxTables,       \* settings.rag_max_tables
    MaxAttempts,     \* max_attempts of the run, settings.sql_max_attempts
    RecursionLimit,  \* LangGraph's bound on node executions (25 by default)
    ExpandOnRetry,   \* settings.rag_expand_on_retry
    SchemaScoped     \* the data source names a schema

ASSUME BoundsAssumption ==
    /\ MaxAttempts \in Nat \ {0}
    /\ MaxTables \in Nat \ {0}
    /\ RecursionLimit \in Nat
ASSUME FlagsAssumption == ExpandOnRetry \in BOOLEAN /\ SchemaScoped \in BOOLEAN
ASSUME NamesAssumption ==
    Invented \notin Tables /\ Synthetic \notin Tables \cup {Invented}

VARIABLES
    question,    \* what the regexes say of the question: [analytics, overview]
    catalog,     \* tables indexed when the run was bootstrapped
    intent, overview,                                   \* IntentRouter's verdict
    node,        \* the node to run next, or how the run ended
    scope, status, sql, sqlError, rows, answer, attempts,
    linked,      \* linked_chunks, as a set of table names
    didExpand, didEmpty, expandNoop,
    snapshot,    \* pre_empty_retry_snapshot
    steps,       \* node executions so far (LangGraph's step counter)
    calls        \* SQL generations so far (history variable, not in the code)

prep == <<question, catalog, intent, overview>>
verdict == <<scope, status>>
query == <<sql, sqlError, rows>>
retry == <<didExpand, didEmpty, expandNoop, snapshot>>
vars == <<prep, node, verdict, query, answer, attempts, linked, retry, steps, calls>>

-----------------------------------------------------------------------------
SqlNames == Tables \cup {Invented}

Queries == [kind : {"select"}, tables : SUBSET SqlNames]
NoSql == [kind |-> "none", tables |-> {}]
BadSql == [kind |-> "bad", tables |-> {}]     \* empty, unparsable or not a SELECT
Sqls == Queries \cup {NoSql, BadSql}

\* missing: what parse_allowlist_miss_tables reads from the message
NoError == [kind |-> "none", missing |-> {}]
OtherError == [kind |-> "other", missing |-> {}]
EmptyResultHint == [kind |-> "hint", missing |-> {}]
AllowlistMiss(t) == [kind |-> "miss", missing |-> {t}]
Errors == {NoError, OtherError, EmptyResultHint} \cup {AllowlistMiss(t) : t \in SqlNames}

ResultOf(q, size) == [size |-> size, of |-> q]
NullRows == ResultOf(NoSql, "null")           \* rows is None
NothingRun == ResultOf(NoSql, "empty")        \* the literal [] of a refusal
RowSets == [size : {"null", "empty", "some"}, of : Sqls]

Answer(k, q) == [kind |-> k, of |-> q]
NoAnswer == Answer("null", NoSql)
AnswerKinds == {"null", "refusal", "clarify", "planning_failed", "empty", "summary", "failure"}
Answers == [kind : AnswerKinds, of : Sqls]

Intents == {"analytics", "follow_up", "catalog_overview", "clarify", "out_of_scope"}
Scopes == {"answerable", "out_of_scope", "needs_clarification"}
Statuses == {"running", "ok", "failed"}
Refused == {"out_of_scope", "needs_clarification"}

GraphNodes == {"route_intent", "link_entities", "retrieve_and_link", "assess_relevance",
               "generate_sql", "validate_sql", "execute_sql", "summarize", "expand_schema",
               "prepare_empty_retry", "resolve_empty_retry", "finalize_failure"}
\* END; an exception left a node; GraphRecursionError
Ended == {"END", "raised", "out_of_steps"}

NoSnapshot == [taken |-> FALSE, answer |-> NoAnswer, sql |-> NoSql, rows |-> NullRows,
               status |-> "running", scope |-> "answerable", attempts |-> 0,
               sqlError |-> NoError]
Snapshots == [taken : BOOLEAN, answer : Answers, sql : Sqls, rows : RowSets,
              status : Statuses, scope : Scopes, attempts : 0..MaxAttempts,
              sqlError : Errors]

-----------------------------------------------------------------------------
(* Schema chunks, as sets of table names                                   *)

Real(chunks) == chunks \ {Synthetic}
AllowedTables == Real(linked)                 \* allowed_tables is always derived so

\* the first MaxTables of a list whose order the model does not keep
Capped(S) ==
    {T \in SUBSET S : Cardinality(T) = (IF Cardinality(S) < MaxTables
                                        THEN Cardinality(S) ELSE MaxTables)}

\* SchemaLinker.merge_chunks: existing tables first, capped on real tables
Merged(existing, extra) ==
    LET overviewChunks == (existing \cup extra) \cap {Synthetic}
        old == Real(existing)
        new == Real(extra) \ old
    IN  IF Cardinality(old) >= MaxTables
        THEN {overviewChunks \cup T : T \in Capped(old)}
        ELSE {overviewChunks \cup old \cup T :
                T \in {N \in SUBSET new :
                         Cardinality(N) = (IF Cardinality(old \cup new) < MaxTables
                                           THEN Cardinality(new)
                                           ELSE MaxTables - Cardinality(old))}}

-----------------------------------------------------------------------------
(* The conditional edges: nodes.py and retry_policy.py                     *)
(*                                                                         *)
(* A definition named ..._M... is a plausible slip in the definition that  *)
(* follows it, by which the properties are tested; nothing else uses it.   *)

needs_allowlist_expand == ExpandOnRetry /\ ~didExpand /\ sqlError.missing # {}

needs_unanswerable_expand_Mrepeats ==
    ExpandOnRetry /\ scope = "out_of_scope" /\ linked # {} /\ question.analytics

\* attempts > 0 holds wherever this is asked, so context_mode never matters
needs_unanswerable_expand ==
    /\ ExpandOnRetry /\ ~didExpand
    /\ scope = "out_of_scope"
    /\ linked # {}
    /\ question.analytics
    /\ attempts > 0

needs_empty_result_retry_Mrepeats ==
    /\ status = "ok"
    /\ scope \notin Refused
    /\ sql.kind = "select"
    /\ rows.size = "empty"
    /\ question.analytics

needs_empty_result_retry ==
    /\ ~didEmpty
    /\ status = "ok"
    /\ scope \notin Refused
    /\ sql.kind = "select"
    /\ rows.size = "empty"
    /\ question.analytics

RouteAfterRelevance == IF scope \in Refused THEN "END" ELSE "generate_sql"

RouteAfterGenerate ==
    IF scope = "out_of_scope" /\ answer # NoAnswer
    THEN IF needs_unanswerable_expand THEN "expand_schema"
         ELSE IF snapshot.taken THEN "resolve_empty_retry" ELSE "END"
    ELSE "validate_sql"

RouteAfterValidate ==
    IF sqlError = NoError THEN "execute_sql"
    ELSE IF attempts < MaxAttempts THEN "generate_sql"
    ELSE IF needs_allowlist_expand THEN "expand_schema"
    ELSE IF snapshot.taken THEN "resolve_empty_retry" ELSE "finalize_failure"

RouteAfterExecute_Mforgets_snapshot ==
    IF sqlError = NoError THEN "summarize"
    ELSE IF attempts < MaxAttempts THEN "generate_sql" ELSE "finalize_failure"

RouteAfterExecute ==
    IF sqlError = NoError THEN "summarize"
    ELSE IF attempts < MaxAttempts THEN "generate_sql"
    ELSE IF snapshot.taken THEN "resolve_empty_retry" ELSE "finalize_failure"

RouteAfterSummarize ==
    IF needs_empty_result_retry THEN "prepare_empty_retry"
    ELSE IF snapshot.taken THEN "resolve_empty_retry" ELSE "END"

RouteAfterExpand ==
    IF expandNoop
    THEN IF answer # NoAnswer THEN "END" ELSE "finalize_failure"
    ELSE "generate_sql"

-----------------------------------------------------------------------------
\* initial_chat_state, after ChatService._bootstrap loaded the catalog.
Init ==
    /\ question \in [analytics : BOOLEAN, overview : BOOLEAN]
    /\ catalog \in {{}, Tables}
    /\ intent = "analytics" /\ overview = FALSE
    /\ node = "route_intent"
    /\ scope = "answerable" /\ status = "running"
    /\ sql = NoSql /\ sqlError = NoError /\ rows = NullRows
    /\ answer = NoAnswer /\ attempts = 0
    /\ linked = {}
    /\ didExpand = FALSE /\ didEmpty = FALSE /\ expandNoop = FALSE
    /\ snapshot = NoSnapshot
    /\ steps = 0 /\ calls = 0

\* LangGraph runs node n while its step counter allows.
Run(n) == node = n /\ steps < RecursionLimit /\ steps' = steps + 1

\* IntentRouter never raises: a provider error becomes the regex fallback.
RouteIntent ==
    /\ Run("route_intent")
    /\ intent' \in Intents
    /\ \E fallback \in BOOLEAN :
         overview' = (intent' = "catalog_overview" \/ (fallback /\ question.overview))
    /\ node' = "link_entities"
    /\ UNCHANGED <<question, catalog, verdict, query, answer, attempts, linked, retry, calls>>

\* EntityLinker only adds forced tables; RetrieveAndLink draws those freely.
LinkEntities ==
    /\ Run("link_entities")
    /\ node' = "retrieve_and_link"
    /\ UNCHANGED <<prep, verdict, query, answer, attempts, linked, retry, calls>>

\* load_catalog and retrieve_rows are two statements: the index may be built or
\* replaced in between, so any seeds are possible whatever the catalog.
Chunks == Tables \cup {Synthetic}
Aside == intent \in {"clarify", "out_of_scope"}
Introspected ==                      \* chunk_tables lists overview chunks last
    IF overview \/ Cardinality(Tables) < MaxTables THEN {Chunks} ELSE Capped(Tables)

\* What retrieval, linking and the two fallbacks can leave in linked_chunks; only
\* names of tables (_name_only_chunks) for an overview, a refusal or a clarification.
Retrieved ==
    IF overview /\ catalog # {} THEN {catalog}
    ELSE {IF Aside THEN Real(found) ELSE found : found \in (SUBSET Chunks) \ {{}}}
         \cup {IF overview \/ Aside THEN Real(live) ELSE live : live \in Introspected}
         \cup IF Aside /\ catalog # {} THEN {Real(some) : some \in Capped(Chunks)}
              ELSE {{}}                                \* introspection failed

RetrieveAndLink ==
    /\ Run("retrieve_and_link")
    /\ linked' \in Retrieved
    /\ node' = "assess_relevance"
    /\ UNCHANGED <<prep, verdict, query, answer, attempts, retry, calls>>

Refuse_Mkeeps_sql(s, k) ==
    /\ scope' = s /\ status' = "ok" /\ answer' = Answer(k, NoSql)
    /\ sqlError' = NoError /\ rows' = NothingRun /\ UNCHANGED sql

Refuse(s, k) ==
    /\ scope' = s /\ status' = "ok" /\ answer' = Answer(k, NoSql)
    /\ sql' = NoSql /\ sqlError' = NoError /\ rows' = NothingRun

\* A confident router verdict is trusted; otherwise heuristics and the model
\* decide, so any verdict is possible.
AssessRelevance ==
    /\ Run("assess_relevance")
    /\ \/ Refuse("out_of_scope", "refusal")
       \/ Refuse("needs_clarification", "clarify")
       \/ scope' = "answerable" /\ status' = "running" /\ UNCHANGED <<query, answer>>
    /\ UNCHANGED <<prep, attempts, linked, retry, calls>>
    /\ node' = RouteAfterRelevance'

\* SqlGenerator.generate answers with SQL or with the marker UNANSWERABLE.
GenerateSql ==
    /\ Run("generate_sql")
    /\ attempts' = attempts + 1 /\ calls' = calls + 1
    /\ \/ Refuse("out_of_scope", "planning_failed")
       \/ /\ sql' \in Queries \cup {BadSql}
          /\ sqlError' = NoError /\ status' = "running"
          /\ UNCHANGED <<scope, rows, answer>>
    /\ UNCHANGED <<prep, linked, retry>>
    /\ node' = RouteAfterGenerate'

\* SqlValidator.validate skips the table check when the data source names no
\* schema and the allowlist is empty; a table in another schema is an error
\* of its own, possible for any query of a scoped source.
TablesChecked == SchemaScoped \/ AllowedTables # {}
Violations(q) ==
    IF q.kind # "select" THEN {OtherError}
    ELSE IF ~TablesChecked THEN {}
    ELSE {AllowlistMiss(t) : t \in q.tables \ AllowedTables}
         \cup (IF SchemaScoped /\ q.tables # {} THEN {OtherError} ELSE {})
Acceptable(q) == q.kind = "select" /\ (TablesChecked => q.tables \subseteq AllowedTables)

ValidateSql ==
    /\ Run("validate_sql")
    /\ \/ Acceptable(sql) /\ sqlError' = NoError
       \/ sqlError' \in Violations(sql)
    /\ status' = "running"
    /\ UNCHANGED <<prep, scope, sql, rows, answer, attempts, linked, retry, calls>>
    /\ node' = RouteAfterValidate'

\* WarehouseExecutor.execute maps every failure to WarehouseQueryError.
ExecuteSql ==
    /\ Run("execute_sql")
    /\ \/ \E size \in {"empty", "some"} :
            rows' = ResultOf(sql, size) /\ sqlError' = NoError
       \/ rows' = NullRows /\ sqlError' = OtherError
    /\ status' = "running"
    /\ UNCHANGED <<prep, scope, sql, answer, attempts, linked, retry, calls>>
    /\ node' = RouteAfterExecute'

Summarize ==
    /\ Run("summarize")
    /\ answer' = Answer(IF rows.size = "some" THEN "summary" ELSE "empty", sql)
    /\ status' = "ok"
    /\ UNCHANGED <<prep, scope, query, attempts, linked, retry, calls>>
    /\ node' = RouteAfterSummarize'

-----------------------------------------------------------------------------
\* An empty catalog is loaded again: the index may have been built meanwhile.
Reloaded == IF catalog = {} THEN {{}, Tables} ELSE {catalog}

\* The chunks deeper linking proposes, before the merge with the linked ones.
\* An overview question proposes the whole index; otherwise the linked chunks,
\* those fetched for the missing table, and what names and FK edges lead to.
Proposed(index) ==
    LET seeds == linked \cup (sqlError.missing \cap index)
        more == IF Real(seeds) = {} /\ scope # "out_of_scope" THEN {} ELSE index
    IN  IF scope = "out_of_scope" /\ question.overview
        THEN {index \cup {Synthetic}}
        ELSE {seeds \cup found : found \in SUBSET more}

ExpandNoop ==
    /\ expandNoop' = TRUE /\ didExpand' = TRUE
    /\ UNCHANGED <<verdict, query, answer, attempts, linked>>

ExpandTo(merged) ==
    /\ linked' = merged
    /\ didExpand' = TRUE /\ expandNoop' = FALSE
    /\ sql' = NoSql /\ sqlError' = NoError /\ rows' = NullRows
    /\ answer' = NoAnswer /\ attempts' = 0
    /\ scope' = "answerable" /\ status' = "running"

ExpandSchema ==
    /\ Run("expand_schema")
    /\ \E index \in Reloaded :
         \/ index = {} /\ ExpandNoop
         \/ /\ index # {}
            /\ \E proposed \in Proposed(index) : \E merged \in Merged(linked, proposed) :
                 IF merged \subseteq linked THEN ExpandNoop ELSE ExpandTo(merged)
    /\ UNCHANGED <<prep, didEmpty, snapshot, calls>>
    /\ node' = RouteAfterExpand'

PrepareEmptyRetry ==
    /\ Run("prepare_empty_retry")
    /\ snapshot' = [taken |-> TRUE, answer |-> answer, sql |-> sql, rows |-> rows,
                    status |-> status, scope |-> scope, attempts |-> attempts,
                    sqlError |-> sqlError]
    /\ sqlError' = EmptyResultHint /\ rows' = NullRows /\ answer' = NoAnswer
    /\ attempts' = 0
    /\ scope' = "answerable" /\ status' = "running"
    /\ didEmpty' = TRUE
    /\ node' = "generate_sql"
    /\ UNCHANGED <<prep, sql, linked, didExpand, expandNoop, calls>>

empty_retry_improves == status = "ok" /\ scope \notin Refused /\ rows.size = "some"

ResolveEmptyRetry ==
    /\ Run("resolve_empty_retry")
    /\ snapshot' = NoSnapshot
    /\ attempts' = snapshot.attempts + attempts
    /\ IF empty_retry_improves
       THEN UNCHANGED <<verdict, query, answer>>
       ELSE /\ answer' = snapshot.answer /\ sql' = snapshot.sql /\ rows' = snapshot.rows
            /\ status' = snapshot.status /\ scope' = snapshot.scope
            /\ sqlError' = snapshot.sqlError
    /\ node' = "END"
    /\ UNCHANGED <<prep, linked, didExpand, didEmpty, expandNoop, calls>>

FinalizeFailure ==
    /\ Run("finalize_failure")
    /\ answer' = Answer("failure", sql) /\ status' = "failed"
    /\ node' = "END"
    /\ UNCHANGED <<prep, scope, query, attempts, linked, retry, calls>>

-----------------------------------------------------------------------------
\* The nodes that call the AI provider, or the app database, without a handler.
Fallible == {"retrieve_and_link", "assess_relevance", "generate_sql", "summarize",
             "expand_schema"}

NodeRaises ==
    /\ node \in Fallible
    /\ Run(node)
    /\ node' = "raised"
    /\ calls' = IF node = "generate_sql" THEN calls + 1 ELSE calls
    /\ UNCHANGED <<prep, verdict, query, answer, attempts, linked, retry>>

\* LangGraph raises GraphRecursionError instead of running one more node.
OutOfSteps ==
    /\ node \notin Ended /\ steps >= RecursionLimit
    /\ node' = "out_of_steps"
    /\ UNCHANGED <<prep, verdict, query, answer, attempts, linked, retry, steps, calls>>

Next ==
    \/ RouteIntent \/ LinkEntities \/ RetrieveAndLink \/ AssessRelevance
    \/ GenerateSql \/ ValidateSql \/ ExecuteSql \/ Summarize
    \/ ExpandSchema \/ PrepareEmptyRetry \/ ResolveEmptyRetry \/ FinalizeFailure
    \/ NodeRaises \/ OutOfSteps

\* The event loop keeps driving the graph and every call a node makes is bounded
\* by a timeout, so a run never stops between two nodes.
Spec == Init /\ [][Next]_vars
FairSpec == Spec /\ WF_vars(Next)

-----------------------------------------------------------------------------
(* Correctness                                                             *)

\* Every state key holds a value the nodes and routers know how to read.
TypeOK ==
    /\ question \in [analytics : BOOLEAN, overview : BOOLEAN]
    /\ catalog \subseteq Tables
    /\ intent \in Intents /\ overview \in BOOLEAN
    /\ node \in GraphNodes \cup Ended
    /\ scope \in Scopes /\ status \in Statuses
    /\ sql \in Sqls /\ sqlError \in Errors /\ rows \in RowSets
    /\ answer \in Answers
    /\ attempts \in 0..(2 * MaxAttempts)
    /\ linked \subseteq Tables \cup {Synthetic}
    /\ didExpand \in BOOLEAN /\ didEmpty \in BOOLEAN /\ expandNoop \in BOOLEAN
    /\ snapshot \in Snapshots
    /\ steps \in Nat /\ calls \in Nat

\* Rounds of the SQL loop already closed, and what they may have cost.
Expanded == didExpand /\ ~expandNoop
ClosedCalls == (IF Expanded THEN MaxAttempts ELSE 0) + (IF didEmpty THEN MaxAttempts ELSE 0)
ClosedSteps == 4 + (IF Expanded THEN 3 * MaxAttempts ELSE 0)
                 + (IF didEmpty THEN 3 * MaxAttempts + 2 ELSE 0)
RoundsCost == ClosedSteps + 3 * MaxAttempts + 2      \* with the round that is open

\* The inductive form of the two bounds below: in an open round each attempt
\* costs one generation and at most three nodes.
Progress ==
    /\ node = "route_intent" => steps = 0
    /\ node = "link_entities" => steps = 1
    /\ node = "retrieve_and_link" => steps = 2
    /\ node = "assess_relevance" => steps = 3
    /\ node \in {"route_intent", "link_entities", "retrieve_and_link", "assess_relevance"}
         => attempts = 0 /\ calls = 0 /\ ~didExpand /\ ~didEmpty
    /\ node \in GraphNodes => calls <= ClosedCalls + attempts /\ attempts <= calls
    /\ node = "generate_sql" => attempts < MaxAttempts /\ steps <= ClosedSteps + 3 * attempts
    /\ node \in {"validate_sql", "execute_sql", "summarize", "expand_schema",
                 "prepare_empty_retry", "resolve_empty_retry", "finalize_failure"}
         => attempts \in 1..MaxAttempts
    /\ node = "validate_sql" => steps + 2 <= ClosedSteps + 3 * attempts
    /\ node = "execute_sql" => steps + 1 <= ClosedSteps + 3 * attempts
    /\ node = "summarize" => steps <= ClosedSteps + 3 * attempts
    /\ node = "expand_schema" => ~didExpand /\ steps + 1 <= ClosedSteps + 3 * MaxAttempts
    /\ node = "prepare_empty_retry" => ~didEmpty /\ steps <= ClosedSteps + 3 * MaxAttempts + 1
    /\ node \in {"resolve_empty_retry", "finalize_failure"}
         => steps <= ClosedSteps + 3 * MaxAttempts + 1
    /\ node \in Ended => steps <= 9 * MaxAttempts + 8
    /\ node \in Ended => calls <= 3 * MaxAttempts
    /\ expandNoop => didExpand
    /\ snapshot.taken => didEmpty /\ snapshot.attempts >= 1
    /\ snapshot.taken /\ node \in GraphNodes => snapshot.attempts + attempts <= calls

\* A run costs a bounded number of node executions: four to prepare, then at
\* most three rounds of MaxAttempts attempts, each of at most three nodes.
StepsBounded == steps <= 9 * MaxAttempts + 8

\* The provider is asked for SQL at most three rounds' worth.
CallsBounded == calls <= 3 * MaxAttempts

\* When a run ends, answer, SQL and rows belong together: a refusal carries no
\* SQL, a summary narrates the rows that the returned SQL produced, and a
\* failed run shows no rows, whichever rounds were opened, restored or abandoned.
EvidenceConsistent ==
    node = "END" =>
      \/ /\ status = "ok" /\ scope \in Refused
         /\ sql = NoSql /\ rows = NothingRun
         /\ answer \in {Answer(k, NoSql) : k \in {"refusal", "clarify", "planning_failed"}}
      \/ /\ status = "ok" /\ scope = "answerable" /\ sql.kind = "select"
         /\ \/ rows = ResultOf(sql, "some") /\ answer = Answer("summary", sql)
            \/ rows = ResultOf(sql, "empty") /\ answer = Answer("empty", sql)
      \/ status = "failed" /\ rows = NullRows /\ answer = Answer("failure", sql)

\* A non-empty result, once fetched, is never replaced by anything.
NonEmptyResultKept == [][rows.size = "some" => rows' = rows]_vars

\* After an empty first result the run ends with an executed query, unless
\* deeper linking was tried in vain in the rewrite round.
KeepsFirstResult ==
    node = "END" /\ didEmpty /\ ~expandNoop =>
        status = "ok" /\ scope = "answerable" /\ sql.kind = "select"

\* The inductive form of the three properties above: what the loop carries from
\* node to node while an answer is being produced, kept aside or restored.
Refusal == /\ status = "ok" /\ scope = "out_of_scope" /\ sql = NoSql /\ rows = NothingRun
           /\ answer = Answer("planning_failed", NoSql)
Pending == status = "running" /\ scope = "answerable" /\ rows = NullRows /\ answer = NoAnswer
Summarized(s) == /\ s.status = "ok" /\ s.scope = "answerable" /\ s.sql.kind = "select"
                 /\ s.rows = ResultOf(s.sql, "empty") /\ s.answer = Answer("empty", s.sql)
ExecutesSelect == node = "execute_sql" => sql.kind = "select"
Custody ==
    /\ node \in GraphNodes \ {"summarize", "expand_schema", "prepare_empty_retry",
                              "resolve_empty_retry"} => Pending
    /\ node = "expand_schema" => Refusal \/ Pending
    /\ node = "summarize" =>
         /\ status = "running" /\ scope = "answerable" /\ answer = NoAnswer
         /\ sql.kind = "select"
         /\ rows \in {ResultOf(sql, "some"), ResultOf(sql, "empty")}
    /\ node = "prepare_empty_retry" =>
         Summarized([status |-> status, scope |-> scope, sql |-> sql,
                     rows |-> rows, answer |-> answer])
    /\ node = "resolve_empty_retry" =>
         /\ snapshot.taken
         /\ rows.size = "some" =>
              /\ status = "ok" /\ scope = "answerable" /\ sql.kind = "select"
              /\ rows = ResultOf(sql, "some") /\ answer = Answer("summary", sql)
    /\ snapshot.taken => Summarized(snapshot)
    /\ didEmpty /\ node \in GraphNodes => snapshot.taken
    /\ didEmpty /\ node = "finalize_failure" => expandNoop
    /\ ExecutesSelect /\ EvidenceConsistent /\ KeepsFirstResult

\* LangGraph cuts a run off only where the rounds it opened, each at its longest,
\* cost more nodes than the limit allows: the flags of the three loops never let a
\* run go round for nothing.
CutOff == node = "out_of_steps"
CutOffOverBudget == CutOff => RecursionLimit < RoundsCost

\* Every run comes to an end, by an answer, a raised error, or because the rounds it
\* opened cost more than the limit; no route of the three loops goes round for ever.
Terminates == <>(node \in {"END", "raised"} \/ (CutOff /\ RecursionLimit < RoundsCost))

\* The retry policy implements the abstract budget.
Budget == INSTANCE RetryBudget WITH
    expanded <- didExpand, rewritten <- didEmpty, over <- node \in Ended
ImplementsBudget == Budget!Spec

-----------------------------------------------------------------------------
(* Statements of the repository that the code does not keep                *)

\* "keep better outcome": after a zero-row first result, the run ends with that
\* result or with a better one.
KeepsBetterOutcome ==
    node = "END" /\ didEmpty => status = "ok" /\ scope = "answerable"

\* The retry edges own recovery: the graph is not cut off by the step counter.
NeverOutOfSteps == node # "out_of_steps"

\* "Empty means fail-closed allowlist": no table may be read under an empty one.
EmptyAllowlistFailsClosed ==
    node = "execute_sql" /\ AllowedTables = {} => sql.tables = {}

\* expand_schema only adds tables to the context.
ExpandKeepsTables == [][node = "expand_schema" => AllowedTables \subseteq AllowedTables']_vars

\* The attempts reported to the user are the generations that were made.
ReportsEveryAttempt == node = "END" => attempts = calls
=============================================================================
