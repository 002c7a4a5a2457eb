---------------------------- MODULE QuestionPrep ----------------------------
(***************************************************************************)
(* The first four nodes of the chat graph in detail (backend/app/graph/    *)
(* prep_nodes.py and assess_relevance_node of nodes.py): a question is     *)
(* understood, its tables are retrieved and linked, and it is refused,     *)
(* sent back for clarification or passed on to the SQL planner.  ChatGraph *)
(* has the same nodes with their outcomes left open; this module shows     *)
(* that the outcomes are among those.                                      *)
(***************************************************************************)
EXTENDS Understanding

CONSTANTS
    Invented,       \* a name in generated SQL that is no table
    Rewordings,     \* other wordings the model may return for a question
    PriorSqls,      \* sets of tables earlier SQL may have read
    TopK            \* settings.rag_top_k

ASSUME InputsAssumption ==
    /\ Rewordings \subseteq Questions /\ PriorSqls \subseteq SUBSET Tables
    /\ TopK \in Nat \ {0}

VARIABLES
    question, history,
    priorSql,     \* the tables of the session's last SQL; NoPrior if there is none
    index,        \* the chunks of the source as they are in the database now
    catalog,      \* those loaded when the run was bootstrapped
    decision,     \* IntentRouter's verdict
    overview,
    words,        \* retrieval_question
    forced,       \* extra_force_tables
    seeds,        \* what retrieval found (history variable, not in the graph's state)
    linked,       \* linked_chunks as they go into the context, in order
    kept,         \* linked_chunks as they stay in the graph's state
    mode,         \* context_mode
    node, scope,
    steps,        \* nodes executed
    asked         \* requests to the provider (history variable)

prepared == <<question, history, catalog>>
understood == <<priorSql, decision, overview>>
entities == <<words, forced>>
retrieved == <<seeds, linked, kept, mode>>
vars == <<prepared, index, understood, entities, retrieved, node, scope, steps, asked>>

NoPrior == {}
CatalogNames == RealTables(catalog)
Unrouted == Decision("analytics", 100, question, "none")

\* A run starts once ChatService has loaded catalog and history; only a
\* conversation with earlier turns can have earlier SQL.
Init ==
    /\ question \in Questions
    /\ history \in Histories
    /\ priorSql \in IF history = "none" THEN {NoPrior} ELSE {NoPrior} \cup PriorSqls
    /\ index \in {<<>>, Index} /\ catalog = index
    /\ decision = Unrouted /\ overview = FALSE
    /\ words = question.words /\ forced = <<>> /\ seeds = <<>> /\ linked = <<>> /\ kept = <<>> /\ mode = "empty"
    /\ node = "route_intent" /\ scope = "answerable"
    /\ steps = 0 /\ asked = 0

\* A rebuild of the index commits (SchemaIndex): a source without one gets one,
\* one that has an index is never seen without it.
IndexBuilt ==
    /\ node \notin {"generate_sql", "END", "raised"}
    /\ index = <<>> /\ index' = Index
    /\ UNCHANGED <<prepared, understood, entities, retrieved, node, scope, steps, asked>>

Ran(next) == node' = next /\ steps' = steps + 1

Rerouted_Mkeeps(d) == d

\* A follow-up of nothing is routed again, by the regular expressions alone.
Rerouted(d) ==
    IF d.intent = "follow_up" /\ priorSql = NoPrior
    THEN fallback(question, history, FALSE, CatalogNames) ELSE d

\* Earlier SQL is passed on only to what continues it.
PriorFor(d) ==
    IF d.intent = "follow_up" \/ looks_like_follow_up(question, history, FALSE)
    THEN priorSql ELSE NoPrior

RouteIntent ==
    /\ node = "route_intent"
    /\ \E r \in Routed(question, Rewordings, history, priorSql # NoPrior, CatalogNames) :
         LET d == Rerouted(r.decision)
         IN  /\ priorSql' = PriorFor(r.decision)
             /\ decision' = d /\ words' = d.wording.words
             /\ overview' = \/ d.intent = "catalog_overview"
                            \/ d.source = "fallback" /\ is_catalog_overview_question(question)
             /\ asked' = asked + r.calls
    /\ Ran("link_entities")
    /\ UNCHANGED <<prepared, index, forced, retrieved, scope>>

\* Only for what will be planned as SQL.
LinkEntities ==
    /\ node = "link_entities"
    /\ IF decision.intent \in {"analytics", "follow_up"} /\ ~overview
       THEN \E e \in LinkedEntities(words, CatalogNames) :
              forced' = e.tables /\ words' = e.words /\ asked' = asked + e.calls
       ELSE UNCHANGED <<entities, asked>>
    /\ Ran("retrieve_and_link")
    /\ UNCHANGED <<prepared, index, understood, retrieved, scope>>

\* The TopK chunks nearest to the embedded query: any of them, in any order.
Nearest ==
    LET k == IF Len(index) < TopK THEN Len(index) ELSE TopK
    IN  {s \in [1..k -> ToSet(index)] : \A i, j \in 1..k : i # j => s[i] # s[j]}

\* _with_prior_turn_tables: the tables of the earlier SQL join the seeds.
WithPriorTables_Mdropped(found) == found

WithPriorTables(found) ==
    LET wanted == Only(index, priorSql \ ToSet(found))
    IN  IF wanted = <<>> THEN found ELSE merge_chunks(found, wanted)

\* Nothing was linked: the live schema, if the warehouse can be reached.
Introspections ==
    {IF overview THEN Linked(Index, "catalog_overview") ELSE Linked(FirstOf(MaxTables, Index), "rag"),
     Linked(<<>>, "empty")}

Aside == decision.intent \in {"clarify", "out_of_scope"}

\* A refusal or a clarification still names tables of the source.
Context(l) ==
    IF l.chunks = <<>> /\ Aside /\ catalog # <<>>
    THEN Linked(FirstOf(MaxTables, catalog), "rag") ELSE l

NameOnly_Mkeeps_overview(chunks) == chunks

NameOnly(chunks) == Only(chunks, RealTables(chunks))

RetrieveAndLink ==
    /\ node = "retrieve_and_link"
    /\ \E found \in Nearest :
         LET rows == WithPriorTables(found)
             l == IF (rows # <<>> /\ catalog # <<>>) \/ overview
                  THEN apply_schema_linking(words, rows, catalog, overview, forced)
                  ELSE Linked(rows, "rag")
         IN  /\ seeds' = rows
             /\ \E c \in IF l.chunks = <<>> THEN Introspections ELSE {l} :
                  /\ linked' = Context(c).chunks /\ mode' = Context(c).mode
                  /\ kept' = IF mode' = "catalog_overview" \/ Aside THEN NameOnly(linked') ELSE linked'
    /\ asked' = asked + 1
    /\ Ran("assess_relevance")
    /\ UNCHANGED <<prepared, index, understood, entities, scope>>

\* The inventory of an overview names tables without their columns.
AsksModel == AsksScopeModel(decision, question, history, RealTables(linked), mode # "catalog_overview")

AssessRelevance ==
    /\ node = "assess_relevance"
    /\ scope' \in Assessed(decision, question, history, RealTables(linked), mode # "catalog_overview")
    /\ asked' = IF AsksModel THEN asked + 1 ELSE asked
    /\ Ran(IF scope' = "answerable" THEN "generate_sql" ELSE "END")
    /\ UNCHANGED <<prepared, index, understood, entities, retrieved>>

\* The embedding of the query and the scope model have no fallback.
ProviderFails ==
    /\ node = "retrieve_and_link" \/ (node = "assess_relevance" /\ AsksModel)
    /\ asked' = asked + 1
    /\ Ran("raised")
    /\ UNCHANGED <<prepared, index, understood, entities, retrieved, scope>>

Next == RouteIntent \/ LinkEntities \/ RetrieveAndLink \/ AssessRelevance
        \/ ProviderFails \/ IndexBuilt

Spec == Init /\ [][Next]_vars
-----------------------------------------------------------------------------
(* Correctness                                                             *)

Chunks == Tables \cup {Synthetic}
Refined == looks_like_follow_up(question, history, FALSE)

\* What each node leaves for the next is what the next one can read.
TypeOK ==
    /\ question \in Questions /\ history \in Histories
    /\ priorSql \subseteq Tables
    /\ index \in {<<>>, Index} /\ catalog \in {<<>>, index}
    /\ decision.intent \in Intents /\ decision.wording \in Questions
    /\ decision.confidence \in Confidences \cup 55..100
    /\ overview \in BOOLEAN
    /\ ToSet(forced) \subseteq Tables
    /\ ToSet(seeds) \cup ToSet(linked) \subseteq Chunks
    /\ mode \in {"rag", "catalog_overview", "empty"}
    /\ node \in {"route_intent", "link_entities", "retrieve_and_link", "assess_relevance",
                 "generate_sql", "END", "raised"}
    /\ scope \in {"answerable", "out_of_scope", "needs_clarification"}
    /\ steps \in 0..4 /\ asked \in 0..5

\* The model alone cannot turn away a question about the warehouse: one that
\* speaks of counts, totals, months, ... is never called out of scope; one that
\* names a table only if the regular expressions that stand in for the router
\* take it for trivia, or if that table is not in the context the scope model sees.
RefusalsJustified ==
    scope = "out_of_scope" =>
      /\ ~has_warehouse_intent(question) /\ ~is_catalog_overview_question(question)
      /\ \/ ~_has_overlap(question, CatalogNames, FALSE)
         \/ trusted(decision) /\ decision.source = "fallback" /\ _looks_like_trivia(question)
         \/ ~trusted(decision) /\ ~_has_overlap(question, RealTables(linked), FALSE)

\* Earlier SQL and the verdict agree: what is called a follow-up has earlier SQL
\* to follow, and earlier SQL reaches the planner of no unrelated question.
PriorSqlFollowed ==
    node # "route_intent" =>
      /\ decision.intent = "follow_up" => priorSql # NoPrior
      /\ priorSql # NoPrior => decision.intent = "follow_up" \/ Refined

\* The join path of the SQL that is refined stays in the context: its tables are
\* linked unless the context is full.
PriorTablesLinked ==
    (node = "assess_relevance" /\ catalog # <<>>) =>
      priorSql \subseteq RealTables(linked) \/ Cardinality(RealTables(linked)) >= MaxTables

\* Linking puts into the context what is nearest to the seeds by foreign keys.  The
\* cap bounds what the walk adds to the seeds, not the seeds: see ContextCapped.
LinkedNearestFirst ==
    (node = "assess_relevance" /\ seeds # <<>> /\ RealTables(seeds) # {} /\ catalog # <<>> /\ ~overview) =>
      LET all == ForcedIn(words, forced)
      IN  NearestFirst(linked, SeedsWith(seeds, all), suggested_expand_hops(all))

\* A question costs the provider at most five requests before SQL is planned, and
\* a verdict that is trusted is not asked for again.
AskedOnce == asked <= IF trusted(decision) THEN 4 ELSE 5

\* The nodes implement those of the chat graph.
Nothing == [kind |-> "none", tables |-> {}]
NoHint == [kind |-> "none", missing |-> {}]
TurnedAway(k) == [kind |-> k, of |-> Nothing]
Graph == INSTANCE ChatGraph WITH
    MaxAttempts <- 1, RecursionLimit <- 25, ExpandOnRetry <- TRUE, SchemaScoped <- TRUE,
    question <- [analytics |-> has_analytics_intent(question),
                 overview |-> is_catalog_overview_question(question)],
    catalog <- CatalogNames, intent <- decision.intent,
    linked <- ToSet(kept), attempts <- 0, calls <- 0,
    status <- IF node = "END" THEN "ok" ELSE "running",
    answer <- TurnedAway(IF node # "END" THEN "null"
                         ELSE IF scope = "out_of_scope" THEN "refusal" ELSE "clarify"),
    sql <- Nothing, sqlError <- NoHint,
    rows <- [size |-> IF node = "END" THEN "empty" ELSE "null", of |-> Nothing],
    didExpand <- FALSE, didEmpty <- FALSE, expandNoop <- FALSE,
    snapshot <- [taken |-> FALSE, answer |-> TurnedAway("null"), sql |-> Nothing,
                 rows |-> [size |-> "null", of |-> Nothing], status |-> "running",
                 scope |-> "answerable", attempts |-> 0, sqlError |-> NoHint]
ImplementsGraph == Graph!Spec

-----------------------------------------------------------------------------
(* Statements of the repository that the code does not keep                *)

\* "False OUT_OF_SCOPE when schema tokens / warehouse intent present": a question
\* that names an indexed table is not refused on a trusted verdict.
NamedTableNotRefused ==
    scope = "out_of_scope" /\ trusted(decision) => ~_has_overlap(question, CatalogNames, FALSE)

\* "Stops at max_tables real tables", "Cap on tables in schema context": whatever was
\* retrieved, named by the question, the model or earlier SQL, and found by the walk,
\* no more tables than that go into the planner's context (but for the inventory of an
\* overview question).
ContextCapped ==
    node = "assess_relevance" /\ mode = "rag" => Cardinality(RealTables(linked)) <= MaxTables
=============================================================================
