---------------------------- MODULE Understanding ----------------------------
(***************************************************************************)
(* What the backend makes of the words of a question before any SQL is     *)
(* planned: IntentRouter (intent_router.py), the follow-up test            *)
(* (follow_up.py), EntityLinker (entity_linker.py) and ScopeGuard          *)
(* (scope_guard.py).                                                       *)
(*                                                                         *)
(* A question is what its regular expressions and word lists find in it:   *)
(*   says     cues: "overview" (asks for the whole database), "vague" (no  *)
(*            word but "summary", "help", ...), "warehouse" (count, total, *)
(*            by month, ...), "soft" (share, chart, revenue, ...), "trivia"*)
(*   refines  how it may continue the conversation: "hard" (break that     *)
(*            down, only for, ...), "topical" (monthly insights from X),   *)
(*            "bi" (a soft cue or a pronoun, with BI vocabulary), "soft"   *)
(*            (without) or "no"                                            *)
(*   words    its words, see SchemaLinking                                 *)
(* Confidences are in percent.  What the model replies is any reply.       *)
(***************************************************************************)
EXTENDS SchemaLinking

CONSTANTS
    Questions,     \* the questions asked, or worded by the model
    Verbatim,      \* words spelled as a table or a column is
    PartWords,     \* [Tables -> words that share a part with the table's name]
    Confidences,   \* those a model may report
    EntityReplies, \* [tables, words]: tables a model may name; columns and values
    Trust,         \* settings.nlp_intent_confidence_trust
    PreferLlm      \* settings.nlp_prefer_llm

Cues == {"overview", "vague", "warehouse", "soft", "trivia"}
QuestionType(words) ==
    [says : SUBSET Cues, refines : {"no", "hard", "topical", "bi", "soft"}, words : Seq(words)]

ASSUME TrustAssumption == Trust \in 0..100 /\ Confidences \subseteq 0..100 /\ PreferLlm \in BOOLEAN
ASSUME RepliesAssumption == \A r \in EntityReplies : r.tables \in Seq(Tables)

Intents == {"analytics", "follow_up", "catalog_overview", "clarify", "out_of_scope"}
Decision(intent, confidence, wording, source) ==
    [intent |-> intent, confidence |-> confidence, wording |-> wording, source |-> source]

\* max(decision.confidence, floor) of the safety nets
AtLeast(floor, confidence) == IF confidence < floor THEN floor ELSE confidence

-----------------------------------------------------------------------------
(* Cues                                                                    *)

is_catalog_overview_question(q) == "overview" \in q.says
has_warehouse_intent(q) == "warehouse" \in q.says
has_analytics_intent(q) == q.says \cap {"warehouse", "soft"} # {}
is_vague_only(q) == "vague" \in q.says
_looks_like_trivia(q) == "trivia" \in q.says

\* A word of the question is spelled as one of the identifiers known to the caller.
_mentions_schema(q, tables, withColumns) ==
    \E w \in ToSet(q.words) \cap Verbatim : \E t \in tables :
        w \in NameWords[t] \/ (withColumns /\ \E c \in Columns[t] : w \in c.words)

\* history: no turn yet, or the last turns share a topic with the question or not.
Histories == {"none", "other", "same_topic"}

looks_like_follow_up(q, history, mentions) ==
    /\ history # "none"
    /\ \/ q.refines \in {"hard", "bi"}
       \/ q.refines = "topical" /\ history = "same_topic"
       \/ q.refines = "soft" /\ mentions

\* Looser than a mention: a word that shares a part with an identifier counts.
_has_overlap(q, tables, withColumns) ==
    \E w \in ToSet(q.words) : \E t \in tables :
        \/ w \in NameWords[t] \cup SegmentWords[t] \cup PartWords[t]
        \/ withColumns /\ \E c \in Columns[t] : w \in c.words \cup c.parts

-----------------------------------------------------------------------------
(* IntentRouter                                                            *)

fallback(q, history, prior, tables) ==
    LET verdict ==
          IF prior /\ looks_like_follow_up(q, history, _mentions_schema(q, tables, FALSE))
          THEN <<"follow_up", 75>>
          ELSE IF is_catalog_overview_question(q) THEN <<"catalog_overview", 80>>
          ELSE IF is_vague_only(q) /\ ~has_warehouse_intent(q) THEN <<"clarify", 70>>
          ELSE IF has_analytics_intent(q) THEN <<"analytics", 70>>
          ELSE IF _looks_like_trivia(q) THEN <<"out_of_scope", 70>>
          ELSE <<"analytics", 55>>
    IN  Decision(verdict[1], verdict[2], q, "fallback")

apply_safety_nets_Mno_warehouse(d, q, history, prior, tables) ==
    IF d.intent \in {"clarify", "out_of_scope", "analytics"}
       /\ (is_catalog_overview_question(q) \/ is_catalog_overview_question(d.wording))
    THEN [d EXCEPT !.intent = "catalog_overview", !.confidence = AtLeast(85, @)]
    ELSE IF d.intent = "out_of_scope" /\ _has_overlap(q, tables, FALSE)
    THEN [d EXCEPT !.intent = "analytics", !.confidence = AtLeast(70, @)]
    ELSE IF d.intent \in {"clarify", "out_of_scope"} /\ prior
            /\ looks_like_follow_up(q, history, _mentions_schema(q, tables, FALSE))
    THEN [d EXCEPT !.intent = "follow_up", !.confidence = AtLeast(75, @)]
    ELSE d

apply_safety_nets(d, q, history, prior, tables) ==
    IF d.intent \in {"clarify", "out_of_scope", "analytics"}
       /\ (is_catalog_overview_question(q) \/ is_catalog_overview_question(d.wording))
    THEN [d EXCEPT !.intent = "catalog_overview", !.confidence = AtLeast(85, @)]
    ELSE IF d.intent = "out_of_scope" /\ (_has_overlap(q, tables, FALSE) \/ has_warehouse_intent(q))
    THEN [d EXCEPT !.intent = "analytics", !.confidence = AtLeast(70, @)]
    ELSE IF d.intent \in {"clarify", "out_of_scope"} /\ prior
            /\ looks_like_follow_up(q, history, _mentions_schema(q, tables, FALSE))
    THEN [d EXCEPT !.intent = "follow_up", !.confidence = AtLeast(75, @)]
    ELSE d

\* A reply that parses; the model may word the question anew.
Replies(q, rewordings) ==
    {Decision(i, c, w, "llm") : i \in Intents, c \in Confidences, w \in {q} \cup rewordings}

\* route: the first reply, or a repaired one, or the regular expressions if the
\* provider fails or answers twice with something else; never an exception.
\* calls counts the requests to the provider.
Routed(q, rewordings, history, prior, tables) ==
    LET rails == fallback(q, history, prior, tables)
        outcomes ==
          IF ~PreferLlm THEN {<<rails, 0>>}
          ELSE (Replies(q, rewordings) \X {1, 2}) \cup {<<rails, 1>>, <<rails, 2>>}
    IN  {[decision |-> apply_safety_nets(o[1], q, history, prior, tables), calls |-> o[2]] :
            o \in outcomes}

trusted(d) == d.confidence >= Trust

-----------------------------------------------------------------------------
(* EntityLinker                                                            *)

MaxEntityTables == 8        \* the slice [:8] of entity_linker.py

\* EntityLinker.fallback on an indexed source
FallbackEntities(words) == link_tables_for_question(words)

\* What is found adds its words to the question (retrieval_query_extra).
SpelledNames(tables) ==
    FlattenSeq([i \in 1..Len(tables) |-> SetToSeq(NameWords[tables[i]] \cap Verbatim)])
Entities(words, tables, more, calls) ==
    [tables |-> tables, words |-> words \o SpelledNames(tables) \o more, calls |-> calls]

\* What link returns, with the requests made: the tables the model names, resolved
\* against the catalog, before those of the fallback; those of the fallback alone
\* without a valid reply, and then no words the question does not have.
LinkedEntities(words, names) ==
    IF names = {} THEN {Entities(words, <<>>, <<>>, 0)}
    ELSE LET rails == FallbackEntities(words)
         IN  IF ~PreferLlm THEN {Entities(words, rails, <<>>, 0)}
             ELSE {Entities(words, rails, <<>>, 1)}
                  \cup {Entities(words, FirstOf(MaxEntityTables, Distinct(r.tables \o rails)), r.words, 1) :
                           r \in EntityReplies}

-----------------------------------------------------------------------------
(* ScopeGuard                                                              *)

_scope_from_intent(intent) ==
    IF intent = "out_of_scope" THEN "out_of_scope"
    ELSE IF intent = "clarify" THEN "needs_clarification" ELSE "answerable"

\* Words that keep a question in the SQL path, given the tables of its context
\* and whether their columns are in it.
StaysInSqlPath(q, history, tables, columns) ==
    \/ looks_like_follow_up(q, history, _mentions_schema(q, tables, columns))
    \/ _has_overlap(q, tables, columns) \/ has_warehouse_intent(q)
    \/ is_catalog_overview_question(q)

\* The model is asked only when nothing else decides.
AsksScopeModel(d, q, history, tables, columns) ==
    /\ PreferLlm /\ ~trusted(d)
    /\ ~StaysInSqlPath(q, history, tables, columns) /\ ~is_vague_only(q)

\* What assess may decide; an unreadable reply of the model counts as answerable.
Assessed(d, q, history, tables, columns) ==
    IF AsksScopeModel(d, q, history, tables, columns)
    THEN {"answerable", "out_of_scope", "needs_clarification"}
    ELSE IF trusted(d) THEN {_scope_from_intent(d.intent)}
    ELSE IF is_vague_only(q) /\ ~StaysInSqlPath(q, history, tables, columns) THEN {"needs_clarification"}
    ELSE {"answerable"}
=============================================================================
