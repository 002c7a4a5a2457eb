---------------------------- MODULE MCQuestionPrep ----------------------------
(* A warehouse of four tables, and a dozen questions of the kinds the tests ask. *)
EXTENDS QuestionPrep

CONSTANTS orders, order_lines, regions, zones

MCTables == {orders, order_lines, regions, zones}
ByName == <<order_lines, orders, regions, zones>>
ByLength == <<zones, orders, regions, order_lines>>
Fks == {<<order_lines, orders>>, <<orders, regions>>, <<regions, zones>>}

Each(o, l, r) ==
    [t \in MCTables |-> CASE t = orders -> o [] t = order_lines -> l [] t = regions -> r [] OTHER -> {}]
Names == Each({"order", "orders"}, {"order_lines"}, {"region", "regions"})
Segments == Each({}, {"order", "line"}, {})
Parts == Each({}, {"orde"}, {"regi"})
Spelled == {"orders", "order_lines", "regions", "west"}

Column(w, p, s, k) == [words |-> w, parts |-> p, stem |-> s, kind |-> k]
Cols == Each({Column({"placed"}, {}, FALSE, "temporal"), Column({}, {}, TRUE, "measure")},
             {Column({}, {"amount"}, TRUE, "measure"), Column({}, {}, FALSE, "id")},
             {Column({"west"}, {"west"}, FALSE, "text"), Column({}, {}, FALSE, "measure")})

Ask(says, refines, of) == [says |-> says, refines |-> refines, words |-> of]
Overview == Ask({"overview", "warehouse"}, "no", <<"database">>)
MCQuestions ==
    {Overview,
     Ask({"overview"}, "bi", <<"data">>),                    \* "and those, overview of the data"
     Ask({"vague"}, "no", <<>>),                             \* "summary"
     Ask({"warehouse"}, "no", <<"orders">>),                 \* "orders by month"
     Ask({"soft"}, "no", <<"revenue", "region">>),           \* "revenue by region"
     Ask({"warehouse"}, "hard", <<>>),                       \* "only for the top"
     Ask({}, "soft", <<"west">>),                            \* "what about west"
     Ask({"warehouse"}, "topical", <<"north">>),             \* "monthly insights from north"
     Ask({"trivia"}, "no", <<>>),                            \* "who won the world cup"
     Ask({"trivia"}, "no", <<"order", "line">>),             \* "who won order line 7"
     Ask({}, "no", <<"monads">>)}                            \* "explain monads"
Reworded == {Overview}
Reply(tables, more) == [tables |-> tables, words |-> more]
Lists == {Reply(<<regions>>, <<>>), Reply(<<order_lines, regions>>, <<>>), Reply(<<>>, <<"west">>)}
Earlier == {{orders}, {order_lines, regions}}
=============================================================================
