---------------------------- MODULE SchemaLinking ----------------------------
(***************************************************************************)
(* Which tables a question brings into the planner's context: the pure     *)
(* algorithms of backend/app/services/catalog_overview.py, schema_vocab.py,*)
(* schema_linker.py and schema_linking_pipeline.py.                        *)
(*                                                                         *)
(* A question is the sequence of its words that are no stop words; what a  *)
(* word has in common with the name of a table or a column is given by the *)
(* schema (the spelling variants of nl_normalize.py are not spelled out).  *)
(* An index is a sequence of chunks, a chunk is the table it describes; one*)
(* synthetic chunk stands for the catalog and the relationship overview.   *)
(***************************************************************************)
EXTENDS Naturals, Sequences, FiniteSets, SequencesExt

CONSTANTS
    Tables,        \* the tables of the warehouse
    Synthetic,     \* the overview chunk of the index
    TableOrder,    \* the tables, by name
    ShortFirst,    \* the tables, by the length of their names (all different)
    ForeignKeys,   \* pairs of a table and a table it references, indexed or not
    NameWords,     \* [Tables -> words that are the table's name, or its plural]
    SegmentWords,  \* [Tables -> words that are one part of a compound name]
    Columns,       \* [Tables -> columns, see ColumnType]
    FactNamed,     \* tables whose name has a fragment of _FACTISH_NAME_HINTS
    MeasureAsks,   \* words that ask for a measure ("revenue", ...) and name no column
    DefaultHops,   \* settings.rag_expand_hops
    MaxTables      \* settings.rag_max_tables

\* words: the words that match the column; parts: those that share a part with
\* its name; stem: its name holds a measure stem.
ColumnType(words) == [words : SUBSET words, parts : SUBSET words, stem : BOOLEAN,
                      kind : {"measure", "temporal", "text", "id"}]

ASSUME LinkingBounds == DefaultHops \in Nat /\ MaxTables \in Nat \ {0}
ASSUME OrderAssumption ==
    /\ Synthetic \notin Tables
    /\ \A order \in {TableOrder, ShortFirst} :
         order \in Seq(Tables) /\ ToSet(order) = Tables /\ IsInjective(order)

Index == TableOrder \o <<Synthetic>>         \* a source that has been indexed
RealTables(chunks) == ToSet(chunks) \ {Synthetic}

\* The first n elements, all of them if there are no more.
FirstOf(n, s) == [i \in 1..(IF Len(s) < n THEN Len(s) ELSE n) |-> s[i]]

\* The elements at some places, in the order of s; those of a set.
At(s, places) ==
    LET nth(n) == CHOOSE i \in places : Cardinality({j \in places : j <= i}) = n
    IN  [n \in 1..Cardinality(places) |-> s[nth(n)]]
Only(s, S) == At(s, {i \in DOMAIN s : s[i] \in S})

\* list(dict.fromkeys(s)): the elements in the order of their first occurrence.
Distinct(s) == At(s, {i \in DOMAIN s : \A j \in DOMAIN s : j < i => s[j] # s[i]})

-----------------------------------------------------------------------------
(* Tables a question names                                                 *)

nouns_match(words, table) == Only(words, NameWords[table])
_segment_table_match(words, table) == Only(words, SegmentWords[table])

ByWholeName(words) == {t \in Tables : nouns_match(words, t) # <<>>}

\* A table is matched by the first of the words that may name it; the word is then
\* claimed, and names no other table by one part of its name.
Claimed(words) ==
    LET longFirst == Reverse(ShortFirst)
        claimed[i \in 0..Len(longFirst)] ==
          IF i = 0 THEN {Head(nouns_match(words, t)) : t \in ByWholeName(words)}
          ELSE LET t == longFirst[i]
                   by == IF t \in ByWholeName(words) THEN <<>>
                         ELSE Only(_segment_table_match(words, t), ToSet(words) \ claimed[i - 1])
               IN  claimed[i - 1] \cup (IF by = <<>> THEN {} ELSE {Head(by)})
    IN  claimed

tables_mentioned_in_question(words) ==
    LET longFirst == Reverse(ShortFirst)
        bySegment == {i \in DOMAIN longFirst : Claimed(words)[i] # Claimed(words)[i - 1]}
    IN  Only(ShortFirst, ByWholeName(words)) \o At(longFirst, bySegment)

\* A numeric column, and a date column or a foreign key or a telling name.
table_is_factish(t) ==
    /\ \E c \in Columns[t] : c.kind = "measure"
    /\ \/ \E c \in Columns[t] : c.kind = "temporal"
       \/ \E u \in Tables : <<t, u>> \in ForeignKeys
       \/ t \in FactNamed

\* A word that asks for a measure stands for every measure column with a stem.
SynonymHit(t, words) ==
    \E c \in Columns[t] : c.kind = "measure" /\ (words \cap c.parts # {}
                                                 \/ (words \cap MeasureAsks # {} /\ c.stem))
DimensionHit(t, words) == \E c \in Columns[t] : words \cap c.words # {}

tables_matching_columns(words) ==
    LET said == ToSet(words)
    IN  Only(TableOrder, {t \in Tables : DimensionHit(t, said)
                                         \/ (SynonymHit(t, said) /\ table_is_factish(t))})

link_tables_for_question(words) ==
    Distinct(tables_mentioned_in_question(words) \o tables_matching_columns(words))

-----------------------------------------------------------------------------
(* SchemaLinker: the walk along foreign keys                               *)

\* Undirected, no loops, only to tables that are indexed.
Adjacent(t) == {u \in Tables \ {t} : <<t, u>> \in ForeignKeys \/ <<u, t>> \in ForeignKeys}
Neighbours(t) == Only(TableOrder, Adjacent(t))

suggested_expand_hops(forced) ==
    IF Len(forced) >= 2 /\ DefaultHops < 2 THEN 2 ELSE DefaultHops

_with_overview(seeds, real) == Only(seeds, {Synthetic}) \o real

\* The queue holds the selected tables with the number of steps taken to them.
Reached(table, hops) == [table |-> table, hops |-> hops]
Selected(queue) == [i \in DOMAIN queue |-> queue[i].table]

\* One visit, of the n-th: its new neighbours join, as long as there is room.
Visit(queue, n, hops) ==
    IF n > Len(queue) \/ Len(queue) >= MaxTables THEN queue
    ELSE IF queue[n].hops >= hops THEN queue
    ELSE LET found == Only(Neighbours(queue[n].table), Tables \ ToSet(Selected(queue)))
         IN  FirstOf(MaxTables,
                     queue \o [i \in DOMAIN found |-> Reached(found[i], queue[n].hops + 1)])

\* Room for MaxTables tables is room for fewer visits.
Walk(seeds, hops) ==
    LET queue[n \in 0..MaxTables] ==
          IF n = 0 THEN [i \in DOMAIN seeds |-> Reached(seeds[i], 0)]
          ELSE Visit(queue[n - 1], n, hops)
    IN  Selected(queue[MaxTables])

expand_Mone_hop_more(seeds, hops) ==
    LET real == Distinct(Only(seeds, RealTables(seeds)))
    IN  _with_overview(seeds, IF real = <<>> THEN <<>> ELSE Walk(real, hops + 1))

expand(seeds, hops) ==
    LET real == Distinct(Only(seeds, RealTables(seeds)))
    IN  _with_overview(seeds, IF hops = 0 \/ real = <<>> THEN FirstOf(MaxTables, real)
                              ELSE Walk(real, hops))

merge_chunks(existing, extra) ==
    LET all == Distinct(existing \o extra)
    IN  Only(all, {Synthetic}) \o FirstOf(MaxTables, Only(all, RealTables(all)))

Linked(chunks, mode) == [chunks |-> chunks, mode |-> mode]

\* The seeds, then the tables forced in, then what the walk finds from them.
ForcedIn(words, extra) == Distinct(extra \o link_tables_for_question(words))
SeedsWith(seeds, forced) == Distinct(seeds \o forced)

apply_schema_linking(words, seeds, catalog, overview, extra) ==
    IF overview /\ catalog # <<>> THEN Linked(catalog, "catalog_overview")
    ELSE IF seeds = <<>> THEN Linked(<<>>, "empty")
    ELSE IF catalog = <<>> THEN Linked(FirstOf(MaxTables, seeds), "rag")
    ELSE LET forced == ForcedIn(words, extra)
         IN  Linked(expand(SeedsWith(seeds, forced), suggested_expand_hops(forced)), "rag")

-----------------------------------------------------------------------------
(* What the walk is for, said without a queue                              *)

\* The tables at most n foreign keys away from a table of S: the ends of the paths
\* of n steps, some of which stay where they are.
Paths(S, n) ==
    {p \in [0..n -> Tables] : p[0] \in S /\ \A i \in 1..n : p[i] \in {p[i - 1]} \cup Adjacent(p[i - 1])}
Within(S, n) == {p[n] : p \in Paths(S, n)}

\* What is added is near a seed, nothing nearer is left out for it, and a table is
\* left out only when the context is full; a seed only when nothing is added.  The
\* seeds alone may be more than MaxTables: then nothing joins them.
NearestFirst(chunks, seeds, hops) ==
    LET real == RealTables(chunks)
        start == RealTables(seeds)
    IN  /\ hops = 0 \/ start \subseteq real
        /\ real \subseteq Within(start, hops)
        /\ Cardinality(real) > MaxTables => real = start
        /\ Cardinality(real) < MaxTables => real = Within(start, hops)
        /\ \A d \in 0..hops : real \subseteq Within(start, d) \/ Within(start, d) \subseteq real
=============================================================================
