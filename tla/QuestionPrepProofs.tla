------------------------- MODULE QuestionPrepProofs -------------------------
(***************************************************************************)
(* Theorems about QuestionPrep, for every warehouse, every set of          *)
(* questions and every setting.                                            *)
(***************************************************************************)
EXTENDS QuestionPrep, FiniteSetTheorems, FunctionTheorems, WellFoundedInduction, TLAPS

\* A refusal without the scope model: no word of the warehouse, no overview, and no
\* table named, unless the regular expressions took the question for trivia.
RefusedByRouter ==
    node # "route_intent" /\ decision.intent = "out_of_scope" =>
      /\ ~has_warehouse_intent(question) /\ ~is_catalog_overview_question(question)
      /\ \/ ~_has_overlap(question, CatalogNames, FALSE)
         \/ decision.source = "fallback" /\ _looks_like_trivia(question)

\* Nothing is decided about the scope before assess_relevance.
Undecided ==
    node \in {"route_intent", "link_entities", "retrieve_and_link", "assess_relevance"} =>
      scope = "answerable"

Judged == RefusedByRouter /\ Undecided /\ RefusalsJustified

-----------------------------------------------------------------------------
(* Sequences                                                               *)

\* A set of natural numbers has a least one.
LEMMA Least ==
    ASSUME NEW T \in SUBSET Nat, T # {}
    PROVE  \E n \in T : \A m \in T : n <= m
<1> DEFINE R == OpToRel(<, Nat)
<1>1. IsWellFoundedOn(R, Nat)
  BY NatLessThanWellFounded
<1>2. \E n \in T : \A m \in T : ~(<<m, n>> \in R)
  <2> HIDE DEF R
  <2>1. QED
    BY <1>1, WFMin
<1>3. PICK n \in T : \A m \in T : ~(<<m, n>> \in R)
  BY <1>2
<1>4. \A m \in Nat : m \in T => ~(m < n)
  BY <1>3 DEF OpToRel
<1>5. QED
  BY <1>4

\* Induction over the natural numbers, for a set of them.
LEMMA CountUp ==
    ASSUME NEW T, 0 \in T, \A n \in Nat : n \in T => n + 1 \in T
    PROVE  Nat \subseteq T
<1> SUFFICES ASSUME Nat \ T # {} PROVE FALSE
  OBVIOUS
<1>1. PICK n \in Nat \ T : \A m \in Nat \ T : n <= m
  BY Least
<1>2. n - 1 \in Nat /\ n - 1 \in T
  BY <1>1
<1>3. QED
  BY <1>1, <1>2

\* The places of a selection: each number up to their count is the rank of one.
LEMMA Ranks ==
    ASSUME NEW P \in SUBSET Nat, IsFiniteSet(P)
    PROVE  /\ \A n \in 1..Cardinality(P) : \E i \in P : Cardinality({j \in P : j <= i}) = n
           /\ \A i \in P : Cardinality({j \in P : j <= i}) \in 1..Cardinality(P)
           /\ \A h, i \in P : h < i => Cardinality({j \in P : j <= h}) < Cardinality({j \in P : j <= i})
<1> DEFINE UpTo(i) == {j \in P : j <= i}
           rank == [i \in P |-> Cardinality(UpTo(i))]
<1>1. Cardinality(P) \in Nat
  BY FS_CardinalityType
<1>2. ASSUME NEW i \in P
      PROVE  IsFiniteSet(UpTo(i)) /\ Cardinality(UpTo(i)) \in 1..Cardinality(P)
  <2>1. i \in UpTo(i) /\ UpTo(i) \in SUBSET P
    OBVIOUS
  <2>2. IsFiniteSet(UpTo(i)) /\ Cardinality(UpTo(i)) <= Cardinality(P)
    BY <2>1, FS_Subset
  <2>3. Cardinality(UpTo(i)) \in Nat /\ Cardinality(UpTo(i)) # 0
    BY <2>1, <2>2, FS_CardinalityType, FS_EmptySet
  <2>4. QED
    BY <1>1, <2>2, <2>3
<1>3. ASSUME NEW h \in P, NEW i \in P, h < i
      PROVE  Cardinality(UpTo(h)) < Cardinality(UpTo(i))
  <2>1. UpTo(h) \in SUBSET UpTo(i)
    <3>1. \A j \in Nat : j <= h => j <= i
      BY <1>3
    <3>2. QED
      BY <3>1
  <2>2. i \notin UpTo(h) /\ i \in UpTo(i)
    BY <1>3
  <2>3. Cardinality(UpTo(h)) <= Cardinality(UpTo(i)) /\ Cardinality(UpTo(h)) # Cardinality(UpTo(i))
    BY <1>2, <2>1, <2>2, FS_Subset
  <2>4. Cardinality(UpTo(h)) \in Nat /\ Cardinality(UpTo(i)) \in Nat
    BY <1>1, <1>2
  <2>5. QED
    BY <2>3, <2>4
<1>4. ASSUME NEW n \in 1..Cardinality(P)
      PROVE  \E i \in P : Cardinality(UpTo(i)) = n
  <2>1. rank \in [P -> 1..Cardinality(P)]
    BY <1>2
  <2>2. \A h, i \in P : rank[h] = rank[i] => h = i
    <3>1. ASSUME NEW h \in P, NEW i \in P, h < i PROVE rank[h] # rank[i]
      <4>1. Cardinality(UpTo(h)) \in Nat /\ Cardinality(UpTo(i)) \in Nat
        BY <1>1, <1>2
      <4>2. QED
        BY <1>3, <3>1, <4>1
    <3>2. \A i \in P : i \in Nat
      OBVIOUS
    <3>3. QED
      BY <3>1, <3>2
  <2>3. rank \in Injection(P, 1..Cardinality(P))
    BY <2>1, <2>2, Fun_IsInj
  <2>4. IsFiniteSet(1..Cardinality(P)) /\ Cardinality(1..Cardinality(P)) = Cardinality(P)
    <3>1. Cardinality(P) \in Int /\ 1 \in Int
      BY <1>1
    <3>2. QED
      BY <1>1, <3>1, FS_Interval
  <2>5. rank \in Surjection(P, 1..Cardinality(P))
    BY <2>3, <2>4, FS_Injection
  <2>6. PICK i \in P : rank[i] = n
    BY <2>5 DEF Surjection
  <2>7. QED
    BY <2>6
<1>5. QED
  BY <1>2, <1>3, <1>4

\* What At selects: exactly the elements at the places, one for each, none twice if
\* the sequence has them once there.
LEMMA AtFacts ==
    ASSUME NEW S, NEW s \in Seq(S), NEW P \in SUBSET DOMAIN s
    PROVE  /\ IsFiniteSet(P) /\ Cardinality(P) \in Nat
           /\ At(s, P) \in Seq(S) /\ Len(At(s, P)) = Cardinality(P)
           /\ ToSet(At(s, P)) = {s[i] : i \in P}
           /\ (\A h, i \in P : s[h] = s[i] => h = i) =>
                \A m, n \in 1..Cardinality(P) : At(s, P)[m] = At(s, P)[n] => m = n
<1> DEFINE k == Cardinality(P)
           UpTo(i) == {j \in P : j <= i}
           nth(n) == CHOOSE i \in P : Cardinality(UpTo(i)) = n
<1>1. IsFiniteSet(P) /\ k \in Nat /\ P \in SUBSET Nat
  <2>1. Len(s) \in Nat /\ DOMAIN s = 1..Len(s)
    OBVIOUS
  <2>2. IsFiniteSet(1..Len(s))
    <3>1. Len(s) \in Int /\ 1 \in Int
      BY <2>1
    <3>2. QED
      BY <3>1, FS_Interval
  <2>3. P \in SUBSET (1..Len(s))
    BY <2>1
  <2>4. IsFiniteSet(P)
    BY <2>2, <2>3, FS_Subset
  <2>5. QED
    BY <2>3, <2>4, FS_CardinalityType
<1>2. \A n \in 1..k : nth(n) \in P /\ Cardinality(UpTo(nth(n))) = n
  BY <1>1, Ranks
<1>3. \A i \in P : Cardinality(UpTo(i)) \in 1..k
  BY <1>1, Ranks
<1>4. \A h, i \in P : Cardinality(UpTo(h)) = Cardinality(UpTo(i)) => h = i
  <2>1. \A i \in P : i \in Nat
    BY <1>1
  <2>2. \A i \in P : Cardinality(UpTo(i)) \in Nat
    BY <1>1, <1>3
  <2>3. \A h, i \in P : h < i => Cardinality(UpTo(h)) < Cardinality(UpTo(i))
    BY <1>1, Ranks
  <2> HIDE DEF UpTo
  <2>4. ASSUME NEW h \in P, NEW i \in P, h # i
        PROVE  Cardinality(UpTo(h)) # Cardinality(UpTo(i))
    <3>1. h < i \/ i < h
      BY <2>1, <2>4
    <3>2. QED
      BY <2>2, <2>3, <3>1
  <2>5. QED
    BY <2>4
<1>5. At(s, P) = [n \in 1..k |-> s[nth(n)]]
  BY DEF At
<1> HIDE DEF nth, UpTo, k
<1>6. \A i \in P : \E n \in 1..k : nth(n) = i
  BY <1>2, <1>3, <1>4
<1>7. \A i \in P : s[i] \in S
  OBVIOUS
<1>8. At(s, P) \in Seq(S) /\ Len(At(s, P)) = k
  BY <1>1, <1>2, <1>5, <1>7
<1>9. ToSet(At(s, P)) = {s[i] : i \in P}
  BY <1>1, <1>2, <1>5, <1>6, SMTT(30) DEF ToSet
<1>10. ASSUME \A h, i \in P : s[h] = s[i] => h = i,
              NEW m \in 1..k, NEW n \in 1..k, At(s, P)[m] = At(s, P)[n]
       PROVE  m = n
  <2>1. nth(m) = nth(n)
    BY <1>2, <1>5, <1>10
  <2>2. QED
    BY <1>2, <2>1
<1>11. QED
  BY <1>1, <1>8, <1>9, <1>10 DEF k

\* The selection of those in a set.
LEMMA OnlyFacts ==
    ASSUME NEW S, NEW s \in Seq(S), NEW T
    PROVE  /\ Only(s, T) \in Seq(S \cap T) /\ ToSet(Only(s, T)) = ToSet(s) \cap T
           /\ IsInjective(s) => IsInjective(Only(s, T))
<1> DEFINE P == {i \in DOMAIN s : s[i] \in T}
<1>1. P \in SUBSET DOMAIN s /\ Only(s, T) = At(s, P)
  BY DEF Only
<1>2. s \in Seq(S) /\ DOMAIN s = 1..Len(s)
  OBVIOUS
<1>3. /\ Cardinality(P) \in Nat /\ At(s, P) \in Seq(S) /\ Len(At(s, P)) = Cardinality(P)
      /\ ToSet(At(s, P)) = {s[i] : i \in P}
  BY <1>1, AtFacts
<1>4. ToSet(At(s, P)) = ToSet(s) \cap T
  BY <1>3 DEF ToSet
<1>5. At(s, P) \in Seq(S \cap T)
  <2>1. \A n \in 1..Len(At(s, P)) : At(s, P)[n] \in S \cap T
    <3> DEFINE u == At(s, P)
    <3>1. u \in Seq(S) /\ ToSet(u) = ToSet(s) \cap T
      BY <1>3, <1>4
    <3> HIDE DEF u
    <3>2. \A n \in 1..Len(u) : u[n] \in S /\ n \in DOMAIN u
      BY <3>1
    <3>3. \A n \in 1..Len(u) : u[n] \in T
      BY <3>1, <3>2 DEF ToSet
    <3>4. QED
      BY <3>2, <3>3 DEF u
  <2> DEFINE u == At(s, P)
  <2>2. u \in Seq(S) /\ \A n \in 1..Len(u) : u[n] \in S \cap T
    BY <1>3, <2>1
  <2>3. QED
    <3> HIDE DEF u
    <3>1. Len(u) \in Nat /\ u = [n \in 1..Len(u) |-> u[n]]
      BY <2>2
    <3>2. u \in Seq(S \cap T)
      BY <2>2, <3>1
    <3>3. QED
      BY <3>2 DEF u
<1>6. ASSUME IsInjective(s) PROVE IsInjective(At(s, P))
  <2>1. \A h, i \in P : s[h] = s[i] => h = i
    BY <1>6 DEF IsInjective
  <2>2. DOMAIN At(s, P) = 1..Cardinality(P)
    BY <1>3
  <2>3. QED
    BY <1>1, <2>1, <2>2, AtFacts DEF IsInjective
<1>7. QED
  BY <1>1, <1>4, <1>5, <1>6

\* list(dict.fromkeys(s)) has the elements of s, each once.
LEMMA DistinctFacts ==
    ASSUME NEW S, NEW s \in Seq(S)
    PROVE  Distinct(s) \in Seq(S) /\ ToSet(Distinct(s)) = ToSet(s) /\ IsInjective(Distinct(s))
<1> DEFINE P == {i \in DOMAIN s : \A j \in DOMAIN s : j < i => s[j] # s[i]}
<1>1. P \in SUBSET DOMAIN s /\ Distinct(s) = At(s, P)
  BY DEF Distinct
<1>2. Len(s) \in Nat /\ DOMAIN s = 1..Len(s)
  OBVIOUS
<1>3. /\ Cardinality(P) \in Nat /\ At(s, P) \in Seq(S) /\ Len(At(s, P)) = Cardinality(P)
      /\ ToSet(At(s, P)) = {s[i] : i \in P}
  BY <1>1, AtFacts
<1>4. ASSUME NEW i \in DOMAIN s PROVE \E h \in P : s[h] = s[i]
  <2> DEFINE Same == {j \in DOMAIN s : s[j] = s[i]}
  <2>1. Same \in SUBSET Nat /\ Same # {}
    BY <1>2
  <2>2. PICK h \in Same : \A j \in Same : h <= j
    <3> HIDE DEF Same
    <3>1. QED
      BY <2>1, Least
  <2>3. \A j \in DOMAIN s : j < h => s[j] # s[h]
    BY <1>2, <2>2
  <2>4. QED
    BY <2>2, <2>3
<1>5. ToSet(At(s, P)) = ToSet(s)
  <2> HIDE DEF P
  <2>1. \A i \in P : i \in DOMAIN s
    BY <1>1
  <2>2. QED
    BY <1>3, <1>4, <2>1 DEF ToSet
<1>6. \A h, i \in P : s[h] = s[i] => h = i
  <2>1. SUFFICES ASSUME NEW h \in P, NEW i \in P, s[h] = s[i] PROVE h = i
    OBVIOUS
  <2>2. h \in Nat /\ i \in Nat
    BY <1>2
  <2>3. ~(h < i) /\ ~(i < h)
    BY <2>1
  <2>4. QED
    BY <2>2, <2>3
<1>7. DOMAIN At(s, P) = 1..Cardinality(P)
  BY <1>3
<1>8. IsInjective(At(s, P))
  <2> HIDE DEF P
  <2>1. QED
    BY <1>1, <1>6, <1>7, AtFacts DEF IsInjective
<1>9. QED
  BY <1>1, <1>3, <1>5, <1>8

\* The first n: all of them, or n.
LEMMA FirstOfFacts ==
    ASSUME NEW S, NEW s \in Seq(S), NEW n \in Nat
    PROVE  /\ FirstOf(n, s) \in Seq(S) /\ ToSet(FirstOf(n, s)) \subseteq ToSet(s)
           /\ Len(FirstOf(n, s)) = IF Len(s) < n THEN Len(s) ELSE n
           /\ \A i \in 1..Len(FirstOf(n, s)) : FirstOf(n, s)[i] = s[i]
           /\ Len(s) <= n => FirstOf(n, s) = s
           /\ IsInjective(s) => IsInjective(FirstOf(n, s))
<1> DEFINE m == IF Len(s) < n THEN Len(s) ELSE n
<1>1. m \in Nat /\ m <= Len(s) /\ Len(s) \in Nat
  OBVIOUS
<1>2. FirstOf(n, s) = [i \in 1..m |-> s[i]]
  BY DEF FirstOf
<1>3. \A i \in 1..m : s[i] \in S /\ i \in DOMAIN s
  BY <1>1
<1>4. FirstOf(n, s) \in Seq(S) /\ Len(FirstOf(n, s)) = m
  <2> HIDE DEF m
  <2>1. QED
    BY <1>1, <1>2, <1>3
<1>5. ToSet(FirstOf(n, s)) \subseteq ToSet(s)
  <2> HIDE DEF m
  <2>1. QED
    BY <1>2, <1>3 DEF ToSet
<1>6. ASSUME Len(s) <= n PROVE FirstOf(n, s) = s
  <2>1. m = Len(s)
    BY <1>1, <1>6
  <2>2. s = [i \in 1..Len(s) |-> s[i]]
    OBVIOUS
  <2>3. QED
    BY <1>2, <2>1, <2>2
<1>7. ASSUME IsInjective(s) PROVE IsInjective(FirstOf(n, s))
  <2> HIDE DEF m
  <2>1. QED
    BY <1>2, <1>3, <1>7 DEF IsInjective
<1>8. QED
  <2>1. \A i \in 1..Len(FirstOf(n, s)) : FirstOf(n, s)[i] = s[i]
    <3> HIDE DEF m
    <3>1. QED
      BY <1>2, <1>4
  <2>2. QED
    BY <1>4, <1>5, <1>6, <1>7, <2>1

\* A list has finitely many elements, as many as it is long if none is there twice.
LEMMA Counted ==
    ASSUME NEW S, NEW s \in Seq(S)
    PROVE  /\ IsFiniteSet(ToSet(s)) /\ Cardinality(ToSet(s)) \in Nat /\ Cardinality(ToSet(s)) <= Len(s)
           /\ IsInjective(s) => Cardinality(ToSet(s)) = Len(s)
<1>1. Len(s) \in Nat /\ DOMAIN s = 1..Len(s)
  OBVIOUS
<1>2. IsFiniteSet(1..Len(s)) /\ Cardinality(1..Len(s)) = Len(s)
  <2>1. Len(s) \in Int /\ 1 \in Int
    BY <1>1
  <2>2. QED
    BY <1>1, <2>1, FS_Interval, SMTT(30)
<1>3. s \in [1..Len(s) -> ToSet(s)]
  BY <1>1 DEF ToSet
<1>4. s \in Surjection(1..Len(s), ToSet(s))
  <2>1. \A x \in ToSet(s) : \E i \in 1..Len(s) : s[i] = x
    BY <1>1 DEF ToSet
  <2>2. QED
    BY <1>3, <2>1, Fun_IsSurj
<1>5. IsInjective(s) => s \in Injection(1..Len(s), ToSet(s))
  BY <1>1, <1>3 DEF Injection, IsInjective
<1>6. QED
  BY <1>1, <1>2, <1>4, <1>5, FS_Surjection, FS_CardinalityType

\* The elements of a concatenation.
LEMMA Joined ==
    ASSUME NEW S, NEW s \in Seq(S), NEW t \in Seq(S)
    PROVE  s \o t \in Seq(S) /\ ToSet(s \o t) = ToSet(s) \cup ToSet(t)
<1>1. /\ s \o t \in Seq(S) /\ Len(s) \in Nat /\ Len(t) \in Nat
      /\ DOMAIN (s \o t) = 1..(Len(s) + Len(t)) /\ DOMAIN s = 1..Len(s) /\ DOMAIN t = 1..Len(t)
  OBVIOUS
<1>2. \A i \in DOMAIN s : i \in DOMAIN (s \o t) /\ (s \o t)[i] = s[i]
  BY <1>1
<1>3. \A i \in DOMAIN t : Len(s) + i \in DOMAIN (s \o t) /\ (s \o t)[Len(s) + i] = t[i]
  BY <1>1
<1>4. \A i \in DOMAIN (s \o t) : \/ i \in DOMAIN s
                                 \/ i - Len(s) \in DOMAIN t /\ (s \o t)[i] = t[i - Len(s)]
  BY <1>1
<1>5. ToSet(s \o t) \subseteq ToSet(s) \cup ToSet(t)
  <2>1. SUFFICES ASSUME NEW i \in DOMAIN (s \o t)
                 PROVE  (s \o t)[i] \in ToSet(s) \cup ToSet(t)
    BY DEF ToSet
  <2>2. QED
    BY <1>2, <1>4 DEF ToSet
<1>6. ToSet(s) \subseteq ToSet(s \o t)
  <2>1. \A i \in DOMAIN s : s[i] \in ToSet(s \o t)
    BY <1>2 DEF ToSet
  <2>2. QED
    BY <2>1 DEF ToSet
<1>7. ToSet(t) \subseteq ToSet(s \o t)
  <2>1. \A i \in DOMAIN t : t[i] \in ToSet(s \o t)
    BY <1>3 DEF ToSet
  <2>2. QED
    BY <2>1 DEF ToSet
<1>8. QED
  BY <1>1, <1>5, <1>6, <1>7

-----------------------------------------------------------------------------
(* The router                                                              *)

\* What the safety nets leave out of scope has no word of the warehouse, asks for no
\* overview and names no table.
LEMMA NetsCatch ==
    ASSUME NEW q, NEW h, NEW prior, NEW tables, NEW i, NEW c, NEW w, NEW by,
           apply_safety_nets(Decision(i, c, w, by), q, h, prior, tables).intent = "out_of_scope"
    PROVE  ~has_warehouse_intent(q) /\ ~is_catalog_overview_question(q) /\ ~_has_overlap(q, tables, FALSE)
BY DEF apply_safety_nets, Decision

\* Whatever route returns comes out of the safety nets.
LEMMA NetsLast ==
    ASSUME NEW q, NEW rewordings, NEW h, NEW prior, NEW tables,
           NEW r \in Routed(q, rewordings, h, prior, tables)
    PROVE  \E i \in Intents : \E c, w, by : r.decision = apply_safety_nets(Decision(i, c, w, by), q, h, prior, tables)
<1> DEFINE rails == fallback(q, h, prior, tables)
           Outcome(o) == \E i \in Intents : \E c, w, by : o[1] = Decision(i, c, w, by)
           outcomes == IF ~PreferLlm THEN {<<rails, 0>>}
                       ELSE (Replies(q, rewordings) \X {1, 2}) \cup {<<rails, 1>>, <<rails, 2>>}
<1>1. \E i \in Intents : \E c, w, by : rails = Decision(i, c, w, by)
  BY DEF fallback, Intents
<1>2. \A d \in Replies(q, rewordings) : \E i \in Intents : \E c, w, by : d = Decision(i, c, w, by)
  BY DEF Replies
<1>3. \A o \in outcomes : Outcome(o)
  <2> HIDE DEF rails
  <2>1. \A o \in Replies(q, rewordings) \X {1, 2} : Outcome(o)
    BY <1>2
  <2>2. QED
    BY <1>1, <2>1
<1>4. PICK o \in outcomes : r.decision = apply_safety_nets(o[1], q, h, prior, tables)
  BY DEF Routed
<1>5. QED
  BY <1>3, <1>4

\* The verdict of route_intent_node, after a follow-up of nothing was routed again.
LEMMA RoutedRefusal ==
    ASSUME NEW q, NEW h, NEW tables, NEW d, NEW r \in Routed(q, Rewordings, h, priorSql # NoPrior, tables),
           d = IF r.decision.intent = "follow_up" /\ priorSql = NoPrior
               THEN fallback(q, h, FALSE, tables) ELSE r.decision,
           d.intent = "out_of_scope"
    PROVE  /\ ~has_warehouse_intent(q) /\ ~is_catalog_overview_question(q)
           /\ \/ ~_has_overlap(q, tables, FALSE)
              \/ d.source = "fallback" /\ _looks_like_trivia(q)
<1>1. CASE r.decision.intent = "follow_up" /\ priorSql = NoPrior
  BY <1>1 DEF fallback, Decision, has_analytics_intent, has_warehouse_intent
<1>2. CASE ~(r.decision.intent = "follow_up" /\ priorSql = NoPrior)
  <2>1. PICK i \in Intents : \E c, w, by :
          r.decision = apply_safety_nets(Decision(i, c, w, by), q, h, priorSql # NoPrior, tables)
    BY NetsLast
  <2>2. PICK c, w, by :
          r.decision = apply_safety_nets(Decision(i, c, w, by), q, h, priorSql # NoPrior, tables)
    BY <2>1
  <2>3. QED
    BY <1>2, <2>2, NetsCatch
<1>3. QED
  BY <1>1, <1>2

\* A context without a word of the question has none without its columns.
LEMMA OverlapGrows ==
    ASSUME NEW q, NEW tables, NEW columns \in BOOLEAN, ~_has_overlap(q, tables, columns)
    PROVE  ~_has_overlap(q, tables, FALSE)
BY DEF _has_overlap

\* Every step keeps what a refusal rests on.
LEMMA JudgedStep ==
    ASSUME Judged, [Next]_vars
    PROVE  Judged'
<1> USE DEF Judged, prepared, understood, entities, retrieved
<1>1. CASE RouteIntent
  <2> USE <1>1 DEF RouteIntent, Ran
  <2>1. PICK r \in Routed(question, Rewordings, history, priorSql # NoPrior, CatalogNames) :
           decision' = Rerouted(r.decision)
    OBVIOUS
  <2>2. RefusedByRouter'
    BY <2>1, RoutedRefusal DEF RefusedByRouter, Rerouted, CatalogNames
  <2>3. scope' = "answerable"
    BY DEF Undecided
  <2>4. QED
    BY <2>2, <2>3 DEF Undecided, RefusalsJustified
<1>2. CASE LinkEntities
  <2> USE <1>2 DEF LinkEntities, Ran
  <2>1. scope' = "answerable"
    BY DEF Undecided
  <2>2. RefusedByRouter'
    BY DEF RefusedByRouter, CatalogNames
  <2>3. QED
    BY <2>1, <2>2 DEF Undecided, RefusalsJustified
<1>3. CASE RetrieveAndLink
  <2> USE <1>3 DEF RetrieveAndLink, Ran
  <2>1. scope' = "answerable"
    BY DEF Undecided
  <2>2. RefusedByRouter'
    BY DEF RefusedByRouter, CatalogNames
  <2>3. QED
    BY <2>1, <2>2 DEF Undecided, RefusalsJustified
<1>4. CASE AssessRelevance
  <2> USE <1>4 DEF AssessRelevance, Ran
  <2>1. RefusedByRouter'
    BY DEF RefusedByRouter, CatalogNames
  <2>2. Undecided'
    BY DEF Undecided
  <2>3. ASSUME scope' = "out_of_scope" PROVE RefusalsJustified'
    <3>1. CASE AsksModel
      <4>1. /\ ~trusted(decision) /\ ~has_warehouse_intent(question)
            /\ ~is_catalog_overview_question(question)
            /\ ~_has_overlap(question, RealTables(linked), FALSE)
        BY <3>1, OverlapGrows DEF AsksModel, AsksScopeModel, StaysInSqlPath
      <4>2. QED
        BY <4>1 DEF RefusalsJustified
    <3>2. CASE ~AsksModel
      <4>1. trusted(decision) /\ decision.intent = "out_of_scope"
        BY <2>3, <3>2 DEF AsksModel, Assessed, _scope_from_intent
      <4>2. QED
        BY <4>1 DEF RefusedByRouter, RefusalsJustified, CatalogNames
    <3>3. QED
      BY <3>1, <3>2
  <2>4. QED
    BY <2>1, <2>2, <2>3 DEF RefusalsJustified
<1>5. CASE ProviderFails
  BY <1>5 DEF ProviderFails, Ran, RefusedByRouter, Undecided, RefusalsJustified, CatalogNames
<1>6. CASE IndexBuilt
  BY <1>6 DEF IndexBuilt, RefusedByRouter, Undecided, RefusalsJustified, CatalogNames
<1>7. CASE UNCHANGED vars
  BY <1>7 DEF vars, RefusedByRouter, Undecided, RefusalsJustified, CatalogNames
<1>8. QED
  BY <1>1, <1>2, <1>3, <1>4, <1>5, <1>6, <1>7 DEF Next

\* A follow-up of nothing is routed again as what has no earlier SQL to follow, and
\* earlier SQL is kept for nothing else than what continues it.
LEMMA FollowedStep ==
    ASSUME PriorSqlFollowed, [Next]_vars
    PROVE  PriorSqlFollowed'
<1> USE DEF PriorSqlFollowed, Refined, prepared, understood, entities, retrieved
<1>1. CASE RouteIntent
  <2>1. PICK d : decision' = Rerouted(d) /\ priorSql' = PriorFor(d)
    BY <1>1 DEF RouteIntent
  <2>2. fallback(question, history, FALSE, CatalogNames).intent # "follow_up"
    BY DEF fallback, Decision
  <2>3. UNCHANGED <<question, history>>
    BY <1>1 DEF RouteIntent
  <2>4. QED
    BY <2>1, <2>2, <2>3 DEF Rerouted, PriorFor
<1>2. CASE LinkEntities \/ RetrieveAndLink \/ AssessRelevance
  BY <1>2 DEF LinkEntities, RetrieveAndLink, AssessRelevance, Ran
<1>3. CASE ProviderFails \/ IndexBuilt
  BY <1>3 DEF ProviderFails, IndexBuilt, Ran
<1>4. CASE UNCHANGED vars
  BY <1>4 DEF vars
<1>5. QED
  BY <1>1, <1>2, <1>3, <1>4 DEF Next

-----------------------------------------------------------------------------
(* The walk along foreign keys                                             *)

\* No step reaches the seeds, one more step what is adjacent to what was reached.
LEMMA WithinSteps ==
    ASSUME NEW S \in SUBSET Tables
    PROVE  /\ Within(S, 0) = S
           /\ \A d \in Nat : Within(S, d) \subseteq Tables
           /\ \A d \in Nat : \A u \in Within(S, d) : \A t \in {u} \cup Adjacent(u) : t \in Within(S, d + 1)
           /\ \A d \in Nat : \A t \in Within(S, d + 1) : \E u \in Within(S, d) : t \in {u} \cup Adjacent(u)
<1>1. Within(S, 0) \subseteq S
  BY DEF Within, Paths
<1>2. ASSUME NEW t \in S PROVE t \in Within(S, 0)
  <2> DEFINE p == [i \in 0..0 |-> t]
  <2>1. p \in [0..0 -> Tables] /\ p[0] \in S /\ p[0] = t
    OBVIOUS
  <2>2. p \in Paths(S, 0)
    BY <2>1 DEF Paths
  <2>3. QED
    BY <2>1, <2>2 DEF Within
<1>3. ASSUME NEW d \in Nat PROVE Within(S, d) \subseteq Tables
  BY DEF Within, Paths
<1>4. ASSUME NEW d \in Nat, NEW u \in Within(S, d), NEW t \in {u} \cup Adjacent(u)
      PROVE  t \in Within(S, d + 1)
  <2>1. PICK p \in Paths(S, d) : p[d] = u
    BY DEF Within
  <2> DEFINE q == [i \in 0..(d + 1) |-> IF i = d + 1 THEN t ELSE p[i]]
  <2>2. /\ p \in [0..d -> Tables] /\ p[0] \in S
        /\ \A i \in 1..d : p[i] \in {p[i - 1]} \cup Adjacent(p[i - 1])
    BY DEF Paths
  <2>3. t \in Tables
    BY <1>3 DEF Adjacent
  <2>4. q \in [0..(d + 1) -> Tables]
    BY <2>2, <2>3
  <2>5. q[0] = p[0] /\ q[d + 1] = t
    OBVIOUS
  <2>6. ASSUME NEW i \in 1..(d + 1) PROVE q[i] \in {q[i - 1]} \cup Adjacent(q[i - 1])
    <3>1. CASE i = d + 1
      <4>1. q[i] = t /\ q[i - 1] = u
        BY <2>1, <3>1
      <4>2. QED
        BY <4>1
    <3>2. CASE i # d + 1
      <4>1. i \in 1..d /\ i - 1 \in 0..d
        BY <3>2
      <4>2. q[i] = p[i] /\ q[i - 1] = p[i - 1]
        BY <4>1
      <4>3. QED
        BY <2>2, <4>1, <4>2
    <3>3. QED
      BY <3>1, <3>2
  <2>7. q \in Paths(S, d + 1)
    <3> HIDE DEF q
    <3>1. QED
      BY <2>2, <2>4, <2>5, <2>6 DEF Paths
  <2>8. QED
    <3> HIDE DEF q
    <3>1. QED
      BY <2>5, <2>7 DEF Within
<1>5. ASSUME NEW d \in Nat, NEW t \in Within(S, d + 1)
      PROVE  \E u \in Within(S, d) : t \in {u} \cup Adjacent(u)
  <2>1. PICK q \in Paths(S, d + 1) : q[d + 1] = t
    BY DEF Within
  <2> DEFINE p == [i \in 0..d |-> q[i]]
  <2>2. /\ q \in [0..(d + 1) -> Tables] /\ q[0] \in S
        /\ \A i \in 1..(d + 1) : q[i] \in {q[i - 1]} \cup Adjacent(q[i - 1])
    BY DEF Paths
  <2>3. p \in [0..d -> Tables] /\ p[0] = q[0] /\ p[d] = q[d]
    BY <2>2
  <2>4. \A i \in 1..d : i \in 1..(d + 1) /\ p[i] = q[i] /\ p[i - 1] = q[i - 1]
    OBVIOUS
  <2>5. p \in Paths(S, d)
    <3> HIDE DEF p
    <3>1. QED
      BY <2>2, <2>3, <2>4 DEF Paths
  <2>6. q[d] \in Within(S, d)
    <3> HIDE DEF p
    <3>1. QED
      BY <2>3, <2>5 DEF Within
  <2>7. t \in {q[d]} \cup Adjacent(q[d])
    <3>1. d + 1 \in 1..(d + 1) /\ (d + 1) - 1 = d
      OBVIOUS
    <3>2. QED
      BY <2>1, <2>2, <3>1
  <2>8. QED
    BY <2>6, <2>7
<1>6. QED
  BY <1>1, <1>2, <1>3, <1>4, <1>5

\* More steps reach no less.
LEMMA WithinGrows ==
    ASSUME NEW S \in SUBSET Tables, NEW c \in Nat, NEW d \in Nat, c <= d
    PROVE  Within(S, c) \subseteq Within(S, d)
<1> DEFINE T == {k \in Nat : Within(S, c) \subseteq Within(S, c + k)}
<1>1. 0 \in T
  OBVIOUS
<1>2. \A k \in Nat : k \in T => k + 1 \in T
  <2>1. SUFFICES ASSUME NEW k \in T PROVE Within(S, c + k) \subseteq Within(S, c + (k + 1))
    OBVIOUS
  <2>2. c + k \in Nat /\ c + (k + 1) = (c + k) + 1
    OBVIOUS
  <2>3. \A u \in Within(S, c + k) : u \in Within(S, (c + k) + 1)
    BY <2>2, WithinSteps
  <2>4. QED
    BY <2>2, <2>3
<1>3. d - c \in T
  <2> HIDE DEF T
  <2>1. Nat \subseteq T
    BY <1>1, <1>2, CountUp
  <2>2. QED
    BY <2>1
<1>4. c + (d - c) = d
  OBVIOUS
<1>5. QED
  BY <1>3, <1>4

\* The lists the walk goes through.
LEMMA WalkRun ==
    ASSUME NEW given, NEW hops
    PROVE  \E q : /\ q[0] = [i \in DOMAIN given |-> Reached(given[i], 0)]
                  /\ \A n \in 1..MaxTables : q[n] = Visit(q[n - 1], n, hops)
                  /\ Walk(given, hops) = Selected(q[MaxTables])
<1> DEFINE start == [i \in DOMAIN given |-> Reached(given[i], 0)]
           Run(f, m) == f = [n \in 0..m |-> IF n = 0 THEN start ELSE Visit(f[n - 1], n, hops)]
           T == {m \in Nat : \E f : Run(f, m)}
<1> HIDE DEF start
<1>1. 0 \in T
  <2> DEFINE f == [n \in 0..0 |-> start]
  <2>1. Run(f, 0)
    OBVIOUS
  <2>2. QED
    <3> HIDE DEF Run, f
    <3>1. QED
      BY <2>1
<1>2. \A m \in Nat : m \in T => m + 1 \in T
  <2>1. SUFFICES ASSUME NEW m \in T PROVE \E f : Run(f, m + 1)
    OBVIOUS
  <2>2. PICK f : Run(f, m)
    OBVIOUS
  <2> DEFINE g == [n \in 0..(m + 1) |-> IF n = m + 1 THEN Visit(f[m], m + 1, hops) ELSE f[n]]
  <2>3. m \in Nat
    OBVIOUS
  <2>4. \A n \in 0..m : g[n] = f[n]
    BY <2>3
  <2>5. \A n \in 0..m : f[n] = IF n = 0 THEN start ELSE Visit(f[n - 1], n, hops)
    BY <2>2
  <2>6. ASSUME NEW n \in 0..(m + 1)
        PROVE  g[n] = IF n = 0 THEN start ELSE Visit(g[n - 1], n, hops)
    <3>1. CASE n = m + 1
      <4>1. n # 0 /\ n - 1 = m /\ m \in 0..m
        BY <2>3, <3>1
      <4>2. g[n] = Visit(f[m], n, hops)
        BY <2>3, <3>1
      <4>3. QED
        BY <2>4, <4>1, <4>2
    <3>2. CASE n # m + 1
      <4>1. n \in 0..m /\ (n # 0 => n - 1 \in 0..m)
        BY <2>3, <3>2
      <4> HIDE DEF g
      <4>2. QED
        BY <2>4, <2>5, <4>1
    <3>3. QED
      BY <3>1, <3>2
  <2>7. g = [n \in 0..(m + 1) |-> g[n]]
    OBVIOUS
  <2>8. Run(g, m + 1)
    <3> HIDE DEF g
    <3>1. QED
      BY <2>6, <2>7
  <2>9. QED
    BY <2>8
<1>3. MaxTables \in T
  <2> HIDE DEF T
  <2>1. Nat \subseteq T
    BY <1>1, <1>2, CountUp
  <2>2. QED
    BY <2>1, LinkingBounds
<1> DEFINE q == CHOOSE f : Run(f, MaxTables)
<1>4. Run(q, MaxTables)
  BY <1>3
<1>5. Walk(given, hops) = Selected(q[MaxTables])
  BY DEF Walk, start
<1>6. QED
  <2> HIDE DEF q
  <2>1. q[0] = start /\ \A n \in 1..MaxTables : q[n] = Visit(q[n - 1], n, hops)
    BY <1>4, LinkingBounds
  <2>2. QED
    BY <1>5, <2>1 DEF start

Items(hops) == [table : Tables, hops : 0..hops]

\* The list of the walk: the seeds first, each table once and as many steps away as it
\* says at most, the nearer before the farther; longer than the limit only by seeds.
Sound(q, s, hops) ==
    /\ q \in Seq(Items(hops)) /\ IsInjective(Selected(q))
    /\ Len(s) <= Len(q) /\ \A i \in DOMAIN s : q[i] = Reached(s[i], 0)
    /\ Len(q) > MaxTables => Len(q) = Len(s)
    /\ \A i \in DOMAIN q : q[i].table \in Within(ToSet(s), q[i].hops)
    /\ \A i, j \in DOMAIN q : i <= j => q[i].hops <= q[j].hops

\* After n visits: nothing is more than one step farther than what is still to be
\* visited, and while there is room the neighbours of what was visited are listed.
Breadth(q, n, hops) ==
    /\ \A i, j \in DOMAIN q : n <= i => q[j].hops <= q[i].hops + 1
    /\ Len(q) < MaxTables =>
         \A i \in DOMAIN q : i <= n /\ q[i].hops < hops =>
           \A u \in Adjacent(q[i].table) : \E j \in DOMAIN q : q[j].table = u /\ q[j].hops <= q[i].hops + 1

\* Nothing is listed that is farther than something left out.
Layered(q, s, hops) ==
    \A d \in 0..hops : \/ ToSet(Selected(q)) \subseteq Within(ToSet(s), d)
                       \/ Within(ToSet(s), d) \subseteq ToSet(Selected(q))

\* The tables of a list.
LEMMA SelectedFacts ==
    ASSUME NEW hops \in Nat, NEW q \in Seq(Items(hops))
    PROVE  /\ Selected(q) \in Seq(Tables) /\ Len(Selected(q)) = Len(q)
           /\ \A i \in DOMAIN q : Selected(q)[i] = q[i].table
           /\ ToSet(Selected(q)) = {q[i].table : i \in DOMAIN q}
           /\ IsInjective(Selected(q)) <=> \A i, j \in DOMAIN q : q[i].table = q[j].table => i = j
<1>1. DOMAIN q = 1..Len(q) /\ Len(q) \in Nat /\ \A i \in DOMAIN q : q[i].table \in Tables
  <2>1. DOMAIN q = 1..Len(q) /\ Len(q) \in Nat /\ \A i \in DOMAIN q : q[i] \in Items(hops)
    OBVIOUS
  <2>2. QED
    BY <2>1 DEF Items
<1>2. Selected(q) = [i \in DOMAIN q |-> q[i].table]
  BY DEF Selected
<1>3. Selected(q) \in Seq(Tables) /\ Len(Selected(q)) = Len(q)
  BY <1>1, <1>2
<1>4. QED
  BY <1>2, <1>3 DEF ToSet, IsInjective

\* The walk starts from the seeds.
LEMMA WalkStarts ==
    ASSUME NEW hops \in Nat, NEW s \in Seq(Tables), IsInjective(s),
           NEW q, q = [i \in DOMAIN s |-> Reached(s[i], 0)]
    PROVE  Sound(q, s, hops) /\ Breadth(q, 0, hops) /\ Layered(q, s, hops)
<1>1. DOMAIN s = 1..Len(s) /\ Len(s) \in Nat /\ \A i \in DOMAIN s : s[i] \in Tables
  OBVIOUS
<1>2. \A i \in DOMAIN s : q[i] = Reached(s[i], 0) /\ q[i].table = s[i] /\ q[i].hops = 0
  BY DEF Reached
<1>3. DOMAIN q = DOMAIN s /\ q \in Seq(Items(hops)) /\ Len(q) = Len(s)
  <2>1. \A i \in 1..Len(s) : Reached(s[i], 0) \in Items(hops)
    BY <1>1 DEF Reached, Items
  <2>2. QED
    BY <1>1, <2>1
<1>4. IsInjective(Selected(q)) /\ ToSet(Selected(q)) = ToSet(s)
  <2>1. \A i, j \in DOMAIN q : q[i].table = q[j].table => i = j
    BY <1>2, <1>3 DEF IsInjective
  <2>2. {q[i].table : i \in DOMAIN q} = {s[i] : i \in DOMAIN s}
    BY <1>2, <1>3
  <2>3. IsInjective(Selected(q)) /\ ToSet(Selected(q)) = {q[i].table : i \in DOMAIN q}
    <3>1. q \in Seq(Items(hops))
      BY <1>3
    <3>2. /\ ToSet(Selected(q)) = {q[i].table : i \in DOMAIN q}
          /\ IsInjective(Selected(q)) <=> \A i, j \in DOMAIN q : q[i].table = q[j].table => i = j
      BY <3>1, SelectedFacts, ZenonT(30)
    <3>3. QED
      BY <2>1, <3>2
  <2>4. ToSet(s) = {s[i] : i \in DOMAIN s}
    BY DEF ToSet
  <2>5. QED
    BY <2>2, <2>3, <2>4
<1>5. ToSet(s) \in SUBSET Tables
  BY <1>1 DEF ToSet
<1>6. Within(ToSet(s), 0) = ToSet(s)
  BY <1>5, WithinSteps
<1>7. \A i \in DOMAIN s : s[i] \in ToSet(s)
  BY DEF ToSet
<1>8. Sound(q, s, hops)
  BY <1>1, <1>2, <1>3, <1>4, <1>6, <1>7 DEF Sound
<1>9. Breadth(q, 0, hops)
  BY <1>1, <1>2, <1>3 DEF Breadth
<1>10. Layered(q, s, hops)
  <2>1. \A d \in 0..hops : Within(ToSet(s), 0) \subseteq Within(ToSet(s), d)
    BY <1>5, WithinGrows
  <2>2. QED
    BY <1>4, <1>6, <2>1 DEF Layered
<1>11. QED
  BY <1>8, <1>9, <1>10

\* A visit that may add something appends the new neighbours, as many as there is room.
LEMMA VisitAdds ==
    ASSUME NEW hops \in Nat, NEW q \in Seq(Items(hops)), NEW n \in 1..Len(q),
           Len(q) < MaxTables, q[n].hops < hops
    PROVE  \E found \in Seq(Tables) :
             LET v == Visit(q, n, hops) IN
             /\ IsInjective(found)
             /\ ToSet(found) = Adjacent(q[n].table) \ ToSet(Selected(q))
             /\ v \in Seq(Items(hops))
             /\ Len(q) <= Len(v) /\ Len(v) <= Len(q) + Len(found) /\ Len(v) <= MaxTables
             /\ Len(v) < MaxTables => Len(v) = Len(q) + Len(found)
             /\ \A i \in 1..Len(q) : v[i] = q[i]
             /\ \A i \in (Len(q) + 1)..Len(v) : v[i] = Reached(found[i - Len(q)], q[n].hops + 1)
<1> DEFINE found == Only(Neighbours(q[n].table), Tables \ ToSet(Selected(q)))
           new == [i \in DOMAIN found |-> Reached(found[i], q[n].hops + 1)]
           v == Visit(q, n, hops)
<1>1. Len(q) \in Nat /\ MaxTables \in Nat /\ q[n] \in Items(hops)
  BY LinkingBounds
<1>2. /\ TableOrder \in Seq(Tables) /\ ToSet(TableOrder) = Tables /\ IsInjective(TableOrder)
  BY OrderAssumption
<1>3. /\ Neighbours(q[n].table) \in Seq(Tables) /\ IsInjective(Neighbours(q[n].table))
      /\ ToSet(Neighbours(q[n].table)) = Adjacent(q[n].table)
  <2>1. Adjacent(q[n].table) \subseteq Tables
    BY DEF Adjacent
  <2>2. Only(TableOrder, Adjacent(q[n].table)) \in Seq(Tables \cap Adjacent(q[n].table))
    BY <1>2, OnlyFacts
  <2>3. Only(TableOrder, Adjacent(q[n].table)) \in Seq(Tables)
    BY <2>2
  <2>4. Tables \cap Adjacent(q[n].table) = Adjacent(q[n].table)
    BY <2>1
  <2>5. /\ ToSet(Only(TableOrder, Adjacent(q[n].table))) = Tables \cap Adjacent(q[n].table)
        /\ IsInjective(Only(TableOrder, Adjacent(q[n].table)))
    BY <1>2, OnlyFacts
  <2>6. QED
    BY <2>3, <2>4, <2>5 DEF Neighbours
<1>4. /\ found \in Seq(Tables) /\ IsInjective(found)
      /\ ToSet(found) = Adjacent(q[n].table) \ ToSet(Selected(q))
  <2> DEFINE near == Neighbours(q[n].table)
             free == Tables \ ToSet(Selected(q))
  <2>1. found = Only(near, free)
    OBVIOUS
  <2>2. near \in Seq(Tables) /\ IsInjective(near) /\ ToSet(near) = Adjacent(q[n].table)
    BY <1>3
  <2>3. Adjacent(q[n].table) \subseteq Tables /\ free = Tables \ ToSet(Selected(q))
    BY DEF Adjacent
  <2> HIDE DEF found, near, free
  <2>4. found \in Seq(Tables \cap free) /\ ToSet(found) = Adjacent(q[n].table) \cap free /\ IsInjective(found)
    BY <2>1, <2>2, OnlyFacts, SMTT(30)
  <2>5. found \in Seq(Tables)
    BY <2>4
  <2>6. QED
    BY <2>3, <2>4, <2>5
<1>5. v = FirstOf(MaxTables, q \o new)
  <2>1. q[n].hops \in Nat
    BY <1>1 DEF Items
  <2>2. ~(n > Len(q)) /\ ~(Len(q) >= MaxTables) /\ ~(q[n].hops >= hops)
    BY <1>1, <2>1
  <2>3. Visit(q, n, hops) = FirstOf(MaxTables, q \o new)
    <3> HIDE DEF v
    <3>1. QED
      BY <2>2, Zenon DEF Visit
  <2>4. QED
    BY <2>3
<1> HIDE DEF found, v
<1>6. new \in Seq(Items(hops)) /\ Len(new) = Len(found) /\ \A i \in 1..Len(found) : new[i] = Reached(found[i], q[n].hops + 1)
  <2>1. q[n].hops + 1 \in 0..hops
    BY <1>1 DEF Items
  <2>2. \A i \in 1..Len(found) : Reached(found[i], q[n].hops + 1) \in Items(hops)
    BY <1>4, <2>1 DEF Reached, Items
  <2>3. DOMAIN found = 1..Len(found) /\ Len(found) \in Nat
    BY <1>4
  <2>4. QED
    BY <2>2, <2>3
<1> HIDE DEF new
<1>7. /\ q \o new \in Seq(Items(hops)) /\ Len(q \o new) = Len(q) + Len(found) /\ Len(found) \in Nat
      /\ \A i \in 1..Len(q) : (q \o new)[i] = q[i]
      /\ \A i \in (Len(q) + 1)..(Len(q) + Len(found)) : (q \o new)[i] = new[i - Len(q)] /\ i - Len(q) \in 1..Len(found)
  <2>1. Len(found) \in Nat /\ Len(q) \in Nat
    BY <1>1, <1>4
  <2>2. QED
    BY <1>6, <2>1, SMTT(30)
<1>8. /\ v \in Seq(Items(hops))
      /\ Len(v) = IF Len(q) + Len(found) < MaxTables THEN Len(q) + Len(found) ELSE MaxTables
      /\ \A i \in 1..Len(v) : v[i] = (q \o new)[i]
  <2> DEFINE longer == q \o new
  <2>1. longer \in Seq(Items(hops)) /\ MaxTables \in Nat /\ v = FirstOf(MaxTables, longer)
        /\ Len(longer) = Len(q) + Len(found)
    BY <1>1, <1>5, <1>7
  <2> HIDE DEF longer
  <2>2. /\ v \in Seq(Items(hops)) /\ Len(v) = IF Len(longer) < MaxTables THEN Len(longer) ELSE MaxTables
        /\ \A i \in 1..Len(v) : v[i] = longer[i]
    BY <2>1, FirstOfFacts
  <2>3. QED
    BY <2>1, <2>2 DEF longer
<1>9. Len(v) \in Nat /\ Len(q) <= Len(v) /\ Len(v) <= Len(q) + Len(found) /\ Len(v) <= MaxTables
      /\ (Len(v) < MaxTables => Len(v) = Len(q) + Len(found))
  BY <1>1, <1>7, <1>8
<1>10. \A i \in 1..Len(q) : v[i] = q[i]
  BY <1>1, <1>7, <1>8, <1>9
<1>11. ASSUME NEW i \in (Len(q) + 1)..Len(v) PROVE v[i] = Reached(found[i - Len(q)], q[n].hops + 1)
  <2>1. i \in 1..Len(v) /\ i \in (Len(q) + 1)..(Len(q) + Len(found))
    BY <1>1, <1>7, <1>9
  <2>2. QED
    BY <1>6, <1>7, <1>8, <2>1
<1>12. QED
  BY <1>4, <1>8, <1>9, <1>10, <1>11 DEF v

\* What a list of items gives, one fact at a time.
LEMMA ItemFacts ==
    ASSUME NEW hops \in Nat, NEW q \in Seq(Items(hops))
    PROVE  /\ Len(q) \in Nat /\ DOMAIN q = 1..Len(q)
           /\ \A i \in DOMAIN q : q[i] \in Items(hops) /\ q[i].table \in Tables /\ q[i].hops \in 0..hops
<1>1. Len(q) \in Nat /\ DOMAIN q = 1..Len(q) /\ \A i \in DOMAIN q : q[i] \in Items(hops)
  OBVIOUS
<1>2. QED
  BY <1>1 DEF Items

\* While there is room, what is as near as what has been visited is listed.
LEMMA NearListed ==
    ASSUME NEW hops \in Nat, NEW s \in Seq(Tables), NEW q, NEW n \in Nat, NEW h \in 0..hops,
           Sound(q, s, hops), Breadth(q, n, hops), Len(q) < MaxTables,
           \A i \in DOMAIN q : q[i].hops < h => i <= n
    PROVE  \A d \in 0..h : Within(ToSet(s), d) \subseteq ToSet(Selected(q))
<1> DEFINE S == ToSet(s)
           Listed(d) == \A t \in Within(S, d) : \E j \in DOMAIN q : q[j].table = t /\ q[j].hops <= d
           T == {d \in Nat : d <= h => Listed(d)}
<1>1. S \in SUBSET Tables
  BY DEF ToSet
<1>2. q \in Seq(Items(hops))
  BY DEF Sound
<1>3. DOMAIN q = 1..Len(q) /\ Len(q) \in Nat /\ \A i \in DOMAIN q : q[i].hops \in 0..hops
  BY <1>2, ItemFacts
<1>4. Listed(0)
  <2>1. SUFFICES ASSUME NEW t \in S PROVE \E j \in DOMAIN q : q[j].table = t /\ q[j].hops <= 0
    BY <1>1, WithinSteps
  <2>2. PICK j \in DOMAIN s : s[j] = t
    BY DEF ToSet
  <2>3. Len(s) <= Len(q) /\ q[j] = Reached(s[j], 0)
    BY DEF Sound
  <2>4. j \in DOMAIN q
    BY <1>3, <2>3
  <2>5. QED
    BY <2>2, <2>3, <2>4 DEF Reached
<1>5. ASSUME NEW d \in Nat, d + 1 <= h, Listed(d) PROVE Listed(d + 1)
  <2>1. SUFFICES ASSUME NEW t \in Within(S, d + 1)
                 PROVE  \E j \in DOMAIN q : q[j].table = t /\ q[j].hops <= d + 1
    OBVIOUS
  <2>2. PICK u \in Within(S, d) : t \in {u} \cup Adjacent(u)
    BY <1>1, WithinSteps
  <2>3. PICK i \in DOMAIN q : q[i].table = u /\ q[i].hops <= d
    BY <1>5
  <2>4. q[i].hops < h /\ q[i].hops < hops /\ i <= n
    BY <1>3, <1>5, <2>3
  <2>5. CASE t = u
    BY <1>3, <2>3, <2>5
  <2>6. CASE t \in Adjacent(u)
    <3>1. PICK j \in DOMAIN q : q[j].table = t /\ q[j].hops <= q[i].hops + 1
      BY <2>3, <2>4, <2>6 DEF Breadth
    <3>2. QED
      BY <1>3, <2>3, <3>1
  <2>7. QED
    BY <2>2, <2>5, <2>6
<1> HIDE DEF Listed
<1>6. 0 \in T /\ \A d \in Nat : d \in T => d + 1 \in T
  BY <1>4, <1>5
<1>7. \A d \in 0..h : Listed(d)
  <2>1. Nat \subseteq T
    <3> HIDE DEF T
    <3>1. QED
      BY <1>6, CountUp
  <2>2. QED
    BY <2>1
<1>8. QED
  BY <1>2, <1>7, SelectedFacts DEF Listed

\* A visit keeps the list sound, in the order of the distances and without gaps.
LEMMA VisitKeeps ==
    ASSUME NEW hops \in Nat, NEW s \in Seq(Tables), NEW q, NEW n \in Nat,
           Sound(q, s, hops), Breadth(q, n, hops), Layered(q, s, hops)
    PROVE  LET v == Visit(q, n + 1, hops)
           IN  Sound(v, s, hops) /\ Breadth(v, n + 1, hops) /\ Layered(v, s, hops)
<1> DEFINE S == ToSet(s)
           v == Visit(q, n + 1, hops)
<1>1. S \in SUBSET Tables
  BY DEF ToSet
<1>2. q \in Seq(Items(hops))
  BY DEF Sound
<1>3. /\ DOMAIN q = 1..Len(q) /\ Len(q) \in Nat /\ MaxTables \in Nat
      /\ \A i \in DOMAIN q : q[i].hops \in 0..hops /\ q[i].table \in Tables
  BY <1>2, ItemFacts, LinkingBounds
<1>4. CASE n + 1 > Len(q) \/ Len(q) >= MaxTables \/ q[n + 1].hops >= hops
  <2>1. v = q
    BY <1>4 DEF Visit
  <2>2. \A i, j \in DOMAIN q : n + 1 <= i => q[j].hops <= q[i].hops + 1
    BY <1>3 DEF Breadth
  <2>3. \A i \in DOMAIN q : i <= n + 1 /\ q[i].hops < hops /\ Len(q) < MaxTables => i <= n
    BY <1>3, <1>4
  <2>4. Breadth(q, n + 1, hops)
    BY <2>2, <2>3 DEF Breadth
  <2> HIDE DEF v
  <2>5. QED
    BY <2>1, <2>4 DEF v
<1>5. CASE ~(n + 1 > Len(q) \/ Len(q) >= MaxTables \/ q[n + 1].hops >= hops)
  <2>1. n + 1 \in 1..Len(q) /\ n + 1 \in DOMAIN q /\ Len(q) < MaxTables
    BY <1>3, <1>5
  <2>2. q[n + 1].hops < hops
    BY <1>3, <1>5, <2>1
  <2> DEFINE h == q[n + 1].hops
             here == q[n + 1].table
  <2>3. PICK found \in Seq(Tables) :
             /\ IsInjective(found)
             /\ ToSet(found) = Adjacent(here) \ ToSet(Selected(q))
             /\ v \in Seq(Items(hops))
             /\ Len(q) <= Len(v) /\ Len(v) <= Len(q) + Len(found) /\ Len(v) <= MaxTables
             /\ Len(v) < MaxTables => Len(v) = Len(q) + Len(found)
             /\ \A i \in 1..Len(q) : v[i] = q[i]
             /\ \A i \in (Len(q) + 1)..Len(v) : v[i] = Reached(found[i - Len(q)], h + 1)
    BY <1>2, <2>1, <2>2, VisitAdds
  <2>4. h \in Nat /\ h + 1 \in 0..hops /\ here \in Tables
    BY <1>3, <2>1, <2>2
  <2>5. Len(v) \in Nat /\ DOMAIN v = 1..Len(v) /\ Len(found) \in Nat /\ DOMAIN found = 1..Len(found)
    BY <2>3
  <2>6. here \in Within(S, h)
    BY <2>1 DEF Sound
  <2> HIDE DEF v, h, here
  <2> DEFINE New == (Len(q) + 1)..Len(v)
  <2>7. /\ \A i \in DOMAIN v : i \in DOMAIN q \/ i \in New
        /\ \A i \in New : i \in DOMAIN v /\ i - Len(q) \in DOMAIN found /\ i > Len(q)
        /\ \A i \in DOMAIN q : i \in DOMAIN v /\ v[i] = q[i]
    <3>1. Len(v) <= Len(q) + Len(found) /\ Len(q) <= Len(v) /\ \A i \in 1..Len(q) : v[i] = q[i]
      BY <2>3
    <3> HIDE DEF v
    <3>2. \A i \in 1..Len(v) : i \in 1..Len(q) \/ i \in New
      BY <1>3, <2>5, <3>1
    <3>3. \A i \in New : i \in 1..Len(v) /\ i - Len(q) \in 1..Len(found) /\ i > Len(q)
      BY <1>3, <2>5, <3>1
    <3>4. \A i \in 1..Len(q) : i \in 1..Len(v)
      BY <1>3, <2>5, <3>1
    <3>5. QED
      BY <1>3, <2>5, <3>1, <3>2, <3>3, <3>4
  <2>8. ASSUME NEW i \in New
        PROVE  /\ v[i].hops = h + 1 /\ v[i].table = found[i - Len(q)]
               /\ v[i].table \in Adjacent(here) /\ v[i].table \notin ToSet(Selected(q))
    <3>1. v[i] = Reached(found[i - Len(q)], h + 1)
      BY <2>3
    <3>2. found[i - Len(q)] \in ToSet(found)
      BY <2>7 DEF ToSet
    <3>3. QED
      BY <2>3, <3>1, <3>2 DEF Reached
  <2>9. \A i \in DOMAIN q : q[i].table \in ToSet(Selected(q))
    BY <1>2, SelectedFacts
  <2>10. \A i \in DOMAIN q : q[i].hops <= h + 1
    BY <1>3, <2>1, SMTT(30) DEF Breadth, h
  <2>11. \A i \in DOMAIN q : n + 1 <= i => h <= q[i].hops
    BY <2>1 DEF Sound, h
  <2>12. Sound(v, s, hops)
    <3>1. IsInjective(Selected(v))
      <4>1. SUFFICES ASSUME NEW i \in DOMAIN v, NEW j \in DOMAIN v, v[i].table = v[j].table
                     PROVE  i = j
        BY <2>3, SelectedFacts
      <4>2. CASE i \in DOMAIN q /\ j \in DOMAIN q
        <5>1. \A a, b \in DOMAIN q : q[a].table = q[b].table => a = b
          BY <1>2, SelectedFacts DEF Sound
        <5>2. QED
          BY <2>7, <4>1, <4>2, <5>1
      <4>3. CASE i \in DOMAIN q /\ j \in New
        BY <2>7, <2>8, <2>9, <4>1, <4>3
      <4>4. CASE i \in New /\ j \in DOMAIN q
        BY <2>7, <2>8, <2>9, <4>1, <4>4
      <4>5. CASE i \in New /\ j \in New
        <5>1. found[i - Len(q)] = found[j - Len(q)]
          BY <2>8, <4>1, <4>5
        <5>2. i - Len(q) = j - Len(q)
          BY <2>3, <2>7, <4>5, <5>1 DEF IsInjective
        <5>3. QED
          BY <1>3, <2>5, <4>5, <5>2
      <4>6. QED
        BY <2>7, <4>2, <4>3, <4>4, <4>5
    <3>2. Len(s) <= Len(v) /\ \A i \in DOMAIN s : v[i] = Reached(s[i], 0)
      <4>1. Len(s) <= Len(q) /\ \A i \in DOMAIN s : q[i] = Reached(s[i], 0)
        BY DEF Sound
      <4>2. Len(s) \in Nat /\ DOMAIN s = 1..Len(s)
        OBVIOUS
      <4>3. Len(q) <= Len(v)
        BY <2>3
      <4>4. Len(s) <= Len(v) /\ \A i \in 1..Len(s) : i \in 1..Len(q)
        BY <1>3, <2>5, <4>1, <4>2, <4>3
      <4>5. QED
        BY <1>3, <2>7, <4>1, <4>2, <4>4
    <3>3. Len(v) > MaxTables => Len(v) = Len(s)
      <4>1. Len(v) <= MaxTables
        BY <2>3
      <4>2. QED
        BY <1>3, <2>5, <4>1
    <3>4. ASSUME NEW i \in DOMAIN v PROVE v[i].table \in Within(S, v[i].hops)
      <4>1. CASE i \in DOMAIN q
        BY <2>7, <4>1 DEF Sound
      <4>2. CASE i \in New
        <5>1. \A t \in Adjacent(here) : t \in Within(S, h + 1)
          BY <1>1, <2>4, <2>6, WithinSteps
        <5>2. QED
          BY <2>8, <4>2, <5>1
      <4>3. QED
        BY <2>7, <4>1, <4>2
    <3>5. ASSUME NEW i \in DOMAIN v, NEW j \in DOMAIN v, i <= j PROVE v[i].hops <= v[j].hops
      <4>1. CASE j \in DOMAIN q
        <5>1. i \in DOMAIN q
          BY <1>3, <2>5, <3>5, <4>1
        <5>2. QED
          BY <2>7, <3>5, <4>1, <5>1 DEF Sound
      <4>2. CASE j \in New /\ i \in DOMAIN q
        BY <2>7, <2>8, <2>10, <4>2
      <4>3. CASE j \in New /\ i \in New
        BY <2>4, <2>8, <4>3
      <4>4. QED
        BY <2>7, <4>1, <4>2, <4>3
    <3>6. QED
      BY <2>3, <3>1, <3>2, <3>3, <3>4, <3>5 DEF Sound
  <2>13. Breadth(v, n + 1, hops)
    <3>1. ASSUME NEW i \in DOMAIN v, NEW j \in DOMAIN v, n + 1 <= i PROVE v[j].hops <= v[i].hops + 1
      <4>1. v[j].hops \in Nat /\ v[j].hops <= h + 1
        BY <1>3, <2>4, <2>7, <2>8, <2>10, SMTT(30)
      <4>2. v[i].hops \in Nat /\ h <= v[i].hops
        BY <1>3, <2>4, <2>7, <2>8, <2>11, <3>1, SMTT(30)
      <4>3. QED
        BY <2>4, <4>1, <4>2
    <3>2. ASSUME Len(v) < MaxTables, NEW i \in DOMAIN v, i <= n + 1, v[i].hops < hops,
                 NEW u \in Adjacent(v[i].table)
          PROVE  \E j \in DOMAIN v : v[j].table = u /\ v[j].hops <= v[i].hops + 1
      <4>1. i \in DOMAIN q /\ v[i] = q[i]
        BY <1>3, <2>1, <2>5, <2>7, <3>2
      <4>2. CASE i <= n
        <5>1. PICK j \in DOMAIN q : q[j].table = u /\ q[j].hops <= q[i].hops + 1
          BY <2>1, <3>2, <4>1, <4>2 DEF Breadth
        <5>2. QED
          BY <2>7, <4>1, <5>1
      <4>3. CASE i = n + 1
        <5>1. v[i].hops = h /\ u \in Adjacent(here)
          BY <3>2, <4>1, <4>3 DEF h, here
        <5>2. CASE u \in ToSet(Selected(q))
          <6>1. PICK j \in DOMAIN q : q[j].table = u
            <7>1. ToSet(Selected(q)) = {q[j].table : j \in DOMAIN q}
              BY <1>2, SelectedFacts
            <7>2. QED
              BY <5>2, <7>1
          <6>2. QED
            BY <2>7, <2>10, <5>1, <6>1
        <5>3. CASE u \notin ToSet(Selected(q))
          <6>1. PICK k \in DOMAIN found : found[k] = u
            BY <2>3, <5>1, <5>3 DEF ToSet
          <6>2. Len(v) = Len(q) + Len(found)
            BY <2>3, <3>2
          <6>3. PICK j \in New : j - Len(q) = k
            <7>1. k \in Nat /\ Len(q) + k \in New /\ (Len(q) + k) - Len(q) = k
              BY <1>3, <2>5, <6>1, <6>2
            <7>2. QED
              BY <7>1
          <6>4. v[j].table = u /\ v[j].hops = h + 1 /\ j \in DOMAIN v
            BY <2>7, <2>8, <6>1, <6>3
          <6>5. QED
            BY <2>4, <5>1, <6>4
        <5>4. QED
          BY <5>2, <5>3
      <4>4. QED
        <5>1. i \in Nat
          BY <2>5
        <5>2. QED
          BY <3>2, <4>2, <4>3, <5>1
    <3>3. QED
      BY <3>1, <3>2 DEF Breadth
  <2>14. Layered(v, s, hops)
    <3>1. SUFFICES ASSUME NEW d \in 0..hops
                   PROVE  \/ ToSet(Selected(v)) \subseteq Within(S, d)
                          \/ Within(S, d) \subseteq ToSet(Selected(v))
      BY DEF Layered
    <3>2. ToSet(Selected(q)) \subseteq ToSet(Selected(v))
      <4>1. ToSet(Selected(q)) = {q[i].table : i \in DOMAIN q} /\ ToSet(Selected(v)) = {v[i].table : i \in DOMAIN v}
        BY <1>2, <2>3, SelectedFacts
      <4>2. QED
        BY <2>7, <4>1
    <3>3. CASE d <= h
      <4>1. h \in 0..hops /\ \A i \in DOMAIN q : q[i].hops < h => i <= n
        BY <1>3, <2>4, <2>11
      <4>2. d \in 0..h
        BY <2>4, <3>3
      <4>3. Within(S, d) \subseteq ToSet(Selected(q))
        BY <2>1, <4>1, <4>2, NearListed
      <4>4. QED
        BY <3>2, <4>3
    <3>4. CASE ~(d <= h)
      <4>1. ASSUME NEW i \in DOMAIN v PROVE v[i].table \in Within(S, d)
        <5>1. v[i].hops \in Nat /\ v[i].hops <= h + 1
          BY <1>3, <2>4, <2>7, <2>8, <2>10, SMTT(30)
        <5>2. v[i].hops <= d
          BY <2>4, <3>4, <5>1
        <5>3. v[i].table \in Within(S, v[i].hops)
          BY <2>12 DEF Sound
        <5>4. QED
          BY <1>1, <5>1, <5>2, <5>3, WithinGrows
      <4>2. QED
        BY <2>3, <4>1, SelectedFacts
    <3>5. QED
      BY <3>3, <3>4
  <2>15. QED
    BY <2>12, <2>13, <2>14 DEF v
<1>6. QED
  BY <1>4, <1>5

\* What the walk selects: the seeds, then what is nearest to them, until it is full.
LEMMA WalkFacts ==
    ASSUME NEW hops \in Nat, NEW s \in Seq(Tables), IsInjective(s)
    PROVE  LET w == Walk(s, hops)
           IN  /\ w \in Seq(Tables) /\ IsInjective(w)
               /\ ToSet(s) \subseteq ToSet(w) /\ ToSet(w) \subseteq Within(ToSet(s), hops)
               /\ Len(w) > MaxTables => ToSet(w) = ToSet(s)
               /\ Len(w) < MaxTables => ToSet(w) = Within(ToSet(s), hops)
               /\ \A d \in 0..hops : ToSet(w) \subseteq Within(ToSet(s), d) \/ Within(ToSet(s), d) \subseteq ToSet(w)
<1> DEFINE Kept(v, n) == Sound(v, s, hops) /\ Breadth(v, n, hops) /\ Layered(v, s, hops)
           S == ToSet(s)
<1>1. PICK f : /\ f[0] = [i \in DOMAIN s |-> Reached(s[i], 0)]
               /\ \A n \in 1..MaxTables : f[n] = Visit(f[n - 1], n, hops)
               /\ Walk(s, hops) = Selected(f[MaxTables])
  BY WalkRun
<1>2. Kept(f[0], 0)
  BY <1>1, WalkStarts
<1>3. ASSUME NEW n \in Nat, n < MaxTables, Kept(f[n], n) PROVE Kept(f[n + 1], n + 1)
  <2>1. n + 1 \in 1..MaxTables /\ (n + 1) - 1 = n
    BY <1>3, LinkingBounds
  <2>2. f[n + 1] = Visit(f[n], n + 1, hops)
    BY <1>1, <2>1
  <2>3. QED
    BY <1>3, <2>2, VisitKeeps
<1> DEFINE q == f[MaxTables]
<1>4. Kept(q, MaxTables)
  <2> DEFINE T == {n \in Nat : n <= MaxTables => Kept(f[n], n)}
  <2> HIDE DEF Kept, q
  <2>1. 0 \in T
    BY <1>2
  <2>2. \A n \in Nat : n \in T => n + 1 \in T
    BY <1>3, LinkingBounds
  <2>3. Nat \subseteq T
    <3> HIDE DEF T
    <3>1. QED
      BY <2>1, <2>2, CountUp
  <2>4. QED
    BY <2>3, LinkingBounds DEF q
<1>5. Walk(s, hops) = Selected(q)
  BY <1>1
<1> HIDE DEF q
<1>6. q \in Seq(Items(hops)) /\ Sound(q, s, hops) /\ Breadth(q, MaxTables, hops) /\ Layered(q, s, hops)
  BY <1>4 DEF Sound
<1>7. /\ DOMAIN q = 1..Len(q) /\ Len(q) \in Nat /\ \A i \in DOMAIN q : q[i].hops \in 0..hops
      /\ MaxTables \in Nat /\ Len(s) \in Nat /\ DOMAIN s = 1..Len(s)
  BY <1>6, ItemFacts, LinkingBounds
<1> DEFINE w == Selected(q)
<1>8. /\ w \in Seq(Tables) /\ Len(w) = Len(q) /\ IsInjective(w)
      /\ \A i \in DOMAIN q : w[i] = q[i].table
      /\ ToSet(w) = {q[i].table : i \in DOMAIN q}
  BY <1>6, SelectedFacts DEF Sound
<1>9. Len(s) <= Len(q) /\ \A i \in DOMAIN s : i \in DOMAIN q /\ q[i].table = s[i]
  <2>1. Len(s) <= Len(q) /\ \A i \in DOMAIN s : q[i] = Reached(s[i], 0)
    BY <1>6 DEF Sound
  <2>2. \A i \in 1..Len(s) : i \in 1..Len(q)
    BY <1>7, <2>1
  <2>3. \A t : Reached(t, 0).table = t
    BY DEF Reached
  <2>4. \A i \in DOMAIN s : i \in DOMAIN q
    BY <1>7, <2>2
  <2>5. QED
    BY <2>1, <2>3, <2>4, Zenon
<1> HIDE DEF w
<1>10. S \subseteq ToSet(w)
  BY <1>8, <1>9 DEF ToSet
<1>11. S \in SUBSET Tables
  BY DEF ToSet
<1>12. ToSet(w) \subseteq Within(S, hops)
  <2>1. SUFFICES ASSUME NEW i \in DOMAIN q PROVE q[i].table \in Within(S, hops)
    BY <1>8
  <2>2. q[i].table \in Within(S, q[i].hops)
    BY <1>6 DEF Sound
  <2>3. q[i].hops \in Nat /\ q[i].hops <= hops
    BY <1>7
  <2>4. QED
    BY <1>11, <2>2, <2>3, WithinGrows
<1>13. ASSUME Len(w) > MaxTables PROVE ToSet(w) = S
  <2>1. Len(q) = Len(s)
    BY <1>6, <1>8, <1>13 DEF Sound
  <2>2. DOMAIN q = DOMAIN s
    BY <1>7, <2>1
  <2>3. QED
    BY <1>8, <1>9, <2>2 DEF ToSet
<1>14. ASSUME Len(w) < MaxTables PROVE Within(S, hops) \subseteq ToSet(w)
  <2>1. \A i \in DOMAIN q : q[i].hops < hops => i <= MaxTables
    BY <1>7, <1>8, <1>14
  <2>2. hops \in 0..hops
    OBVIOUS
  <2>3. QED
    BY <1>6, <1>7, <1>8, <1>14, <2>1, <2>2, NearListed DEF w
<1>15. \A d \in 0..hops : ToSet(w) \subseteq Within(S, d) \/ Within(S, d) \subseteq ToSet(w)
  BY <1>6 DEF Layered, w
<1>16. QED
  <2>1. Walk(s, hops) = w
    BY <1>5 DEF w
  <2>2. QED
    BY <1>8, <1>10, <1>12, <1>13, <1>14, <1>15, <2>1

\* The tables among the seeds of expand, each once, and the overview before them.
LEMMA SeedTables ==
    ASSUME NEW given \in Seq(Chunks)
    PROVE  /\ RealTables(given) \subseteq Tables
           /\ Distinct(Only(given, RealTables(given))) \in Seq(Tables)
           /\ IsInjective(Distinct(Only(given, RealTables(given))))
           /\ ToSet(Distinct(Only(given, RealTables(given)))) = RealTables(given)
<1> DEFINE R == RealTables(given)
           only == Only(given, R)
<1>1. R \subseteq Tables /\ R \subseteq ToSet(given)
  BY DEF RealTables, ToSet, Chunks
<1> HIDE DEF R
<1>2. only \in Seq(Chunks \cap R) /\ ToSet(only) = ToSet(given) \cap R
  BY OnlyFacts
<1> HIDE DEF only
<1>3. Chunks \cap R = Tables \cap R
  BY <1>1 DEF Chunks
<1>4. only \in Seq(Tables)
  <2>1. only \in Seq(Tables \cap R)
    BY <1>2, <1>3
  <2>2. QED
    BY <2>1
<1>5. QED
  BY <1>1, <1>2, <1>4, DistinctFacts DEF R, only

\* The overview chunk, if it was among the seeds, before the tables.
LEMMA WithOverview ==
    ASSUME NEW given \in Seq(Chunks), NEW real \in Seq(Tables)
    PROVE  /\ _with_overview(given, real) \in Seq(Chunks)
           /\ RealTables(_with_overview(given, real)) = ToSet(real)
           /\ Synthetic \in ToSet(given) => Synthetic \in ToSet(_with_overview(given, real))
<1> DEFINE first == Only(given, {Synthetic})
<1>1. first \in Seq(Chunks \cap {Synthetic}) /\ ToSet(first) = ToSet(given) \cap {Synthetic}
  BY OnlyFacts
<1> HIDE DEF first
<1>2. first \in Seq(Chunks)
  BY <1>1
<1>3. real \in Seq(Chunks)
  BY DEF Chunks
<1>4. first \o real \in Seq(Chunks) /\ ToSet(first \o real) = ToSet(first) \cup ToSet(real)
  BY <1>2, <1>3, Joined
<1>5. ToSet(real) \subseteq Tables
  BY DEF ToSet
<1>6. QED
  BY <1>1, <1>4, <1>5, OrderAssumption DEF RealTables, _with_overview, first

\* Nothing is near no table.
LEMMA WithinNone == \A d \in Nat : Within({}, d) = {}
BY DEF Within, Paths

\* expand puts into the context what is nearest to its seeds.
LEMMA ExpandFacts ==
    ASSUME NEW hops \in Nat, NEW given \in Seq(Chunks)
    PROVE  /\ expand(given, hops) \in Seq(Chunks)
           /\ NearestFirst(expand(given, hops), given, hops)
           /\ given # <<>> => expand(given, hops) # <<>>
           /\ IsFiniteSet(RealTables(expand(given, hops)))
<1> DEFINE real == Distinct(Only(given, RealTables(given)))
           chosen == IF hops = 0 \/ real = <<>> THEN FirstOf(MaxTables, real) ELSE Walk(real, hops)
           R == RealTables(given)
           e == expand(given, hops)
<1>1. R \in SUBSET Tables /\ real \in Seq(Tables) /\ IsInjective(real) /\ ToSet(real) = R
  BY SeedTables
<1>2. e = _with_overview(given, chosen)
  BY DEF expand
<1> HIDE DEF real, e
<1>3. MaxTables \in Nat /\ MaxTables # 0 /\ Len(real) \in Nat
  BY <1>1, LinkingBounds
<1>4. /\ chosen \in Seq(Tables) /\ IsInjective(chosen)
      /\ hops = 0 \/ R \subseteq ToSet(chosen)
      /\ ToSet(chosen) \subseteq Within(R, hops)
      /\ Len(chosen) > MaxTables => ToSet(chosen) = R
      /\ Len(chosen) < MaxTables => ToSet(chosen) = Within(R, hops)
      /\ \A d \in 0..hops : ToSet(chosen) \subseteq Within(R, d) \/ Within(R, d) \subseteq ToSet(chosen)
  <2>1. CASE hops = 0
    <3>1. chosen = FirstOf(MaxTables, real)
      BY <2>1
    <3>2. Within(R, 0) = R
      BY <1>1, WithinSteps
    <3> HIDE DEF chosen, R
    <3>3. /\ chosen \in Seq(Tables) /\ IsInjective(chosen) /\ ToSet(chosen) \subseteq R
          /\ Len(chosen) <= MaxTables
          /\ Len(chosen) < MaxTables => chosen = real
      BY <1>1, <1>3, <3>1, FirstOfFacts
    <3>4. Len(chosen) \in Nat
      BY <3>3
    <3>5. \A d \in 0..hops : d = 0
      BY <2>1
    <3>6. QED
      BY <1>1, <1>3, <2>1, <3>2, <3>3, <3>4, <3>5
  <2>2. CASE hops # 0 /\ real = <<>>
    <3>1. R = {}
      BY <1>1, <2>2 DEF ToSet
    <3>2. chosen = <<>>
      <4>1. chosen = FirstOf(MaxTables, real) /\ Len(real) = 0
        BY <2>2
      <4>2. QED
        BY <1>1, <1>3, <2>2, <4>1, FirstOfFacts
    <3>3. \A d \in 0..hops : Within({}, d) = {}
      BY WithinNone
    <3>4. ToSet(<<>>) = {} /\ hops \in 0..hops
      BY DEF ToSet
    <3>5. chosen \in Seq(Tables) /\ IsInjective(chosen)
      BY <1>1, <2>2, <3>2
    <3> HIDE DEF chosen, R
    <3>6. QED
      BY <3>1, <3>2, <3>3, <3>4, <3>5
  <2>3. CASE hops # 0 /\ real # <<>>
    <3>1. chosen = Walk(real, hops)
      BY <2>3
    <3> HIDE DEF chosen, R
    <3>2. QED
      BY <1>1, <3>1, WalkFacts
  <2>4. QED
    BY <2>1, <2>2, <2>3
<1> HIDE DEF chosen
<1>5. /\ IsFiniteSet(ToSet(chosen)) /\ Cardinality(ToSet(chosen)) = Len(chosen)
  BY <1>4, Counted
<1>6. /\ e \in Seq(Chunks) /\ RealTables(e) = ToSet(chosen)
      /\ Synthetic \in ToSet(given) => Synthetic \in ToSet(e)
  BY <1>2, <1>4, WithOverview
<1>7. NearestFirst(e, given, hops)
  BY <1>4, <1>5, <1>6 DEF NearestFirst
<1>8. ASSUME given # <<>> PROVE e # <<>>
  <2>1. SUFFICES ASSUME e = <<>> PROVE FALSE
    OBVIOUS
  <2>2. ToSet(e) = {} /\ ToSet(chosen) = {}
    BY <1>6, <2>1 DEF ToSet, RealTables
  <2>3. Len(chosen) = 0
    BY <1>5, <2>2, FS_EmptySet
  <2>4. Within(R, hops) = {}
    BY <1>3, <1>4, <2>2, <2>3
  <2>5. R \subseteq Within(R, 0) /\ Within(R, 0) \subseteq Within(R, hops)
    BY <1>1, WithinSteps, WithinGrows
  <2>6. given[1] \in ToSet(given)
    BY <1>8 DEF ToSet
  <2>7. QED
    BY <1>6, <2>2, <2>4, <2>5, <2>6 DEF RealTables
<1>9. QED
  BY <1>5, <1>6, <1>7, <1>8 DEF e

\* What is merged is in the context, unless that is full.
LEMMA MergeFacts ==
    ASSUME NEW existing \in Seq(Chunks), NEW extra \in Seq(Chunks)
    PROVE  LET m == merge_chunks(existing, extra)
           IN  /\ m \in Seq(Chunks) /\ IsFiniteSet(RealTables(m))
               /\ \/ RealTables(existing) \cup RealTables(extra) \subseteq RealTables(m)
                  \/ Cardinality(RealTables(m)) >= MaxTables
<1> DEFINE all == Distinct(existing \o extra)
           real == Only(all, RealTables(all))
           capped == FirstOf(MaxTables, real)
           first == Only(all, {Synthetic})
<1>1. /\ existing \o extra \in Seq(Chunks)
      /\ ToSet(existing \o extra) = ToSet(existing) \cup ToSet(extra)
  BY Joined
<1>2. all \in Seq(Chunks) /\ IsInjective(all) /\ ToSet(all) = ToSet(existing) \cup ToSet(extra)
  BY <1>1, DistinctFacts
<1>3. merge_chunks(existing, extra) = first \o capped
  BY DEF merge_chunks
<1> HIDE DEF all
<1>4. /\ real \in Seq(Chunks \cap RealTables(all)) /\ IsInjective(real)
      /\ ToSet(real) = ToSet(all) \cap RealTables(all)
  BY <1>2, OnlyFacts
<1>5. first \in Seq(Chunks \cap {Synthetic})
  BY <1>2, OnlyFacts
<1> HIDE DEF first, real
<1>6. first \in Seq(Chunks) /\ ToSet(first) \subseteq {Synthetic}
  BY <1>5 DEF ToSet
<1>7. real \in Seq(Tables)
  <2>1. Chunks \cap RealTables(all) \subseteq Tables
    BY DEF Chunks, RealTables
  <2> DEFINE C == Chunks \cap RealTables(all)
  <2> HIDE DEF C
  <2>2. real \in Seq(C) /\ C \subseteq Tables
    BY <1>4, <2>1 DEF C
  <2>3. QED
    BY <2>2
<1>8. /\ capped \in Seq(Tables) /\ IsInjective(capped)
      /\ Len(capped) = IF Len(real) < MaxTables THEN Len(real) ELSE MaxTables
      /\ Len(real) <= MaxTables => capped = real
  BY <1>4, <1>7, FirstOfFacts, LinkingBounds
<1> HIDE DEF capped
<1>9. capped \in Seq(Chunks) /\ ToSet(capped) \subseteq Tables
  BY <1>8 DEF ToSet, Chunks
<1> DEFINE m == first \o capped
<1>10. m \in Seq(Chunks) /\ ToSet(m) = ToSet(first) \cup ToSet(capped)
  BY <1>6, <1>9, Joined
<1> HIDE DEF m
<1>11. RealTables(m) = ToSet(capped)
  BY <1>6, <1>9, <1>10, OrderAssumption DEF RealTables
<1>12. IsFiniteSet(ToSet(capped)) /\ Cardinality(ToSet(capped)) = Len(capped)
  BY <1>8, Counted
<1>13. CASE Len(real) <= MaxTables
  <2>1. RealTables(m) = RealTables(all)
    BY <1>4, <1>8, <1>11, <1>13 DEF RealTables
  <2>2. RealTables(existing) \cup RealTables(extra) \subseteq RealTables(m)
    BY <1>2, <2>1 DEF RealTables
  <2>3. QED
    BY <1>3, <1>10, <1>11, <1>12, <2>2 DEF m
<1>14. CASE ~(Len(real) <= MaxTables)
  <2>1. Len(capped) = MaxTables
    BY <1>7, <1>8, <1>14, LinkingBounds
  <2>2. Cardinality(RealTables(m)) >= MaxTables
    BY <1>11, <1>12, <2>1, LinkingBounds
  <2>3. QED
    BY <1>3, <1>10, <1>11, <1>12, <2>2 DEF m
<1>15. QED
  BY <1>13, <1>14

-----------------------------------------------------------------------------
(* What a run links                                                        *)

\* Earlier SQL reads tables; the catalog of the run is the index as it is or was not
\* there when the run began; only tables are forced in.
Sources ==
    /\ priorSql \subseteq Tables /\ index \in {<<>>, Index} /\ catalog \in {<<>>, index}
    /\ forced \in Seq(Tables)

\* The linker of a question names tables.
LEMMA LinkedTables ==
    ASSUME NEW ws PROVE link_tables_for_question(ws) \in Seq(Tables)
<1> DEFINE longFirst == Reverse(ShortFirst)
           bySegment == {i \in DOMAIN longFirst : Claimed(ws)[i] # Claimed(ws)[i - 1]}
           wanted == {t \in Tables : DimensionHit(t, ToSet(ws))
                                     \/ (SynonymHit(t, ToSet(ws)) /\ table_is_factish(t))}
<1>1. ShortFirst \in Seq(Tables) /\ TableOrder \in Seq(Tables)
  BY OrderAssumption
<1>2. longFirst \in Seq(Tables)
  <2>1. Len(ShortFirst) \in Nat /\ \A i \in 1..Len(ShortFirst) : (Len(ShortFirst) - i) + 1 \in 1..Len(ShortFirst)
    BY <1>1
  <2>2. QED
    BY <1>1, <2>1 DEF Reverse
<1>3. At(longFirst, bySegment) \in Seq(Tables)
  <2> HIDE DEF longFirst
  <2>1. QED
    BY <1>2, AtFacts
<1>4. \A T : Only(ShortFirst, T) \in Seq(Tables) /\ Only(TableOrder, T) \in Seq(Tables)
  <2>1. SUFFICES ASSUME NEW T PROVE Only(ShortFirst, T) \in Seq(Tables) /\ Only(TableOrder, T) \in Seq(Tables)
    OBVIOUS
  <2>2. Only(ShortFirst, T) \in Seq(Tables \cap T) /\ Only(TableOrder, T) \in Seq(Tables \cap T)
    BY <1>1, OnlyFacts
  <2>3. QED
    BY <2>2
<1>5. tables_mentioned_in_question(ws) \in Seq(Tables)
  <2>1. tables_mentioned_in_question(ws) = Only(ShortFirst, ByWholeName(ws)) \o At(longFirst, bySegment)
    BY DEF tables_mentioned_in_question
  <2> HIDE DEF longFirst, bySegment
  <2>2. QED
    BY <1>3, <1>4, <2>1
<1>6. tables_matching_columns(ws) \in Seq(Tables)
  <2>1. tables_matching_columns(ws) = Only(TableOrder, wanted)
    BY DEF tables_matching_columns
  <2> HIDE DEF wanted
  <2>2. QED
    BY <1>4, <2>1
<1>7. tables_mentioned_in_question(ws) \o tables_matching_columns(ws) \in Seq(Tables)
  BY <1>5, <1>6
<1>8. QED
  BY <1>7, DistinctFacts DEF link_tables_for_question

\* What is forced in are tables, and the walk takes a number of steps.
LEMMA ForcedTables ==
    ASSUME NEW ws, NEW extra \in Seq(Tables)
    PROVE  ForcedIn(ws, extra) \in Seq(Tables) /\ suggested_expand_hops(ForcedIn(ws, extra)) \in Nat
<1>1. link_tables_for_question(ws) \in Seq(Tables)
  BY LinkedTables
<1>2. extra \o link_tables_for_question(ws) \in Seq(Tables)
  BY <1>1
<1>3. QED
  BY <1>2, DistinctFacts, LinkingBounds DEF ForcedIn, suggested_expand_hops

\* The entity linker forces tables in, whatever the model names.
LEMMA EntityTables ==
    ASSUME NEW ws, NEW names, NEW e \in LinkedEntities(ws, names)
    PROVE  e.tables \in Seq(Tables)
<1> DEFINE rails == FallbackEntities(ws)
<1>1. rails \in Seq(Tables)
  BY LinkedTables DEF FallbackEntities
<1> HIDE DEF rails
<1>2. \A r \in EntityReplies : FirstOf(MaxEntityTables, Distinct(r.tables \o rails)) \in Seq(Tables)
  <2>1. SUFFICES ASSUME NEW r \in EntityReplies
                 PROVE  FirstOf(MaxEntityTables, Distinct(r.tables \o rails)) \in Seq(Tables)
    OBVIOUS
  <2>2. r.tables \o rails \in Seq(Tables)
    BY <1>1, RepliesAssumption
  <2>3. Distinct(r.tables \o rails) \in Seq(Tables)
    BY <2>2, DistinctFacts
  <2>4. QED
    BY <2>3, FirstOfFacts DEF MaxEntityTables
<1>3. \A ts, more, n : Entities(ws, ts, more, n).tables = ts
  BY DEF Entities
<1>4. \/ \E more, n : e = Entities(ws, <<>>, more, n)
      \/ \E more, n : e = Entities(ws, rails, more, n)
      \/ \E r \in EntityReplies : e = Entities(ws, FirstOf(MaxEntityTables, Distinct(r.tables \o rails)), r.words, 1)
  <2> HIDE DEF Entities
  <2>1. QED
    BY Zenon DEF LinkedEntities, rails
<1>5. \A ts \in Seq(Tables) : \A more, n : e = Entities(ws, ts, more, n) => e.tables \in Seq(Tables)
  BY <1>3
<1>6. <<>> \in Seq(Tables)
  OBVIOUS
<1>7. QED
  <2> HIDE DEF Entities
  <2>1. QED
    BY <1>1, <1>2, <1>4, <1>5, <1>6, Zenon

\* An index has a chunk for each table, and the overview.
LEMMA IndexFacts ==
    /\ Index \in Seq(Chunks) /\ ToSet(Index) = Chunks /\ Index # <<>> /\ RealTables(Index) = Tables
    /\ Len(Index) \in Nat /\ Len(Index) # 0
<1>1. TableOrder \in Seq(Tables) /\ ToSet(TableOrder) = Tables
  BY OrderAssumption
<1>2. TableOrder \in Seq(Chunks) /\ <<Synthetic>> \in Seq(Chunks)
  BY <1>1 DEF Chunks
<1>3. ToSet(<<Synthetic>>) = {Synthetic}
  BY DEF ToSet
<1>4. Index \in Seq(Chunks) /\ ToSet(Index) = Chunks
  <2>1. TableOrder \o <<Synthetic>> \in Seq(Chunks)
        /\ ToSet(TableOrder \o <<Synthetic>>) = ToSet(TableOrder) \cup ToSet(<<Synthetic>>)
    <3> DEFINE last == <<Synthetic>>
    <3>1. TableOrder \in Seq(Chunks) /\ last \in Seq(Chunks)
      BY <1>2
    <3> HIDE DEF last
    <3>2. TableOrder \o last \in Seq(Chunks)
          /\ ToSet(TableOrder \o last) = ToSet(TableOrder) \cup ToSet(last)
      BY <3>1, Joined
    <3>3. QED
      BY <3>2 DEF last
  <2>2. Chunks = Tables \cup {Synthetic}
    BY DEF Chunks
  <2>3. QED
    BY <1>1, <1>3, <2>1, <2>2 DEF Index
<1>5. Index # <<>>
  <2>1. ToSet(<<>>) = {} /\ Chunks # {}
    BY DEF ToSet, Chunks
  <2>2. QED
    BY <1>4, <2>1
<1>6. RealTables(Index) = Tables
  BY <1>4, OrderAssumption DEF RealTables, Chunks
<1>7. QED
  BY <1>4, <1>5, <1>6

\* An index that may not have been built yet.
LEMMA IndexTyped ==
    ASSUME Sources
    PROVE  index \in Seq(Chunks) /\ Len(index) \in Nat /\ (index # <<>> => index = Index /\ Len(index) # 0)
<1>1. CASE index = <<>>
  BY <1>1
<1>2. CASE index = Index
  BY <1>2, IndexFacts
<1>3. QED
  BY <1>1, <1>2 DEF Sources

\* What retrieval finds: chunks, and some if there is an index.
LEMMA FoundChunks ==
    ASSUME Sources, NEW found \in Nearest
    PROVE  found \in Seq(Chunks) /\ (index # <<>> => found # <<>>)
<1> DEFINE k == IF Len(index) < TopK THEN Len(index) ELSE TopK
<1>1. index \in Seq(Chunks) /\ Len(index) \in Nat /\ (index # <<>> => Len(index) # 0)
  BY IndexTyped
<1>2. k \in Nat /\ (index # <<>> => k # 0)
  BY <1>1, InputsAssumption
<1>3. found \in [1..k -> ToSet(index)]
  BY DEF Nearest
<1>4. ToSet(index) \subseteq Chunks
  BY <1>1 DEF ToSet
<1> HIDE DEF k
<1>5. found \in Seq(Chunks) /\ Len(found) = k
  BY <1>2, <1>3, <1>4
<1>6. QED
  BY <1>2, <1>5

\* The tables of the earlier SQL are among the seeds, unless these fill the context.
LEMMA RowsFacts ==
    ASSUME Sources, NEW found \in Nearest
    PROVE  LET rows == WithPriorTables(found)
           IN  /\ rows \in Seq(Chunks)
               /\ index # <<>> =>
                    /\ rows # <<>>
                    /\ priorSql \subseteq RealTables(rows) \/ Cardinality(RealTables(rows)) >= MaxTables
<1> DEFINE wanted == Only(index, priorSql \ ToSet(found))
           rows == WithPriorTables(found)
<1>1. found \in Seq(Chunks) /\ (index # <<>> => found # <<>>)
  BY FoundChunks
<1>2. index \in Seq(Chunks)
  BY IndexTyped
<1>3. wanted \in Seq(Chunks \cap (priorSql \ ToSet(found))) /\ ToSet(wanted) = ToSet(index) \cap (priorSql \ ToSet(found))
  BY <1>2, OnlyFacts
<1>4. rows = IF wanted = <<>> THEN found ELSE merge_chunks(found, wanted)
  BY DEF WithPriorTables
<1> HIDE DEF wanted, rows
<1>5. wanted \in Seq(Chunks) /\ ToSet(wanted) \subseteq priorSql
  BY <1>3
<1>6. priorSql \subseteq Tables /\ Synthetic \notin priorSql
  BY OrderAssumption DEF Sources
<1>7. CASE wanted = <<>>
  <2>1. ToSet(wanted) = {}
    BY <1>7 DEF ToSet
  <2>2. index # <<>> => priorSql \subseteq ToSet(index)
    BY <1>6, IndexFacts DEF Sources, Chunks
  <2>3. index # <<>> => priorSql \subseteq RealTables(found)
    BY <1>3, <1>6, <2>1, <2>2 DEF RealTables
  <2>4. QED
    BY <1>1, <1>4, <1>7, <2>3 DEF rows
<1>8. CASE wanted # <<>>
  <2>1. rows = merge_chunks(found, wanted)
    BY <1>4, <1>8
  <2>2. /\ rows \in Seq(Chunks) /\ IsFiniteSet(RealTables(rows))
        /\ \/ RealTables(found) \cup RealTables(wanted) \subseteq RealTables(rows)
           \/ Cardinality(RealTables(rows)) >= MaxTables
    BY <1>1, <1>5, <2>1, MergeFacts
  <2>3. wanted[1] \in RealTables(wanted)
    <3>1. 1 \in DOMAIN wanted
      BY <1>5, <1>8
    <3>2. wanted[1] \in ToSet(wanted)
      BY <3>1 DEF ToSet
    <3>3. QED
      BY <1>5, <1>6, <3>2 DEF RealTables
  <2>4. rows # <<>>
    <3>1. SUFFICES ASSUME rows = <<>> PROVE FALSE
      OBVIOUS
    <3>2. RealTables(rows) = {}
      BY <3>1 DEF RealTables, ToSet
    <3>3. Cardinality(RealTables(rows)) = 0
      BY <3>2, FS_EmptySet
    <3>4. QED
      BY <2>2, <2>3, <3>2, <3>3, LinkingBounds
  <2>5. index # <<>> => priorSql \subseteq ToSet(index)
    BY <1>6, IndexFacts DEF Sources, Chunks
  <2>6. index # <<>> => priorSql \subseteq RealTables(found) \cup RealTables(wanted)
    BY <1>3, <1>6, <2>5 DEF RealTables
  <2>7. QED
    BY <2>2, <2>4, <2>6 DEF rows
<1>9. QED
  BY <1>7, <1>8

\* retrieve_and_link on an indexed source: the overview has the whole catalog, any
\* other question what the walk from its seeds selects.
LEMMA ContextLinked ==
    ASSUME Sources, RetrieveAndLink, catalog # <<>>
    PROVE  LET all == ForcedIn(words, forced)
           IN  /\ index # <<>>
               /\ \E found \in Nearest : seeds' = WithPriorTables(found)
               /\ linked' = IF overview THEN catalog
                            ELSE expand(SeedsWith(seeds', all), suggested_expand_hops(all))
<1> DEFINE all == ForcedIn(words, forced)
           walked == expand(SeedsWith(seeds', all), suggested_expand_hops(all))
           chunks == IF overview THEN catalog ELSE walked
<1>1. catalog = Index /\ index = Index /\ index # <<>>
  BY IndexFacts DEF Sources
<1>2. PICK found \in Nearest :
        LET rows == WithPriorTables(found)
            l == IF (rows # <<>> /\ catalog # <<>>) \/ overview
                 THEN apply_schema_linking(words, rows, catalog, overview, forced)
                 ELSE Linked(rows, "rag")
        IN  /\ seeds' = rows
            /\ \E c \in IF l.chunks = <<>> THEN Introspections ELSE {l} : linked' = Context(c).chunks
  BY DEF RetrieveAndLink
<1>3. seeds' = WithPriorTables(found) /\ seeds' \in Seq(Chunks) /\ seeds' # <<>>
  BY <1>1, <1>2, RowsFacts
<1> DEFINE l == apply_schema_linking(words, seeds', catalog, overview, forced)
<1>4. \E c \in IF l.chunks = <<>> THEN Introspections ELSE {l} : linked' = Context(c).chunks
  BY <1>2, <1>3
<1>5. l.chunks = chunks
  BY <1>3 DEF apply_schema_linking, Linked
<1>6. chunks # <<>>
  <2>1. all \in Seq(Tables) /\ suggested_expand_hops(all) \in Nat
    BY ForcedTables DEF Sources
  <2> HIDE DEF all
  <2>2. all \in Seq(Chunks)
    BY <2>1 DEF Chunks
  <2>3. seeds' \o all \in Seq(Chunks) /\ ToSet(seeds' \o all) = ToSet(seeds') \cup ToSet(all)
    BY <1>3, <2>2, Joined
  <2>4. SeedsWith(seeds', all) \in Seq(Chunks) /\ ToSet(SeedsWith(seeds', all)) = ToSet(seeds') \cup ToSet(all)
    BY <2>3, DistinctFacts DEF SeedsWith
  <2>5. SeedsWith(seeds', all) # <<>>
    <3>1. seeds'[1] \in ToSet(seeds')
      BY <1>3 DEF ToSet
    <3>2. ToSet(<<>>) = {}
      BY DEF ToSet
    <3>3. QED
      BY <2>4, <3>1, <3>2
  <2>6. walked # <<>>
    BY <2>1, <2>4, <2>5, ExpandFacts
  <2>7. QED
    BY <1>1, <2>6 DEF all
<1> HIDE DEF l, chunks
<1>7. linked' = Context(l).chunks
  BY <1>4, <1>5, <1>6
<1>8. Context(l) = l
  BY <1>5, <1>6 DEF Context
<1>9. linked' = chunks
  BY <1>5, <1>7, <1>8
<1>10. QED
  BY <1>1, <1>3, <1>9 DEF chunks

\* Nothing but the fullness of the context keeps a seed out of it.
LEMMA SeedsLinked ==
    ASSUME NEW hops \in Nat, NEW given \in Seq(Chunks)
    PROVE  \/ RealTables(given) \subseteq RealTables(expand(given, hops))
           \/ Cardinality(RealTables(expand(given, hops))) >= MaxTables
<1> DEFINE real == RealTables(expand(given, hops))
           start == RealTables(given)
<1>1. NearestFirst(expand(given, hops), given, hops) /\ IsFiniteSet(real)
  BY ExpandFacts
<1>2. start \in SUBSET Tables
  BY SeedTables
<1>3. /\ hops = 0 \/ start \subseteq real
      /\ Cardinality(real) < MaxTables => real = Within(start, hops)
  BY <1>1 DEF NearestFirst
<1> HIDE DEF real, start
<1>4. Within(start, 0) = start
  BY <1>2, WithinSteps
<1>5. Cardinality(real) \in Nat /\ MaxTables \in Nat
  BY <1>1, FS_CardinalityType, LinkingBounds
<1>6. QED
  BY <1>3, <1>4, <1>5 DEF real, start

\* What the context rests on.
LinkInv == Sources /\ PriorTablesLinked /\ LinkedNearestFirst

\* Every step keeps what the context rests on.
LEMMA LinkedStep ==
    ASSUME LinkInv, [Next]_vars
    PROVE  LinkInv'
<1> USE DEF LinkInv, prepared, understood, entities, retrieved
<1>1. CASE RouteIntent
  <2>1. PICK d : priorSql' = PriorFor(d)
    BY <1>1 DEF RouteIntent
  <2>2. priorSql' \subseteq Tables
    BY <2>1 DEF PriorFor, NoPrior, Sources
  <2>3. QED
    BY <1>1, <2>2 DEF RouteIntent, Ran, Sources, PriorTablesLinked, LinkedNearestFirst
<1>2. CASE LinkEntities
  <2>1. forced' \in Seq(Tables)
    BY <1>2, EntityTables DEF LinkEntities, Sources
  <2>2. QED
    BY <1>2, <2>1 DEF LinkEntities, Ran, Sources, PriorTablesLinked, LinkedNearestFirst
<1>3. CASE RetrieveAndLink
  <2>1. UNCHANGED <<priorSql, index, catalog, forced, words, overview>>
    BY <1>3 DEF RetrieveAndLink
  <2>2. Sources'
    BY <2>1 DEF Sources, Index
  <2>3. CASE catalog = <<>>
    BY <2>1, <2>2, <2>3 DEF PriorTablesLinked, LinkedNearestFirst
  <2>4. CASE catalog # <<>>
    <3> DEFINE all == ForcedIn(words, forced)
               from == SeedsWith(seeds', all)
               hops == suggested_expand_hops(all)
    <3>1. /\ index # <<>> /\ \E found \in Nearest : seeds' = WithPriorTables(found)
          /\ linked' = IF overview THEN catalog ELSE expand(from, hops)
      BY <1>3, <2>4, ContextLinked
    <3>2. /\ seeds' \in Seq(Chunks)
          /\ priorSql \subseteq RealTables(seeds') \/ Cardinality(RealTables(seeds')) >= MaxTables
      BY <3>1, RowsFacts
    <3>3. all \in Seq(Tables) /\ hops \in Nat
      BY ForcedTables DEF Sources
    <3> HIDE DEF all
    <3>4. all \in Seq(Chunks)
      BY <3>3 DEF Chunks
    <3>5. from \in Seq(Chunks) /\ ToSet(from) = ToSet(seeds') \cup ToSet(all)
      <4>1. seeds' \o all \in Seq(Chunks) /\ ToSet(seeds' \o all) = ToSet(seeds') \cup ToSet(all)
        BY <3>2, <3>4, Joined
      <4>2. QED
        BY <4>1, DistinctFacts DEF SeedsWith
    <3> HIDE DEF from, hops
    <3>6. PriorTablesLinked'
      <4>1. SUFFICES priorSql \subseteq RealTables(linked') \/ Cardinality(RealTables(linked')) >= MaxTables
        BY <2>1 DEF PriorTablesLinked
      <4>2. CASE overview
        <5>1. linked' = Index
          BY <2>4, <3>1, <4>2 DEF Sources
        <5>2. QED
          BY <5>1, IndexFacts DEF Sources
      <4>3. CASE ~overview
        <5>1. linked' = expand(from, hops)
          BY <3>1, <4>3
        <5>2. \/ RealTables(from) \subseteq RealTables(linked')
              \/ Cardinality(RealTables(linked')) >= MaxTables
          BY <3>3, <3>5, <5>1, SeedsLinked
        <5>3. CASE RealTables(from) \subseteq RealTables(linked')
          <6>1. RealTables(seeds') \subseteq RealTables(linked')
            BY <3>5, <5>3 DEF RealTables
          <6>2. CASE priorSql \subseteq RealTables(seeds')
            BY <6>1, <6>2
          <6>3. CASE Cardinality(RealTables(seeds')) >= MaxTables
            <7>1. IsFiniteSet(RealTables(linked'))
              BY <3>3, <3>5, <5>1, ExpandFacts
            <7>2. /\ Cardinality(RealTables(seeds')) <= Cardinality(RealTables(linked'))
                  /\ IsFiniteSet(RealTables(seeds'))
              BY <6>1, <7>1, FS_Subset
            <7>3. /\ Cardinality(RealTables(seeds')) \in Nat /\ Cardinality(RealTables(linked')) \in Nat
                  /\ MaxTables \in Nat
              BY <7>1, <7>2, FS_CardinalityType, LinkingBounds
            <7>4. QED
              BY <6>3, <7>2, <7>3
          <6>4. QED
            BY <3>2, <6>2, <6>3
        <5>4. QED
          BY <5>2, <5>3
      <4>4. QED
        BY <4>2, <4>3
    <3>7. LinkedNearestFirst'
      <4>1. SUFFICES ASSUME ~overview PROVE NearestFirst(linked', from, hops)
        BY <2>1 DEF LinkedNearestFirst, from, hops, all
      <4>2. QED
        BY <3>1, <3>3, <3>5, <4>1, ExpandFacts
    <3>8. QED
      BY <2>2, <3>6, <3>7
  <2>5. QED
    BY <2>3, <2>4
<1>4. CASE AssessRelevance
  <2>1. node' # "assess_relevance"
    BY <1>4 DEF AssessRelevance, Ran
  <2>2. QED
    BY <1>4, <2>1 DEF AssessRelevance, Sources, PriorTablesLinked, LinkedNearestFirst
<1>5. CASE ProviderFails
  BY <1>5 DEF ProviderFails, Ran, Sources, PriorTablesLinked, LinkedNearestFirst
<1>6. CASE IndexBuilt
  BY <1>6 DEF IndexBuilt, Sources, PriorTablesLinked, LinkedNearestFirst
<1>7. CASE UNCHANGED vars
  BY <1>7 DEF vars, Sources, PriorTablesLinked, LinkedNearestFirst
<1>8. QED
  BY <1>1, <1>2, <1>3, <1>4, <1>5, <1>6, <1>7 DEF Next

\* It holds throughout every run.
LEMMA LinkInvAlways == Spec => []LinkInv
<1>1. Init => LinkInv
  <2>1. SUFFICES ASSUME Init PROVE Sources
    BY DEF Init, LinkInv, PriorTablesLinked, LinkedNearestFirst
  <2>2. priorSql \subseteq Tables
    BY <2>1, InputsAssumption DEF Init, NoPrior
  <2>3. forced \in Seq(Tables)
    BY <2>1 DEF Init
  <2>4. QED
    BY <2>1, <2>2, <2>3 DEF Init, Sources
<1>2. LinkInv /\ [Next]_vars => LinkInv'
  BY LinkedStep
<1>3. QED
  BY <1>1, <1>2, PTL DEF Spec

-----------------------------------------------------------------------------
(* The nodes as nodes of the chat graph                                    *)

\* The nodes executed before each of the four.
Passed ==
    /\ node = "route_intent" => steps = 0
    /\ node = "link_entities" => steps = 1
    /\ node = "retrieve_and_link" => steps = 2
    /\ node = "assess_relevance" => steps = 3

\* What the mapping to the chat graph rests on.
MappedInv == LinkInv /\ Passed

\* Every step keeps count of the nodes executed.
LEMMA CountedStep ==
    ASSUME Passed, [Next]_vars
    PROVE  Passed'
<1> USE DEF Passed, prepared, understood, entities, retrieved
<1>1. CASE RouteIntent \/ LinkEntities
  <2>1. CASE RouteIntent
    <3>1. node = "route_intent" /\ node' = "link_entities" /\ steps' = steps + 1
      BY <2>1 DEF RouteIntent, Ran
    <3>2. QED
      BY <3>1
  <2>2. CASE LinkEntities
    <3>1. node = "link_entities" /\ node' = "retrieve_and_link" /\ steps' = steps + 1
      BY <2>2 DEF LinkEntities, Ran
    <3>2. QED
      BY <3>1
  <2>3. QED
    BY <1>1, <2>1, <2>2
<1>2. CASE RetrieveAndLink
  BY <1>2 DEF RetrieveAndLink, Ran
<1>3. CASE AssessRelevance
  BY <1>3 DEF AssessRelevance, Ran
<1>4. CASE ProviderFails \/ IndexBuilt
  BY <1>4 DEF ProviderFails, IndexBuilt, Ran
<1>5. CASE UNCHANGED vars
  BY <1>5 DEF vars
<1>6. QED
  BY <1>1, <1>2, <1>3, <1>4, <1>5 DEF Next

\* The first MaxTables chunks of an index: there are some.
LEMMA FirstChunks == FirstOf(MaxTables, Index) \in Seq(Chunks) /\ FirstOf(MaxTables, Index) # <<>>
<1>1. Index \in Seq(Chunks) /\ Len(Index) \in Nat /\ Len(Index) # 0
  BY IndexFacts
<1>2. /\ FirstOf(MaxTables, Index) \in Seq(Chunks)
      /\ Len(FirstOf(MaxTables, Index)) = IF Len(Index) < MaxTables THEN Len(Index) ELSE MaxTables
  BY <1>1, FirstOfFacts, LinkingBounds
<1>3. QED
  BY <1>1, <1>2, LinkingBounds

\* The names that stay of a context.
LEMMA NamesOnly ==
    ASSUME NEW chunks \in Seq(Chunks)
    PROVE  ToSet(NameOnly(chunks)) = ToSet(chunks) \ {Synthetic} /\ ToSet(chunks) \subseteq Chunks
<1>1. ToSet(NameOnly(chunks)) = ToSet(chunks) \cap RealTables(chunks)
  BY OnlyFacts DEF NameOnly
<1>2. \A i \in DOMAIN chunks : chunks[i] \in Chunks
  OBVIOUS
<1>3. ToSet(chunks) \subseteq Chunks
  BY <1>2 DEF ToSet
<1>4. QED
  BY <1>1, <1>3 DEF RealTables

\* Seeds and what is forced in.
LEMMA SeedsTogether ==
    ASSUME NEW found \in Seq(Chunks), NEW all \in Seq(Tables)
    PROVE  /\ SeedsWith(found, all) \in Seq(Chunks)
           /\ ToSet(SeedsWith(found, all)) = ToSet(found) \cup ToSet(all)
           /\ found # <<>> => SeedsWith(found, all) # <<>>
<1>1. all \in Seq(Chunks)
  BY DEF Chunks
<1>2. found \o all \in Seq(Chunks) /\ ToSet(found \o all) = ToSet(found) \cup ToSet(all)
  BY <1>1, Joined
<1>3. /\ SeedsWith(found, all) \in Seq(Chunks)
      /\ ToSet(SeedsWith(found, all)) = ToSet(found) \cup ToSet(all)
  BY <1>2, DistinctFacts DEF SeedsWith
<1>4. ASSUME found # <<>> PROVE SeedsWith(found, all) # <<>>
  <2>1. found[1] \in ToSet(found)
    BY <1>4 DEF ToSet
  <2>2. ToSet(<<>>) = {}
    BY DEF ToSet
  <2>3. QED
    BY <1>3, <2>1, <2>2
<1>5. QED
  BY <1>3, <1>4

\* What retrieve_and_link leaves in the state is what the chat graph lets it leave.
LEMMA KeptIsRetrieved ==
    ASSUME Sources, RetrieveAndLink
    PROVE  ToSet(kept') \in Graph!Retrieved
<1> DEFINE Stays(c) == IF c.mode = "catalog_overview" \/ Aside THEN NameOnly(c.chunks) ELSE c.chunks
           Lives(c) == ToSet(Stays(c)) \in Graph!Retrieved
<1>1. UNCHANGED <<decision, overview, catalog, index>>
  BY DEF RetrieveAndLink, understood, prepared
<1>2. PICK found \in Nearest :
        LET rows == WithPriorTables(found)
            l == IF (rows # <<>> /\ catalog # <<>>) \/ overview
                 THEN apply_schema_linking(words, rows, catalog, overview, forced)
                 ELSE Linked(rows, "rag")
        IN  \E c \in IF l.chunks = <<>> THEN Introspections ELSE {l} :
              kept' = IF Context(c).mode = "catalog_overview" \/ Aside
                      THEN NameOnly(Context(c).chunks) ELSE Context(c).chunks
  <2>1. PICK found \in Nearest :
        LET rows == WithPriorTables(found)
            l == IF (rows # <<>> /\ catalog # <<>>) \/ overview
                 THEN apply_schema_linking(words, rows, catalog, overview, forced)
                 ELSE Linked(rows, "rag")
        IN  \E c \in IF l.chunks = <<>> THEN Introspections ELSE {l} :
              /\ linked' = Context(c).chunks /\ mode' = Context(c).mode
              /\ kept' = IF mode' = "catalog_overview" \/ Aside THEN NameOnly(linked') ELSE linked'
    BY DEF RetrieveAndLink
  <2>2. QED
    BY <2>1
<1> DEFINE rows == WithPriorTables(found)
           l == IF (rows # <<>> /\ catalog # <<>>) \/ overview
                THEN apply_schema_linking(words, rows, catalog, overview, forced)
                ELSE Linked(rows, "rag")
<1>3. rows \in Seq(Chunks) /\ (index # <<>> => rows # <<>>)
  BY RowsFacts
<1>4. Graph!Aside <=> Aside
  BY DEF Graph!Aside, Aside
<1>5. ASSUME NEW chunks \in Seq(Chunks), chunks # <<>>, ~(overview /\ CatalogNames # {})
      PROVE  Lives(Linked(chunks, "rag"))
  <2> DEFINE X == ToSet(chunks)
  <2>1. X \in (SUBSET Chunks) \ {{}}
    <3>1. chunks[1] \in X
      BY <1>5 DEF ToSet
    <3>2. QED
      BY <3>1, NamesOnly
  <2> HIDE DEF X
  <2>2. Graph!Chunks = Chunks
    BY DEF Graph!Chunks, Chunks
  <2>3. (IF Aside THEN X \ {Synthetic} ELSE X) \in Graph!Retrieved
    BY <1>4, <1>5, <2>1, <2>2 DEF Graph!Retrieved, Graph!Real
  <2>4. QED
    BY <2>3, NamesOnly DEF Linked, X
<1>6. ASSUME overview, CatalogNames = {}
      PROVE  Lives(Linked(Index, "catalog_overview"))
  <2>1. ToSet(NameOnly(Index)) = Chunks \ {Synthetic}
    BY IndexFacts, NamesOnly
  <2>2. Chunks \ {Synthetic} \in Graph!Retrieved
    BY <1>4, <1>6 DEF Graph!Retrieved, Graph!Real, Graph!Chunks, Chunks, Graph!Introspected
  <2>3. QED
    BY <2>1, <2>2 DEF Linked
<1>7. CASE catalog # <<>>
  <2>1. catalog = Index /\ index = Index /\ rows # <<>> /\ CatalogNames = Tables
    BY <1>3, <1>7, IndexFacts DEF Sources, CatalogNames
  <2>2. CASE overview
    <3>1. l = Linked(Index, "catalog_overview") /\ Index # <<>>
      BY <2>1, <2>2, IndexFacts DEF apply_schema_linking
    <3>2. l.chunks # <<>> /\ Context(l) = l
      BY <3>1 DEF Linked, Context
    <3>3. kept' = Stays(l)
      BY <1>2, <3>2
    <3>4. CASE Tables = {}
      BY <1>6, <2>1, <2>2, <3>1, <3>3, <3>4
    <3>5. CASE Tables # {}
      <4>1. ToSet(NameOnly(Index)) = Chunks \ {Synthetic} /\ Chunks \ {Synthetic} = Tables
        BY IndexFacts, NamesOnly, OrderAssumption DEF Chunks
      <4>2. Tables \in Graph!Retrieved
        <5>1. overview /\ CatalogNames # {} /\ CatalogNames = Tables
          BY <2>1, <2>2, <3>5
        <5>2. Graph!Retrieved = {CatalogNames}
          BY <5>1 DEF Graph!Retrieved
        <5>3. QED
          BY <5>1, <5>2
      <4>3. l.chunks = Index /\ l.mode = "catalog_overview"
        BY <3>1 DEF Linked
      <4> HIDE DEF l
      <4>4. kept' = NameOnly(Index)
        BY <3>3, <4>3
      <4>5. QED
        BY <4>1, <4>2, <4>4
    <3>6. QED
      BY <3>4, <3>5
  <2>3. CASE ~overview
    <3> DEFINE all == ForcedIn(words, forced)
               e == expand(SeedsWith(rows, all), suggested_expand_hops(all))
    <3>1. l = Linked(e, "rag")
      BY <1>7, <2>1, <2>3 DEF apply_schema_linking
    <3>2. all \in Seq(Tables) /\ suggested_expand_hops(all) \in Nat
      BY ForcedTables DEF Sources
    <3>3. SeedsWith(rows, all) \in Seq(Chunks) /\ SeedsWith(rows, all) # <<>>
      BY <1>3, <2>1, <3>2, SeedsTogether
    <3>4. e \in Seq(Chunks) /\ e # <<>>
      BY <3>2, <3>3, ExpandFacts
    <3> HIDE DEF e
    <3>5. l.chunks # <<>> /\ Context(l) = l
      BY <3>1, <3>4 DEF Linked, Context
    <3>6. kept' = Stays(l)
      BY <1>2, <3>5
    <3>7. QED
      BY <1>5, <2>3, <3>1, <3>4, <3>6
  <2>4. QED
    BY <2>2, <2>3
<1>8. CASE catalog = <<>>
  <2>1. CatalogNames = {} /\ \A c : Context(c) = c
    BY <1>8 DEF CatalogNames, RealTables, ToSet, Context
  <2>2. \E chunks \in Seq(Chunks) : l = Linked(chunks, "rag") \/ l = Linked(<<>>, "empty")
    <3>1. FirstOf(MaxTables, rows) \in Seq(Chunks)
      BY <1>3, FirstOfFacts, LinkingBounds
    <3>2. <<>> \in Seq(Chunks)
      OBVIOUS
    <3> HIDE DEF rows
    <3>3. QED
      BY <1>3, <1>8, <3>1, <3>2 DEF apply_schema_linking
  <2> HIDE DEF l
  <2>3. CASE l.chunks # <<>>
    <3>1. kept' = Stays(l)
      BY <1>2, <2>1, <2>3 DEF l
    <3>2. PICK chunks \in Seq(Chunks) : l = Linked(chunks, "rag") /\ chunks # <<>>
      BY <2>2, <2>3 DEF Linked
    <3>3. QED
      BY <1>5, <2>1, <3>1, <3>2
  <2>4. CASE l.chunks = <<>>
    <3>1. PICK c \in Introspections : kept' = Stays(c)
      BY <1>2, <2>1, <2>4 DEF l
    <3>2. CASE c = Linked(<<>>, "empty")
      <4>1. <<>> \in Seq(Chunks) /\ ToSet(<<>>) = {}
        BY DEF ToSet
      <4>2. ToSet(Stays(c)) = {}
        BY <3>2, <4>1, NamesOnly DEF Linked
      <4>3. {} \in Graph!Retrieved
        BY <2>1 DEF Graph!Retrieved
      <4>4. QED
        BY <3>1, <4>2, <4>3
    <3>3. CASE overview /\ c = Linked(Index, "catalog_overview")
      BY <1>6, <2>1, <3>1, <3>3
    <3>4. CASE ~overview /\ c = Linked(FirstOf(MaxTables, Index), "rag")
      BY <1>5, <3>1, <3>4, FirstChunks
    <3>5. QED
      BY <3>2, <3>3, <3>4 DEF Introspections
  <2>5. QED
    BY <2>3, <2>4
<1>9. QED
  BY <1>7, <1>8

\* What the router answers is one of the five verdicts.
LEMMA IntentTyped ==
    ASSUME NEW q, NEW h, NEW prior, NEW tables, NEW r \in Routed(q, Rewordings, h, prior, tables)
    PROVE  r.decision.intent \in Intents /\ fallback(q, h, FALSE, tables).intent \in Intents
<1>1. PICK i \in Intents : \E c, w, by :
        r.decision = apply_safety_nets(Decision(i, c, w, by), q, h, prior, tables)
  BY NetsLast
<1>2. PICK c, w, by :
        r.decision = apply_safety_nets(Decision(i, c, w, by), q, h, prior, tables)
  BY <1>1
<1>3. apply_safety_nets(Decision(i, c, w, by), q, h, prior, tables).intent \in Intents
  BY DEF apply_safety_nets, Decision, Intents
<1>4. fallback(q, h, FALSE, tables).intent \in Intents
  BY DEF fallback, Decision, Intents
<1>5. QED
  BY <1>2, <1>3, <1>4

\* A run begins where a run of the chat graph begins.
LEMMA BeginsAsGraph ==
    ASSUME Init
    PROVE  Graph!Init
<1>1. CatalogNames \in {{}, Tables}
  <2>1. CASE index = <<>>
    BY <2>1 DEF Init, CatalogNames, RealTables, ToSet
  <2>2. CASE index = Index
    BY <2>2, IndexFacts DEF Init, CatalogNames
  <2>3. QED
    BY <2>1, <2>2 DEF Init
<1>2. ToSet(kept) = {}
  BY DEF Init, ToSet
<1>3. [analytics |-> has_analytics_intent(question), overview |-> is_catalog_overview_question(question)]
        \in [analytics : BOOLEAN, overview : BOOLEAN]
  BY DEF has_analytics_intent, is_catalog_overview_question
<1>4. decision.intent = "analytics" /\ overview = FALSE /\ node = "route_intent" /\ scope = "answerable" /\ steps = 0
  BY DEF Init, Unrouted, Decision
<1>5. QED
  BY <1>1, <1>2, <1>3, <1>4
     DEF Graph!Init, Graph!NoSql, Graph!NoError, Graph!NullRows, Graph!ResultOf, Graph!NoAnswer, Graph!Answer,
         Graph!NoSnapshot, Nothing, NoHint, TurnedAway

\* Every step is a step of the chat graph, or none of its own.
LEMMA StepsAsGraph ==
    ASSUME MappedInv, [Next]_vars
    PROVE  [Graph!Next]_(Graph!vars)
<1> USE DEF MappedInv, prepared, understood, entities, retrieved
<1>1. CASE RouteIntent
  <2>1. PICK r \in Routed(question, Rewordings, history, priorSql # NoPrior, CatalogNames) :
           LET d == Rerouted(r.decision)
           IN  /\ decision' = d
               /\ overview' = \/ d.intent = "catalog_overview"
                              \/ d.source = "fallback" /\ is_catalog_overview_question(question)
    BY <1>1 DEF RouteIntent
  <2>2. decision'.intent \in Intents
    BY <2>1, IntentTyped DEF Rerouted
  <2>3. \E by \in BOOLEAN : overview' = (decision'.intent = "catalog_overview" \/ (by /\ is_catalog_overview_question(question)))
    <3>1. (decision'.source = "fallback") \in BOOLEAN
      OBVIOUS
    <3>2. QED
      BY <2>1, <3>1
  <2>4. /\ node = "route_intent" /\ node' = "link_entities" /\ steps = 0 /\ steps' = steps + 1
        /\ UNCHANGED <<question, catalog, kept, scope>>
    BY <1>1 DEF RouteIntent, Ran, Passed
  <2>5. Graph!RouteIntent
    BY <2>2, <2>3, <2>4
       DEF Graph!RouteIntent, Graph!Run, Graph!verdict, Graph!query, Graph!retry, Graph!Intents, Intents, CatalogNames
  <2>6. QED
    BY <2>5 DEF Graph!Next
<1>2. CASE LinkEntities
  <2>1. /\ node = "link_entities" /\ node' = "retrieve_and_link" /\ steps = 1 /\ steps' = steps + 1
        /\ UNCHANGED <<question, catalog, decision, overview, kept, scope>>
    BY <1>2 DEF LinkEntities, Ran, Passed
  <2>2. Graph!LinkEntities
    BY <2>1 DEF Graph!LinkEntities, Graph!Run, Graph!prep, Graph!verdict, Graph!query, Graph!retry, CatalogNames
  <2>3. QED
    BY <2>2 DEF Graph!Next
<1>3. CASE RetrieveAndLink
  <2>1. /\ node = "retrieve_and_link" /\ node' = "assess_relevance" /\ steps = 2 /\ steps' = steps + 1
        /\ UNCHANGED <<question, catalog, decision, overview, scope>>
    BY <1>3 DEF RetrieveAndLink, Ran, Passed
  <2>2. ToSet(kept') \in Graph!Retrieved
    BY <1>3, KeptIsRetrieved DEF LinkInv
  <2>3. Graph!RetrieveAndLink
    BY <2>1, <2>2 DEF Graph!RetrieveAndLink, Graph!Run, Graph!prep, Graph!verdict, Graph!query, Graph!retry, CatalogNames
  <2>4. QED
    BY <2>3 DEF Graph!Next
<1>4. CASE AssessRelevance
  <2>1. scope' \in {"answerable", "out_of_scope", "needs_clarification"}
    BY <1>4 DEF AssessRelevance, Assessed, _scope_from_intent
  <2>2. /\ node = "assess_relevance" /\ steps = 3 /\ steps' = steps + 1
        /\ node' = IF scope' = "answerable" THEN "generate_sql" ELSE "END"
        /\ UNCHANGED <<question, catalog, decision, overview, kept>>
    BY <1>4 DEF AssessRelevance, Ran, Passed
  <2>3. Graph!Run("assess_relevance")
    BY <2>2 DEF Graph!Run
  <2>4. UNCHANGED <<Graph!prep, ToSet(kept), Graph!retry>>
    BY <2>2 DEF Graph!prep, Graph!retry, CatalogNames, Nothing, NoHint, TurnedAway
  <2>5. node' = Graph!RouteAfterRelevance'
    BY <2>1, <2>2 DEF Graph!RouteAfterRelevance, Graph!Refused
  <2>6. ASSUME scope' = "answerable" PROVE Graph!AssessRelevance
    <3>1. node # "END" /\ node' # "END" /\ scope' = "answerable"
      BY <2>2, <2>6
    <3>2. (IF node = "END" THEN "ok" ELSE "running")' = "running"
      BY <3>1
    <3>3. UNCHANGED <<Graph!query, TurnedAway(IF node # "END" THEN "null"
                                             ELSE IF scope = "out_of_scope" THEN "refusal" ELSE "clarify")>>
      BY <3>1 DEF Graph!query, Nothing, NoHint, TurnedAway
    <3>4. QED
      BY <2>3, <2>4, <2>5, <3>1, <3>2, <3>3 DEF Graph!AssessRelevance
  <2>7. ASSUME scope' = "out_of_scope" PROVE Graph!AssessRelevance
    <3>1. node' = "END"
      BY <2>2, <2>7
    <3>2. Graph!Refuse("out_of_scope", "refusal")
      BY <2>7, <3>1 DEF Graph!Refuse, Graph!Answer, Graph!NoSql, Graph!NoError, Graph!NothingRun,
                        Graph!ResultOf, Nothing, NoHint, TurnedAway
    <3>3. QED
      BY <2>3, <2>4, <2>5, <3>2 DEF Graph!AssessRelevance
  <2>8. ASSUME scope' = "needs_clarification" PROVE Graph!AssessRelevance
    <3>1. node' = "END"
      BY <2>2, <2>8
    <3>2. Graph!Refuse("needs_clarification", "clarify")
      BY <2>8, <3>1 DEF Graph!Refuse, Graph!Answer, Graph!NoSql, Graph!NoError, Graph!NothingRun,
                        Graph!ResultOf, Nothing, NoHint, TurnedAway
    <3>3. QED
      BY <2>3, <2>4, <2>5, <3>2 DEF Graph!AssessRelevance
  <2>9. Graph!AssessRelevance
    BY <2>1, <2>6, <2>7, <2>8
  <2>10. QED
    BY <2>9 DEF Graph!Next
<1>5. CASE ProviderFails
  <2>1. /\ node \in {"retrieve_and_link", "assess_relevance"} /\ node' = "raised"
        /\ steps \in {2, 3} /\ steps' = steps + 1
        /\ UNCHANGED <<question, catalog, decision, overview, kept, scope>>
    BY <1>5 DEF ProviderFails, Ran, Passed
  <2>2. Graph!NodeRaises
    BY <2>1 DEF Graph!NodeRaises, Graph!Fallible, Graph!Run, Graph!prep, Graph!verdict, Graph!query, Graph!retry, CatalogNames
  <2>3. QED
    BY <2>2 DEF Graph!Next
<1>6. CASE IndexBuilt \/ UNCHANGED vars
  <2>1. UNCHANGED <<question, catalog, decision, overview, node, scope, kept, steps>>
    BY <1>6 DEF IndexBuilt, vars
  <2>2. QED
    BY <2>1 DEF Graph!vars, Graph!prep, Graph!verdict, Graph!query, Graph!retry, CatalogNames
<1>7. QED
  BY <1>1, <1>2, <1>3, <1>4, <1>5, <1>6 DEF Next

\* What the mapping rests on holds throughout every run.
LEMMA MappedAlways == Spec => []MappedInv
<1>1. Init => Passed
  BY DEF Init, Passed
<1>2. Passed /\ [Next]_vars => Passed'
  BY CountedStep
<1>3. Spec => []Passed
  BY <1>1, <1>2, PTL DEF Spec
<1>4. QED
  BY <1>3, LinkInvAlways, PTL DEF MappedInv

-----------------------------------------------------------------------------
(* What the variables hold, and the requests made                          *)

\* A verdict of the router: the confidence is the model's, or of the rules.
Reports == Confidences \cup 55..100
Verdict(d) == d.intent \in Intents /\ d.confidence \in Reports /\ d.wording \in Questions

\* The regular expressions give a verdict with a confidence of their own.
LEMMA RailsTyped ==
    ASSUME NEW q \in Questions, NEW h, NEW prior, NEW tables
    PROVE  Verdict(fallback(q, h, prior, tables))
BY DEF Verdict, fallback, Decision, Intents, Reports

\* The safety nets raise a confidence, they never make one up.
LEMMA NetsTyped ==
    ASSUME NEW q, NEW h, NEW prior, NEW tables,
           NEW i, NEW c, NEW w, NEW by, Verdict(Decision(i, c, w, by))
    PROVE  Verdict(apply_safety_nets(Decision(i, c, w, by), q, h, prior, tables))
<1>1. i \in Intents /\ c \in Reports /\ w \in Questions
  BY DEF Verdict, Decision
<1>2. \A floor \in {70, 75, 85} : AtLeast(floor, c) \in Reports
  BY <1>1 DEF AtLeast, Reports
<1>3. AtLeast(85, c) \in Reports /\ AtLeast(70, c) \in Reports /\ AtLeast(75, c) \in Reports
  BY <1>2
<1>4. QED
  BY <1>1, <1>3 DEF apply_safety_nets, Verdict, Decision, Intents

\* What route returns is a verdict, after at most two requests.
LEMMA RoutedTyped ==
    ASSUME NEW q \in Questions, NEW h, NEW prior, NEW tables, NEW r \in Routed(q, Rewordings, h, prior, tables)
    PROVE  Verdict(r.decision) /\ r.calls \in 0..2
<1> DEFINE rails == fallback(q, h, prior, tables)
           Outcome(o) == o[2] \in 0..2 /\ \E i, c, w, by : o[1] = Decision(i, c, w, by) /\ Verdict(Decision(i, c, w, by))
           outcomes == IF ~PreferLlm THEN {<<rails, 0>>}
                       ELSE (Replies(q, Rewordings) \X {1, 2}) \cup {<<rails, 1>>, <<rails, 2>>}
<1>1. \E i, c, w, by : rails = Decision(i, c, w, by) /\ Verdict(Decision(i, c, w, by))
  <2>1. \E i, c, w, by : rails = Decision(i, c, w, by)
    BY DEF fallback
  <2>2. Verdict(rails)
    BY RailsTyped
  <2> HIDE DEF rails
  <2>3. QED
    BY <2>1, <2>2
<1>2. \A d \in Replies(q, Rewordings) : \E i, c, w, by : d = Decision(i, c, w, by) /\ Verdict(Decision(i, c, w, by))
  <2>1. \A i \in Intents, c \in Confidences, w \in {q} \cup Rewordings : Verdict(Decision(i, c, w, "llm"))
    BY InputsAssumption DEF Verdict, Decision, Reports
  <2>2. QED
    BY <2>1 DEF Replies
<1>3. \A o \in outcomes : Outcome(o)
  <2> HIDE DEF rails
  <2>1. \A o \in Replies(q, Rewordings) \X {1, 2} : Outcome(o)
    BY <1>2
  <2>2. QED
    BY <1>1, <2>1
<1>4. PICK o \in outcomes : r.decision = apply_safety_nets(o[1], q, h, prior, tables) /\ r.calls = o[2]
  BY DEF Routed
<1>5. QED
  BY <1>3, <1>4, NetsTyped

\* One more request at most in each of the next three nodes.
LEMMA EntityCalls ==
    ASSUME NEW ws, NEW names, NEW e \in LinkedEntities(ws, names)
    PROVE  e.calls \in {0, 1}
<1>1. \A ts, more, n : Entities(ws, ts, more, n).calls = n
  BY DEF Entities
<1>2. \/ \E ts, more : e = Entities(ws, ts, more, 0)
      \/ \E ts, more : e = Entities(ws, ts, more, 1)
  <2> HIDE DEF Entities
  <2>1. QED
    BY Zenon DEF LinkedEntities
<1>3. QED
  BY <1>1, <1>2

\* The requests made before each node.
Requests ==
    /\ asked \in 0..5 /\ steps \in 0..4
    /\ node = "route_intent" => asked = 0
    /\ node = "link_entities" => asked <= 2
    /\ node = "retrieve_and_link" => asked <= 3
    /\ node = "assess_relevance" => asked <= 4
    /\ asked = 5 => ~trusted(decision)

\* Only chunks are retrieved and linked.
LEMMA RetrievedTyped ==
    ASSUME Sources, RetrieveAndLink
    PROVE  /\ ToSet(seeds') \cup ToSet(linked') \subseteq Chunks
           /\ mode' \in {"rag", "catalog_overview", "empty"}
<1> DEFINE Fits(c) == c.chunks \in Seq(Chunks) /\ c.mode \in {"rag", "catalog_overview", "empty"}
<1>1. PICK found \in Nearest :
        LET rows == WithPriorTables(found)
            l == IF (rows # <<>> /\ catalog # <<>>) \/ overview
                 THEN apply_schema_linking(words, rows, catalog, overview, forced)
                 ELSE Linked(rows, "rag")
        IN  /\ seeds' = rows
            /\ \E c \in IF l.chunks = <<>> THEN Introspections ELSE {l} :
                 linked' = Context(c).chunks /\ mode' = Context(c).mode
  BY DEF RetrieveAndLink
<1> DEFINE rows == WithPriorTables(found)
           all == ForcedIn(words, forced)
           e == expand(SeedsWith(rows, all), suggested_expand_hops(all))
           l == IF (rows # <<>> /\ catalog # <<>>) \/ overview
                THEN apply_schema_linking(words, rows, catalog, overview, forced)
                ELSE Linked(rows, "rag")
<1>2. \A chunks \in Seq(Chunks) : \A m \in {"rag", "catalog_overview", "empty"} : Fits(Linked(chunks, m))
  BY DEF Linked
<1>3. rows \in Seq(Chunks)
  BY RowsFacts
<1>4. e \in Seq(Chunks)
  <2>1. all \in Seq(Tables) /\ suggested_expand_hops(all) \in Nat
    BY ForcedTables DEF Sources
  <2>2. SeedsWith(rows, all) \in Seq(Chunks)
    BY <1>3, <2>1, SeedsTogether
  <2>3. QED
    BY <2>1, <2>2, ExpandFacts
<1>5. catalog \in Seq(Chunks) /\ <<>> \in Seq(Chunks)
  <2>1. index \in Seq(Chunks) /\ <<>> \in Seq(Chunks)
    BY IndexTyped
  <2>2. QED
    BY <2>1 DEF Sources
<1>6. \A some \in Seq(Chunks) : FirstOf(MaxTables, some) \in Seq(Chunks)
  BY FirstOfFacts, LinkingBounds
<1>7. \/ l = Linked(catalog, "catalog_overview") \/ l = Linked(<<>>, "empty")
      \/ l = Linked(FirstOf(MaxTables, rows), "rag") \/ l = Linked(e, "rag") \/ l = Linked(rows, "rag")
  <2> HIDE DEF rows, e, all
  <2>1. e = expand(SeedsWith(rows, ForcedIn(words, forced)), suggested_expand_hops(ForcedIn(words, forced)))
    BY DEF e, all
  <2>2. QED
    BY <2>1, Zenon DEF apply_schema_linking
<1> HIDE DEF rows, e, all
<1>8. Fits(l)
  BY <1>2, <1>3, <1>4, <1>5, <1>6, <1>7
<1>9. \A c \in Introspections : Fits(c)
  <2>1. Index \in Seq(Chunks)
    BY IndexFacts
  <2>2. QED
    BY <1>2, <1>5, <1>6, <2>1 DEF Introspections
<1>10. \A c : Fits(c) => Fits(Context(c))
  BY <1>2, <1>5, <1>6 DEF Context
<1> HIDE DEF l, Fits
<1>11. PICK c : Fits(c) /\ linked' = Context(c).chunks /\ mode' = Context(c).mode
  BY <1>1, <1>8, <1>9 DEF l, rows
<1>12. linked' \in Seq(Chunks) /\ mode' \in {"rag", "catalog_overview", "empty"}
  BY <1>10, <1>11 DEF Fits
<1>13. seeds' \in Seq(Chunks)
  BY <1>1, <1>3 DEF rows
<1>14. QED
  BY <1>12, <1>13, NamesOnly

Typed == TypeOK /\ Requests /\ MappedInv

\* Every step keeps the types, and the requests within their number.
LEMMA TypedStep ==
    ASSUME Typed, [Next]_vars
    PROVE  TypeOK' /\ Requests'
<1> USE DEF Typed, prepared, understood, entities, retrieved, MappedInv
<1>1. CASE RouteIntent
  <2>1. PICK r \in Routed(question, Rewordings, history, priorSql # NoPrior, CatalogNames) :
           LET d == Rerouted(r.decision)
           IN  /\ priorSql' = PriorFor(r.decision) /\ decision' = d
               /\ overview' = \/ d.intent = "catalog_overview"
                              \/ d.source = "fallback" /\ is_catalog_overview_question(question)
               /\ asked' = asked + r.calls
    BY <1>1 DEF RouteIntent
  <2>2. question \in Questions
    BY DEF TypeOK
  <2>3. Verdict(decision') /\ r.calls \in 0..2
    BY <2>1, <2>2, RoutedTyped, RailsTyped DEF Rerouted
  <2>4. /\ node = "route_intent" /\ node' = "link_entities" /\ steps = 0 /\ steps' = steps + 1
        /\ UNCHANGED <<question, history, catalog, index, forced, seeds, linked, mode, scope>>
    BY <1>1 DEF RouteIntent, Ran, Passed
  <2>5. priorSql' \subseteq Tables /\ overview' \in BOOLEAN
    BY <2>1 DEF TypeOK, PriorFor, NoPrior
  <2>6. TypeOK'
    BY <2>1, <2>3, <2>4, <2>5 DEF TypeOK, Verdict, Reports, Chunks, Index, Requests
  <2>7. QED
    BY <2>1, <2>3, <2>4, <2>6 DEF Requests
<1>2. CASE LinkEntities
  <2>1. forced' \in Seq(Tables) /\ asked' \in {asked, asked + 1}
    <3>1. CASE decision.intent \in {"analytics", "follow_up"} /\ ~overview
      <4>1. PICK e \in LinkedEntities(words, CatalogNames) : forced' = e.tables /\ asked' = asked + e.calls
        BY <1>2, <3>1 DEF LinkEntities
      <4>2. QED
        BY <4>1, EntityTables, EntityCalls DEF Requests
    <3>2. CASE ~(decision.intent \in {"analytics", "follow_up"} /\ ~overview)
      BY <1>2, <3>2 DEF LinkEntities, LinkInv, Sources
    <3>3. QED
      BY <3>1, <3>2
  <2>2. /\ node = "link_entities" /\ node' = "retrieve_and_link" /\ steps = 1 /\ steps' = steps + 1
        /\ UNCHANGED <<question, history, catalog, index, priorSql, decision, overview, seeds, linked, mode, scope>>
    BY <1>2 DEF LinkEntities, Ran, Passed
  <2>3. ToSet(forced') \subseteq Tables
    BY <2>1 DEF ToSet
  <2>4. asked \in 0..2 /\ asked' \in 0..3
    BY <2>1, <2>2 DEF Requests
  <2>5. TypeOK'
    BY <2>2, <2>3, <2>4 DEF TypeOK, Chunks, Index
  <2>6. QED
    BY <2>2, <2>4, <2>5 DEF Requests
<1>3. CASE RetrieveAndLink
  <2>1. /\ node = "retrieve_and_link" /\ node' = "assess_relevance" /\ steps = 2 /\ steps' = steps + 1
        /\ asked' = asked + 1
        /\ UNCHANGED <<question, history, catalog, index, priorSql, decision, overview, forced, scope>>
    BY <1>3 DEF RetrieveAndLink, Ran, Passed
  <2>2. /\ ToSet(seeds') \cup ToSet(linked') \subseteq Chunks
        /\ mode' \in {"rag", "catalog_overview", "empty"}
    BY <1>3, RetrievedTyped DEF LinkInv
  <2>3. asked \in 0..3 /\ asked' \in 0..4
    BY <2>1 DEF Requests
  <2>4. TypeOK'
    BY <2>1, <2>2, <2>3 DEF TypeOK, Chunks, Index
  <2>5. QED
    BY <2>1, <2>3, <2>4 DEF Requests
<1>4. CASE AssessRelevance
  <2>1. scope' \in {"answerable", "out_of_scope", "needs_clarification"}
    BY <1>4 DEF AssessRelevance, Assessed, _scope_from_intent
  <2>2. /\ node = "assess_relevance" /\ steps = 3 /\ steps' = steps + 1 /\ node' \in {"generate_sql", "END"}
        /\ asked' = IF AsksModel THEN asked + 1 ELSE asked
        /\ UNCHANGED <<question, history, catalog, index, priorSql, decision, overview, forced, seeds, linked, mode>>
    BY <1>4 DEF AssessRelevance, Ran, Passed
  <2>3. AsksModel => ~trusted(decision)
    BY DEF AsksModel, AsksScopeModel
  <2>4. asked \in 0..4 /\ asked' \in 0..5
    BY <2>2 DEF Requests
  <2>5. TypeOK'
    BY <2>1, <2>2, <2>4 DEF TypeOK, Chunks, Index
  <2>6. QED
    BY <2>2, <2>3, <2>4, <2>5 DEF Requests
<1>5. CASE ProviderFails
  <2>1. /\ node = "retrieve_and_link" \/ (node = "assess_relevance" /\ ~trusted(decision))
        /\ steps \in {2, 3} /\ steps' = steps + 1 /\ node' = "raised" /\ asked' = asked + 1
        /\ UNCHANGED <<question, history, catalog, index, priorSql, decision, overview, forced, seeds, linked, mode, scope>>
    BY <1>5 DEF ProviderFails, Ran, Passed, AsksModel, AsksScopeModel
  <2>2. asked' \in 0..5 /\ (asked' = 5 => ~trusted(decision))
    BY <2>1 DEF Requests
  <2>3. TypeOK'
    BY <2>1, <2>2 DEF TypeOK, Chunks, Index
  <2>4. QED
    BY <2>1, <2>2, <2>3 DEF Requests
<1>6. CASE IndexBuilt
  BY <1>6 DEF IndexBuilt, TypeOK, Requests, Chunks, Index
<1>7. CASE UNCHANGED vars
  BY <1>7 DEF vars, TypeOK, Requests, Chunks, Index
<1>8. QED
  BY <1>1, <1>2, <1>3, <1>4, <1>5, <1>6, <1>7 DEF Next

\* They hold throughout every run.
LEMMA TypedAlways == Spec => [](TypeOK /\ Requests)
<1>1. Init => TypeOK /\ Requests
  <2>1. SUFFICES ASSUME Init PROVE TypeOK /\ Requests
    OBVIOUS
  <2>2. priorSql \subseteq Tables
    BY <2>1, InputsAssumption DEF Init, NoPrior
  <2>3. ToSet(forced) = {} /\ ToSet(seeds) = {} /\ ToSet(linked) = {}
    BY <2>1 DEF Init, ToSet
  <2>4. decision.intent = "analytics" /\ decision.confidence = 100 /\ decision.wording = question
    BY <2>1 DEF Init, Unrouted, Decision
  <2>5. /\ question \in Questions /\ history \in Histories /\ index \in {<<>>, Index} /\ catalog = index
        /\ mode = "empty" /\ node = "route_intent" /\ scope = "answerable" /\ overview = FALSE
        /\ steps = 0 /\ asked = 0
    BY <2>1 DEF Init
  <2>6. TypeOK
    <3>1. decision.intent \in Intents /\ decision.wording \in Questions
      BY <2>4, <2>5 DEF Intents
    <3>2. decision.confidence \in Confidences \cup 55..100
      BY <2>4
    <3>3. ToSet(forced) \subseteq Tables /\ ToSet(seeds) \cup ToSet(linked) \subseteq Chunks
      BY <2>3
    <3>4. steps \in 0..4 /\ asked \in 0..5
      BY <2>5
    <3>5. catalog \in {<<>>, index} /\ overview \in BOOLEAN
      BY <2>5, Zenon
    <3>6. QED
      BY <2>2, <2>5, <3>1, <3>2, <3>3, <3>4, <3>5 DEF TypeOK
  <2>7. QED
    BY <2>5, <2>6 DEF Requests
<1>2. Spec => []MappedInv
  BY MappedAlways
<1>3. (TypeOK /\ Requests) /\ MappedInv /\ [Next]_vars => (TypeOK /\ Requests)'
  BY TypedStep DEF Typed
<1>4. QED
  BY <1>1, <1>2, <1>3, PTL DEF Spec

-----------------------------------------------------------------------------
(* The results                                                             *)

\* Whatever the model replies, a question that speaks of the warehouse is never called
\* out of scope, and one that names a table only by the regular expressions, or
\* when the table is not in the context.
THEOREM RefusalsJustifiedHolds == Spec => []RefusalsJustified
<1>1. Init => Judged
  BY DEF Init, Judged, RefusedByRouter, Undecided, RefusalsJustified
<1>2. Judged /\ [Next]_vars => Judged'
  BY JudgedStep
<1>3. Judged => RefusalsJustified
  BY DEF Judged
<1>4. QED
  BY <1>1, <1>2, <1>3, PTL DEF Spec

\* A follow-up has earlier SQL to follow, and the planner sees no earlier SQL for a
\* question that does not continue it.
THEOREM PriorSqlFollowedHolds == Spec => []PriorSqlFollowed
<1>1. Init => PriorSqlFollowed
  BY DEF Init, PriorSqlFollowed
<1>2. PriorSqlFollowed /\ [Next]_vars => PriorSqlFollowed'
  BY FollowedStep
<1>3. QED
  BY <1>1, <1>2, PTL DEF Spec

\* Wherever the seeds come from, the context is made of what is nearest to them by
\* foreign keys, and a table is left out only when it is full.
THEOREM LinkedNearestFirstHolds == Spec => []LinkedNearestFirst
<1>1. LinkInv => LinkedNearestFirst
  BY DEF LinkInv
<1>2. QED
  BY <1>1, LinkInvAlways, PTL

\* The tables of the SQL that is refined are in the context, unless it is full.
THEOREM PriorTablesLinkedHolds == Spec => []PriorTablesLinked
<1>1. LinkInv => PriorTablesLinked
  BY DEF LinkInv
<1>2. QED
  BY <1>1, LinkInvAlways, PTL

\* What each node leaves is what the next one reads.
THEOREM TypesHold == Spec => []TypeOK
BY TypedAlways, PTL

\* A question costs at most five requests before its SQL is planned, four if the
\* verdict of the router is trusted.
THEOREM AskedOnceHolds == Spec => []AskedOnce
<1>1. Requests => AskedOnce
  BY DEF Requests, AskedOnce
<1>2. QED
  BY <1>1, TypedAlways, PTL

\* Every run of the four nodes in detail is a run of the chat graph, which leaves their
\* outcomes open.
THEOREM ImplementsGraphHolds == Spec => ImplementsGraph
<1>1. Init => Graph!Init
  BY BeginsAsGraph
<1>2. Spec => []MappedInv
  BY MappedAlways
<1>3. MappedInv /\ [Next]_vars => [Graph!Next]_(Graph!vars)
  BY StepsAsGraph
<1>4. QED
  BY <1>1, <1>2, <1>3, PTL DEF Spec, ImplementsGraph, Graph!Spec
=============================================================================
