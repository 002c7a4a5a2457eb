----------------------------- MODULE RateLimit -----------------------------
(***************************************************************************)
(* The sliding-window limiter of security/rate_limit.py: one dictionary of *)
(* hit times for all scopes, guarded by one lock, so that a check is one   *)
(* step.  The dictionary is in the order in which its keys were put there, *)
(* which decides which key is dropped when there are too many.             *)
(***************************************************************************)
EXTENDS Naturals, Sequences, FiniteSets, FiniteSetsExt

CONSTANTS
    Window,             \* window_seconds
    MaxKeys,            \* _MAX_KEYS, 2048 in the code
    MinIdentityLimit    \* the floor of an identity's limit, 3 in the code

ASSUME LimiterAssumption ==
    Window \in Nat /\ MaxKeys \in Nat \ {0} /\ MinIdentityLimit \in Nat \ {0}

VARIABLES
    now,      \* time.monotonic()
    hits,     \* _hits: of each key its times, and the number of the hit that put it there
    passed    \* history: every hit that was ever let through, as [key, at]

limiter == <<now, hits, passed>>

InitLimiter == now = 0 /\ hits = [k \in {} |-> 0] /\ passed = <<>>

\* The hits at the head that are older than now - window_seconds leave the window.
InWindow(t) == t + Window >= now
Live(times) ==
    LET old == Min({n \in 0 .. Len(times) : n = Len(times) \/ InWindow(times[n + 1])})
    IN  SubSeq(times, old + 1, Len(times))

Times(table, k) == IF k \in DOMAIN table THEN table[k].times ELSE <<>>

\* A key that is there keeps its place.
Store(table, k, times, number) ==
    [j \in DOMAIN table \cup {k} |->
        IF j # k THEN table[j]
        ELSE [times |-> times,
              since |-> IF k \in DOMAIN table THEN table[k].since ELSE number]]

Keep(table, keys) == [k \in keys |-> table[k]]
NonEmpty(table) == {k \in DOMAIN table : table[k].times # <<>>}
Younger(table, k) == {j \in DOMAIN table : table[j].since > table[k].since}

\* A slip a run rejects: the cap counts the key in use too.
Prune_Mone_too_many(table) ==
    IF Cardinality(DOMAIN table) < MaxKeys THEN table
    ELSE Keep(table, {k \in DOMAIN table : Cardinality(Younger(table, k)) < MaxKeys - 1})

\* _prune_locked: from half the cap on keys without hits go, beyond it those whose hits
\* are old too, and then the oldest keys whatever their hits.
Prune(table) ==
    LET fresh == [k \in DOMAIN table |-> [table[k] EXCEPT !.times = Live(@)]]
        kept == Keep(fresh, NonEmpty(fresh))
    IN  IF Cardinality(DOMAIN table) < MaxKeys \div 2 THEN table
        ELSE IF Cardinality(DOMAIN table) <= MaxKeys THEN Keep(table, NonEmpty(table))
        ELSE Keep(kept, {k \in DOMAIN kept : Cardinality(Younger(kept, k)) < MaxKeys})

\* _SlidingWindowLimiter.check; a refused hit is not recorded.
Check(table, k, limit, number) ==
    LET bucket == Live(Times(table, k))
        ok == Len(bucket) < limit
    IN  [ok |-> ok,
         table |-> IF ok THEN Prune(Store(table, k, Append(bucket, now), number))
                   ELSE Store(table, k, bucket, number)]

identity_limit(limit) ==
    IF limit \div 2 > MinIdentityLimit THEN limit \div 2 ELSE MinIdentityLimit

\* The address first, then the user; the hit of the address stays when the user is refused.
enforce_rate_limit(ip, user, limit, admitted) ==
    LET first == Check(hits, ip, limit, Len(passed) + 1)
        second == Check(first.table, user, identity_limit(limit), Len(passed) + 2)
        hit(k) == [key |-> k, at |-> now]
    IN  /\ admitted = (first.ok /\ second.ok)
        /\ hits' = IF first.ok THEN second.table ELSE first.table
        /\ passed' = passed \o (IF ~first.ok THEN <<>>
                               ELSE IF ~second.ok THEN <<hit(ip)>> ELSE <<hit(ip), hit(user)>>)
        /\ UNCHANGED now

Tick == now' = now + 1 /\ UNCHANGED <<hits, passed>>

-----------------------------------------------------------------------------
KeysSeen == {passed[i].key : i \in DOMAIN passed}

\* In every window that ends now a key was let through at most limit times, and the
\* dictionary never outgrows its cap; the first holds as long as the process has seen no
\* more keys than the cap, beyond it a key may be dropped with its hits (check,
\* _prune_locked).
LiveHits(k) == {i \in DOMAIN passed : passed[i].key = k /\ InWindow(passed[i].at)}
Kept(k, limit) == Cardinality(KeysSeen) <= MaxKeys => Cardinality(LiveHits(k)) <= limit
KeysBounded == Cardinality(DOMAIN hits) <= MaxKeys
=============================================================================
