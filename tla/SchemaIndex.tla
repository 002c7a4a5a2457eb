----------------------------- MODULE SchemaIndex -----------------------------
(***************************************************************************)
(* POST /api/data/embed-schema for one data source: the rebuild of its     *)
(* rows in schema_embeddings and of the summary in extra_config.           *)
(*                                                                         *)
(* A rebuild is one transaction, READ COMMITTED.  The rows a rebuild       *)
(* inserts stand or fall together, so they are one batch, named after it.  *)
(* The guard of schema_embedding_service.py is held while the rebuild      *)
(* runs; the commit comes after the response, in get_db.                   *)
(***************************************************************************)
EXTENDS Naturals, FiniteSets

CONSTANTS
    Rebuilds,    \* rebuild requests for the source
    Process,     \* the server process a request is handled by
    Indexed,     \* the batch the source starts with, or NoBatch
    NoBatch

Processes == {Process[r] : r \in Rebuilds}

ASSUME RebuildsAssumption ==
    DOMAIN Process = Rebuilds /\ Indexed \notin Rebuilds /\ NoBatch \notin Rebuilds

VARIABLES
    phase,       \* where a rebuild stands
    indexing,    \* _indexing_sources: processes in which the source is being indexed
    target,      \* batches a DELETE found when it started
    deleter,     \* the last rebuild that deleted a batch
    inserted,    \* rebuilds whose batch has been flushed
    committed,   \* batches and deletions of committed transactions
    summary      \* the rebuild that extra_config (committed) speaks of

indexVars == <<phase, indexing, target, deleter, inserted, committed, summary>>

Batches == (Rebuilds \cup {Indexed}) \ {NoBatch}
Phases == {"new", "reading", "embedding", "deleting", "deleted", "flushed",
          "replied", "failed", "over"}

IndexInit ==
    /\ phase = [r \in Rebuilds |-> "new"] /\ indexing = {}
    /\ target = [r \in Rebuilds |-> {}] /\ deleter = [b \in Batches |-> NoBatch]
    /\ inserted = {Indexed} \ {NoBatch} /\ committed = {Indexed} \ {NoBatch}
    /\ summary = Indexed

MoveTo(r, to) == phase' = [phase EXCEPT ![r] = to]

\* The batches a statement finds now.
Index == {b \in inserted \cap committed : deleter[b] \notin committed}
Open(r) == phase[r] \notin {"new", "over"}

-----------------------------------------------------------------------------
(* embed_data_source                                                       *)

\* The guard is checked and set under its asyncio.Lock; 409 when it is taken.
Enter(r) ==
    /\ phase[r] = "new"
    /\ IF Process[r] \in indexing
       THEN MoveTo(r, "over") /\ UNCHANGED indexing
       ELSE MoveTo(r, "reading") /\ indexing' = indexing \cup {Process[r]}
    /\ UNCHANGED <<target, deleter, inserted, committed, summary>>

\* The source and the count of its chunks; then introspection, profile, embedding.
ReadSource(r) ==
    /\ phase[r] = "reading" /\ MoveTo(r, "embedding")
    /\ UNCHANGED <<indexing, target, deleter, inserted, committed, summary>>

\* DELETE ... WHERE data_source_id: the rows it goes for are those committed now.
StartDelete(r) ==
    /\ phase[r] = "embedding" /\ MoveTo(r, "deleting")
    /\ target' = [target EXCEPT ![r] = Index]
    /\ UNCHANGED <<indexing, deleter, inserted, committed, summary>>

RowsLocked_Mby_anyone(r) == \E b \in target[r] : deleter[b] # NoBatch

\* A row another open transaction has deleted is waited for.
RowsLocked(r) == \E b \in target[r] : deleter[b] # NoBatch /\ Open(deleter[b])

\* What that transaction deleted for good is skipped; rows it inserted were not found.
FinishDelete(r) ==
    /\ phase[r] = "deleting" /\ ~RowsLocked(r)
    /\ deleter' = [b \in Batches |->
         IF b \in target[r] /\ deleter[b] \notin committed THEN r ELSE deleter[b]]
    /\ MoveTo(r, "deleted")
    /\ UNCHANGED <<indexing, target, inserted, committed, summary>>

SummaryLocked(r) == \E q \in Rebuilds \ {r} : phase[q] \in {"flushed", "replied"}

\* The new rows and extra_config, whose row another open rebuild may have locked.
Flush(r) ==
    /\ phase[r] = "deleted" /\ ~SummaryLocked(r)
    /\ inserted' = inserted \cup {r}
    /\ MoveTo(r, "flushed")
    /\ UNCHANGED <<indexing, target, deleter, committed, summary>>

\* finally: the source leaves the guard, and the response is sent.
Leave(r) ==
    /\ phase[r] = "flushed"
    /\ indexing' = indexing \ {Process[r]}
    /\ MoveTo(r, "replied")
    /\ UNCHANGED <<target, deleter, inserted, committed, summary>>

Fail_Mkeeps_guard(r) ==
    /\ phase[r] \in {"reading", "embedding", "deleting", "deleted"}
    /\ MoveTo(r, "failed")
    /\ UNCHANGED <<indexing, target, deleter, inserted, committed, summary>>

\* Introspection, the provider or a statement fails: the same finally.
Fail(r) ==
    /\ phase[r] \in {"reading", "embedding", "deleting", "deleted"}
    /\ indexing' = indexing \ {Process[r]}
    /\ MoveTo(r, "failed")
    /\ UNCHANGED <<target, deleter, inserted, committed, summary>>

-----------------------------------------------------------------------------
(* get_db                                                                  *)

Commit_Mwithout_summary(r) ==
    /\ phase[r] = "replied"
    /\ committed' = committed \cup {r} /\ MoveTo(r, "over")
    /\ UNCHANGED <<indexing, target, deleter, inserted, summary>>

Commit(r) ==
    /\ phase[r] = "replied"
    /\ committed' = committed \cup {r} /\ summary' = r
    /\ MoveTo(r, "over")
    /\ UNCHANGED <<indexing, target, deleter, inserted>>

Rollback_Mcommits(r) ==
    /\ phase[r] \in {"failed", "replied"}
    /\ committed' = committed \cup {r} /\ MoveTo(r, "over")
    /\ UNCHANGED <<indexing, target, deleter, inserted, summary>>

\* After an exception, or when the connection is lost before the commit.
Rollback(r) ==
    /\ phase[r] \in {"failed", "replied"}
    /\ MoveTo(r, "over")
    /\ UNCHANGED <<indexing, target, deleter, inserted, committed, summary>>

-----------------------------------------------------------------------------
Proceed(r) ==
    \/ ReadSource(r) \/ StartDelete(r) \/ FinishDelete(r) \/ Flush(r) \/ Leave(r)
    \/ Commit(r) \/ (phase[r] = "failed" /\ Rollback(r))

IndexNext == \E r \in Rebuilds : Enter(r) \/ Proceed(r) \/ Fail(r) \/ Rollback(r)

IndexSpec == IndexInit /\ [][IndexNext]_indexVars

\* A request that was accepted is worked on; nothing has to fail.
IndexFairSpec == IndexSpec /\ \A r \in Rebuilds : WF_indexVars(Proceed(r))

-----------------------------------------------------------------------------
(* Correctness                                                             *)

IndexTypeOK ==
    /\ phase \in [Rebuilds -> Phases] /\ indexing \subseteq Processes
    /\ target \in [Rebuilds -> SUBSET Batches]
    /\ deleter \in [Batches -> Rebuilds \cup {NoBatch}]
    /\ inserted \subseteq Batches /\ committed \subseteq Batches
    /\ summary \in Batches \cup {NoBatch}

\* "a provider failure leaves the old vectors intact": once a source has an index,
\* no overlap of rebuilds and no failure leaves a chat without one.
NeverEmptied == committed # {} => Index # {}

\* extra_config and the index change together: what it counts is there.
SummaryDescribesIndex == summary # NoBatch => summary \in Index

\* The guard is held exactly while a rebuild of the process is between its two ends,
\* so an overlap within one process is only possible after the response.
Working == {"reading", "embedding", "deleting", "deleted", "flushed"}
GuardCoversWork ==
    /\ \A p \in Processes : p \in indexing <=> \E r \in Rebuilds : Process[r] = p /\ phase[r] \in Working
    /\ \A q, r \in Rebuilds :
         Process[q] = Process[r] /\ phase[q] \in Working /\ phase[r] \in Working => q = r

\* An accepted rebuild comes to its end however rebuilds wait for each other's rows,
\* and the source can be indexed again.
RebuildsEnd == \A r \in Rebuilds : phase[r] = "reading" ~> phase[r] = "over"

-----------------------------------------------------------------------------
(* A statement of the repository that the code does not keep               *)

\* "guard against overlapping rebuilds for the same source": the rebuilds of one
\* process do not pile up in the index.
IndexOfOneRebuild ==
    \A p \in Processes : Cardinality({r \in Index \cap Rebuilds : Process[r] = p}) <= 1
=============================================================================
