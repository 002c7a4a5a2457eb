----------------------------- MODULE DataSources -----------------------------
(***************************************************************************)
(* Files and warehouses of one user: POST /api/data/upload and /connect,   *)
(* DELETE /api/data/sources/{id}, and the requests that read a source      *)
(* (questions, index rebuilds).                                            *)
(*                                                                         *)
(* A source is a row of data_sources, written in the request's transaction,*)
(* which get_db commits after the response.  The table of an upload lives  *)
(* in a schema of its own, created and dropped over another connection in  *)
(* transactions of their own.  The two can come apart: a request may fail, *)
(* a commit may fail, the server may die between any two steps.            *)
(***************************************************************************)
EXTENDS Naturals, FiniteSets

CONSTANTS
    Uploads,       \* upload requests; a request names the source it creates
    Connects,      \* connect requests
    Removals,      \* delete requests
    Uses,          \* requests that read a source
    Of,            \* [Removals \cup Uses -> the source they name]
    MaxCrashes,
    None

Sources == Uploads \cup Connects
Requests == Sources \cup Removals \cup Uses

ASSUME RequestsAssumption ==
    /\ Uploads \cap Connects = {} /\ Removals \cap Uses = {}
    /\ Sources \cap (Removals \cup Uses) = {} /\ None \notin Requests
    /\ Of \in [Removals \cup Uses -> Sources]
ASSUME CrashesAssumption == MaxCrashes \in Nat

VARIABLES
    step,          \* where a request stands
    row,           \* the row of a source as committed
    table,         \* the source's tables are there
    lock,          \* the removal that holds the row's lock
    broken,        \* sources whose upload or removal did not go through (history variable)
    crashes

vars == <<step, row, table, lock, broken, crashes>>

Steps == {"new", "loaded", "found", "updated", "reading", "missing", "replied", "failed", "over"}
Finished == {"over", "failed", "missing"}

Init ==
    /\ step = [r \in Requests |-> "new"]
    /\ row = [s \in Sources |-> "none"]
    /\ table = [s \in Sources |-> s \in Connects]     \* a warehouse is the user's own
    /\ lock = [s \in Sources |-> None]
    /\ broken = {} /\ crashes = 0

Goto(r, to) == step' = [step EXCEPT ![r] = to]

\* is_upload_schema: only the schemas of uploads match u_<12 hex digits>.
is_upload_schema(s) == s \in Uploads

\* A client names a source it has been told of, by the response or by the list.
Known(s) == step[s] = "replied" \/ row[s] # "none"

-----------------------------------------------------------------------------
(* Upload and connect                                                      *)

\* The file is refused (type, size, rows, no columns), or the tables cannot be
\* loaded: one transaction, so nothing of them stays.  400.
Reject(s) ==
    /\ s \in Uploads /\ step[s] = "new" /\ Goto(s, "failed")
    /\ UNCHANGED <<row, table, lock, broken, crashes>>

\* CREATE SCHEMA, CREATE TABLE, INSERT, COMMIT.
Load(s) ==
    /\ s \in Uploads /\ step[s] = "new" /\ Goto(s, "loaded")
    /\ table' = [table EXCEPT ![s] = TRUE]
    /\ UNCHANGED <<row, lock, broken, crashes>>

Connect_Mbefore_load(s) ==
    /\ step[s] = "new" /\ Goto(s, "replied")
    /\ UNCHANGED <<row, table, lock, broken, crashes>>

\* connect: the connection works, the new row is flushed, the id is returned.
Connect(s) ==
    /\ step[s] = IF s \in Uploads THEN "loaded" ELSE "new"
    /\ Goto(s, "replied")
    /\ UNCHANGED <<row, table, lock, broken, crashes>>

\* The host is refused, test_connection or the flush fails: 400 or 502.
ConnectFails(s) ==
    /\ step[s] = IF s \in Uploads THEN "loaded" ELSE "new"
    /\ Goto(s, "failed") /\ broken' = broken \cup {s}
    /\ UNCHANGED <<row, table, lock, crashes>>

CommitSource(s) ==
    /\ step[s] = "replied" /\ Goto(s, "over")
    /\ row' = [row EXCEPT ![s] = "active"]
    /\ UNCHANGED <<table, lock, broken, crashes>>

CommitSourceFails(s) ==
    /\ step[s] = "replied" /\ Goto(s, "failed")
    /\ broken' = broken \cup {s}
    /\ UNCHANGED <<row, table, lock, crashes>>

-----------------------------------------------------------------------------
(* Removal                                                                 *)

\* get_active: a source whose row is not committed yet is not found either.  404.
GetActive(r) ==
    /\ step[r] = "new" /\ Known(Of[r])
    /\ Goto(r, IF row[Of[r]] = "active" THEN "found" ELSE "over")
    /\ UNCHANGED <<row, table, lock, broken, crashes>>

\* The flush: UPDATE ... SET is_active = false waits for the row's lock.
Deactivate(r) ==
    /\ r \in Removals /\ step[r] = "found" /\ lock[Of[r]] = None
    /\ Goto(r, "updated") /\ lock' = [lock EXCEPT ![Of[r]] = r]
    /\ UNCHANGED <<row, table, broken, crashes>>

Readers(s) == {u \in Uses : Of[u] = s /\ step[u] = "reading"}

DropSchema_Mnever(r) ==
    /\ r \in Removals /\ step[r] = "updated" /\ Goto(r, "replied")
    /\ UNCHANGED <<row, table, lock, broken, crashes>>

\* DROP SCHEMA ... CASCADE, committed at once, waits for statements that read the
\* tables.  A warehouse keeps its tables.
DropSchema(r) ==
    /\ r \in Removals /\ step[r] = "updated" /\ Goto(r, "replied")
    /\ IF is_upload_schema(Of[r])
       THEN Readers(Of[r]) = {} /\ table' = [table EXCEPT ![Of[r]] = FALSE]
       ELSE UNCHANGED table
    /\ UNCHANGED <<row, lock, broken, crashes>>

\* A DROP that fails or waits too long is logged, the removal goes on.
DropFails(r) ==
    /\ r \in Removals /\ step[r] = "updated" /\ is_upload_schema(Of[r])
    /\ Goto(r, "replied") /\ broken' = broken \cup {Of[r]}
    /\ UNCHANGED <<row, table, lock, crashes>>

CommitRemoval_Mkeeps_lock(r) ==
    /\ r \in Removals /\ step[r] = "replied" /\ Goto(r, "over")
    /\ row' = [row EXCEPT ![Of[r]] = "inactive"]
    /\ UNCHANGED <<table, lock, broken, crashes>>

CommitRemoval(r) ==
    /\ r \in Removals /\ step[r] = "replied" /\ Goto(r, "over")
    /\ row' = [row EXCEPT ![Of[r]] = "inactive"]
    /\ lock' = [lock EXCEPT ![Of[r]] = None]
    /\ UNCHANGED <<table, broken, crashes>>

CommitRemovalFails(r) ==
    /\ r \in Removals /\ step[r] = "replied" /\ Goto(r, "failed")
    /\ lock' = [lock EXCEPT ![Of[r]] = None] /\ broken' = broken \cup {Of[r]}
    /\ UNCHANGED <<row, table, crashes>>

-----------------------------------------------------------------------------
(* Questions and rebuilds                                                  *)

\* Some time after get_active a statement is sent to the source's database.
Read(u) ==
    /\ u \in Uses /\ step[u] = "found"
    /\ Goto(u, IF table[Of[u]] THEN "reading" ELSE "missing")
    /\ UNCHANGED <<row, table, lock, broken, crashes>>

\* Answered, cancelled by statement_timeout, or more statements follow.
ReadEnds(u) ==
    /\ u \in Uses /\ step[u] = "reading"
    /\ \E to \in {"found", "over"} : Goto(u, to)
    /\ UNCHANGED <<row, table, lock, broken, crashes>>

-----------------------------------------------------------------------------
\* The server dies: the open transactions are rolled back and the locks are gone.
Crash ==
    /\ crashes < MaxCrashes /\ crashes' = crashes + 1
    /\ step' = [r \in Requests |-> IF step[r] \in {"new"} \cup Finished THEN step[r] ELSE "failed"]
    /\ lock' = [s \in Sources |-> None]
    /\ broken' = broken \cup {s \in Sources :
                    \/ step[s] \in {"loaded", "replied"}
                    \/ \E r \in Removals : Of[r] = s /\ step[r] \in {"updated", "replied"}}
    /\ UNCHANGED <<row, table>>

Register(s) == Reject(s) \/ Load(s) \/ Connect(s) \/ ConnectFails(s)
               \/ CommitSource(s) \/ CommitSourceFails(s)
Remove(r) == GetActive(r) \/ Deactivate(r) \/ DropSchema(r) \/ DropFails(r)
             \/ CommitRemoval(r) \/ CommitRemovalFails(r)
Use(u) == GetActive(u) \/ Read(u) \/ ReadEnds(u)

Next == (\E s \in Sources : Register(s)) \/ (\E r \in Removals : Remove(r))
        \/ (\E u \in Uses : Use(u)) \/ Crash

Spec == Init /\ [][Next]_vars

\* The event loop runs every handler on, PostgreSQL grants a lock that is free, a
\* statement ends by its timeout; a use sends a bounded number of statements (of a
\* question ChatGraphProofs!StepBound says so).
Started(r) == step[r] # "new"
FairSpec ==
    /\ Spec
    /\ \A s \in Sources : WF_vars(Started(s) /\ Register(s))
    /\ \A r \in Removals : WF_vars(Started(r) /\ Remove(r)) /\ SF_vars(Deactivate(r))
    /\ \A u \in Uses : WF_vars(Started(u) /\ Use(u)) /\ SF_vars(ReadEnds(u) /\ step'[u] = "over")

-----------------------------------------------------------------------------
(* Correctness                                                             *)

\* Requests and rows go through the states of the code.
TypeOK ==
    /\ step \in [Requests -> Steps]
    /\ row \in [Sources -> {"none", "active", "inactive"}]
    /\ table \in [Sources -> BOOLEAN]
    /\ lock \in [Sources -> Removals \cup {None}]
    /\ broken \subseteq Sources /\ crashes \in 0..MaxCrashes

\* A source that is listed has its tables: a missing table is that of a removal
\* which is about to be committed, or whose commit was lost.
ActiveHasTable ==
    \A s \in Sources : row[s] = "active" /\ ~table[s] =>
        s \in broken \/ \E r \in Removals : Of[r] = s /\ step[r] = "replied"

\* Nothing is left behind unless something failed: the tables of an upload that no
\* row lists belong to a request that is still running.
NoOrphans ==
    \A s \in Uploads : table[s] /\ row[s] # "active" /\ s \notin broken =>
        step[s] \in {"loaded", "replied"}

\* Every request that is being served is answered and its transaction closed,
\* although removals wait for each other and a DROP waits for every reader.
RequestsEnd == \A r \in Requests : Started(r) ~> step[r] \in Finished
=============================================================================
