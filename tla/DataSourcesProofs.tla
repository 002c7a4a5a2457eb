-------------------------- MODULE DataSourcesProofs --------------------------
(***************************************************************************)
(* Theorems about DataSources, for any number of sources, removals, readers*)
(* and crashes, and about the rebuilds of the index of one source          *)
(* (SchemaIndex), for any number of rebuilds and processes.                *)
(***************************************************************************)
EXTENDS DataSources, SchemaIndex, TLAPS

\* Each kind of request goes through its own steps.
OwnSteps ==
    /\ \A s \in Sources : step[s] \in {"new", "loaded", "replied", "failed", "over"}
    /\ \A r \in Removals : step[r] \in {"new", "found", "updated", "replied", "failed", "over"}
    /\ \A u \in Uses : step[u] \in {"new", "found", "reading", "missing", "failed", "over"}

\* A row exists once its registration is committed, and is found only then.
RowAfterCommit ==
    /\ \A s \in Sources : row[s] = "none" <=> step[s] # "over"
    /\ \A r \in Removals : step[r] \in {"found", "updated", "replied"} => row[Of[r]] # "none"

\* The tables are loaded before the row is written, and dropped before it is closed.
TableBeforeRow ==
    /\ \A s \in Uploads : step[s] = "new" => ~table[s]
    /\ \A s \in Sources : step[s] \in {"loaded", "replied"} => table[s]
    /\ \A s \in Connects : table[s]
    /\ \A r \in Removals : step[r] = "replied" /\ Of[r] \in Uploads =>
         ~table[Of[r]] \/ Of[r] \in broken

\* The row's lock is held by the removal that has updated it, to its end.
LockIsHeld ==
    \A r \in Removals : step[r] \in {"updated", "replied"} <=> lock[Of[r]] = r

Inductive ==
    /\ TypeOK /\ OwnSteps /\ RowAfterCommit /\ TableBeforeRow /\ LockIsHeld
    /\ ActiveHasTable /\ NoOrphans

-----------------------------------------------------------------------------
(* The invariant                                                           *)

\* The first state satisfies the invariant.
LEMMA InitHolds == Init => Inductive
<1> SUFFICES ASSUME Init PROVE Inductive
  OBVIOUS
<1> USE RequestsAssumption, CrashesAssumption DEF Init, Sources, Requests
<1>1. TypeOK
  BY DEF TypeOK, Steps
<1>2. OwnSteps /\ RowAfterCommit /\ LockIsHeld
  BY DEF OwnSteps, RowAfterCommit, LockIsHeld
<1>3. TableBeforeRow /\ ActiveHasTable /\ NoOrphans
  BY DEF TableBeforeRow, ActiveHasTable, NoOrphans
<1>4. QED
  BY <1>1, <1>2, <1>3 DEF Inductive

\* Every step keeps the types.
LEMMA TypeStep ==
    ASSUME Inductive, [Next]_vars
    PROVE  TypeOK'
<1> USE RequestsAssumption, CrashesAssumption
    DEF Inductive, TypeOK, Goto, Sources, Requests, OwnSteps, Steps
<1>1. ASSUME NEW s \in Sources, Reject(s) \/ Load(s)
      PROVE  TypeOK'
  BY <1>1 DEF Reject, Load
<1>2. ASSUME NEW s \in Sources, Connect(s) \/ ConnectFails(s)
      PROVE  TypeOK'
  BY <1>2 DEF Connect, ConnectFails
<1>3. ASSUME NEW s \in Sources, CommitSource(s) \/ CommitSourceFails(s)
      PROVE  TypeOK'
  BY <1>3 DEF CommitSource, CommitSourceFails
<1>4. ASSUME NEW r \in Removals \cup Uses, GetActive(r)
      PROVE  TypeOK'
  BY <1>4 DEF GetActive
<1>5. ASSUME NEW r \in Removals, Deactivate(r)
      PROVE  TypeOK'
  BY <1>5 DEF Deactivate
<1>6. ASSUME NEW r \in Removals, DropSchema(r) \/ DropFails(r)
      PROVE  TypeOK'
  <2>1. table' = table \/ table' = [table EXCEPT ![Of[r]] = FALSE]
    BY <1>6 DEF DropSchema, DropFails
  <2>2. table' \in [Sources -> BOOLEAN]
    BY <2>1
  <2>3. QED
    BY <1>6, <2>2 DEF DropSchema, DropFails
<1>7. ASSUME NEW r \in Removals, CommitRemoval(r) \/ CommitRemovalFails(r)
      PROVE  TypeOK'
  BY <1>7 DEF CommitRemoval, CommitRemovalFails
<1>8. ASSUME NEW u \in Uses, Read(u) \/ ReadEnds(u)
      PROVE  TypeOK'
  BY <1>8 DEF Read, ReadEnds
<1>9. ASSUME Crash
      PROVE  TypeOK'
  BY <1>9 DEF Crash, Finished
<1>10. CASE UNCHANGED vars
  BY <1>10 DEF vars
<1>11. QED
  BY <1>1, <1>2, <1>3, <1>4, <1>5, <1>6, <1>7, <1>8, <1>9, <1>10
     DEF Next, Register, Remove, Use

\* A request never takes the step of another kind.
LEMMA OwnStepsStep ==
    ASSUME Inductive, [Next]_vars
    PROVE  OwnSteps'
<1> USE RequestsAssumption, CrashesAssumption
    DEF Inductive, TypeOK, Goto, Sources, Requests, OwnSteps
<1>1. ASSUME NEW s \in Sources, Reject(s) \/ Load(s)
      PROVE  OwnSteps'
  BY <1>1 DEF Reject, Load
<1>2. ASSUME NEW s \in Sources, Connect(s) \/ ConnectFails(s)
      PROVE  OwnSteps'
  BY <1>2 DEF Connect, ConnectFails
<1>3. ASSUME NEW s \in Sources, CommitSource(s) \/ CommitSourceFails(s)
      PROVE  OwnSteps'
  BY <1>3 DEF CommitSource, CommitSourceFails
<1>4. ASSUME NEW r \in Removals \cup Uses, GetActive(r)
      PROVE  OwnSteps'
  BY <1>4 DEF GetActive
<1>5. ASSUME NEW r \in Removals, Deactivate(r)
      PROVE  OwnSteps'
  BY <1>5 DEF Deactivate
<1>6. ASSUME NEW r \in Removals, DropSchema(r) \/ DropFails(r)
      PROVE  OwnSteps'
  BY <1>6 DEF DropSchema, DropFails
<1>7. ASSUME NEW r \in Removals, CommitRemoval(r) \/ CommitRemovalFails(r)
      PROVE  OwnSteps'
  BY <1>7 DEF CommitRemoval, CommitRemovalFails
<1>8. ASSUME NEW u \in Uses, Read(u) \/ ReadEnds(u)
      PROVE  OwnSteps'
  BY <1>8 DEF Read, ReadEnds
<1>9. ASSUME Crash
      PROVE  OwnSteps'
  BY <1>9 DEF Crash, Finished
<1>10. CASE UNCHANGED vars
  BY <1>10 DEF vars
<1>11. QED
  BY <1>1, <1>2, <1>3, <1>4, <1>5, <1>6, <1>7, <1>8, <1>9, <1>10
     DEF Next, Register, Remove, Use

\* A row appears with the commit of its registration and does not go away.
LEMMA RowStep ==
    ASSUME Inductive, [Next]_vars
    PROVE  RowAfterCommit'
<1> USE RequestsAssumption, CrashesAssumption
    DEF Inductive, TypeOK, Goto, Sources, Requests, OwnSteps, RowAfterCommit
<1>1. ASSUME NEW s \in Sources, Reject(s) \/ Load(s)
      PROVE  RowAfterCommit'
  BY <1>1 DEF Reject, Load
<1>2. ASSUME NEW s \in Sources, Connect(s) \/ ConnectFails(s)
      PROVE  RowAfterCommit'
  BY <1>2 DEF Connect, ConnectFails
<1>3. ASSUME NEW s \in Sources, CommitSource(s) \/ CommitSourceFails(s)
      PROVE  RowAfterCommit'
  BY <1>3 DEF CommitSource, CommitSourceFails
<1>4. ASSUME NEW r \in Removals \cup Uses, GetActive(r)
      PROVE  RowAfterCommit'
  BY <1>4 DEF GetActive
<1>5. ASSUME NEW r \in Removals, Deactivate(r)
      PROVE  RowAfterCommit'
  BY <1>5 DEF Deactivate
<1>6. ASSUME NEW r \in Removals, DropSchema(r) \/ DropFails(r)
      PROVE  RowAfterCommit'
  BY <1>6 DEF DropSchema, DropFails
<1>7. ASSUME NEW r \in Removals, CommitRemoval(r) \/ CommitRemovalFails(r)
      PROVE  RowAfterCommit'
  BY <1>7 DEF CommitRemoval, CommitRemovalFails
<1>8. ASSUME NEW u \in Uses, Read(u) \/ ReadEnds(u)
      PROVE  RowAfterCommit'
  BY <1>8 DEF Read, ReadEnds
<1>9. ASSUME Crash
      PROVE  RowAfterCommit'
  BY <1>9 DEF Crash, Finished
<1>10. CASE UNCHANGED vars
  BY <1>10 DEF vars
<1>11. QED
  BY <1>1, <1>2, <1>3, <1>4, <1>5, <1>6, <1>7, <1>8, <1>9, <1>10
     DEF Next, Register, Remove, Use

\* Tables come before their row and, unless the DROP failed, go before it is closed.
LEMMA TableStep ==
    ASSUME Inductive, [Next]_vars
    PROVE  TableBeforeRow'
<1> USE RequestsAssumption, CrashesAssumption
    DEF Inductive, TypeOK, Goto, Sources, Requests, OwnSteps, RowAfterCommit, TableBeforeRow, is_upload_schema
<1>1. ASSUME NEW s \in Sources, Reject(s) \/ Load(s)
      PROVE  TableBeforeRow'
  BY <1>1 DEF Reject, Load
<1>2. ASSUME NEW s \in Sources, Connect(s) \/ ConnectFails(s)
      PROVE  TableBeforeRow'
  BY <1>2 DEF Connect, ConnectFails
<1>3. ASSUME NEW s \in Sources, CommitSource(s) \/ CommitSourceFails(s)
      PROVE  TableBeforeRow'
  BY <1>3 DEF CommitSource, CommitSourceFails
<1>4. ASSUME NEW r \in Removals \cup Uses, GetActive(r)
      PROVE  TableBeforeRow'
  BY <1>4 DEF GetActive
<1>5. ASSUME NEW r \in Removals, Deactivate(r)
      PROVE  TableBeforeRow'
  BY <1>5 DEF Deactivate
<1>6. ASSUME NEW r \in Removals, DropSchema(r) \/ DropFails(r)
      PROVE  TableBeforeRow'
  BY <1>6 DEF DropSchema, DropFails
<1>7. ASSUME NEW r \in Removals, CommitRemoval(r) \/ CommitRemovalFails(r)
      PROVE  TableBeforeRow'
  BY <1>7 DEF CommitRemoval, CommitRemovalFails
<1>8. ASSUME NEW u \in Uses, Read(u) \/ ReadEnds(u)
      PROVE  TableBeforeRow'
  BY <1>8 DEF Read, ReadEnds
<1>9. ASSUME Crash
      PROVE  TableBeforeRow'
  BY <1>9 DEF Crash, Finished
<1>10. CASE UNCHANGED vars
  BY <1>10 DEF vars
<1>11. QED
  BY <1>1, <1>2, <1>3, <1>4, <1>5, <1>6, <1>7, <1>8, <1>9, <1>10
     DEF Next, Register, Remove, Use

\* A lock is taken only when it is free, and given back with the transaction.
LEMMA LockStep ==
    ASSUME Inductive, [Next]_vars
    PROVE  LockIsHeld'
<1> USE RequestsAssumption, CrashesAssumption
    DEF Inductive, TypeOK, Goto, Sources, Requests, OwnSteps, LockIsHeld
<1>1. ASSUME NEW s \in Sources, Reject(s) \/ Load(s)
      PROVE  LockIsHeld'
  BY <1>1 DEF Reject, Load
<1>2. ASSUME NEW s \in Sources, Connect(s) \/ ConnectFails(s)
      PROVE  LockIsHeld'
  BY <1>2 DEF Connect, ConnectFails
<1>3. ASSUME NEW s \in Sources, CommitSource(s) \/ CommitSourceFails(s)
      PROVE  LockIsHeld'
  BY <1>3 DEF CommitSource, CommitSourceFails
<1>4. ASSUME NEW r \in Removals \cup Uses, GetActive(r)
      PROVE  LockIsHeld'
  BY <1>4 DEF GetActive
<1>5. ASSUME NEW r \in Removals, Deactivate(r)
      PROVE  LockIsHeld'
  BY <1>5 DEF Deactivate
<1>6. ASSUME NEW r \in Removals, DropSchema(r) \/ DropFails(r)
      PROVE  LockIsHeld'
  BY <1>6 DEF DropSchema, DropFails
<1>7. ASSUME NEW r \in Removals, CommitRemoval(r) \/ CommitRemovalFails(r)
      PROVE  LockIsHeld'
  BY <1>7 DEF CommitRemoval, CommitRemovalFails
<1>8. ASSUME NEW u \in Uses, Read(u) \/ ReadEnds(u)
      PROVE  LockIsHeld'
  BY <1>8 DEF Read, ReadEnds
<1>9. ASSUME Crash
      PROVE  LockIsHeld'
  BY <1>9 DEF Crash, Finished
<1>10. CASE UNCHANGED vars
  BY <1>10 DEF vars
<1>11. QED
  BY <1>1, <1>2, <1>3, <1>4, <1>5, <1>6, <1>7, <1>8, <1>9, <1>10
     DEF Next, Register, Remove, Use

\* What is listed keeps its tables until a removal is about to be committed.
LEMMA ActiveStep ==
    ASSUME Inductive, [Next]_vars
    PROVE  ActiveHasTable'
<1> USE RequestsAssumption, CrashesAssumption
    DEF Inductive, TypeOK, Goto, Sources, Requests, OwnSteps, RowAfterCommit, TableBeforeRow, ActiveHasTable, is_upload_schema
<1>1. ASSUME NEW s \in Sources, Reject(s) \/ Load(s)
      PROVE  ActiveHasTable'
  BY <1>1 DEF Reject, Load
<1>2. ASSUME NEW s \in Sources, Connect(s) \/ ConnectFails(s)
      PROVE  ActiveHasTable'
  BY <1>2 DEF Connect, ConnectFails
<1>3. ASSUME NEW s \in Sources, CommitSource(s) \/ CommitSourceFails(s)
      PROVE  ActiveHasTable'
  BY <1>3 DEF CommitSource, CommitSourceFails
<1>4. ASSUME NEW r \in Removals \cup Uses, GetActive(r)
      PROVE  ActiveHasTable'
  BY <1>4 DEF GetActive
<1>5. ASSUME NEW r \in Removals, Deactivate(r)
      PROVE  ActiveHasTable'
  BY <1>5 DEF Deactivate
<1>6. ASSUME NEW r \in Removals, DropSchema(r) \/ DropFails(r)
      PROVE  ActiveHasTable'
  BY <1>6 DEF DropSchema, DropFails
<1>7. ASSUME NEW r \in Removals, CommitRemoval(r) \/ CommitRemovalFails(r)
      PROVE  ActiveHasTable'
  BY <1>7 DEF CommitRemoval, CommitRemovalFails
<1>8. ASSUME NEW u \in Uses, Read(u) \/ ReadEnds(u)
      PROVE  ActiveHasTable'
  BY <1>8 DEF Read, ReadEnds
<1>9. ASSUME Crash
      PROVE  ActiveHasTable'
  BY <1>9 DEF Crash, Finished
<1>10. CASE UNCHANGED vars
  BY <1>10 DEF vars
<1>11. QED
  BY <1>1, <1>2, <1>3, <1>4, <1>5, <1>6, <1>7, <1>8, <1>9, <1>10
     DEF Next, Register, Remove, Use

\* Tables are left behind only by a request that failed.
LEMMA OrphanStep ==
    ASSUME Inductive, [Next]_vars
    PROVE  NoOrphans'
<1> USE RequestsAssumption, CrashesAssumption
    DEF Inductive, TypeOK, Goto, Sources, Requests, OwnSteps, RowAfterCommit, TableBeforeRow, NoOrphans, is_upload_schema
<1>1. ASSUME NEW s \in Sources, Reject(s) \/ Load(s)
      PROVE  NoOrphans'
  BY <1>1 DEF Reject, Load
<1>2. ASSUME NEW s \in Sources, Connect(s) \/ ConnectFails(s)
      PROVE  NoOrphans'
  BY <1>2 DEF Connect, ConnectFails
<1>3. ASSUME NEW s \in Sources, CommitSource(s) \/ CommitSourceFails(s)
      PROVE  NoOrphans'
  BY <1>3 DEF CommitSource, CommitSourceFails
<1>4. ASSUME NEW r \in Removals \cup Uses, GetActive(r)
      PROVE  NoOrphans'
  BY <1>4 DEF GetActive
<1>5. ASSUME NEW r \in Removals, Deactivate(r)
      PROVE  NoOrphans'
  BY <1>5 DEF Deactivate
<1>6. ASSUME NEW r \in Removals, DropSchema(r) \/ DropFails(r)
      PROVE  NoOrphans'
  BY <1>6 DEF DropSchema, DropFails
<1>7. ASSUME NEW r \in Removals, CommitRemoval(r) \/ CommitRemovalFails(r)
      PROVE  NoOrphans'
  BY <1>7 DEF CommitRemoval, CommitRemovalFails
<1>8. ASSUME NEW u \in Uses, Read(u) \/ ReadEnds(u)
      PROVE  NoOrphans'
  BY <1>8 DEF Read, ReadEnds
<1>9. ASSUME Crash
      PROVE  NoOrphans'
  BY <1>9 DEF Crash, Finished
<1>10. CASE UNCHANGED vars
  BY <1>10 DEF vars
<1>11. QED
  BY <1>1, <1>2, <1>3, <1>4, <1>5, <1>6, <1>7, <1>8, <1>9, <1>10
     DEF Next, Register, Remove, Use

\* The invariant holds in every state.
LEMMA InductiveHolds == Spec => []Inductive
<1>1. Inductive /\ [Next]_vars => Inductive'
  BY TypeStep, OwnStepsStep, RowStep, TableStep, LockStep, ActiveStep, OrphanStep DEF Inductive
<1>2. QED
  BY InitHolds, <1>1, PTL DEF Spec

-----------------------------------------------------------------------------
(* The results                                                             *)

\* data_source_service.py and upload_service.py keep rows and tables together in
\* the states the code has: types, and what every kind of request may be doing.
THEOREM TypesHold == Spec => [](TypeOK /\ OwnSteps)
<1>1. Inductive => TypeOK /\ OwnSteps
  BY DEF Inductive
<1>2. QED
  BY InductiveHolds, <1>1, PTL

\* A source the user is shown can be read: with any number of removals, failures
\* and crashes, only a removal in its last step or one that failed parts a listed
\* row from its tables.
THEOREM ActiveHasTableHolds == Spec => []ActiveHasTable
<1>1. Inductive => ActiveHasTable
  BY DEF Inductive
<1>2. QED
  BY InductiveHolds, <1>1, PTL

\* Tables no row lists are those of an upload that is still being served, or of a
\* request that failed.
THEOREM NoOrphansHolds == Spec => []NoOrphans
<1>1. Inductive => NoOrphans
  BY DEF Inductive
<1>2. QED
  BY InductiveHolds, <1>1, PTL

\* Two removals of one source are never between UPDATE and COMMIT together, so a
\* schema is not dropped under a removal that may still be rolled back by another.
OneRemovalAtATime ==
    \A q, r \in Removals :
        Of[q] = Of[r] /\ {step[q], step[r]} \subseteq {"updated", "replied"} => q = r

\* remove_data_source: the row lock of the UPDATE lasts until the COMMIT.
THEOREM RemovalsExclude == Spec => []OneRemovalAtATime
<1>1. Inductive => OneRemovalAtATime
  BY DEF Inductive, LockIsHeld, OneRemovalAtATime
<1>2. QED
  BY InductiveHolds, <1>1, PTL

-----------------------------------------------------------------------------
(* The index of one source (SchemaIndex)                                   *)

\* A rebuild's batch is flushed before it is committed, and committed at its end.
CommitLast ==
    /\ \A r \in Rebuilds : r \in committed => phase[r] = "over"
    /\ \A r \in Rebuilds : phase[r] \in {"flushed", "replied"} => r \in inserted

\* A DELETE finds committed batches only, so a batch nobody can see is not deleted.
DeletesSeen ==
    /\ \A r \in Rebuilds : target[r] \subseteq committed
    /\ \A b \in Batches : deleter[b] # NoBatch => b \in committed

\* Whoever commits writes the summary in the same transaction.
SummaryWithIndex == committed # {} => summary # NoBatch

RebuildInductive ==
    /\ IndexTypeOK /\ CommitLast /\ DeletesSeen /\ SummaryWithIndex
    /\ SummaryDescribesIndex /\ GuardCoversWork

-----------------------------------------------------------------------------
(* The invariant                                                           *)

\* The first state satisfies the invariant.
LEMMA RebuildInit ==
    IndexInit => RebuildInductive
<1> SUFFICES ASSUME IndexInit PROVE RebuildInductive
  OBVIOUS
<1> USE RebuildsAssumption DEF RebuildsAssumption, IndexInit, Batches, Processes
<1>1. IndexTypeOK
  BY DEF IndexTypeOK, Phases
<1>2. CommitLast /\ DeletesSeen /\ SummaryWithIndex
  BY DEF CommitLast, DeletesSeen, SummaryWithIndex
<1>3. SummaryDescribesIndex /\ GuardCoversWork
  BY DEF SummaryDescribesIndex, Index, GuardCoversWork, Working
<1>4. QED
  BY <1>1, <1>2, <1>3 DEF RebuildInductive

\* Every step keeps the types.
LEMMA RebuildTypes ==
    ASSUME RebuildInductive, [IndexNext]_indexVars
    PROVE  IndexTypeOK'
<1> USE RebuildsAssumption DEF RebuildsAssumption, RebuildInductive, IndexTypeOK, MoveTo,
            Batches, Processes, Phases
<1>1. ASSUME NEW r \in Rebuilds, Enter(r)
      PROVE  IndexTypeOK'
  BY <1>1 DEF Enter
<1>2. ASSUME NEW r \in Rebuilds, ReadSource(r)
      PROVE  IndexTypeOK'
  BY <1>2 DEF ReadSource
<1>3. ASSUME NEW r \in Rebuilds, StartDelete(r)
      PROVE  IndexTypeOK'
  BY <1>3 DEF StartDelete, Index
<1>4. ASSUME NEW r \in Rebuilds, FinishDelete(r)
      PROVE  IndexTypeOK'
  BY <1>4 DEF FinishDelete
<1>5. ASSUME NEW r \in Rebuilds, Flush(r)
      PROVE  IndexTypeOK'
  BY <1>5 DEF Flush
<1>6. ASSUME NEW r \in Rebuilds, Leave(r) \/ Fail(r)
      PROVE  IndexTypeOK'
  BY <1>6 DEF Leave, Fail
<1>7. ASSUME NEW r \in Rebuilds, Commit(r)
      PROVE  IndexTypeOK'
  BY <1>7 DEF Commit
<1>8. ASSUME NEW r \in Rebuilds, Rollback(r)
      PROVE  IndexTypeOK'
  BY <1>8 DEF Rollback
<1>9. CASE UNCHANGED indexVars
  BY <1>9 DEF indexVars
<1>10. QED
  BY <1>1, <1>2, <1>3, <1>4, <1>5, <1>6, <1>7, <1>8, <1>9
     DEF IndexNext, Proceed

\* A rebuild commits once, at its end, what it has flushed.
LEMMA CommitStep ==
    ASSUME RebuildInductive, [IndexNext]_indexVars
    PROVE  CommitLast'
<1> USE RebuildsAssumption DEF RebuildsAssumption, RebuildInductive, IndexTypeOK, MoveTo,
            Batches, Processes, CommitLast
<1>1. ASSUME NEW r \in Rebuilds, Enter(r)
      PROVE  CommitLast'
  BY <1>1 DEF Enter
<1>2. ASSUME NEW r \in Rebuilds, ReadSource(r)
      PROVE  CommitLast'
  BY <1>2 DEF ReadSource
<1>3. ASSUME NEW r \in Rebuilds, StartDelete(r)
      PROVE  CommitLast'
  BY <1>3 DEF StartDelete
<1>4. ASSUME NEW r \in Rebuilds, FinishDelete(r)
      PROVE  CommitLast'
  BY <1>4 DEF FinishDelete
<1>5. ASSUME NEW r \in Rebuilds, Flush(r)
      PROVE  CommitLast'
  BY <1>5 DEF Flush
<1>6. ASSUME NEW r \in Rebuilds, Leave(r) \/ Fail(r)
      PROVE  CommitLast'
  BY <1>6 DEF Leave, Fail
<1>7. ASSUME NEW r \in Rebuilds, Commit(r)
      PROVE  CommitLast'
  BY <1>7 DEF Commit
<1>8. ASSUME NEW r \in Rebuilds, Rollback(r)
      PROVE  CommitLast'
  BY <1>8 DEF Rollback
<1>9. CASE UNCHANGED indexVars
  BY <1>9 DEF indexVars
<1>10. QED
  BY <1>1, <1>2, <1>3, <1>4, <1>5, <1>6, <1>7, <1>8, <1>9
     DEF IndexNext, Proceed

\* What a DELETE goes for stays committed.
LEMMA DeletesStep ==
    ASSUME RebuildInductive, [IndexNext]_indexVars
    PROVE  DeletesSeen'
<1> USE RebuildsAssumption DEF RebuildsAssumption, RebuildInductive, IndexTypeOK, MoveTo,
            Batches, Processes, DeletesSeen
<1>1. ASSUME NEW r \in Rebuilds, Enter(r)
      PROVE  DeletesSeen'
  BY <1>1 DEF Enter
<1>2. ASSUME NEW r \in Rebuilds, ReadSource(r)
      PROVE  DeletesSeen'
  BY <1>2 DEF ReadSource
<1>3. ASSUME NEW r \in Rebuilds, StartDelete(r)
      PROVE  DeletesSeen'
  BY <1>3 DEF StartDelete, Index
<1>4. ASSUME NEW r \in Rebuilds, FinishDelete(r)
      PROVE  DeletesSeen'
  BY <1>4 DEF FinishDelete
<1>5. ASSUME NEW r \in Rebuilds, Flush(r)
      PROVE  DeletesSeen'
  BY <1>5 DEF Flush
<1>6. ASSUME NEW r \in Rebuilds, Leave(r) \/ Fail(r)
      PROVE  DeletesSeen'
  BY <1>6 DEF Leave, Fail
<1>7. ASSUME NEW r \in Rebuilds, Commit(r)
      PROVE  DeletesSeen'
  BY <1>7 DEF Commit
<1>8. ASSUME NEW r \in Rebuilds, Rollback(r)
      PROVE  DeletesSeen'
  BY <1>8 DEF Rollback
<1>9. CASE UNCHANGED indexVars
  BY <1>9 DEF indexVars
<1>10. QED
  BY <1>1, <1>2, <1>3, <1>4, <1>5, <1>6, <1>7, <1>8, <1>9
     DEF IndexNext, Proceed

\* The last commit is the one the summary speaks of, and nothing it brought has been
\* deleted by a committed rebuild.
LEMMA SummaryStep ==
    ASSUME RebuildInductive, [IndexNext]_indexVars
    PROVE  (SummaryWithIndex /\ SummaryDescribesIndex)'
<1> USE RebuildsAssumption DEF RebuildsAssumption, RebuildInductive, IndexTypeOK, MoveTo,
            Batches, Processes, CommitLast, DeletesSeen, SummaryWithIndex,
            SummaryDescribesIndex, Index
<1>1. ASSUME NEW r \in Rebuilds, Enter(r)
      PROVE  (SummaryWithIndex /\ SummaryDescribesIndex)'
  BY <1>1 DEF Enter
<1>2. ASSUME NEW r \in Rebuilds, ReadSource(r)
      PROVE  (SummaryWithIndex /\ SummaryDescribesIndex)'
  BY <1>2 DEF ReadSource
<1>3. ASSUME NEW r \in Rebuilds, StartDelete(r)
      PROVE  (SummaryWithIndex /\ SummaryDescribesIndex)'
  BY <1>3 DEF StartDelete
<1>4. ASSUME NEW r \in Rebuilds, FinishDelete(r)
      PROVE  (SummaryWithIndex /\ SummaryDescribesIndex)'
  BY <1>4 DEF FinishDelete
<1>5. ASSUME NEW r \in Rebuilds, Flush(r)
      PROVE  (SummaryWithIndex /\ SummaryDescribesIndex)'
  BY <1>5 DEF Flush
<1>6. ASSUME NEW r \in Rebuilds, Leave(r) \/ Fail(r)
      PROVE  (SummaryWithIndex /\ SummaryDescribesIndex)'
  BY <1>6 DEF Leave, Fail
<1>7. ASSUME NEW r \in Rebuilds, Commit(r)
      PROVE  (SummaryWithIndex /\ SummaryDescribesIndex)'
  BY <1>7 DEF Commit
<1>8. ASSUME NEW r \in Rebuilds, Rollback(r)
      PROVE  (SummaryWithIndex /\ SummaryDescribesIndex)'
  BY <1>8 DEF Rollback
<1>9. CASE UNCHANGED indexVars
  BY <1>9 DEF indexVars
<1>10. QED
  BY <1>1, <1>2, <1>3, <1>4, <1>5, <1>6, <1>7, <1>8, <1>9
     DEF IndexNext, Proceed

\* A process enters the guard when it has no rebuild at work, and leaves it with the
\* one it has.
LEMMA GuardStep ==
    ASSUME RebuildInductive, [IndexNext]_indexVars
    PROVE  GuardCoversWork'
<1> USE RebuildsAssumption DEF RebuildsAssumption, RebuildInductive, IndexTypeOK, MoveTo,
            Batches, Processes, GuardCoversWork, Working
<1>1. ASSUME NEW r \in Rebuilds, Enter(r)
      PROVE  GuardCoversWork'
  BY <1>1 DEF Enter
<1>2. ASSUME NEW r \in Rebuilds, ReadSource(r)
      PROVE  GuardCoversWork'
  BY <1>2 DEF ReadSource
<1>3. ASSUME NEW r \in Rebuilds, StartDelete(r)
      PROVE  GuardCoversWork'
  BY <1>3 DEF StartDelete
<1>4. ASSUME NEW r \in Rebuilds, FinishDelete(r)
      PROVE  GuardCoversWork'
  BY <1>4 DEF FinishDelete
<1>5. ASSUME NEW r \in Rebuilds, Flush(r)
      PROVE  GuardCoversWork'
  BY <1>5 DEF Flush
<1>6. ASSUME NEW r \in Rebuilds, Leave(r) \/ Fail(r)
      PROVE  GuardCoversWork'
  BY <1>6 DEF Leave, Fail
<1>7. ASSUME NEW r \in Rebuilds, Commit(r)
      PROVE  GuardCoversWork'
  BY <1>7 DEF Commit
<1>8. ASSUME NEW r \in Rebuilds, Rollback(r)
      PROVE  GuardCoversWork'
  BY <1>8 DEF Rollback
<1>9. CASE UNCHANGED indexVars
  BY <1>9 DEF indexVars
<1>10. QED
  BY <1>1, <1>2, <1>3, <1>4, <1>5, <1>6, <1>7, <1>8, <1>9
     DEF IndexNext, Proceed

\* The invariant holds in every state.
LEMMA RebuildHolds ==
    IndexSpec => []RebuildInductive
<1>1. RebuildInductive /\ [IndexNext]_indexVars => RebuildInductive'
  BY RebuildTypes, CommitStep, DeletesStep, SummaryStep, GuardStep DEF RebuildInductive
<1>2. QED
  BY RebuildInit, <1>1, PTL DEF IndexSpec

-----------------------------------------------------------------------------
(* The results                                                             *)

\* The states of a rebuild, its batches and the guard are those of the code.
THEOREM IndexTypesHold ==
    IndexSpec => []IndexTypeOK
<1>1. RebuildInductive => IndexTypeOK
  BY DEF RebuildInductive
<1>2. QED
  BY RebuildHolds, <1>1, PTL

\* extra_config speaks of rows that a search finds, however many rebuilds of however
\* many processes overlap, fail or lose their connection.
THEOREM SummaryDescribesIndexHolds ==
    IndexSpec => []SummaryDescribesIndex
<1>1. RebuildInductive => SummaryDescribesIndex
  BY DEF RebuildInductive
<1>2. QED
  BY RebuildHolds, <1>1, PTL

\* "a provider failure leaves the old vectors intact": a source that was indexed once
\* always has an index; the batch of the last commit is in it.
THEOREM NeverEmptiedHolds ==
    IndexSpec => []NeverEmptied
<1>1. RebuildInductive => NeverEmptied
  BY DEF RebuildInductive, SummaryWithIndex, SummaryDescribesIndex, NeverEmptied
<1>2. QED
  BY RebuildHolds, <1>1, PTL

\* _indexing_sources is exact: a process that is refused with 409 really has a rebuild
\* at work, and every way out of one releases the source.
THEOREM GuardCoversWorkHolds ==
    IndexSpec => []GuardCoversWork
<1>1. RebuildInductive => GuardCoversWork
  BY DEF RebuildInductive
<1>2. QED
  BY RebuildHolds, <1>1, PTL
=============================================================================
