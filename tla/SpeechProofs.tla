---------------------------- MODULE SpeechProofs ----------------------------
(***************************************************************************)
(* Theorems about the heavy lock and about the speech it guards: first     *)
(* HeavyLock, for any number of requests, pool threads, pool calls and     *)
(* sentences; then SpeechService with its cut of a text, its cache and its *)
(* rate limiter, for all texts, requests and settings.                     *)
(***************************************************************************)
EXTENDS HeavyLock, SpeechService, FiniteSetTheorems, SequenceTheorems, FunctionTheorems,
        WellFoundedInduction, TLAPS

\* What LockDiscipline needs to be inductive: a job in the queue is queued, once;
\* only ask enters acquire; a speech that is not over has sections to go.
Bookkeeping ==
    /\ \A i \in 1..Len(queue) :
         /\ queue[i] \in Asks => ask[queue[i]] = "queued"
         /\ queue[i] \in Speaks => speak[queue[i]] = "queued"
    /\ \A i, j \in 1..Len(queue) : queue[i] = queue[j] => i = j
    /\ \A a \in Streamed : ask[a] # "acquiring"
    /\ \A s \in Speaks : speak[s] # "done" => sections[s] > 0

\* What LoopNeverBlocksItself needs: the loop's thread does not wait for its own lock.
LoopAwake == owner = "loop" => blocked = NoOne

Inductive == TypeOK /\ LockDiscipline /\ Bookkeeping /\ LoopAwake

-----------------------------------------------------------------------------
(* The guarded runs                                                        *)

\* The guarded runs are finitely many.
LEMMA GuardedFinite ==
    IsFiniteSet(Guarded)
<1>1. Guarded \in SUBSET Asks
  BY DEF Guarded
<1>2. QED
  BY <1>1, FS_Subset, RequestsAssumption

\* A run that enters the section adds one to the guarded runs.
LEMMA GuardedGrows ==
    ASSUME TypeOK, NEW a \in Asks \ Streamed, ask[a] \in {"new", "acquiring"},
           ask' = [ask EXCEPT ![a] = "graph"]
    PROVE  Cardinality(Guarded') = Cardinality(Guarded) + 1 /\ Cardinality(Guarded) \in Nat
<1>1. Guarded' = Guarded \cup {a} /\ a \notin Guarded
  BY DEF TypeOK, Guarded, AskStates
<1>2. QED
  BY <1>1, GuardedFinite, FS_AddElement, FS_CardinalityType

\* A run that leaves it takes one away.
LEMMA GuardedShrinks ==
    ASSUME TypeOK, NEW a \in Asks \ Streamed, ask[a] = "graph",
           ask' = [ask EXCEPT ![a] = "done"]
    PROVE  /\ Cardinality(Guarded') = Cardinality(Guarded) - 1
           /\ Cardinality(Guarded) \in Nat /\ IsFiniteSet(Guarded')
<1>1. Guarded' = Guarded \ {a} /\ a \in Guarded
  BY DEF TypeOK, Guarded, AskStates
<1>2. QED
  BY <1>1, GuardedFinite, FS_RemoveElement, FS_CardinalityType

\* A request keeps its place in the section while it moves inside it, and a
\* streamed one is never there.
LEMMA GuardedSame ==
    ASSUME TypeOK, NEW a \in Asks, NEW to \in AskStates,
           ask' = [ask EXCEPT ![a] = to],
           \/ a \in Streamed
           \/ ask[a] \in {"graph", "queued", "in_thread", "returned"}
              /\ to \in {"graph", "queued", "in_thread", "returned"}
           \/ ask[a] \in {"new", "acquiring"} /\ to = "acquiring"
    PROVE  Guarded' = Guarded
BY DEF TypeOK, Guarded, AskStates

-----------------------------------------------------------------------------
(* The queue of the pool                                                   *)

\* A job that was not waiting is added at the end.
LEMMA QueueGrows ==
    ASSUME TypeOK, Bookkeeping, NEW job \in Asks \cup Speaks,
           job \in Asks => ask[job] # "queued",
           job \in Speaks => speak[job] # "queued",
           queue' = Append(queue, job)
    PROVE  /\ queue' \in Seq(Asks \cup Speaks)
           /\ \A i \in 1..Len(queue') : queue'[i] \in {queue[k] : k \in 1..Len(queue)} \cup {job}
           /\ \A i, j \in 1..Len(queue') : queue'[i] = queue'[j] => i = j
           /\ \A i \in 1..Len(queue) : queue[i] # job
<1>1. queue \in Seq(Asks \cup Speaks)
  BY DEF TypeOK
<1>2. /\ queue' \in Seq(Asks \cup Speaks) /\ Len(queue') = Len(queue) + 1
      /\ \A i \in 1..Len(queue) : queue'[i] = queue[i]
      /\ queue'[Len(queue) + 1] = job /\ Len(queue) \in Nat
  BY <1>1
<1>3. \A i \in 1..Len(queue) : queue[i] # job
  BY DEF Bookkeeping
<1>4. \A i \in 1..Len(queue') : i = Len(queue) + 1 \/ i \in 1..Len(queue)
  BY <1>2
<1>5. QED
  BY <1>2, <1>3, <1>4 DEF Bookkeeping

\* The first job leaves; the others move up.
LEMMA QueueShrinks ==
    ASSUME TypeOK, Bookkeeping, queue # <<>>, queue' = Tail(queue)
    PROVE  /\ Head(queue) = queue[1] /\ 1 \in 1..Len(queue)
           /\ queue' \in Seq(Asks \cup Speaks)
           /\ \A i \in 1..Len(queue') : i + 1 \in 1..Len(queue) /\ queue'[i] = queue[i + 1]
           /\ \A i \in 1..Len(queue') : queue'[i] # Head(queue)
<1>1. queue \in Seq(Asks \cup Speaks)
  BY DEF TypeOK
<1>2. /\ Head(queue) = queue[1] /\ Len(queue) \in Nat \ {0}
      /\ queue' \in Seq(Asks \cup Speaks) /\ Len(queue') = Len(queue) - 1
      /\ \A i \in 1..Len(queue') : queue'[i] = queue[i + 1]
  BY <1>1
<1>3. \A i \in 1..Len(queue') : i + 1 \in 1..Len(queue) /\ i + 1 # 1
  BY <1>2
<1>4. 1 \in 1..Len(queue)
  BY <1>2
<1>5. QED
  BY <1>2, <1>3, <1>4 DEF Bookkeeping

-----------------------------------------------------------------------------
(* The invariant                                                           *)

\* The first state satisfies the invariant.
LEMMA InitHolds == Init => Inductive
<1> SUFFICES ASSUME Init PROVE Inductive
  OBVIOUS
<1>1. \A s \in Speaks : Sections(s) \in Nat /\ Sections(s) > 0
  BY SizesAssumption DEF Sections
<1>2. TypeOK
  <2>1. queue \in Seq(Asks \cup Speaks)
    BY DEF Init
  <2>2. hops \in [Asks -> 0..MaxHops]
    BY SizesAssumption DEF Init
  <2>3. QED
    BY <1>1, <2>1, <2>2 DEF Init, TypeOK, AskStates, SpeakStates
<1>3. LockDiscipline
  BY RequestsAssumption DEF Init, LockDiscipline, Guarded
<1>4. Bookkeeping
  <2>1. 1..Len(queue) = {}
    BY DEF Init
  <2>2. QED
    BY <1>1, <2>1, RequestsAssumption DEF Init, Bookkeeping
<1>5. LoopAwake
  BY RequestsAssumption DEF Init, LoopAwake
<1>6. QED
  BY <1>2, <1>3, <1>4, <1>5 DEF Inductive

\* Every step keeps the types.
LEMMA TypeStep ==
    ASSUME Inductive, [Next]_vars
    PROVE  TypeOK'
<1> USE RequestsAssumption DEF Inductive, TypeOK, AskStates, SpeakStates
<1>1. ASSUME NEW a \in Asks, StartAsk(a)
      PROVE  TypeOK'
  <2>1. /\ owner' \in {NoOne, "loop"} \cup Speaks /\ depth' \in Nat
        /\ blocked' \in Asks \cup {NoOne}
    BY <1>1 DEF StartAsk, Acquire
  <2>2. ask' \in [Asks -> AskStates]
    BY <1>1 DEF StartAsk
  <2>3. QED
    BY <1>1, <2>1, <2>2 DEF StartAsk
<1>2. ASSUME NEW a \in Asks, LoopAcquires(a)
      PROVE  TypeOK'
  BY <1>2 DEF LoopAcquires, Acquire
<1>3. ASSUME NEW a \in Asks, CallPool(a)
      PROVE  TypeOK'
  BY <1>3, SizesAssumption DEF CallPool
<1>4. ASSUME NEW a \in Asks, ResumeAsk(a) \/ ThreadReturns(a)
      PROVE  TypeOK'
  BY <1>4 DEF ResumeAsk, ThreadReturns
<1>5. ASSUME NEW a \in Asks, LeaveGraph(a)
      PROVE  TypeOK'
  <2>1. CASE a \in Streamed
    BY <1>5, <2>1 DEF LeaveGraph
  <2>2. CASE a \notin Streamed
    <3>1. a \in Guarded
      BY <1>5, <2>2 DEF LeaveGraph, Guarded
    <3>2. owner = "loop" /\ depth > 0
      BY <3>1 DEF LockDiscipline
    <3>3. QED
      BY <1>5, <2>2, <3>2 DEF LeaveGraph, Release
  <2>3. QED
    BY <2>1, <2>2
<1>6. ASSUME NEW s \in Speaks, StartSpeak(s)
      PROVE  TypeOK'
  BY <1>6 DEF StartSpeak
<1>7. ASSUME NEW s \in Speaks, SpeakAcquires(s)
      PROVE  TypeOK'
  BY <1>7 DEF SpeakAcquires, Acquire
<1>8. ASSUME NEW s \in Speaks, SpeakReleases(s)
      PROVE  TypeOK'
  <2>1. owner = s /\ depth = 1 /\ sections[s] > 0
    BY <1>8 DEF SpeakReleases, LockDiscipline, Bookkeeping
  <2>2. depth' = 0 /\ owner' = NoOne /\ sections[s] - 1 \in Nat
    BY <1>8, <2>1 DEF SpeakReleases, Release
  <2>3. QED
    BY <1>8, <2>2 DEF SpeakReleases
<1>9. ASSUME ThreadTakesJob
      PROVE  TypeOK'
  <2>1. queue' \in Seq(Asks \cup Speaks)
    BY <1>9, QueueShrinks DEF ThreadTakesJob
  <2>2. QED
    BY <1>9, <2>1 DEF ThreadTakesJob
<1>10. CASE UNCHANGED vars
  BY <1>10 DEF vars
<1>11. QED
  BY <1>1, <1>2, <1>3, <1>4, <1>5, <1>6, <1>7, <1>8, <1>9, <1>10
     DEF Next, AskStep, SpeakStep

\* Every step keeps the account of who waits for the lock.
LEMMA BookkeepingStep ==
    ASSUME Inductive, [Next]_vars
    PROVE  Bookkeeping'
<1> USE RequestsAssumption DEF Inductive
<1>1. ASSUME NEW a \in Asks, StartAsk(a)
      PROVE  Bookkeeping'
  BY <1>1 DEF StartAsk, Bookkeeping, TypeOK
<1>2. ASSUME NEW a \in Asks, LoopAcquires(a)
      PROVE  Bookkeeping'
  BY <1>2 DEF LoopAcquires, Bookkeeping, TypeOK, LockDiscipline
<1>3. ASSUME NEW a \in Asks, CallPool(a)
      PROVE  Bookkeeping'
  <2>1. a \notin Speaks /\ ask[a] # "queued"
    BY <1>3 DEF CallPool
  <2>2. /\ \A i \in 1..Len(queue') : queue'[i] \in {queue[k] : k \in 1..Len(queue)} \cup {a}
        /\ \A i, j \in 1..Len(queue') : queue'[i] = queue'[j] => i = j
    BY <1>3, <2>1, QueueGrows DEF CallPool
  <2>3. ask' = [ask EXCEPT ![a] = "queued"] /\ UNCHANGED <<speak, sections>>
    BY <1>3 DEF CallPool
  <2>4. \A i \in 1..Len(queue') :
          /\ queue'[i] \in Asks => ask'[queue'[i]] = "queued"
          /\ queue'[i] \in Speaks => speak'[queue'[i]] = "queued"
    BY <2>1, <2>2, <2>3 DEF Bookkeeping, TypeOK
  <2>5. QED
    BY <2>2, <2>3, <2>4 DEF Bookkeeping, TypeOK
<1>4. ASSUME NEW a \in Asks, ResumeAsk(a) \/ ThreadReturns(a) \/ LeaveGraph(a)
      PROVE  Bookkeeping'
  BY <1>4 DEF ResumeAsk, ThreadReturns, LeaveGraph, Bookkeeping, TypeOK
<1>6. ASSUME NEW s \in Speaks, StartSpeak(s)
      PROVE  Bookkeeping'
  <2>1. s \notin Asks /\ speak[s] # "queued"
    BY <1>6 DEF StartSpeak
  <2>2. /\ \A i \in 1..Len(queue') : queue'[i] \in {queue[k] : k \in 1..Len(queue)} \cup {s}
        /\ \A i, j \in 1..Len(queue') : queue'[i] = queue'[j] => i = j
    BY <1>6, <2>1, QueueGrows DEF StartSpeak
  <2>3. speak' = [speak EXCEPT ![s] = "queued"] /\ UNCHANGED <<ask, sections>>
    BY <1>6 DEF StartSpeak
  <2>4. \A i \in 1..Len(queue') :
          /\ queue'[i] \in Asks => ask'[queue'[i]] = "queued"
          /\ queue'[i] \in Speaks => speak'[queue'[i]] = "queued"
    <3> TAKE i \in 1..Len(queue')
    <3>1. CASE queue'[i] = s
      BY <2>1, <2>3, <3>1 DEF TypeOK
    <3>2. ASSUME NEW k \in 1..Len(queue), queue'[i] = queue[k]
          PROVE  /\ queue'[i] \in Asks => ask'[queue'[i]] = "queued"
                 /\ queue'[i] \in Speaks => speak'[queue'[i]] = "queued"
      BY <2>3, <3>2 DEF Bookkeeping, TypeOK
    <3>3. QED
      BY <2>2, <3>1, <3>2
  <2>5. \A t \in Speaks : speak'[t] # "done" => sections'[t] > 0
    BY <1>6, <2>3 DEF StartSpeak, Bookkeeping, TypeOK
  <2>6. QED
    BY <2>2, <2>3, <2>4, <2>5 DEF Bookkeeping
<1>7. ASSUME NEW s \in Speaks, SpeakAcquires(s)
      PROVE  Bookkeeping'
  BY <1>7 DEF SpeakAcquires, Bookkeeping, TypeOK
<1>8. ASSUME NEW s \in Speaks, SpeakReleases(s)
      PROVE  Bookkeeping'
  BY <1>8 DEF SpeakReleases, Bookkeeping, TypeOK
<1>9. ASSUME ThreadTakesJob
      PROVE  Bookkeeping'
  <2>1. /\ \A i \in 1..Len(queue') : i + 1 \in 1..Len(queue) /\ queue'[i] = queue[i + 1]
        /\ \A i \in 1..Len(queue') : queue'[i] # Head(queue)
    BY <1>9, QueueShrinks DEF ThreadTakesJob
  <2>2. \A i, j \in 1..Len(queue') : queue'[i] = queue'[j] => i = j
    BY <2>1 DEF Bookkeeping
  <2>3. QED
    BY <1>9, <2>1, <2>2 DEF ThreadTakesJob, Bookkeeping, TypeOK
<1>10. CASE UNCHANGED vars
  BY <1>10 DEF vars, Bookkeeping
<1>11. QED
  BY <1>1, <1>2, <1>3, <1>4, <1>6, <1>7, <1>8, <1>9, <1>10
     DEF Next, AskStep, SpeakStep

\* Every step keeps the lock's owner and level.
LEMMA DisciplineStep ==
    ASSUME Inductive, [Next]_vars
    PROVE  LockDiscipline'
<1> USE RequestsAssumption DEF Inductive
<1>1. ASSUME NEW a \in Asks, StartAsk(a)
      PROVE  LockDiscipline'
  <2>1. CASE a \in Streamed
    <3>1. Guarded' = Guarded
      BY <1>1, <2>1, GuardedSame DEF StartAsk, AskStates
    <3>2. QED
      BY <1>1, <2>1, <3>1 DEF StartAsk, LockDiscipline, TypeOK
  <2>2. CASE a \notin Streamed /\ Acquirable("loop")
    <3>1. Cardinality(Guarded') = Cardinality(Guarded) + 1 /\ Cardinality(Guarded) \in Nat
      BY <1>1, <2>2, GuardedGrows DEF StartAsk
    <3>2. depth = Cardinality(Guarded)
      BY <2>2, FS_EmptySet DEF Acquirable, LockDiscipline
    <3>3. QED
      BY <1>1, <2>2, <3>1, <3>2
         DEF StartAsk, LoopFree, Acquire, Acquirable, LockDiscipline, TypeOK
  <2>3. CASE a \notin Streamed /\ ~Acquirable("loop")
    <3>1. Guarded' = Guarded
      BY <1>1, <2>3, GuardedSame DEF StartAsk, AskStates
    <3>2. QED
      BY <1>1, <2>3, <3>1 DEF StartAsk, LoopFree, LockDiscipline, TypeOK
  <2>4. QED
    BY <2>1, <2>2, <2>3
<1>2. ASSUME NEW a \in Asks, LoopAcquires(a)
      PROVE  LockDiscipline'
  <2>1. ask[a] = "acquiring" /\ a \notin Streamed
    BY <1>2 DEF LoopAcquires, LockDiscipline, Bookkeeping
  <2>2. Cardinality(Guarded') = Cardinality(Guarded) + 1 /\ Cardinality(Guarded) \in Nat
    BY <1>2, <2>1, GuardedGrows DEF LoopAcquires
  <2>3. depth = Cardinality(Guarded)
    BY <1>2, FS_EmptySet DEF LoopAcquires, Acquirable, LockDiscipline
  <2>4. QED
    BY <1>2, <2>1, <2>2, <2>3 DEF LoopAcquires, Acquire, Acquirable, LockDiscipline, TypeOK
<1>3. ASSUME NEW a \in Asks, CallPool(a) \/ ResumeAsk(a) \/ ThreadReturns(a)
      PROVE  LockDiscipline'
  <2>1. Guarded' = Guarded
    BY <1>3, GuardedSame DEF CallPool, ResumeAsk, ThreadReturns, AskStates
  <2>2. QED
    BY <1>3, <2>1 DEF CallPool, ResumeAsk, ThreadReturns, LockDiscipline, TypeOK
<1>5. ASSUME NEW a \in Asks, LeaveGraph(a)
      PROVE  LockDiscipline'
  <2>1. CASE a \in Streamed
    <3>1. Guarded' = Guarded
      BY <1>5, <2>1, GuardedSame DEF LeaveGraph, AskStates
    <3>2. QED
      BY <1>5, <2>1, <3>1 DEF LeaveGraph, LockDiscipline, TypeOK
  <2>2. CASE a \notin Streamed
    <3>1. a \in Guarded
      BY <1>5, <2>2 DEF LeaveGraph, Guarded
    <3>2. owner = "loop" /\ depth = Cardinality(Guarded) /\ depth > 0
      BY <3>1 DEF LockDiscipline, TypeOK
    <3>3. /\ Cardinality(Guarded') = Cardinality(Guarded) - 1
          /\ Cardinality(Guarded) \in Nat /\ IsFiniteSet(Guarded')
      BY <1>5, <2>2, GuardedShrinks DEF LeaveGraph
    <3>4. depth = 1 => Guarded' = {}
      BY <3>2, <3>3, FS_EmptySet
    <3>5. QED
      BY <1>5, <2>2, <3>2, <3>3, <3>4 DEF LeaveGraph, Release, LockDiscipline, TypeOK
  <2>3. QED
    BY <2>1, <2>2
<1>6. ASSUME NEW s \in Speaks, StartSpeak(s)
      PROVE  LockDiscipline'
  BY <1>6 DEF StartSpeak, LockDiscipline, TypeOK, Guarded
<1>7. ASSUME NEW s \in Speaks, SpeakAcquires(s)
      PROVE  LockDiscipline'
  <2>1. owner = NoOne
    BY <1>7 DEF SpeakAcquires, Acquirable, LockDiscipline
  <2>2. Guarded' = Guarded
    BY <1>7 DEF SpeakAcquires, Guarded
  <2>3. QED
    BY <1>7, <2>1, <2>2 DEF SpeakAcquires, Acquire, LockDiscipline, TypeOK
<1>8. ASSUME NEW s \in Speaks, SpeakReleases(s)
      PROVE  LockDiscipline'
  <2>1. owner = s /\ depth = 1 /\ Guarded = {}
    BY <1>8 DEF SpeakReleases, LockDiscipline
  <2>2. Guarded' = Guarded /\ depth' = 0 /\ owner' = NoOne
    BY <1>8, <2>1 DEF SpeakReleases, Release, Guarded
  <2>3. QED
    BY <1>8, <2>1, <2>2 DEF SpeakReleases, LockDiscipline, TypeOK
<1>9. ASSUME ThreadTakesJob
      PROVE  LockDiscipline'
  <2>1. Head(queue) = queue[1] /\ 1 \in 1..Len(queue)
    BY <1>9, QueueShrinks DEF ThreadTakesJob
  <2>2. CASE Head(queue) \in Asks /\ ask' = [ask EXCEPT ![Head(queue)] = "in_thread"]
             /\ UNCHANGED speak
    <3>1. ask[Head(queue)] = "queued"
      BY <2>1, <2>2 DEF Bookkeeping
    <3>2. Guarded' = Guarded
      BY <2>2, <3>1, GuardedSame DEF AskStates
    <3>3. QED
      BY <1>9, <2>2, <3>1, <3>2 DEF ThreadTakesJob, LockDiscipline, TypeOK
  <2>3. CASE Head(queue) \in Speaks /\ UNCHANGED ask
             /\ \/ speak' = [speak EXCEPT ![Head(queue)] = "waiting"]
                \/ speak' = [speak EXCEPT ![Head(queue)] = "done"]
    <3>1. speak[Head(queue)] = "queued"
      BY <2>1, <2>3 DEF Bookkeeping
    <3>2. QED
      BY <1>9, <2>3, <3>1 DEF ThreadTakesJob, LockDiscipline, TypeOK, Guarded
  <2>4. QED
    BY <1>9, <2>2, <2>3 DEF ThreadTakesJob
<1>10. CASE UNCHANGED vars
  BY <1>10 DEF vars, LockDiscipline, Guarded
<1>11. QED
  BY <1>1, <1>2, <1>3, <1>5, <1>6, <1>7, <1>8, <1>9, <1>10
     DEF Next, AskStep, SpeakStep

\* Every step keeps LoopAwake.
LEMMA AwakeStep ==
    ASSUME Inductive, [Next]_vars
    PROVE  LoopAwake'
<1> USE RequestsAssumption DEF Inductive, LoopAwake
<1>1. ASSUME NEW a \in Asks, StartAsk(a) \/ LoopAcquires(a)
      PROVE  LoopAwake'
  BY <1>1 DEF StartAsk, LoopAcquires, LoopFree, Acquire, Acquirable
<1>2. ASSUME NEW a \in Asks, LeaveGraph(a)
      PROVE  LoopAwake'
  BY <1>2 DEF LeaveGraph, LoopFree
<1>3. ASSUME NEW a \in Asks, CallPool(a) \/ ResumeAsk(a) \/ ThreadReturns(a)
      PROVE  LoopAwake'
  BY <1>3 DEF CallPool, ResumeAsk, ThreadReturns
<1>4. ASSUME NEW s \in Speaks, StartSpeak(s) \/ SpeakAcquires(s)
      PROVE  LoopAwake'
  BY <1>4 DEF StartSpeak, SpeakAcquires, Acquire
<1>5. ASSUME NEW s \in Speaks, SpeakReleases(s)
      PROVE  LoopAwake'
  BY <1>5 DEF SpeakReleases, Release
<1>6. CASE ThreadTakesJob \/ UNCHANGED vars
  BY <1>6 DEF ThreadTakesJob, vars
<1>7. QED
  BY <1>1, <1>2, <1>3, <1>4, <1>5, <1>6 DEF Next, AskStep, SpeakStep

\* The invariant holds in every state.
LEMMA InductiveHolds == Spec => []Inductive
<1>1. Inductive /\ [Next]_vars => Inductive'
  BY TypeStep, BookkeepingStep, DisciplineStep, AwakeStep DEF Inductive
<1>2. QED
  BY InitHolds, <1>1, PTL DEF Spec

-----------------------------------------------------------------------------
(* The results                                                             *)

\* heavy_memory_op and its callers agree, whatever the number of requests: the
\* lock is as deep as graph runs are inside it, and owned by at most one synthesis.
THEOREM LockDisciplineHolds == Spec => [](TypeOK /\ LockDiscipline)
<1>1. Inductive => TypeOK /\ LockDiscipline
  BY DEF Inductive
<1>2. QED
  BY InductiveHolds, <1>1, PTL

\* memory_guard.py keeps its promise "avoid stacking chat + TTS": a synthesis never
\* runs beside a guarded graph run or another synthesis.
THEOREM StackingAvoided == Spec => []NeverStacked
<1>1. Inductive => NeverStacked
  BY DEF Inductive, TypeOK, LockDiscipline, NeverStacked
<1>2. QED
  BY InductiveHolds, <1>1, PTL

\* The loop's thread is never put to sleep by a run that needs the loop to get on:
\* the lock being re-entrant, ask can only wait for a synthesis.
THEOREM LoopNotSelfBlocked == Spec => LoopNeverBlocksItself
<1>1. Inductive /\ [Next]_vars => [owner = "loop" => blocked' = NoOne]_vars
  <2> SUFFICES ASSUME Inductive, Next, owner = "loop", blocked' # NoOne
               PROVE  FALSE
    BY DEF vars
  <2>1. Acquirable("loop")
    BY DEF Acquirable
  <2>2. blocked' = blocked
    BY <2>1 DEF Next, AskStep, SpeakStep, StartAsk, LoopAcquires, CallPool, ResumeAsk,
         LeaveGraph, StartSpeak, SpeakAcquires, SpeakReleases, ThreadTakesJob, ThreadReturns
  <2>3. QED
    BY <2>2 DEF Inductive, LoopAwake
<1>2. QED
  BY InductiveHolds, <1>1, PTL DEF Spec, LoopNeverBlocksItself

-----------------------------------------------------------------------------
(* Natural numbers                                                         *)

\* A set of natural numbers has a least one.
LEMMA Least ==
    ASSUME NEW T \in SUBSET Nat, T # {}
    PROVE  \E n \in T : \A m \in T : n <= m
<1> DEFINE R == OpToRel(<, Nat)
<1>1. IsWellFoundedOn(R, Nat)
  BY NatLessThanWellFounded
<1>2. \E n \in T : \A m \in T : ~(<<m, n>> \in R)
  <2> HIDE DEF R
  <2>1. QED
    BY <1>1, WFMin
<1>3. PICK n \in T : \A m \in T : ~(<<m, n>> \in R)
  BY <1>2
<1>4. \A m \in Nat : m \in T => ~(m < n)
  BY <1>3 DEF OpToRel
<1>5. QED
  BY <1>4

\* Induction over the natural numbers, for a set of them.
LEMMA CountUp ==
    ASSUME NEW T, 0 \in T, \A n \in Nat : n \in T => n + 1 \in T
    PROVE  Nat \subseteq T
<1> SUFFICES ASSUME Nat \ T # {} PROVE FALSE
  OBVIOUS
<1>1. PICK n \in Nat \ T : \A m \in Nat \ T : n <= m
  BY Least
<1>2. n - 1 \in Nat /\ n - 1 \in T
  BY <1>1
<1>3. QED
  BY <1>1, <1>2

\* A bounded set of natural numbers has a greatest one.
LEMMA Greatest ==
    ASSUME NEW T \in SUBSET Nat, T # {}, NEW k \in Nat, \A n \in T : n <= k
    PROVE  \E n \in T : \A m \in T : m <= n
<1> DEFINE D == {d \in Nat : k - d \in T}
<1>1. PICK n \in T : TRUE
  OBVIOUS
<1>2. k - n \in D /\ D \in SUBSET Nat
  <2>1. k - n \in Nat /\ k - (k - n) = n
    BY <1>1
  <2>2. QED
    BY <2>1
<1>3. PICK d \in D : \A e \in D : d <= e
  <2> HIDE DEF D
  <2>1. QED
    BY <1>2, Least
<1>4. ASSUME NEW m \in T PROVE m <= k - d
  <2>1. k - m \in Nat /\ k - (k - m) = m
    OBVIOUS
  <2>2. k - m \in D
    BY <2>1
  <2>3. d \in Nat /\ d <= k - m
    <3> HIDE DEF D
    <3>1. QED
      BY <1>2, <1>3, <2>2
  <2>4. QED
    BY <2>3
<1>5. QED
  BY <1>3, <1>4

-----------------------------------------------------------------------------
(* The cut of a text                                                       *)

\* The first break is the least behind the beginning, or the end.
LEMMA FirstBreakFacts ==
    ASSUME NEW breaks \in SUBSET Nat, NEW from \in Nat, NEW to \in Nat, from < to
    PROVE  LET x == FirstBreak(breaks, from, to)
           IN  /\ x \in Nat /\ from < x /\ x <= to /\ (x = to \/ x \in breaks)
               /\ \A b \in breaks : from < b /\ b < to => x <= b
<1> DEFINE S == {b \in breaks : from < b /\ b < to} \cup {to}
<1>1. S \in SUBSET Nat /\ S # {}
  OBVIOUS
<1>2. \E n \in S : \A m \in S : n <= m
  <2> HIDE DEF S
  <2>1. QED
    BY <1>1, Least
<1>3. FirstBreak(breaks, from, to) \in S /\ \A m \in S : FirstBreak(breaks, from, to) <= m
  <2>1. FirstBreak(breaks, from, to) = CHOOSE n \in S : \A m \in S : n <= m
    BY DEF FirstBreak, Min
  <2> HIDE DEF S
  <2>2. QED
    BY <1>2, <2>1
<1>4. QED
  BY <1>3

\* The last break within the limit, if the first is.
LEMMA LastBreakFacts ==
    ASSUME NEW breaks \in SUBSET Nat, NEW from \in Nat, NEW to \in Nat, NEW limit \in Nat,
           from < to, FirstBreak(breaks, from, to) - from <= limit
    PROVE  LET x == Max({b \in breaks \cup {to} : from < b /\ b <= to /\ b - from <= limit})
           IN  x \in Nat /\ from < x /\ x <= to /\ (x = to \/ x \in breaks)
<1> DEFINE S == {b \in breaks \cup {to} : from < b /\ b <= to /\ b - from <= limit}
<1>1. S \in SUBSET Nat /\ FirstBreak(breaks, from, to) \in S /\ \A n \in S : n <= to
  BY FirstBreakFacts
<1>2. \E n \in S : \A m \in S : m <= n
  <2> HIDE DEF S
  <2>1. QED
    BY <1>1, Greatest
<1>3. Max(S) \in S
  <2>1. Max(S) = CHOOSE n \in S : \A m \in S : n >= m
    BY DEF Max
  <2>2. \A m, n \in S : n >= m <=> m <= n
    BY <1>1
  <2> HIDE DEF S
  <2>3. QED
    BY <1>2, <2>1, <2>2
<1>4. QED
  BY <1>3

\* A chunk is not empty, ends within what is cut, and not behind a blank.
LEMMA ChunkEndFacts ==
    ASSUME NEW t, IsText(t), NEW from \in Nat, NEW to \in Nat, NEW limit \in Nat \ {0},
           from < to
    PROVE  LET x == ChunkEnd(t, from, to, limit)
           IN  /\ x \in Nat /\ from < x /\ x <= to
               /\ from \notin t.blanks /\ to - 1 \notin t.blanks => x - 1 \notin t.blanks
<1> DEFINE sentence == FirstBreak(SentenceBreaks(t), from, to)
           clause == FirstBreak(t.commas, from, sentence)
           word == FirstBreak(t.blanks, from, clause)
           last(breaks, end) ==
             Max({b \in breaks \cup {end} : from < b /\ b <= end /\ b - from <= limit})
           x == ChunkEnd(t, from, to, limit)
<1>1. /\ SentenceBreaks(t) \in SUBSET t.blanks /\ t.commas \in SUBSET t.blanks
      /\ t.blanks \in SUBSET Nat /\ \A b \in t.blanks : b + 1 \notin t.blanks
  BY DEF IsText, SentenceBreaks
<1>2. sentence \in Nat /\ from < sentence /\ sentence <= to /\ (sentence = to \/ sentence \in t.blanks)
  <2>1. SentenceBreaks(t) \in SUBSET Nat
    BY <1>1
  <2>2. QED
    BY <1>1, <2>1, FirstBreakFacts
<1> HIDE DEF sentence
<1>3. clause \in Nat /\ from < clause /\ clause <= to /\ (clause = to \/ clause \in t.blanks)
  <2>1. t.commas \in SUBSET Nat
    BY <1>1
  <2>2. /\ clause \in Nat /\ from < clause /\ clause <= sentence
        /\ clause = sentence \/ clause \in t.commas
    BY <1>2, <2>1, FirstBreakFacts
  <2>3. QED
    BY <1>1, <1>2, <2>2
<1>4. clause - from <= limit => LET y == last(t.commas, sentence)
                                IN  y \in Nat /\ from < y /\ y <= to /\ (y = to \/ y \in t.blanks)
  <2>1. t.commas \in SUBSET Nat
    BY <1>1
  <2>2. clause - from <= limit =>
          LET y == last(t.commas, sentence)
          IN  y \in Nat /\ from < y /\ y <= sentence /\ (y = sentence \/ y \in t.commas)
    BY <1>2, <2>1, LastBreakFacts
  <2> HIDE DEF last, clause
  <2>3. QED
    BY <1>1, <1>2, <2>2
<1> HIDE DEF clause
<1>5. /\ word \in Nat /\ from < word /\ word <= clause /\ (word = clause \/ word \in t.blanks)
      /\ \A b \in t.blanks : from < b /\ b < clause => word <= b
  BY <1>1, <1>3, FirstBreakFacts
<1>6. word - from <= limit => LET y == last(t.blanks, clause)
                              IN  y \in Nat /\ from < y /\ y <= to /\ (y = to \/ y \in t.blanks)
  <2>1. t.blanks \in SUBSET Nat
    BY <1>1
  <2>2. word - from <= limit =>
          LET y == last(t.blanks, clause)
          IN  y \in Nat /\ from < y /\ y <= clause /\ (y = clause \/ y \in t.blanks)
    BY <1>3, <2>1, LastBreakFacts
  <2> HIDE DEF last, word
  <2>3. QED
    BY <1>3, <2>2
<1>7. \/ clause - from <= limit /\ x = last(t.commas, sentence)
      \/ word - from <= limit /\ x = last(t.blanks, clause)
      \/ word - from <= limit /\ x = word
      \/ ~(word - from <= limit) /\ x = from + limit
  <2> HIDE DEF last
  <2>1. QED
    BY DEF ChunkEnd, last, sentence, clause
<1> HIDE DEF word, last, x
<1>8. \/ x \in Nat /\ from < x /\ x <= to /\ (x = to \/ x \in t.blanks)
      \/ ~(word - from <= limit) /\ x = from + limit
  BY <1>3, <1>4, <1>5, <1>6, <1>7
<1>9. x \in Nat /\ from < x /\ x <= to
  BY <1>3, <1>5, <1>8
<1>10. ASSUME from \notin t.blanks, to - 1 \notin t.blanks, x - 1 \in t.blanks
       PROVE  FALSE
  <2>1. CASE x = to \/ x \in t.blanks
    BY <1>1, <1>9, <1>10, <2>1
  <2>2. CASE ~(word - from <= limit) /\ x = from + limit
    BY <1>3, <1>5, <1>10, <2>2
  <2>3. QED
    BY <1>8, <2>1, <2>2
<1>11. QED
  BY <1>9, <1>10 DEF x

Piece == [from : Nat, to : Nat]
Onward(t, to, limit, f, from) ==
    IF from >= to THEN <<>>
    ELSE <<[from |-> from, to |-> ChunkEnd(t, from, to, limit)]>>
         \o f[Resume(t, ChunkEnd(t, from, to, limit))]

\* What comes behind a chunk begins behind its beginning.
LEMMA ResumeFacts ==
    ASSUME NEW t, IsText(t), NEW from \in Nat, NEW to \in Nat, NEW limit \in Nat \ {0},
           from < to
    PROVE  Resume(t, ChunkEnd(t, from, to, limit)) \in from + 1 .. to + 1
<1>1. /\ ChunkEnd(t, from, to, limit) \in Nat /\ from < ChunkEnd(t, from, to, limit)
      /\ ChunkEnd(t, from, to, limit) <= to
  BY ChunkEndFacts
<1>2. QED
  BY <1>1 DEF Resume

\* The chunks from a position are what the recursion says.
LEMMA CutIsRecursive ==
    ASSUME NEW t, IsText(t), NEW to \in Nat, NEW limit \in Nat \ {0}
    PROVE  Cut(t, to, limit) = [from \in 0 .. to + 1 |-> Onward(t, to, limit, Cut(t, to, limit), from)]
<1> DEFINE Behind(m) == {from \in Nat : from <= to + 1 /\ to + 1 - m <= from}
           Right(f, m) == \A from \in Behind(m) : f[from] = Onward(t, to, limit, f, from)
           Some(m) == \E f : f = [from \in Behind(m) |-> f[from]] /\ Right(f, m)
           T == {m \in Nat : m <= to + 1 => Some(m)}
<1>1. 0 \in T
  <2> DEFINE f == [from \in Behind(0) |-> <<>>]
  <2>1. \A from \in Behind(0) : from >= to
    OBVIOUS
  <2>2. f = [from \in Behind(0) |-> f[from]]
    OBVIOUS
  <2>3. Right(f, 0)
    <3>1. \A from \in Behind(0) : Onward(t, to, limit, f, from) = <<>>
      BY <2>1 DEF Onward
    <3>2. \A from \in Behind(0) : f[from] = <<>>
      OBVIOUS
    <3> HIDE DEF f, Behind
    <3>3. QED
      BY <3>1, <3>2
  <2>4. Some(0)
    <3> HIDE DEF f, Behind, Right
    <3>1. QED
      BY <2>2, <2>3
  <2>5. QED
    <3> HIDE DEF Some
    <3>1. QED
      BY <2>4
<1>2. ASSUME NEW m \in Nat, m \in T, m + 1 <= to + 1 PROVE Some(m + 1)
  <2>1. PICK f : f = [from \in Behind(m) |-> f[from]] /\ Right(f, m)
    <3>1. m <= to + 1
      BY <1>2
    <3> HIDE DEF Some
    <3>2. Some(m)
      BY <1>2, <3>1
    <3>3. QED
      BY <3>2 DEF Some
  <2> DEFINE s == to - m
             g == [from \in Behind(m + 1) |-> IF from = s THEN Onward(t, to, limit, f, s) ELSE f[from]]
  <2>2. s \in Nat /\ Behind(m + 1) = Behind(m) \cup {s} /\ s \notin Behind(m)
    BY <1>2
  <2>3. ASSUME NEW from \in Behind(m + 1), from < to
        PROVE  Resume(t, ChunkEnd(t, from, to, limit)) \in Behind(m)
    <3>1. Resume(t, ChunkEnd(t, from, to, limit)) \in from + 1 .. to + 1 /\ from \in Nat
      BY <2>3, ResumeFacts
    <3>2. QED
      BY <2>3, <3>1
  <2>4. ASSUME NEW from \in Behind(m + 1)
        PROVE  Onward(t, to, limit, g, from) = Onward(t, to, limit, f, from)
    <3>1. CASE from >= to
      BY <3>1 DEF Onward
    <3>2. CASE ~(from >= to)
      <4>1. from < to /\ Resume(t, ChunkEnd(t, from, to, limit)) \in Behind(m)
        BY <2>3, <3>2
      <4>2. \A r \in Behind(m) : g[r] = f[r]
        <5> HIDE DEF Behind
        <5>1. QED
          BY <2>2
      <4>3. QED
        <5> HIDE DEF Behind, g
        <5>1. QED
          BY <4>1, <4>2 DEF Onward
    <3>3. QED
      BY <3>1, <3>2
  <2>5. Right(g, m + 1)
    <3>1. \A from \in Behind(m + 1) : g[from] = Onward(t, to, limit, f, from)
      <4> HIDE DEF Behind
      <4>1. QED
        BY <2>1, <2>2
    <3> HIDE DEF Behind, g
    <3>2. QED
      BY <2>4, <3>1
  <2>6. g = [from \in Behind(m + 1) |-> g[from]]
    OBVIOUS
  <2>7. QED
    <3> HIDE DEF g, Right, Behind
    <3>1. QED
      BY <2>5, <2>6
<1>3. \A m \in Nat : m \in T => m + 1 \in T
  <2> HIDE DEF Some
  <2>1. QED
    BY <1>2
<1>4. Some(to + 1)
  <2> HIDE DEF Some
  <2>1. T = T /\ to + 1 \in Nat
    OBVIOUS
  <2>2. Nat \subseteq T
    <3> HIDE DEF T
    <3>1. QED
      BY <1>1, <1>3, CountUp
  <2>3. QED
    BY <2>1, <2>2
<1>5. Behind(to + 1) = 0 .. to + 1
  OBVIOUS
<1>6. PICK f : f = [from \in 0 .. to + 1 |-> Onward(t, to, limit, f, from)]
  <2>1. PICK f : f = [from \in Behind(to + 1) |-> f[from]] /\ Right(f, to + 1)
    <3> HIDE DEF Right, Behind
    <3>1. QED
      BY <1>4
  <2> HIDE DEF Behind
  <2>2. f = [from \in Behind(to + 1) |-> Onward(t, to, limit, f, from)]
    BY <2>1
  <2>3. QED
    BY <1>5, <2>2
<1>7. Cut(t, to, limit) = CHOOSE g : g = [from \in 0 .. to + 1 |-> Onward(t, to, limit, g, from)]
  BY DEF Cut, Onward
<1>8. QED
  <2>1. \E g : g = [from \in 0 .. to + 1 |-> Onward(t, to, limit, g, from)]
    BY <1>6
  <2>2. QED
    BY <1>7, <2>1

\* Chunks that say a text from one position to another.
Chain(t, c, from, to) ==
    /\ c \in Seq(Piece) /\ (c = <<>> <=> from >= to)
    /\ c # <<>> => c[1].from = from /\ c[Len(c)].to = to
    /\ \A i \in 1 .. Len(c) : c[i].from < c[i].to
    /\ \A i \in 1 .. Len(c) : i > 1 => c[i].from = Resume(t, c[i - 1].to)

\* One chunk more before a chain.
LEMMA ChainGrows ==
    ASSUME NEW t, NEW from \in Nat, NEW mid \in Nat, NEW to \in Nat, NEW c,
           from < mid, mid <= to, Resume(t, mid) \in Nat,
           Chain(t, c, Resume(t, mid), to), c = <<>> => mid = to
    PROVE  Chain(t, <<[from |-> from, to |-> mid]>> \o c, from, to)
<1> DEFINE e == [from |-> from, to |-> mid]
           d == <<e>> \o c
<1>1. c \in Seq(Piece) /\ e \in Piece /\ e.from = from /\ e.to = mid
  BY DEF Chain, Piece
<1>2. /\ d \in Seq(Piece) /\ d # <<>> /\ Len(d) = Len(c) + 1 /\ d[1] = e
      /\ \A i \in 1 .. Len(c) + 1 : i > 1 => d[i] = c[i - 1] /\ i - 1 \in 1 .. Len(c)
      /\ Len(c) \in Nat /\ (c = <<>> <=> Len(c) = 0)
  <2> HIDE DEF e
  <2>1. QED
    BY <1>1
<1> HIDE DEF e, d
<1>3. d[1].from = from /\ d[Len(d)].to = to
  <2>1. CASE c = <<>>
    BY <1>1, <1>2, <2>1
  <2>2. CASE c # <<>>
    <3>1. d[Len(d)] = c[Len(c)] /\ c[Len(c)].to = to
      BY <1>2, <2>2 DEF Chain
    <3>2. QED
      BY <1>1, <1>2, <3>1
  <2>3. QED
    BY <2>1, <2>2
<1>4. ASSUME NEW i \in 1 .. Len(d)
      PROVE  d[i].from < d[i].to /\ (i > 1 => d[i].from = Resume(t, d[i - 1].to))
  <2>1. CASE i = 1
    BY <1>1, <1>2, <2>1
  <2>2. CASE i = 2
    <3>1. d[2] = c[1] /\ 1 \in 1 .. Len(c) /\ c # <<>>
      BY <1>2, <1>4, <2>2
    <3>2. c[1].from < c[1].to /\ c[1].from = Resume(t, mid)
      BY <3>1 DEF Chain
    <3>3. QED
      BY <1>1, <1>2, <2>2, <3>1, <3>2
  <2>3. CASE i > 2
    <3>1. d[i] = c[i - 1] /\ d[i - 1] = c[(i - 1) - 1] /\ i - 1 \in 1 .. Len(c) /\ i - 1 > 1
      BY <1>2, <1>4, <2>3
    <3>2. c[i - 1].from < c[i - 1].to /\ c[i - 1].from = Resume(t, c[(i - 1) - 1].to)
      BY <3>1 DEF Chain
    <3>3. QED
      BY <3>1, <3>2
  <2>4. QED
    BY <1>2, <1>4, <2>1, <2>2, <2>3
<1>5. ~(from >= to)
  OBVIOUS
<1>6. QED
  BY <1>2, <1>3, <1>4, <1>5 DEF Chain, d, e

\* The cut says what it cuts.
LEMMA CutFacts ==
    ASSUME NEW t, IsText(t), NEW to \in Nat, NEW limit \in Nat \ {0}, to - 1 \notin t.blanks
    PROVE  \A from \in 0 .. to + 1 : Chain(t, Cut(t, to, limit)[from], from, to)
<1> DEFINE c(from) == Cut(t, to, limit)[from]
           T == {m \in Nat : \A from \in 0 .. to + 1 : to + 1 - m <= from => Chain(t, c(from), from, to)}
<1>1. \A from \in 0 .. to + 1 : c(from) = Onward(t, to, limit, Cut(t, to, limit), from)
  BY CutIsRecursive
<1> HIDE DEF c
<1>2. ASSUME NEW from \in 0 .. to + 1, from >= to PROVE Chain(t, c(from), from, to)
  <2>1. c(from) = <<>>
    BY <1>1, <1>2 DEF Onward
  <2>2. <<>> \in Seq(Piece) /\ Len(<<>>) = 0
    OBVIOUS
  <2>3. QED
    BY <1>2, <2>1, <2>2 DEF Chain
<1>3. 0 \in T
  BY <1>2
<1>4. ASSUME NEW m \in Nat, m \in T, NEW from \in 0 .. to + 1, to + 1 - (m + 1) <= from
      PROVE  Chain(t, c(from), from, to)
  <2> DEFINE mid == ChunkEnd(t, from, to, limit)
  <2>1. CASE from < to
    <3>1. mid \in Nat /\ from < mid /\ mid <= to /\ Resume(t, mid) \in from + 1 .. to + 1
      <4>1. from \in Nat
        OBVIOUS
      <4>2. QED
        BY <2>1, <4>1, ChunkEndFacts, ResumeFacts
    <3> HIDE DEF mid
    <3>2. Chain(t, c(Resume(t, mid)), Resume(t, mid), to)
      <4>1. Resume(t, mid) \in 0 .. to + 1 /\ to + 1 - m <= Resume(t, mid)
        BY <1>4, <3>1
      <4>2. QED
        BY <1>4, <4>1
    <3>3. c(from) = <<[from |-> from, to |-> mid]>> \o c(Resume(t, mid))
      <4>1. ~(from >= to) /\ c(from) = Onward(t, to, limit, Cut(t, to, limit), from)
        BY <1>1, <2>1
      <4>2. Onward(t, to, limit, Cut(t, to, limit), from)
              = <<[from |-> from, to |-> mid]>> \o Cut(t, to, limit)[Resume(t, mid)]
        BY <4>1 DEF Onward, mid
      <4>3. QED
        BY <4>1, <4>2 DEF c
    <3>4. ASSUME c(Resume(t, mid)) = <<>>, mid # to PROVE FALSE
      <4>1. Resume(t, mid) >= to
        BY <3>2, <3>4 DEF Chain
      <4>2. mid \in t.blanks /\ mid = to - 1
        BY <3>1, <3>4, <4>1 DEF Resume
      <4>3. QED
        BY <4>2
    <3>5. Resume(t, mid) \in Nat /\ from \in Nat
      BY <3>1
    <3>6. QED
      BY <3>1, <3>2, <3>3, <3>4, <3>5, ChainGrows
  <2>2. QED
    BY <1>2, <1>4, <2>1
<1>5. ASSUME NEW m \in Nat, m \in T PROVE m + 1 \in T
  <2>1. \A from \in 0 .. to + 1 : to + 1 - (m + 1) <= from => Chain(t, c(from), from, to)
    <3> HIDE DEF T
    <3>1. QED
      BY <1>4, <1>5
  <2>2. QED
    BY <2>1
<1>6. to + 1 \in T
  <2> HIDE DEF T
  <2>1. Nat \subseteq T
    BY <1>3, <1>5, CountUp
  <2>2. QED
    BY <2>1
<1>7. QED
  BY <1>6 DEF c

\* The first chunk may be cut again: the rest goes on behind it.
LEMMA FirstCutAgain ==
    ASSUME NEW t, NEW to \in Nat, NEW c, NEW h, c # <<>>, Chain(t, c, 0, to),
           Chain(t, h, 0, Head(c).to)
    PROVE  Chain(t, h \o Tail(c), 0, to)
<1> DEFINE d == h \o Tail(c)
<1>1. /\ c \in Seq(Piece) /\ Len(c) \in Nat /\ Len(c) # 0 /\ Head(c) = c[1] /\ 1 \in 1 .. Len(c)
      /\ h \in Seq(Piece) /\ Len(h) \in Nat
  BY DEF Chain
<1>2. c[1].from = 0 /\ c[1].from < c[1].to /\ c[1].to \in Nat
  <2>1. c[1] \in Piece
    BY <1>1
  <2>2. QED
    BY <1>1, <2>1 DEF Chain, Piece
<1>3. h # <<>> /\ Len(h) # 0 /\ h[1].from = 0 /\ h[Len(h)].to = c[1].to
  BY <1>1, <1>2 DEF Chain
<1>4. /\ d \in Seq(Piece) /\ Len(d) = Len(h) + Len(c) - 1 /\ d # <<>>
      /\ \A i \in 1 .. Len(h) : d[i] = h[i]
      /\ \A i \in 1 .. Len(d) : i > Len(h) => d[i] = c[i - Len(h) + 1]
  <2>1. Tail(c) \in Seq(Piece) /\ Len(Tail(c)) = Len(c) - 1
        /\ \A j \in 1 .. Len(c) - 1 : Tail(c)[j] = c[j + 1]
    BY <1>1
  <2> HIDE DEF Piece
  <2>2. /\ d \in Seq(Piece) /\ Len(d) = Len(h) + Len(Tail(c))
        /\ \A i \in 1 .. Len(h) : d[i] = h[i]
        /\ \A i \in 1 .. Len(d) : i > Len(h) => d[i] = Tail(c)[i - Len(h)]
    BY <1>1, <2>1
  <2>3. \A i \in 1 .. Len(d) : i > Len(h) => i - Len(h) \in 1 .. Len(c) - 1
    BY <1>1, <2>1, <2>2
  <2> HIDE DEF d
  <2>4. QED
    BY <1>1, <1>3, <2>1, <2>2, <2>3
<1> HIDE DEF d
<1>5. d[1].from = 0 /\ d[Len(d)].to = to
  <2>1. d[1] = h[1]
    BY <1>1, <1>3, <1>4
  <2>2. CASE Len(c) = 1
    <3>1. Len(d) = Len(h) /\ d[Len(d)] = h[Len(h)] /\ c[Len(c)].to = to
      BY <1>1, <1>3, <1>4, <2>2 DEF Chain
    <3>2. QED
      BY <1>3, <2>1, <2>2, <3>1
  <2>3. CASE Len(c) # 1
    <3>1. Len(d) > Len(h) /\ Len(d) \in 1 .. Len(d) /\ Len(d) - Len(h) + 1 = Len(c)
      <4>1. Len(d) = Len(h) + Len(c) - 1 /\ Len(c) \in Nat /\ Len(h) \in Nat /\ Len(c) # 0
        BY <1>1, <1>4
      <4>2. \A l, m, n \in Nat : n # 0 /\ n # 1 /\ l = m + n - 1 => l > m /\ l \in 1 .. l /\ l - m + 1 = n
        OBVIOUS
      <4>3. Len(d) \in Nat
        BY <1>4
      <4>4. QED
        BY <2>3, <4>1, <4>2, <4>3
    <3>2. d[Len(d)] = c[Len(c)] /\ c[Len(c)].to = to
      BY <1>1, <1>4, <3>1 DEF Chain
    <3>3. QED
      BY <1>3, <2>1, <3>2
  <2>4. QED
    BY <2>2, <2>3
<1>6. ASSUME NEW i \in 1 .. Len(d)
      PROVE  d[i].from < d[i].to /\ (i > 1 => d[i].from = Resume(t, d[i - 1].to))
  <2>1. CASE i <= Len(h)
    <3>1. i \in 1 .. Len(h) /\ d[i] = h[i] /\ (i > 1 => d[i - 1] = h[i - 1])
      BY <1>1, <1>4, <2>1
    <3>2. QED
      BY <3>1 DEF Chain
  <2>2. CASE i = Len(h) + 1
    <3>1. d[i] = c[2] /\ 2 \in 1 .. Len(c) /\ d[i - 1] = h[Len(h)]
      <4>1. \A m, n \in Nat : m # 0 /\ m + 1 \in 1 .. m + n - 1 =>
              /\ m + 1 > m /\ (m + 1) - m + 1 = 2 /\ (m + 1) - 1 = m
              /\ 2 \in 1 .. n /\ m \in 1 .. m
        OBVIOUS
      <4>2. Len(h) + 1 \in 1 .. Len(h) + Len(c) - 1
        BY <1>4, <2>2
      <4>3. /\ i > Len(h) /\ i - Len(h) + 1 = 2 /\ i - 1 = Len(h)
            /\ 2 \in 1 .. Len(c) /\ Len(h) \in 1 .. Len(h)
        BY <1>1, <1>3, <2>2, <4>1, <4>2
      <4>4. d[i] = c[i - Len(h) + 1] /\ d[Len(h)] = h[Len(h)]
        BY <1>4, <4>3
      <4>5. QED
        BY <4>3, <4>4
    <3>2. c[2].from < c[2].to /\ c[2].from = Resume(t, c[1].to)
      BY <3>1 DEF Chain
    <3>3. QED
      BY <1>3, <3>1, <3>2
  <2>3. CASE i > Len(h) + 1
    <3> DEFINE j == i - Len(h) + 1
    <3>1. j \in 1 .. Len(c) /\ j > 1 /\ d[i] = c[j] /\ d[i - 1] = c[j - 1]
      <4>1. i - 1 \in 1 .. Len(d) /\ i - 1 > Len(h) /\ (i - 1) - Len(h) + 1 = j - 1 /\ i > Len(h)
        BY <1>1, <1>4, <2>3
      <4>2. j \in 1 .. Len(c) /\ j > 1
        BY <1>1, <1>4, <2>3
      <4>3. QED
        BY <1>4, <4>1, <4>2
    <3> HIDE DEF j
    <3>2. c[j].from < c[j].to /\ c[j].from = Resume(t, c[j - 1].to)
      BY <3>1 DEF Chain
    <3>3. QED
      BY <3>1, <3>2
  <2>4. QED
    BY <1>1, <1>4, <2>1, <2>2, <2>3
<1>7. ~(0 >= to)
  BY <1>1 DEF Chain
<1>8. QED
  BY <1>4, <1>5, <1>6, <1>7 DEF Chain, d

\* A chain from the beginning of a text to its end says it.
LEMMA ChainSays ==
    ASSUME NEW t, IsText(t), NEW c, Chain(t, c, 0, t.len)
    PROVE  Says(c, t)
<1> DEFINE begin(i) == IF i = 1 THEN 0 ELSE Resume(t, c[i - 1].to)
<1>1. c \in Seq(Piece) /\ DOMAIN c = 1 .. Len(c) /\ Len(c) \in Nat /\ t.len \in Nat
  BY DEF Chain, IsText
<1>2. ASSUME NEW i \in DOMAIN c PROVE c[i].from = begin(i) /\ begin(i) < c[i].to
  <2>1. i \in 1 .. Len(c) /\ c # <<>>
    BY <1>1
  <2>2. c[i].from = begin(i)
    BY <1>1, <2>1 DEF Chain
  <2>3. c[i].from < c[i].to
    BY <2>1 DEF Chain
  <2>4. QED
    BY <2>2, <2>3
<1>3. begin(Len(c) + 1) = t.len
  <2>1. CASE c = <<>>
    <3>1. Len(c) = 0 /\ 0 >= t.len
      BY <2>1 DEF Chain
    <3>2. QED
      BY <1>1, <3>1
  <2>2. CASE c # <<>>
    <3>1. Len(c) # 0 /\ c[Len(c)].to = t.len
      BY <1>1, <2>2 DEF Chain
    <3>2. t.len \notin t.blanks
      BY DEF IsText
    <3>3. QED
      BY <1>1, <3>1, <3>2 DEF Resume
  <2>3. QED
    BY <2>1, <2>2
<1>4. QED
  BY <1>2, <1>3 DEF Says

\* "Nothing is truncated away": for every text and all settings the chunks are the text.
THEOREM SplitSaysWhole ==
    ASSUME NEW t, IsText(t)
    PROVE  split_sentences(t) \in Seq(Piece) /\ Says(split_sentences(t), t)
<1> DEFINE c == Cut(t, t.len, MaxChars)[0]
<1>1. /\ t.len \in Nat /\ t.len - 1 \notin t.blanks /\ 0 \notin t.blanks /\ 0 \in 0 .. t.len + 1
      /\ MaxChars \in Nat \ {0} /\ first_cap \in Nat \ {0}
  BY CharsAssumption DEF IsText, CharsAssumption, first_cap
<1>2. Chain(t, c, 0, t.len)
  BY <1>1, CutFacts
<1>3. CASE c = <<>> \/ Head(c).to <= first_cap
  <2>1. split_sentences(t) = c
    BY <1>3 DEF split_sentences
  <2>2. QED
    BY <1>2, <2>1, ChainSays DEF Chain
<1>4. CASE ~(c = <<>> \/ Head(c).to <= first_cap)
  <2> DEFINE to == Head(c).to
             h == Cut(t, to, first_cap)[0]
  <2>1. to \in Nat /\ to - 1 \notin t.blanks
    <3>1. 0 < t.len
      BY <1>1, <1>2, <1>4 DEF Chain
    <3>2. c = Onward(t, t.len, MaxChars, Cut(t, t.len, MaxChars), 0)
      <4>1. Cut(t, t.len, MaxChars) = [from \in 0 .. t.len + 1 |->
              Onward(t, t.len, MaxChars, Cut(t, t.len, MaxChars), from)]
        <5>1. t.len \in Nat /\ MaxChars \in Nat \ {0}
          BY <1>1
        <5> HIDE DEF c
        <5>2. QED
          BY <5>1, CutIsRecursive, SMTT(30)
      <4>2. QED
        BY <1>1, <4>1
    <3> DEFINE end == ChunkEnd(t, 0, t.len, MaxChars)
               rest == Cut(t, t.len, MaxChars)[Resume(t, end)]
    <3>3. c = <<[from |-> 0, to |-> end]>> \o rest
      BY <1>1, <3>1, <3>2 DEF Onward
    <3>4. end \in Nat /\ end - 1 \notin t.blanks /\ Resume(t, end) \in 0 .. t.len + 1
      <4>1. 0 \in Nat
        OBVIOUS
      <4>2. end \in Nat /\ end - 1 \notin t.blanks
        BY <1>1, <3>1, <4>1, ChunkEndFacts
      <4>3. Resume(t, end) \in 0 + 1 .. t.len + 1
        BY <1>1, <3>1, <4>1, ResumeFacts
      <4> HIDE DEF end
      <4>4. QED
        BY <1>1, <4>2, <4>3
    <3>5. rest \in Seq(Piece)
      BY <1>1, <3>4, CutFacts DEF Chain
    <3>6. Head(c) = [from |-> 0, to |-> end]
      <4> HIDE DEF rest, end, c
      <4>1. QED
        BY <3>3, <3>5
    <3>7. QED
      BY <3>4, <3>6
  <2>2. Chain(t, h, 0, to)
    <3>1. 0 \in 0 .. to + 1
      BY <2>1
    <3> HIDE DEF to
    <3>2. QED
      BY <1>1, <2>1, <3>1, CutFacts
  <2>3. split_sentences(t) = h \o Tail(c)
    BY <1>4 DEF split_sentences
  <2>4. Chain(t, h \o Tail(c), 0, t.len)
    <3>1. c # <<>>
      BY <1>4
    <3> HIDE DEF c, h
    <3>2. QED
      BY <1>1, <1>2, <2>2, <3>1, FirstCutAgain, SMTT(30)
  <2>5. QED
    <3> HIDE DEF c, h
    <3>1. Says(h \o Tail(c), t)
      BY <2>4, ChainSays
    <3>2. h \o Tail(c) \in Seq(Piece)
      BY <2>4 DEF Chain
    <3>3. QED
      BY <2>3, <3>1, <3>2
<1>5. QED
  BY <1>3, <1>4

-----------------------------------------------------------------------------
(* The account of the cache                                                *)

Entry == [text : Texts, wavs : Nat, size : Nat]

\* The sums of an account are what their recursion says.
LEMMA SumsFacts ==
    ASSUME NEW c \in Seq(Entry)
    PROVE  /\ Sums(c) \in [0 .. Len(c) -> Nat] /\ Sums(c)[0] = 0
           /\ \A n \in 1 .. Len(c) : Sums(c)[n] = Sums(c)[n - 1] + c[n].size
<1>1. Len(c) \in Nat /\ \A n \in 1 .. Len(c) : c[n].size \in Nat
  <2>1. \A e \in Entry : e.size \in Nat
    BY DEF Entry
  <2>2. QED
    BY <2>1
<1> DEFINE Summed(f) == [n \in 0 .. Len(c) |-> IF n = 0 THEN 0 ELSE f[n - 1] + c[n].size]
           Sum(f, m) == f[0] = 0 /\ \A n \in 1 .. m : f[n] = f[n - 1] + c[n].size
           Some(m) == \E f \in [0 .. m -> Nat] : Sum(f, m)
           T == {m \in Nat : m <= Len(c) => Some(m)}
<1>2. 0 \in T
  <2>1. [n \in 0 .. 0 |-> 0] \in [0 .. 0 -> Nat] /\ Sum([n \in 0 .. 0 |-> 0], 0)
    OBVIOUS
  <2>2. QED
    BY <2>1
<1>3. ASSUME NEW m \in Nat, m \in T PROVE m + 1 \in T
  <2> SUFFICES ASSUME m + 1 <= Len(c) PROVE Some(m + 1)
    <3> HIDE DEF Some
    <3>1. QED
      OBVIOUS
  <2>1. PICK f \in [0 .. m -> Nat] : Sum(f, m)
    <3>1. m <= Len(c)
      BY <1>1
    <3> HIDE DEF Some
    <3>2. Some(m)
      BY <1>3, <3>1
    <3>3. QED
      BY <3>2 DEF Some
  <2> DEFINE g == [n \in 0 .. m + 1 |-> IF n <= m THEN f[n] ELSE f[m] + c[m + 1].size]
  <2>2. c[m + 1].size \in Nat /\ f[m] \in Nat
    BY <1>1
  <2>3. g \in [0 .. m + 1 -> Nat]
    BY <2>2
  <2>4. g[0] = 0 /\ g[m + 1] = g[m] + c[m + 1].size
    BY <2>1
  <2>5. ASSUME NEW n \in 1 .. m + 1 PROVE g[n] = g[n - 1] + c[n].size
    BY <2>1, <2>4
  <2>6. QED
    BY <2>3, <2>4, <2>5
<1>4. Len(c) \in T
  <2> HIDE DEF T
  <2>1. QED
    BY <1>1, <1>2, <1>3, CountUp
<1>5. PICK f \in [0 .. Len(c) -> Nat] : Sum(f, Len(c))
  BY <1>1, <1>4
<1>6. f = Summed(f)
  BY <1>1, <1>5
<1>7. Sums(c) = CHOOSE g : g = Summed(g)
  BY DEF Sums
<1>8. Sums(c) = Summed(Sums(c))
  <2> HIDE DEF Summed
  <2>1. QED
    BY <1>6, <1>7
<1>9. Sum(Sums(c), Len(c)) /\ DOMAIN Sums(c) = 0 .. Len(c)
  BY <1>1, <1>8
<1>10. \A n \in 0 .. Len(c) : Sums(c)[n] \in Nat
  <2> DEFINE U == {n \in Nat : n <= Len(c) => Sums(c)[n] \in Nat}
  <2>1. 0 \in U
    BY <1>9
  <2>2. ASSUME NEW n \in Nat, n \in U PROVE n + 1 \in U
    <3> SUFFICES ASSUME n + 1 <= Len(c) PROVE Sums(c)[n + 1] \in Nat
      OBVIOUS
    <3>1. Sums(c)[n] \in Nat /\ c[n + 1].size \in Nat
      BY <1>1, <2>2
    <3>2. Sums(c)[n + 1] = Sums(c)[n] + c[n + 1].size
      BY <1>1, <1>9
    <3>3. QED
      BY <3>1, <3>2
  <2> HIDE DEF U
  <2>3. Nat \subseteq U
    BY <2>1, <2>2, CountUp
  <2>4. QED
    BY <1>1, <2>3 DEF U
<1>11. Sums(c) \in [0 .. Len(c) -> Nat]
  BY <1>8, <1>10
<1>12. QED
  BY <1>9, <1>11

\* A stretch of one account that is also one of another.
Stretch(c, p, d, q, m) ==
    p + m <= Len(c) /\ q + m <= Len(d) /\ \A j \in 1 .. m : c[p + j] = d[q + j]

\* Equal stretches of two accounts sum up to the same.
LEMMA SumsAgree ==
    ASSUME NEW c \in Seq(Entry), NEW d \in Seq(Entry), NEW p \in Nat, NEW q \in Nat, NEW m \in Nat,
           Stretch(c, p, d, q, m)
    PROVE  Sums(c)[p + m] - Sums(c)[p] = Sums(d)[q + m] - Sums(d)[q]
<1> DEFINE Same(j) == Sums(c)[p + j] - Sums(c)[p] = Sums(d)[q + j] - Sums(d)[q]
           T == {j \in Nat : j <= m => Same(j)}
<1>1. /\ Len(c) \in Nat /\ Len(d) \in Nat /\ p + m <= Len(c) /\ q + m <= Len(d)
      /\ \A j \in 1 .. m : c[p + j] = d[q + j]
  BY DEF Stretch
<1>2. \A n \in 0 .. Len(c) : Sums(c)[n] \in Nat
  BY SumsFacts
<1>3. \A n \in 0 .. Len(d) : Sums(d)[n] \in Nat
  BY SumsFacts
<1>4. Same(0)
  <2>1. p + 0 = p /\ q + 0 = q /\ p \in 0 .. Len(c) /\ q \in 0 .. Len(d)
    BY <1>1
  <2>2. QED
    BY <1>2, <1>3, <2>1
<1>5. ASSUME NEW j \in Nat, j + 1 <= m, Same(j) PROVE Same(j + 1)
  <2>1. /\ Sums(c)[p + j + 1] = Sums(c)[p + j] + c[p + j + 1].size
        /\ Sums(d)[q + j + 1] = Sums(d)[q + j] + d[q + j + 1].size
    <3>1. p + j + 1 \in 1 .. Len(c) /\ (p + j + 1) - 1 = p + j
      BY <1>1, <1>5
    <3>2. q + j + 1 \in 1 .. Len(d) /\ (q + j + 1) - 1 = q + j
      BY <1>1, <1>5
    <3>3. QED
      BY <3>1, <3>2, SumsFacts
  <2>2. c[p + j + 1] = d[q + j + 1]
    <3>1. j + 1 \in 1 .. m /\ p + (j + 1) = p + j + 1 /\ q + (j + 1) = q + j + 1
      BY <1>5
    <3>2. c[p + (j + 1)] = d[q + (j + 1)]
      BY <1>1, <3>1
    <3>3. QED
      BY <3>1, <3>2
  <2>3. c[p + j + 1].size \in Nat
    <3>1. \A e \in Entry : e.size \in Nat
      BY DEF Entry
    <3>2. p + j + 1 \in 1 .. Len(c)
      BY <1>1, <1>5
    <3>3. c[p + j + 1] \in Entry
      BY <3>2
    <3>4. QED
      BY <3>1, <3>3
  <2>4. /\ Sums(c)[p + j] \in Nat /\ Sums(d)[q + j] \in Nat /\ Sums(c)[p] \in Nat /\ Sums(d)[q] \in Nat
    <3>1. p + j \in 0 .. Len(c) /\ p \in 0 .. Len(c) /\ q + j \in 0 .. Len(d) /\ q \in 0 .. Len(d)
      BY <1>1, <1>5
    <3>2. QED
      BY <1>2, <1>3, <3>1
  <2>5. p + (j + 1) = p + j + 1 /\ q + (j + 1) = q + j + 1
    OBVIOUS
  <2>6. Sums(c)[p + j] - Sums(c)[p] = Sums(d)[q + j] - Sums(d)[q]
    BY <1>5
  <2>7. Sums(c)[p + j + 1] - Sums(c)[p] = Sums(d)[q + j + 1] - Sums(d)[q]
    <3> DEFINE u == Sums(c)[p + j]
               v == Sums(c)[p]
               w == Sums(d)[q + j]
               x == Sums(d)[q]
               s == c[p + j + 1].size
    <3>1. u \in Nat /\ v \in Nat /\ w \in Nat /\ x \in Nat /\ s \in Nat /\ u - v = w - x
      BY <2>3, <2>4, <2>6
    <3>2. Sums(d)[q + j + 1] = Sums(d)[q + j] + c[p + j + 1].size
      BY <2>1, <2>2, Zenon
    <3>3. (u + s) - v = (w + s) - x
      <4> HIDE DEF u, v, w, x, s
      <4>1. QED
        BY <3>1
    <3>4. QED
      BY <2>1, <3>2, <3>3, Zenon
  <2>8. QED
    BY <2>5, <2>7
<1> HIDE DEF Same
<1>6. 0 \in T
  BY <1>4
<1>7. ASSUME NEW j \in Nat, j \in T PROVE j + 1 \in T
  BY <1>5, <1>7
<1>8. m \in T
  <2> HIDE DEF T
  <2>1. Nat \subseteq T
    BY <1>6, <1>7, CountUp
  <2>2. QED
    BY <2>1
<1>9. QED
  BY <1>8 DEF Same

Total(c) == Sums(c)[Len(c)]

\* The bytes of an account are a number, none if it is empty.
LEMMA TotalFacts ==
    ASSUME NEW c \in Seq(Entry)
    PROVE  Total(c) \in Nat /\ (c = <<>> => Total(c) = 0)
<1>1. Len(c) \in 0 .. Len(c) /\ (c = <<>> => Len(c) = 0)
  OBVIOUS
<1>2. QED
  BY <1>1, SumsFacts DEF Total

\* An entry at the end adds its bytes.
LEMMA TotalAdded ==
    ASSUME NEW c \in Seq(Entry), NEW e \in Entry
    PROVE  Append(c, e) \in Seq(Entry) /\ Total(Append(c, e)) = Total(c) + e.size
<1> DEFINE d == Append(c, e)
<1>1. /\ d \in Seq(Entry) /\ Len(d) = Len(c) + 1 /\ Len(c) \in Nat /\ d[Len(c) + 1] = e
      /\ \A j \in 1 .. Len(c) : c[j] = d[j]
  OBVIOUS
<1> HIDE DEF d
<1>2. Sums(c)[0 + Len(c)] - Sums(c)[0] = Sums(d)[0 + Len(c)] - Sums(d)[0]
  <2>1. Stretch(c, 0, d, 0, Len(c))
    BY <1>1 DEF Stretch
  <2>2. QED
    BY <1>1, <2>1, SumsAgree
<1>3. Sums(d)[Len(c) + 1] = Sums(d)[Len(c)] + e.size
  <2>1. Len(c) + 1 \in 1 .. Len(d) /\ (Len(c) + 1) - 1 = Len(c)
    BY <1>1
  <2>2. QED
    BY <1>1, <2>1, SumsFacts
<1>4. /\ Sums(c)[0] = 0 /\ Sums(d)[0] = 0 /\ Sums(c)[Len(c)] \in Nat /\ Sums(d)[Len(c)] \in Nat
  <2>1. Len(c) \in 0 .. Len(c) /\ Len(c) \in 0 .. Len(d)
    BY <1>1
  <2>2. QED
    BY <1>1, <2>1, SumsFacts
<1>5. Sums(c)[Len(c)] = Sums(d)[Len(c)]
  BY <1>1, <1>2, <1>4
<1>6. QED
  BY <1>1, <1>3, <1>5 DEF Total, d

\* The first entries take their bytes away.
LEMMA TotalDropped ==
    ASSUME NEW c \in Seq(Entry), NEW n \in 0 .. Len(c)
    PROVE  /\ SubSeq(c, n + 1, Len(c)) \in Seq(Entry) /\ Sums(c)[n] \in Nat
           /\ Total(c) = Sums(c)[n] + Total(SubSeq(c, n + 1, Len(c)))
<1> DEFINE d == SubSeq(c, n + 1, Len(c))
<1>1. /\ Len(c) \in Nat /\ n \in Nat /\ d \in Seq(Entry) /\ Len(d) = Len(c) - n
      /\ \A j \in 1 .. Len(c) - n : d[j] = c[n + j]
  OBVIOUS
<1> HIDE DEF d
<1>2. Sums(c)[n + (Len(c) - n)] - Sums(c)[n] = Sums(d)[0 + (Len(c) - n)] - Sums(d)[0]
  <2>1. Stretch(c, n, d, 0, Len(c) - n) /\ Len(c) - n \in Nat
    BY <1>1 DEF Stretch
  <2>2. QED
    BY <1>1, <2>1, SumsAgree
<1>3. /\ Sums(d)[0] = 0 /\ Sums(c)[n] \in Nat /\ Sums(c)[Len(c)] \in Nat /\ Sums(d)[Len(d)] \in Nat
  <2>1. Len(c) \in 0 .. Len(c) /\ Len(d) \in 0 .. Len(d)
    BY <1>1
  <2>2. QED
    BY <1>1, <2>1, SumsFacts
<1>4. n + (Len(c) - n) = Len(c) /\ 0 + (Len(c) - n) = Len(d)
  BY <1>1
<1>5. Sums(c)[Len(c)] - Sums(c)[n] = Sums(d)[Len(d)] - Sums(d)[0]
  BY <1>2, <1>4
<1>6. QED
  BY <1>1, <1>3, <1>5 DEF Total, d

\* So does one that is taken out.
LEMMA TotalWithout ==
    ASSUME NEW c \in Seq(Entry), NEW i \in 1 .. Len(c)
    PROVE  LET d == SubSeq(c, 1, i - 1) \o SubSeq(c, i + 1, Len(c))
           IN  /\ d \in Seq(Entry) /\ Len(d) = Len(c) - 1 /\ Total(c) = Total(d) + c[i].size
               /\ \A j \in 1 .. Len(d) : d[j] = c[IF j < i THEN j ELSE j + 1]
<1> DEFINE a == SubSeq(c, 1, i - 1)
           b == SubSeq(c, i + 1, Len(c))
           d == a \o b
           m == Len(c) - i
<1>1. /\ Len(c) \in Nat /\ i \in Nat /\ i >= 1 /\ i <= Len(c) /\ m \in Nat
      /\ a \in Seq(Entry) /\ Len(a) = i - 1 /\ \A j \in 1 .. i - 1 : a[j] = c[j]
      /\ b \in Seq(Entry) /\ Len(b) = m /\ \A j \in 1 .. m : b[j] = c[i + j]
  OBVIOUS
<1>2. /\ d \in Seq(Entry) /\ Len(d) = (i - 1) + m
      /\ \A j \in 1 .. i - 1 : d[j] = c[j]
      /\ \A j \in 1 .. m : d[(i - 1) + j] = c[i + j]
  <2> HIDE DEF a, b, m
  <2>1. a \in Seq(Entry) /\ b \in Seq(Entry)
    BY <1>1
  <2>2. /\ d \in Seq(Entry) /\ Len(d) = Len(a) + Len(b)
        /\ \A j \in 1 .. Len(a) : d[j] = a[j]
    BY <2>1
  <2>3. ASSUME NEW j \in 1 .. Len(b) PROVE d[Len(a) + j] = b[j]
    BY <2>1
  <2>4. \A j \in 1 .. m : d[(i - 1) + j] = c[i + j]
    BY <1>1, <2>3
  <2>5. QED
    BY <1>1, <2>2, <2>4
<1> HIDE DEF d
<1>3. Sums(c)[0 + (i - 1)] - Sums(c)[0] = Sums(d)[0 + (i - 1)] - Sums(d)[0]
  <2>1. Stretch(c, 0, d, 0, i - 1) /\ i - 1 \in Nat
    <3>1. 0 + (i - 1) <= Len(c) /\ 0 + (i - 1) <= Len(d) /\ i - 1 \in Nat
      BY <1>1, <1>2
    <3>2. ASSUME NEW j \in 1 .. i - 1 PROVE c[0 + j] = d[0 + j]
      <4>1. 0 + j = j
        OBVIOUS
      <4>2. QED
        BY <1>2, <4>1
    <3> HIDE DEF m, a, b
    <3>3. QED
      BY <3>1, <3>2 DEF Stretch
  <2>2. d \in Seq(Entry) /\ 0 \in Nat
    BY <1>2
  <2> HIDE DEF m, a, b
  <2>3. QED
    BY <2>1, <2>2, SumsAgree
<1>4. Sums(c)[i + m] - Sums(c)[i] = Sums(d)[(i - 1) + m] - Sums(d)[i - 1]
  <2>1. Stretch(c, i, d, i - 1, m) /\ i - 1 \in Nat
    <3>1. i + m <= Len(c) /\ (i - 1) + m <= Len(d) /\ i - 1 \in Nat
      BY <1>1, <1>2
    <3>2. \A j \in 1 .. m : c[i + j] = d[(i - 1) + j]
      BY <1>2, Zenon
    <3> HIDE DEF m, a, b
    <3>3. QED
      BY <3>1, <3>2 DEF Stretch
  <2>2. d \in Seq(Entry) /\ i \in Nat /\ m \in Nat
    BY <1>1, <1>2
  <2> HIDE DEF m, a, b
  <2>3. QED
    BY <2>1, <2>2, SumsAgree
<1>5. Sums(c)[i] = Sums(c)[i - 1] + c[i].size
  BY SumsFacts
<1>6. /\ Sums(c)[0] = 0 /\ Sums(d)[0] = 0 /\ Sums(c)[i - 1] \in Nat /\ Sums(c)[i] \in Nat
      /\ Sums(d)[i - 1] \in Nat /\ Sums(c)[Len(c)] \in Nat /\ Sums(d)[Len(d)] \in Nat
  <2>1. /\ 0 \in 0 .. Len(c) /\ i - 1 \in 0 .. Len(c) /\ i \in 0 .. Len(c) /\ i - 1 \in 0 .. Len(d)
        /\ Len(c) \in 0 .. Len(c) /\ Len(d) \in 0 .. Len(d)
    BY <1>1, <1>2
  <2>2. /\ Sums(c) \in [0 .. Len(c) -> Nat] /\ Sums(c)[0] = 0
        /\ Sums(d) \in [0 .. Len(d) -> Nat] /\ Sums(d)[0] = 0
    <3>1. d \in Seq(Entry)
      BY <1>2
    <3> HIDE DEF d
    <3>2. QED
      BY <3>1, SumsFacts, SMTT(30)
  <2> HIDE DEF m, a, b
  <2>3. QED
    BY <2>1, <2>2
<1>7. Total(c) = Total(d) + c[i].size
  <2>1. 0 + (i - 1) = i - 1 /\ i + m = Len(c) /\ (i - 1) + m = Len(d)
    <3>1. Len(c) \in Nat /\ i \in Nat /\ Len(d) = (i - 1) + m
      BY <1>1, <1>2
    <3> HIDE DEF d
    <3>2. QED
      BY <3>1
  <2>2. Sums(c)[i - 1] - 0 = Sums(d)[i - 1] - 0
    BY <1>3, <1>6, <2>1
  <2>3. Sums(c)[Len(c)] - Sums(c)[i] = Sums(d)[Len(d)] - Sums(d)[i - 1]
    BY <1>4, <2>1
  <2>4. c[i].size \in Nat
    <3>1. \A e \in Entry : e.size \in Nat
      BY DEF Entry
    <3>2. QED
      BY <3>1
  <2> HIDE DEF a, b, m
  <2>6. Sums(c)[i - 1] = Sums(d)[i - 1]
    BY <1>6, <2>2
  <2>7. QED
    <3> DEFINE u == Sums(c)[i - 1]
               w == Sums(c)[i]
               x == Sums(c)[Len(c)]
               y == Sums(d)[Len(d)]
               s == c[i].size
    <3>2. /\ u \in Nat /\ w \in Nat /\ x \in Nat /\ y \in Nat /\ s \in Nat
          /\ w = u + s /\ x - w = y - u
      BY <1>5, <1>6, <2>3, <2>4, <2>6
    <3>1. x = y + s
      <4> HIDE DEF u, w, x, y, s
      <4>1. QED
        BY <3>2
    <3>3. QED
      BY <3>1 DEF Total
<1>8. ASSUME NEW j \in 1 .. Len(d) PROVE d[j] = c[IF j < i THEN j ELSE j + 1]
  <2>1. CASE j < i
    BY <1>1, <1>2, <2>1
  <2>2. CASE ~(j < i)
    <3>1. j - (i - 1) \in 1 .. m /\ (i - 1) + (j - (i - 1)) = j /\ i + (j - (i - 1)) = j + 1
      BY <1>1, <1>2, <2>2
    <3>2. QED
      BY <1>2, <2>2, <3>1
  <2>3. QED
    BY <2>1, <2>2
<1>9. Len(d) = Len(c) - 1
  BY <1>1, <1>2
<1>10. QED
  BY <1>2, <1>7, <1>8, <1>9 DEF d

\* Entries that are whole answers, no text twice.
Good(c) ==
    /\ c \in Seq(Entry)
    /\ \A i \in 1 .. Len(c) : c[i].wavs = Len(Chunks[c[i].text])
    /\ \A i, j \in 1 .. Len(c) : c[i].text = c[j].text => i = j
Account ==
    /\ Good(cache) /\ bytes = Total(cache) /\ bytes <= MaxBytes /\ Len(cache) <= MaxEntries

\* What is left of good entries when the oldest go is good.
LEMMA GoodSuffix ==
    ASSUME NEW c, Good(c), NEW n \in 0 .. Len(c)
    PROVE  Good(SubSeq(c, n + 1, Len(c))) /\ Len(SubSeq(c, n + 1, Len(c))) = Len(c) - n
<1> DEFINE d == SubSeq(c, n + 1, Len(c))
<1>1. /\ c \in Seq(Entry) /\ Len(c) \in Nat /\ n \in Nat /\ n <= Len(c)
      /\ d \in Seq(Entry) /\ Len(d) = Len(c) - n
      /\ \A i \in 1 .. Len(d) : d[i] = c[n + i] /\ n + i \in 1 .. Len(c)
  <2>1. c \in Seq(Entry)
    BY DEF Good
  <2>2. QED
    BY <2>1
<1> HIDE DEF d
<1>2. ASSUME NEW i \in 1 .. Len(d) PROVE d[i].wavs = Len(Chunks[d[i].text])
  <2>1. d[i] = c[n + i] /\ n + i \in 1 .. Len(c)
    BY <1>1
  <2>2. \A k \in 1 .. Len(c) : c[k].wavs = Len(Chunks[c[k].text])
    BY DEF Good
  <2>3. QED
    BY <2>1, <2>2, Zenon
<1>3. ASSUME NEW i \in 1 .. Len(d), NEW j \in 1 .. Len(d), d[i].text = d[j].text PROVE i = j
  <2>1. n + i = n + j
    <3>1. c[n + i].text = c[n + j].text
      BY <1>1, <1>3, Zenon
    <3>2. \A k, m \in 1 .. Len(c) : c[k].text = c[m].text => k = m
      BY DEF Good
    <3>3. QED
      BY <1>1, <3>1, <3>2, Zenon
  <2>2. QED
    BY <1>1, <2>1
<1>4. QED
  BY <1>1, <1>2, <1>3 DEF Good, d

\* What is left when one goes is good, and its text is not among it.
LEMMA GoodWithout ==
    ASSUME Good(cache), NEW i \in 1 .. Len(cache)
    PROVE  /\ Good(Without(i)) /\ Len(Without(i)) = Len(cache) - 1
           /\ Total(cache) = Total(Without(i)) + cache[i].size
           /\ \A j \in 1 .. Len(Without(i)) : Without(i)[j].text # cache[i].text
<1> DEFINE d == Without(i)
           at(j) == IF j < i THEN j ELSE j + 1
<1>1. /\ cache \in Seq(Entry) /\ Len(cache) \in Nat /\ i \in Nat
      /\ d \in Seq(Entry) /\ Len(d) = Len(cache) - 1 /\ Total(cache) = Total(d) + cache[i].size
      /\ \A j \in 1 .. Len(d) : d[j] = cache[at(j)]
  <2>1. cache \in Seq(Entry)
    BY DEF Good
  <2>2. d = SubSeq(cache, 1, i - 1) \o SubSeq(cache, i + 1, Len(cache))
    BY DEF Without
  <2> HIDE DEF d
  <2>3. /\ d \in Seq(Entry) /\ Len(d) = Len(cache) - 1 /\ Total(cache) = Total(d) + cache[i].size
        /\ \A j \in 1 .. Len(d) : d[j] = cache[at(j)]
    BY <2>1, <2>2, TotalWithout, Zenon
  <2>4. QED
    BY <2>1, <2>3
<1> HIDE DEF d
<1>2. \A j \in 1 .. Len(d) : at(j) \in 1 .. Len(cache) /\ at(j) # i
  BY <1>1
<1>3. \A j, k \in 1 .. Len(d) : at(j) = at(k) => j = k
  BY <1>1
<1> HIDE DEF at
<1>4. ASSUME NEW j \in 1 .. Len(d) PROVE d[j].wavs = Len(Chunks[d[j].text])
  <2>1. \A k \in 1 .. Len(cache) : cache[k].wavs = Len(Chunks[cache[k].text])
    BY DEF Good
  <2>2. d[j] = cache[at(j)] /\ at(j) \in 1 .. Len(cache)
    BY <1>1, <1>2, Zenon
  <2>3. QED
    BY <2>1, <2>2, Zenon
<1>5. ASSUME NEW j \in 1 .. Len(d), NEW k \in 1 .. Len(d), d[j].text = d[k].text PROVE j = k
  <2>1. at(j) = at(k)
    <3>1. cache[at(j)].text = cache[at(k)].text /\ at(j) \in 1 .. Len(cache) /\ at(k) \in 1 .. Len(cache)
      BY <1>1, <1>2, <1>5, Zenon
    <3>2. \A l, m \in 1 .. Len(cache) : cache[l].text = cache[m].text => l = m
      BY DEF Good
    <3>3. QED
      BY <3>1, <3>2, Zenon
  <2>2. QED
    BY <1>3, <2>1
<1>6. ASSUME NEW j \in 1 .. Len(d) PROVE d[j].text # cache[i].text
  BY <1>1, <1>2, Zenon DEF Good
<1>7. QED
  BY <1>1, <1>4, <1>5, <1>6 DEF Good, d

\* A whole answer to a text that is not among good entries makes good ones.
LEMMA GoodAppended ==
    ASSUME NEW c, Good(c), NEW e \in Entry, e.wavs = Len(Chunks[e.text]),
           \A j \in 1 .. Len(c) : c[j].text # e.text
    PROVE  Good(Append(c, e)) /\ Len(Append(c, e)) = Len(c) + 1
           /\ Total(Append(c, e)) = Total(c) + e.size
<1> DEFINE d == Append(c, e)
<1>1. c \in Seq(Entry)
  BY DEF Good
<1>2. /\ d \in Seq(Entry) /\ Len(d) = Len(c) + 1 /\ Len(c) \in Nat /\ d[Len(c) + 1] = e
      /\ \A j \in 1 .. Len(c) : d[j] = c[j]
  BY <1>1
<1>3. Total(d) = Total(c) + e.size
  BY <1>1, TotalAdded
<1> HIDE DEF d
<1>4. ASSUME NEW j \in 1 .. Len(d) PROVE d[j].wavs = Len(Chunks[d[j].text])
  <2>1. CASE j = Len(c) + 1
    BY <1>2, <2>1
  <2>2. CASE j # Len(c) + 1
    <3>1. j \in 1 .. Len(c)
      BY <1>2, <2>2
    <3>2. QED
      BY <1>2, <3>1 DEF Good
  <2>3. QED
    BY <2>1, <2>2
<1>5. ASSUME NEW j \in 1 .. Len(d), NEW k \in 1 .. Len(d), d[j].text = d[k].text PROVE j = k
  <2>1. (j \in 1 .. Len(c) \/ j = Len(c) + 1) /\ (k \in 1 .. Len(c) \/ k = Len(c) + 1)
    BY <1>2
  <2>2. CASE j \in 1 .. Len(c) /\ k \in 1 .. Len(c)
    BY <1>2, <1>5, <2>2, Zenon DEF Good
  <2>3. CASE j \in 1 .. Len(c) /\ k = Len(c) + 1
    BY <1>2, <1>5, <2>3, Zenon
  <2>4. CASE k \in 1 .. Len(c) /\ j = Len(c) + 1
    BY <1>2, <1>5, <2>4, Zenon
  <2>5. QED
    BY <2>1, <2>2, <2>3, <2>4
<1>6. QED
  BY <1>2, <1>3, <1>4, <1>5 DEF Good, d

\* The eviction ends within both budgets, and its account is right.
LEMMA Evicted ==
    ASSUME NEW c, Good(c), NEW b, b = Total(c), Evict(c, b)
    PROVE  Account'
<1> DEFINE left(n) == Minus(b, Sums(c)[n])
           kept(n) == Len(c) - n <= MaxEntries /\ left(n) <= MaxBytes
           G == {n \in 0 .. Len(c) : n = Len(c) \/ kept(n)}
           gone == Min(G)
<1>1. c \in Seq(Entry) /\ Len(c) \in Nat
  BY DEF Good
<1>2. gone \in G
  <2>1. G \in SUBSET Nat /\ Len(c) \in G
    BY <1>1
  <2>2. \E n \in G : \A m \in G : n <= m
    <3> HIDE DEF G
    <3>1. QED
      BY <2>1, Least
  <2> HIDE DEF G
  <2>3. QED
    BY <2>2 DEF Min
<1>3. cache' = SubSeq(c, gone + 1, Len(c)) /\ bytes' = left(gone)
  BY DEF Evict
<1>4. gone \in 0 .. Len(c) /\ (gone = Len(c) \/ kept(gone))
  BY <1>2
<1> HIDE DEF gone, G
<1>5. Good(cache') /\ Len(cache') = Len(c) - gone
  BY <1>3, <1>4, GoodSuffix
<1>6. /\ Sums(c)[gone] \in Nat /\ Total(cache') \in Nat
      /\ b = Sums(c)[gone] + Total(cache')
  BY <1>1, <1>3, <1>4, TotalDropped, TotalFacts
<1>7. bytes' = Total(cache')
  BY <1>3, <1>6 DEF Minus
<1>8. bytes' <= MaxBytes /\ Len(cache') <= MaxEntries
  <2>1. CASE kept(gone)
    BY <1>3, <1>5, <2>1
  <2>2. CASE gone = Len(c)
    <3>1. Len(cache') = 0
      BY <1>1, <1>5, <2>2
    <3>2. cache' = <<>>
      BY <1>5, <3>1 DEF Good
    <3>3. Total(cache') = 0
      BY <1>5, <3>2, TotalFacts DEF Good
    <3>4. QED
      BY <1>7, <3>1, <3>3, SpeechAssumption DEF SpeechAssumption
  <2>3. QED
    BY <1>4, <2>1, <2>2
<1>9. QED
  BY <1>5, <1>7, <1>8 DEF Account

\* Storing a whole answer keeps the account.
LEMMA StoredKeeps ==
    ASSUME Account, NEW t \in Texts, NEW size \in Sizes[t], CachePut(t, Len(Chunks[t]), size),
           Len(Chunks[t]) \in Nat
    PROVE  Account'
<1> DEFINE e == [text |-> t, wavs |-> Len(Chunks[t]), size |-> size]
<1>1. Good(cache) /\ cache \in Seq(Entry) /\ bytes = Total(cache) /\ DOMAIN cache = 1 .. Len(cache)
  BY DEF Account, Good
<1>2. e \in Entry /\ e.wavs = Len(Chunks[e.text]) /\ e.text = t /\ e.size = size /\ size \in Nat
  BY SpeechAssumption DEF SpeechAssumption, Entry
<1> HIDE DEF e
<1>3. CASE UNCHANGED <<cache, bytes>>
  <2>1. cache' = cache /\ bytes' = bytes
    BY <1>3
  <2>2. Good(cache') /\ Total(cache') = bytes /\ Len(cache') <= MaxEntries /\ bytes' <= MaxBytes
    BY <1>1, <2>1 DEF Account
  <2>3. QED
    BY <2>1, <2>2 DEF Account
<1>4. CASE Entries(t) = {} /\ Evict(Append(cache, e), bytes + size)
  <2>1. \A j \in 1 .. Len(cache) : cache[j].text # e.text
    BY <1>1, <1>2, <1>4 DEF Entries
  <2>2. Good(Append(cache, e)) /\ Total(Append(cache, e)) = bytes + size
    BY <1>1, <1>2, <2>1, GoodAppended
  <2>3. QED
    BY <1>4, <2>2, Evicted
<1>5. ASSUME NEW i \in Entries(t), Evict(Append(Without(i), e), Minus(bytes, cache[i].size) + size)
      PROVE  Account'
  <2>1. i \in 1 .. Len(cache) /\ cache[i].text = t
    BY <1>1 DEF Entries
  <2>2. /\ Good(Without(i)) /\ Total(cache) = Total(Without(i)) + cache[i].size
        /\ \A j \in 1 .. Len(Without(i)) : Without(i)[j].text # e.text
    BY <1>1, <1>2, <2>1, GoodWithout
  <2>3. Good(Append(Without(i), e)) /\ Total(Append(Without(i), e)) = Total(Without(i)) + size
    BY <1>2, <2>2, GoodAppended
  <2>4. Total(Without(i)) \in Nat /\ cache[i].size \in Nat
    <3>1. \A x \in Entry : x.size \in Nat
      BY DEF Entry
    <3>2. QED
      BY <1>1, <2>1, <2>2, <3>1, TotalFacts DEF Good
  <2>5. Minus(bytes, cache[i].size) + size = Total(Without(i)) + size
    BY <1>1, <2>2, <2>4 DEF Minus
  <2>6. QED
    BY <1>5, <2>3, <2>5, Evicted
<1>6. QED
  BY <1>3, <1>4, <1>5 DEF CachePut, e

\* So does moving an entry to the end.
LEMMA LookedUpKeeps ==
    ASSUME Account, NEW i \in 1 .. Len(cache), cache' = Append(Without(i), cache[i]), bytes' = bytes
    PROVE  Account'
<1>1. Good(cache) /\ cache \in Seq(Entry) /\ bytes = Total(cache) /\ cache[i] \in Entry
  BY DEF Account, Good
<1>2. /\ Good(Without(i)) /\ Total(cache) = Total(Without(i)) + cache[i].size
      /\ \A j \in 1 .. Len(Without(i)) : Without(i)[j].text # cache[i].text
      /\ Len(Without(i)) = Len(cache) - 1
  BY <1>1, GoodWithout
<1>3. cache[i].wavs = Len(Chunks[cache[i].text])
  BY <1>1 DEF Good
<1>4. /\ Good(cache') /\ Len(cache') = Len(cache) - 1 + 1
      /\ Total(cache') = Total(Without(i)) + cache[i].size
  BY <1>1, <1>2, <1>3, GoodAppended
<1>5. Len(cache') = Len(cache)
  BY <1>1, <1>4
<1>6. QED
  BY <1>1, <1>2, <1>4, <1>5 DEF Account

-----------------------------------------------------------------------------
(* What a request has played                                               *)

\* A request that ended well has handed over every chunk of its text.
Played ==
    /\ step \in [Requests -> Steps] /\ sent \in [Requests -> Nat]
    /\ \A r \in Requests : step[r] = "over" => sent[r] = Len(Chunks[Text(r)])

LEMMA TextFacts ==
    ASSUME NEW r \in Requests
    PROVE  /\ Text(r) \in Texts /\ IsText(Content[Text(r)])
           /\ Chunks[Text(r)] = split_sentences(Content[Text(r)])
           /\ Chunks[Text(r)] \in Seq(Piece) /\ Len(Chunks[Text(r)]) \in Nat
<1>1. Text(r) \in Texts
  BY DEF Text, Texts
<1>2. IsText(Content[Text(r)])
  BY <1>1, SpeechAssumption DEF SpeechAssumption
<1>3. Chunks[Text(r)] = split_sentences(Content[Text(r)])
  BY <1>1 DEF Chunks
<1>4. Chunks[Text(r)] \in Seq(Piece)
  BY <1>2, <1>3, SplitSaysWhole
<1>5. QED
  BY <1>1, <1>2, <1>3, <1>4

\* A request goes on to a place where it need not have played everything.
LEMMA MovesOn ==
    ASSUME Played, NEW r \in Requests, NEW s \in Steps \ {"over"}, To(r, s),
           sent' \in [Requests -> Nat], \A q \in Requests \ {r} : sent'[q] = sent[q]
    PROVE  Played'
<1>1. step' = [step EXCEPT ![r] = s] /\ step' \in [Requests -> Steps]
  BY DEF To, Played
<1>2. ASSUME NEW q \in Requests, step'[q] = "over" PROVE sent'[q] = Len(Chunks[Text(q)])
  <2>1. q # r /\ step[q] = "over"
    BY <1>1, <1>2 DEF Played
  <2>2. QED
    BY <2>1 DEF Played
<1>3. QED
  BY <1>1, <1>2 DEF Played, Text

\* Or it has played everything.
LEMMA MovesOver ==
    ASSUME Played, NEW r \in Requests, To(r, "over"),
           sent' = [sent EXCEPT ![r] = Len(Chunks[Text(r)])]
    PROVE  Played'
<1>1. Len(Chunks[Text(r)]) \in Nat
  BY TextFacts
<1>2. step' = [step EXCEPT ![r] = "over"] /\ step' \in [Requests -> Steps]
  BY DEF To, Played, Steps
<1>3. sent' \in [Requests -> Nat]
  BY <1>1 DEF Played
<1>4. ASSUME NEW q \in Requests, step'[q] = "over" PROVE sent'[q] = Len(Chunks[Text(q)])
  <2>1. CASE q = r
    BY <2>1 DEF Played
  <2>2. CASE q # r
    BY <1>2, <1>4, <2>2 DEF Played
  <2>3. QED
    BY <2>1, <2>2
<1>5. QED
  BY <1>2, <1>3, <1>4 DEF Played, Text

LEMMA AccountInit == InitSpeech => Account /\ Played
<1> SUFFICES ASSUME InitSpeech PROVE Account /\ Played
  OBVIOUS
<1>1. cache = <<>> /\ bytes = 0 /\ Len(cache) = 0 /\ cache \in Seq(Entry)
  BY DEF InitSpeech
<1>2. Total(cache) = 0
  BY <1>1, TotalFacts
<1>3. Account
  BY <1>1, <1>2, SpeechAssumption DEF Account, Good, SpeechAssumption
<1>4. Played
  BY DEF InitSpeech, Played, Steps
<1>5. QED
  BY <1>3, <1>4

LEMMA AccountStep == Account /\ Played /\ [NextSpeech]_speechVars => Account' /\ Played'
<1> SUFFICES ASSUME Account, Played, [NextSpeech]_speechVars PROVE Account' /\ Played'
  OBVIOUS
<1>1. ASSUME UNCHANGED <<cache, bytes>> PROVE Account'
  <2>1. Good(cache') /\ Total(cache') = bytes' /\ Len(cache') <= MaxEntries /\ bytes' <= MaxBytes
    BY <1>1 DEF Account
  <2>2. QED
    BY <2>1 DEF Account
<1>2. ASSUME UNCHANGED <<step, sent>> PROVE Played'
  BY <1>2 DEF Played, Text
<1>3. ASSUME NEW r \in Requests, UNCHANGED sent, NEW s \in Steps \ {"over"}, To(r, s) PROVE Played'
  BY <1>3, MovesOn DEF Played
<1>4. ASSUME NEW r \in Requests, Route(r) PROVE Account' /\ Played'
  <2>1. \E s \in {"refused", "unavailable", "queued"} : To(r, s)
    BY <1>4 DEF Route
  <2>2. UNCHANGED <<cache, bytes>> /\ UNCHANGED sent
    BY <1>4 DEF Route
  <2>3. QED
    BY <1>1, <1>3, <2>1, <2>2 DEF Steps
<1>5. ASSUME NEW r \in Requests, Lookup(r) PROVE Account' /\ Played'
  <2>1. CASE To(r, "missed") /\ UNCHANGED <<sent, cache>>
    BY <1>1, <1>3, <1>5, <2>1 DEF Steps, Lookup
  <2>2. ASSUME NEW i \in Entries(Text(r)), cache' = Append(Without(i), cache[i]),
               sent' = [sent EXCEPT ![r] = cache[i].wavs], To(r, "over")
        PROVE  Account' /\ Played'
    <3>1. bytes' = bytes
      BY <1>5 DEF Lookup
    <3>2. i \in 1 .. Len(cache) /\ cache[i].text = Text(r)
      BY DEF Entries, Account, Good
    <3>3. cache[i].wavs = Len(Chunks[Text(r)])
      BY <3>2 DEF Account, Good
    <3>4. QED
      BY <2>2, <3>1, <3>2, <3>3, LookedUpKeeps, MovesOver
  <2>3. QED
    BY <1>5, <2>1, <2>2 DEF Lookup
<1>6. ASSUME NEW r \in Requests, Voiced(r) PROVE Account' /\ Played'
  BY <1>1, <1>3, <1>6 DEF Voiced, Steps
<1>7. ASSUME NEW r \in Requests, Chunk(r) PROVE Account' /\ Played'
  <2>1. step' = step /\ step[r] = "speaking" /\ sent' = [sent EXCEPT ![r] = @ + 1]
    BY <1>7 DEF Chunk
  <2>2. To(r, "speaking")
    BY <2>1 DEF To, Played
  <2>3. sent' \in [Requests -> Nat] /\ \A q \in Requests \ {r} : sent'[q] = sent[q]
    BY <2>1 DEF Played
  <2>4. Played'
    BY <2>2, <2>3, MovesOn DEF Steps
  <2>5. QED
    BY <1>1, <1>7, <2>4 DEF Chunk
<1>8. ASSUME NEW r \in Requests, ChunkFails(r) PROVE Account' /\ Played'
  BY <1>1, <1>3, <1>8 DEF ChunkFails, Steps
<1>9. ASSUME NEW r \in Requests, Spoken(r) PROVE Account' /\ Played'
  <2>1. Text(r) \in Texts /\ Len(Chunks[Text(r)]) \in Nat
    BY TextFacts
  <2>2. sent[r] = Len(Chunks[Text(r)]) /\ UNCHANGED sent /\ To(r, "over")
    BY <1>9 DEF Spoken
  <2>3. PICK size \in Sizes[Text(r)] : CachePut(Text(r), Len(Chunks[Text(r)]), size)
    BY <1>9, <2>2 DEF Spoken
  <2>4. Account'
    BY <2>1, <2>3, StoredKeeps
  <2>5. sent' = [sent EXCEPT ![r] = Len(Chunks[Text(r)])]
    BY <2>2 DEF Played
  <2>6. QED
    BY <2>2, <2>4, <2>5, MovesOver
<1>10. ASSUME NEW r \in Requests, SpeakWhole(r) PROVE Account' /\ Played'
  <2>1. Account'
    BY <1>1, <1>10 DEF SpeakWhole
  <2>2. CASE To(r, "over") /\ sent' = [sent EXCEPT ![r] = Len(Chunks[Text(r)])]
    BY <2>1, <2>2, MovesOver
  <2>3. CASE UNCHANGED sent /\ (To(r, "failed") \/ To(r, "unavailable"))
    BY <1>3, <2>1, <2>3 DEF Steps
  <2>4. QED
    BY <1>10, <2>2, <2>3 DEF SpeakWhole
<1>11. CASE MoveFile
  BY <1>1, <1>2, <1>11 DEF MoveFile
<1>12. CASE TimePasses
  BY <1>1, <1>2, <1>12 DEF TimePasses, tts
<1>13. CASE UNCHANGED speechVars
  BY <1>1, <1>2, <1>13 DEF speechVars, tts
<1>14. QED
  BY <1>4, <1>5, <1>6, <1>7, <1>8, <1>9, <1>10, <1>11, <1>12, <1>13 DEF NextSpeech

LEMMA AccountHolds == SpeechSpec => [](Account /\ Played)
<1>1. InitSpeech => Account /\ Played
  BY AccountInit
<1>2. Account /\ Played /\ [NextSpeech]_speechVars => (Account /\ Played)'
  BY AccountStep
<1>3. QED
  BY <1>1, <1>2, PTL DEF SpeechSpec

\* For all requests, texts, sizes and budgets: the byte account is what the entries hold,
\* no text is held twice, and both budgets are kept, whatever the order in which answers
\* are stored, replaced, replayed and evicted (_cache_put, _cache_get, _cache_evict_locked).
THEOREM AccountExactHolds == SpeechSpec => []AccountExact
<1>1. Account => AccountExact
  <2> SUFFICES ASSUME Account PROVE AccountExact
    OBVIOUS
  <2>1. ASSUME NEW t \in Texts PROVE Cardinality(Entries(t)) <= 1
    <3>1. \A i, j \in Entries(t) : i = j
      BY DEF Entries, Account, Good
    <3>2. CASE Entries(t) = {}
      BY <3>2, FS_EmptySet
    <3>3. CASE Entries(t) # {}
      <4>1. PICK i \in Entries(t) : TRUE
        BY <3>3
      <4>2. Entries(t) = {i}
        BY <3>1, <4>1
      <4>3. Cardinality({i}) = 1
        BY FS_Singleton
      <4>4. QED
        BY <4>2, <4>3
    <3>4. QED
      BY <3>2, <3>3
  <2>2. QED
    BY <2>1 DEF AccountExact, Account, Total
<1>2. QED
  BY <1>1, AccountHolds, PTL

\* For all requests and texts: a request that ends well has had chunks that say its whole
\* text, synthesized for it or replayed (speak_stream, synthesize_sentences).
THEOREM PlaysWholeHolds == SpeechSpec => []PlaysWhole
<1>1. Played => PlaysWhole
  <2> SUFFICES ASSUME Played, NEW r \in Requests, step[r] = "over"
               PROVE  Says(SubSeq(Chunks[Text(r)], 1, sent[r]), Content[Text(r)])
    BY DEF PlaysWhole
  <2> DEFINE c == Chunks[Text(r)]
  <2>1. IsText(Content[Text(r)]) /\ c = split_sentences(Content[Text(r)]) /\ c \in Seq(Piece)
    BY TextFacts
  <2>2. sent[r] = Len(c)
    BY DEF Played
  <2>3. Says(c, Content[Text(r)])
    BY <2>1, SplitSaysWhole
  <2> HIDE DEF c
  <2>4. SubSeq(c, 1, Len(c)) = c
    BY <2>1
  <2>5. QED
    BY <2>2, <2>3, <2>4 DEF c
<1>2. QED
  BY <1>1, AccountHolds, PTL

-----------------------------------------------------------------------------
(* The limiter                                                             *)

Keys == {Of[r].ip : r \in Requests} \cup {Of[r].user : r \in Requests}
Hit == [key : Keys, at : Nat]
Allowed(k) == IF k \in {Of[r].ip : r \in Requests} THEN RateLimit ELSE identity_limit(RateLimit)
KeysOf(log) == {log[i].key : i \in 1 .. Len(log)}

\* Every key of the table was let through when it was put there, and its times fill no
\* more than its limit.
Held(table, log) ==
    \A k \in DOMAIN table :
        /\ table[k] \in [times : Seq(Nat), since : 1 .. Len(log)]
        /\ table[k].times # <<>> /\ Len(table[k].times) <= Allowed(k)
        /\ log[table[k].since].key = k

\* The hits of a key that are in the window at some time, and a place in the times for each.
LiveIn(log, k, t) == {i \in 1 .. Len(log) : log[i].key = k /\ log[i].at + Window >= t}
Lists(f, times, log, S) ==
    /\ f \in [S -> 1 .. Len(times)]
    /\ \A i, j \in S : f[i] = f[j] => i = j
    /\ \A i \in S : times[f[i]] = log[i].at
Recorded(table, log, t) ==
    \A k \in KeysOf(log) :
        k \in DOMAIN table /\ \E f : Lists(f, table[k].times, log, LiveIn(log, k, t))

\* As long as no more keys than the cap were let through, none is dropped.
Rated(table, log, t) ==
    /\ log \in Seq(Hit) /\ t \in Nat
    /\ Held(table, log) /\ Cardinality(DOMAIN table) <= MaxKeys
    /\ Cardinality(KeysOf(log)) <= MaxKeys => Recorded(table, log, t)

LEMMA KeysFinite ==
    ASSUME NEW log \in Seq(Hit)
    PROVE  IsFiniteSet(KeysOf(log))
<1> DEFINE f == [i \in 1 .. Len(log) |-> log[i].key]
<1>1. IsFiniteSet(1 .. Len(log))
  BY FS_Interval
<1>2. f \in Surjection(1 .. Len(log), KeysOf(log))
  BY DEF Surjection, KeysOf
<1>3. QED
  BY <1>1, <1>2, FS_Surjection

\* Only keys that were let through are held.
LEMMA HeldSeen ==
    ASSUME NEW log \in Seq(Hit), NEW table, Held(table, log)
    PROVE  DOMAIN table \subseteq KeysOf(log) /\ IsFiniteSet(DOMAIN table)
<1>1. DOMAIN table \subseteq KeysOf(log)
  BY DEF Held, KeysOf
<1>2. QED
  BY <1>1, KeysFinite, FS_Subset

\* What is left of some times are their last ones, and all that are in the window.
LEMMA LiveFacts ==
    ASSUME NEW times \in Seq(Nat), now \in Nat
    PROVE  \E old \in 0 .. Len(times) :
              /\ Live(times) \in Seq(Nat) /\ Len(Live(times)) = Len(times) - old
              /\ \A i \in 1 .. Len(times) - old : Live(times)[i] = times[old + i]
              /\ \A i \in 1 .. Len(times) : times[i] + Window >= now => i > old
<1> DEFINE G == {n \in 0 .. Len(times) : n = Len(times) \/ InWindow(times[n + 1])}
           old == Min(G)
<1>1. old \in G /\ \A n \in G : old <= n
  <2>1. G \in SUBSET Nat /\ Len(times) \in G
    OBVIOUS
  <2>2. \E n \in G : \A m \in G : n <= m
    <3> HIDE DEF G
    <3>1. QED
      BY <2>1, Least
  <2> HIDE DEF G
  <2>3. QED
    BY <2>2 DEF Min
<1>2. Live(times) = SubSeq(times, old + 1, Len(times))
  BY DEF Live
<1>3. old \in 0 .. Len(times)
  BY <1>1
<1>4. ASSUME NEW i \in 1 .. Len(times), times[i] + Window >= now PROVE i > old
  <2>1. i - 1 \in 0 .. Len(times) /\ (i - 1) + 1 = i
    OBVIOUS
  <2>2. i - 1 \in G
    BY <1>4, <2>1 DEF InWindow
  <2>3. old <= i - 1
    BY <1>1, <2>2
  <2> HIDE DEF old
  <2>4. QED
    BY <1>3, <2>3
<1> HIDE DEF old
<1>5. /\ SubSeq(times, old + 1, Len(times)) \in Seq(Nat)
      /\ Len(SubSeq(times, old + 1, Len(times))) = Len(times) - old
      /\ \A i \in 1 .. Len(times) - old : SubSeq(times, old + 1, Len(times))[i] = times[old + i]
  <2>1. old \in Nat /\ old <= Len(times) /\ Len(times) \in Nat
    BY <1>3
  <2>2. old + 1 \in 1 .. Len(times) + 1 /\ Len(times) \in old .. Len(times)
    BY <2>1
  <2>3. SubSeq(times, old + 1, Len(times)) \in Seq(Nat)
    BY <2>1, <2>2
  <2>4. Len(SubSeq(times, old + 1, Len(times))) = Len(times) - old
    BY <2>1, <2>2
  <2>5. ASSUME NEW i \in 1 .. Len(times) - old
        PROVE  SubSeq(times, old + 1, Len(times))[i] = times[old + i]
    BY <2>1, <2>2
  <2>6. QED
    BY <2>3, <2>4, <2>5
<1>6. QED
  BY <1>2, <1>3, <1>4, <1>5

\* A key's times with their old ones gone still list its hits of the window.
LEMMA SlidLists ==
    ASSUME NEW times \in Seq(Nat), now \in Nat, NEW log \in Seq(Hit), NEW k,
           NEW f, Lists(f, times, log, LiveIn(log, k, now))
    PROVE  \E g : Lists(g, Live(times), log, LiveIn(log, k, now))
<1> DEFINE S == LiveIn(log, k, now)
           L == Live(times)
<1>1. PICK old \in 0 .. Len(times) :
              /\ L \in Seq(Nat) /\ Len(L) = Len(times) - old
              /\ \A i \in 1 .. Len(times) - old : L[i] = times[old + i]
              /\ \A i \in 1 .. Len(times) : times[i] + Window >= now => i > old
  BY LiveFacts
<1>2. \A i \in S : log[i].at + Window >= now
  BY DEF LiveIn
<1> HIDE DEF S, L
<1>3. /\ f \in [S -> 1 .. Len(times)]
      /\ \A i, j \in S : f[i] = f[j] => i = j
      /\ \A i \in S : times[f[i]] = log[i].at
  BY DEF Lists, S
<1>4. ASSUME NEW i \in S
      PROVE  f[i] - old \in 1 .. Len(times) - old /\ old + (f[i] - old) = f[i]
  <2>1. f[i] \in 1 .. Len(times) /\ times[f[i]] + Window >= now
    BY <1>2, <1>3
  <2>2. f[i] > old
    BY <1>1, <2>1
  <2>3. QED
    BY <2>1, <2>2
<1> DEFINE g == [i \in S |-> f[i] - old]
<1>5. g \in [S -> 1 .. Len(L)]
  BY <1>1, <1>4
<1>6. ASSUME NEW i \in S, NEW j \in S, g[i] = g[j] PROVE i = j
  <2>1. f[i] \in Nat /\ f[j] \in Nat /\ f[i] - old = f[j] - old
    BY <1>3, <1>6
  <2>2. f[i] = f[j]
    BY <2>1
  <2>3. QED
    BY <1>3, <2>2
<1>7. ASSUME NEW i \in S PROVE L[g[i]] = log[i].at
  BY <1>1, <1>3, <1>4
<1>8. Lists(g, L, log, S)
  BY <1>5, <1>6, <1>7 DEF Lists
<1>9. QED
  BY <1>8 DEF S, L

\* One more hit of a key, and its time behind the others.
LEMMA HitLists ==
    ASSUME NEW times \in Seq(Nat), now \in Nat, NEW log \in Seq(Hit), NEW k \in Keys,
           NEW f, Lists(f, times, log, LiveIn(log, k, now)), NEW more,
           more = Append(log, [key |-> k, at |-> now])
    PROVE  \E g : Lists(g, Append(times, now), more, LiveIn(more, k, now))
<1> DEFINE S == LiveIn(log, k, now)
           T == LiveIn(more, k, now)
           L == Append(times, now)
           n == Len(log) + 1
           m == Len(times) + 1
<1>1. /\ Len(more) = n /\ Len(log) \in Nat /\ more[n].key = k /\ more[n].at = now
      /\ \A i \in 1 .. Len(log) : more[i] = log[i]
  OBVIOUS
<1>2. L \in Seq(Nat) /\ Len(L) = m /\ Len(times) \in Nat /\ L[m] = now
      /\ \A i \in 1 .. Len(times) : L[i] = times[i]
  OBVIOUS
<1>3. /\ f \in [S -> 1 .. Len(times)]
      /\ \A i, j \in S : f[i] = f[j] => i = j
      /\ \A i \in S : times[f[i]] = log[i].at
  BY DEF Lists
<1>4. S \subseteq 1 .. Len(log) /\ T \subseteq S \cup {n}
  BY <1>1 DEF LiveIn
<1>5. \A i \in S : f[i] \in 1 .. Len(times) /\ f[i] # m
  BY <1>2, <1>3
<1> HIDE DEF S, T, L
<1> DEFINE g == [i \in T |-> IF i = n THEN m ELSE f[i]]
<1>6. g \in [T -> 1 .. Len(L)]
  BY <1>2, <1>4, <1>5
<1>7. \A i \in T : IF i = n THEN g[i] = m ELSE i \in S /\ g[i] = f[i]
  BY <1>4
<1> HIDE DEF g, n, m
<1>8. ASSUME NEW i \in T, NEW j \in T, g[i] = g[j] PROVE i = j
  BY <1>3, <1>5, <1>7, <1>8
<1>9. ASSUME NEW i \in T PROVE L[g[i]] = more[i].at
  <2>1. CASE i = n
    BY <1>1, <1>2, <1>7, <2>1
  <2>2. CASE i # n
    <3>1. i \in S /\ g[i] = f[i] /\ i \in 1 .. Len(log)
      BY <1>4, <1>7, <2>2
    <3>2. L[f[i]] = times[f[i]] /\ times[f[i]] = log[i].at
      BY <1>2, <1>3, <1>5, <3>1
    <3>3. more[i] = log[i]
      BY <1>1, <3>1
    <3>4. QED
      BY <3>1, <3>2, <3>3
  <2>3. QED
    BY <2>1, <2>2
<1>10. Lists(g, L, more, T)
  BY <1>6, <1>8, <1>9 DEF Lists
<1>11. QED
  BY <1>10 DEF T, L

LEMMA AllowedFacts ==
    /\ \A k : Allowed(k) \in Nat \ {0}
    /\ \A r \in Requests : /\ Allowed(Of[r].ip) = RateLimit
                           /\ Allowed(Of[r].user) = identity_limit(RateLimit)
<1>1. RateLimit \in Nat \ {0} /\ MinIdentityLimit \in Nat \ {0}
  BY SpeechAssumption, LimiterAssumption DEF SpeechAssumption, LimiterAssumption
<1>2. identity_limit(RateLimit) \in Nat \ {0}
  BY <1>1 DEF identity_limit
<1>3. \A r \in Requests : Of[r].user \notin {Of[q].ip : q \in Requests}
  BY SpeechAssumption DEF SpeechAssumption
<1>4. QED
  BY <1>1, <1>2, <1>3 DEF Allowed

\* The log after a hit that was let through, or was refused.
Goes(log, more, table, k) ==
    \/ more = log /\ k \in DOMAIN table
    \/ more = Append(log, [key |-> k, at |-> now])

Longer(log, more, k) ==
    /\ Len(log) \in Nat /\ Len(more) \in Nat /\ Len(log) <= Len(more)
    /\ \A i \in 1 .. Len(log) : more[i] = log[i]
    /\ \A i \in 1 .. Len(more) : i \in 1 .. Len(log) \/ more[i].key = k

LEMMA GoesFacts ==
    ASSUME NEW log \in Seq(Hit), NEW table, NEW k \in Keys, now \in Nat,
           NEW more, Goes(log, more, table, k)
    PROVE  /\ more \in Seq(Hit) /\ Longer(log, more, k)
           /\ KeysOf(log) \subseteq KeysOf(more) /\ KeysOf(more) \subseteq KeysOf(log) \cup {k}
           /\ k \in DOMAIN table \/ (Len(log) + 1 \in 1 .. Len(more) /\ more[Len(log) + 1].key = k)
           /\ Cardinality(KeysOf(log)) <= Cardinality(KeysOf(more))
<1>1. [key |-> k, at |-> now] \in Hit
  BY DEF Hit
<1>2. CASE more = log /\ k \in DOMAIN table
  <2>1. Cardinality(KeysOf(log)) \in Nat
    BY KeysFinite, FS_CardinalityType
  <2>2. Longer(log, more, k)
    BY <1>2 DEF Longer
  <2>3. QED
    BY <1>2, <2>1, <2>2
<1>3. CASE more = Append(log, [key |-> k, at |-> now])
  <2>1. /\ more \in Seq(Hit) /\ Len(more) = Len(log) + 1 /\ Len(log) \in Nat
        /\ \A i \in 1 .. Len(log) : more[i] = log[i]
        /\ more[Len(log) + 1].key = k
    BY <1>1, <1>3
  <2>2. \A i \in 1 .. Len(more) : i \in 1 .. Len(log) \/ more[i].key = k
    BY <2>1
  <2>3. KeysOf(log) \subseteq KeysOf(more)
    <3>1. \A i \in 1 .. Len(log) : i \in 1 .. Len(more) /\ more[i].key = log[i].key
      BY <2>1
    <3>2. QED
      BY <3>1 DEF KeysOf
  <2>4. KeysOf(more) \subseteq KeysOf(log) \cup {k}
    <3>1. \A i \in 1 .. Len(more) : more[i].key = k \/ (i \in 1 .. Len(log) /\ more[i].key = log[i].key)
      BY <2>1, <2>2
    <3>2. QED
      BY <3>1 DEF KeysOf
  <2>5. Cardinality(KeysOf(log)) <= Cardinality(KeysOf(more))
    BY <2>1, <2>3, KeysFinite, FS_Subset
  <2>6. Len(log) <= Len(more) /\ Len(log) + 1 \in 1 .. Len(more)
    BY <2>1
  <2>7. Longer(log, more, k)
    BY <2>1, <2>2, <2>6 DEF Longer
  <2>8. QED
    BY <2>1, <2>3, <2>4, <2>5, <2>6, <2>7
<1>4. QED
  BY <1>2, <1>3 DEF Goes

\* A key's times are stored.
LEMMA StoredHeld ==
    ASSUME NEW log \in Seq(Hit), NEW table, Held(table, log), NEW k \in Keys, now \in Nat,
           NEW b \in Seq(Nat), b # <<>>, Len(b) <= Allowed(k),
           NEW more, Goes(log, more, table, k)
    PROVE  Held(Store(table, k, b, Len(log) + 1), more)
<1> DEFINE s == Store(table, k, b, Len(log) + 1)
<1>1. /\ DOMAIN s = DOMAIN table \cup {k} /\ s[k].times = b
      /\ s[k] = [times |-> b,
                 since |-> IF k \in DOMAIN table THEN table[k].since ELSE Len(log) + 1]
      /\ \A j \in DOMAIN table \ {k} : s[j] = table[j]
  BY DEF Store
<1>2. /\ Len(log) \in Nat /\ Len(more) \in Nat /\ Len(log) <= Len(more)
      /\ \A i \in 1 .. Len(log) : more[i] = log[i]
      /\ k \in DOMAIN table \/ (Len(log) + 1 \in 1 .. Len(more) /\ more[Len(log) + 1].key = k)
  BY GoesFacts DEF Longer
<1> HIDE DEF s
<1>3. ASSUME NEW j \in DOMAIN table
      PROVE  table[j].since \in 1 .. Len(more) /\ more[table[j].since].key = j
  <2>0. table[j] \in [times : Seq(Nat), since : 1 .. Len(log)]
    BY DEF Held
  <2>1. table[j].since \in 1 .. Len(log) /\ log[table[j].since].key = j
    BY <2>0 DEF Held
  <2>2. more[table[j].since] = log[table[j].since] /\ table[j].since \in 1 .. Len(more)
    BY <1>2, <2>1
  <2>3. QED
    BY <2>1, <2>2
<1>4. ASSUME NEW j \in DOMAIN s
      PROVE  /\ s[j] \in [times : Seq(Nat), since : 1 .. Len(more)]
             /\ s[j].times # <<>> /\ Len(s[j].times) <= Allowed(j)
             /\ more[s[j].since].key = j
  <2>1. CASE j = k
    <3>1. s[k].since \in 1 .. Len(more) /\ more[s[k].since].key = k
      BY <1>1, <1>2, <1>3
    <3>2. s[k] \in [times : Seq(Nat), since : 1 .. Len(more)]
      BY <1>1, <3>1
    <3>3. QED
      BY <1>1, <2>1, <3>1, <3>2
  <2>2. CASE j # k
    <3>1. j \in DOMAIN table /\ s[j] = table[j]
      BY <1>1, <2>2
    <3>2. /\ table[j] \in [times : Seq(Nat), since : 1 .. Len(log)]
          /\ table[j].times # <<>> /\ Len(table[j].times) <= Allowed(j)
      BY <3>1, Zenon DEF Held
    <3>3. table[j] \in [times : Seq(Nat), since : 1 .. Len(more)]
      BY <1>3, <3>1, <3>2
    <3>4. QED
      BY <1>3, <3>1, <3>2, <3>3
  <2>3. QED
    BY <2>1, <2>2
<1>5. QED
  BY <1>4 DEF Held, s

LEMMA StoredRecorded ==
    ASSUME NEW log \in Seq(Hit), NEW table, Recorded(table, log, now), NEW k \in Keys, now \in Nat,
           NEW b \in Seq(Nat), NEW more, Goes(log, more, table, k),
           NEW g, Lists(g, b, more, LiveIn(more, k, now))
    PROVE  Recorded(Store(table, k, b, Len(log) + 1), more, now)
<1> DEFINE s == Store(table, k, b, Len(log) + 1)
<1>1. /\ DOMAIN s = DOMAIN table \cup {k} /\ s[k].times = b
      /\ \A j \in DOMAIN table \ {k} : s[j] = table[j]
  BY DEF Store
<1>2. /\ Len(log) \in Nat /\ Len(more) \in Nat /\ Len(log) <= Len(more)
      /\ \A i \in 1 .. Len(log) : more[i] = log[i]
      /\ \A i \in 1 .. Len(more) : i \in 1 .. Len(log) \/ more[i].key = k
      /\ KeysOf(more) \subseteq KeysOf(log) \cup {k}
  <2>1. Longer(log, more, k) /\ KeysOf(more) \subseteq KeysOf(log) \cup {k}
    BY GoesFacts, Zenon
  <2>2. QED
    BY <2>1 DEF Longer
<1> HIDE DEF s
<1>3. ASSUME NEW j \in KeysOf(more)
      PROVE  j \in DOMAIN s /\ \E f : Lists(f, s[j].times, more, LiveIn(more, j, now))
  <2>1. CASE j = k
    BY <1>1, <2>1
  <2>2. CASE j # k
    <3>1. j \in KeysOf(log)
      BY <1>2, <2>2
    <3>2. j \in DOMAIN table
      BY <3>1 DEF Recorded
    <3>3. PICK f : Lists(f, table[j].times, log, LiveIn(log, j, now))
      BY <3>1 DEF Recorded
    <3>4. LiveIn(more, j, now) = LiveIn(log, j, now)
      <4>1. \A i \in 1 .. Len(log) : i \in 1 .. Len(more)
        BY <1>2
      <4>2. QED
        BY <1>2, <2>2, <4>1 DEF LiveIn
    <3>5. \A i \in LiveIn(log, j, now) : more[i] = log[i]
      BY <1>2 DEF LiveIn
    <3>6. Lists(f, table[j].times, more, LiveIn(more, j, now))
      BY <3>3, <3>4, <3>5 DEF Lists
    <3>7. QED
      BY <1>1, <2>2, <3>2, <3>6
  <2>3. QED
    BY <2>1, <2>2
<1>4. QED
  BY <1>3 DEF Recorded, s

\* Of the keys with the least numbers of younger ones there are no more than the cap.
LEMMA YoungestFew ==
    ASSUME NEW table, NEW log \in Seq(Hit), IsFiniteSet(DOMAIN table),
           \A k \in DOMAIN table : table[k].since \in 1 .. Len(log) /\ log[table[k].since].key = k
    PROVE  Cardinality({k \in DOMAIN table : Cardinality(Younger(table, k)) < MaxKeys}) <= MaxKeys
<1> DEFINE R == {k \in DOMAIN table : Cardinality(Younger(table, k)) < MaxKeys}
<1>1. MaxKeys \in Nat
  BY LimiterAssumption DEF LimiterAssumption
<1>2. CASE R = {}
  <2>1. Cardinality(R) = 0
    <3> HIDE DEF R
    <3>1. QED
      BY <1>2, FS_EmptySet
  <2>2. QED
    BY <1>1, <2>1
<1>3. CASE R # {}
  <2> DEFINE T == {table[k].since : k \in R}
  <2>1. T \in SUBSET Nat /\ T # {}
    BY <1>3
  <2>2. \E n \in T : \A m \in T : n <= m
    <3> HIDE DEF T
    <3>1. QED
      BY <2>1, Least
  <2>3. PICK k \in R : \A j \in R : table[k].since <= table[j].since
    BY <2>2
  <2>4. R \subseteq Younger(table, k) \cup {k}
    <3>1. ASSUME NEW j \in R, j # k PROVE table[j].since > table[k].since
      <4>1. table[j].since # table[k].since
        BY <3>1
      <4>2. table[j].since \in Nat /\ table[k].since \in Nat
        OBVIOUS
      <4>3. table[k].since <= table[j].since
        BY <2>3
      <4>4. QED
        BY <4>1, <4>2, <4>3
    <3>2. QED
      BY <3>1 DEF Younger
  <2>5. IsFiniteSet(Younger(table, k)) /\ Cardinality(Younger(table, k)) \in Nat
    BY FS_Subset, FS_CardinalityType DEF Younger
  <2>6. /\ IsFiniteSet(Younger(table, k) \cup {k})
        /\ Cardinality(Younger(table, k) \cup {k}) <= Cardinality(Younger(table, k)) + 1
    <3> DEFINE Y == Younger(table, k)
    <3>1. IsFiniteSet(Y) /\ Cardinality(Y) \in Nat
      BY <2>5
    <3> HIDE DEF Y
    <3>2. /\ IsFiniteSet(Y \cup {k})
          /\ Cardinality(Y \cup {k}) = IF k \in Y THEN Cardinality(Y) ELSE Cardinality(Y) + 1
      BY <3>1, FS_AddElement, Zenon
    <3>3. Cardinality(Y \cup {k}) <= Cardinality(Y) + 1
      BY <3>1, <3>2
    <3>4. QED
      BY <3>2, <3>3 DEF Y
  <2>7. Cardinality(R) <= Cardinality(Younger(table, k) \cup {k}) /\ Cardinality(R) \in Nat
        /\ Cardinality(Younger(table, k) \cup {k}) \in Nat
    <3> HIDE DEF R
    <3>1. QED
      BY <2>4, <2>6, FS_Subset, FS_CardinalityType
  <2>8. Cardinality(Younger(table, k)) < MaxKeys
    OBVIOUS
  <2>9. QED
    BY <1>1, <2>5, <2>6, <2>7, <2>8
<1>4. QED
  BY <1>2, <1>3

\* Pruning leaves no more keys than the cap, and all of them if there are no more.
LEMMA Pruned ==
    ASSUME NEW table, NEW log \in Seq(Hit), Held(table, log), now \in Nat
    PROVE  /\ Held(Prune(table), log) /\ Cardinality(DOMAIN Prune(table)) <= MaxKeys
           /\ Cardinality(DOMAIN table) <= MaxKeys =>
                /\ DOMAIN Prune(table) = DOMAIN table
                /\ \A k \in DOMAIN table : Prune(table)[k] = table[k]
<1>1. MaxKeys \in Nat /\ IsFiniteSet(DOMAIN table) /\ Cardinality(DOMAIN table) \in Nat
  BY HeldSeen, FS_CardinalityType, LimiterAssumption DEF LimiterAssumption
<1>2. CASE Cardinality(DOMAIN table) < MaxKeys \div 2
  <2>1. Prune(table) = table
    BY <1>2 DEF Prune
  <2>2. MaxKeys \div 2 <= MaxKeys /\ MaxKeys \div 2 \in Nat
    BY <1>1
  <2>3. QED
    BY <1>1, <1>2, <2>1, <2>2
<1>3. CASE ~(Cardinality(DOMAIN table) < MaxKeys \div 2) /\ Cardinality(DOMAIN table) <= MaxKeys
  <2>1. Prune(table) = Keep(table, NonEmpty(table))
    BY <1>3 DEF Prune
  <2>2. NonEmpty(table) = DOMAIN table
    BY DEF NonEmpty, Held
  <2>3. DOMAIN Prune(table) = DOMAIN table /\ \A k \in DOMAIN table : Prune(table)[k] = table[k]
    BY <2>1, <2>2 DEF Keep
  <2>4. Held(Prune(table), log)
    BY <2>3 DEF Held
  <2>5. QED
    BY <1>3, <2>3, <2>4
<1>4. CASE ~(Cardinality(DOMAIN table) < MaxKeys \div 2) /\ ~(Cardinality(DOMAIN table) <= MaxKeys)
  <2> DEFINE fresh == [k \in DOMAIN table |-> [table[k] EXCEPT !.times = Live(@)]]
             kept == Keep(fresh, NonEmpty(fresh))
             R == {k \in DOMAIN kept : Cardinality(Younger(kept, k)) < MaxKeys}
  <2>1. Prune(table) = Keep(kept, R)
    BY <1>4 DEF Prune
  <2>2. /\ DOMAIN kept \subseteq DOMAIN table
        /\ \A k \in DOMAIN kept : /\ kept[k] = [table[k] EXCEPT !.times = Live(@)]
                                  /\ kept[k].times # <<>>
    BY DEF Keep, NonEmpty
  <2> HIDE DEF kept
  <2>3. ASSUME NEW k \in DOMAIN kept
        PROVE  /\ kept[k] \in [times : Seq(Nat), since : 1 .. Len(log)]
               /\ kept[k].times # <<>> /\ Len(kept[k].times) <= Allowed(k)
               /\ log[kept[k].since].key = k
    <3>0. table[k] \in [times : Seq(Nat), since : 1 .. Len(log)]
      BY <2>2 DEF Held
    <3>1. /\ k \in DOMAIN table
          /\ table[k].times \in Seq(Nat) /\ Len(table[k].times) <= Allowed(k)
          /\ table[k].since \in 1 .. Len(log) /\ log[table[k].since].key = k
      BY <2>2, <3>0 DEF Held
    <3>2. kept[k].times = Live(table[k].times)
      BY <2>2, <3>0
    <3>3. kept[k].since = table[k].since
      BY <2>2, <3>0
    <3>4. /\ Live(table[k].times) \in Seq(Nat)
          /\ Len(Live(table[k].times)) <= Len(table[k].times)
      <4> DEFINE times == table[k].times
      <4>1. times \in Seq(Nat) /\ Len(times) \in Nat
        BY <3>1
      <4> HIDE DEF times
      <4>2. PICK old \in 0 .. Len(times) :
                    Live(times) \in Seq(Nat) /\ Len(Live(times)) = Len(times) - old
        BY <4>1, LiveFacts
      <4>3. QED
        BY <4>1, <4>2 DEF times
    <3>5. kept[k].times \in Seq(Nat) /\ Len(kept[k].times) <= Len(table[k].times)
      BY <3>1, <3>2, <3>4
    <3>6. Len(kept[k].times) <= Allowed(k)
      <4>1. Allowed(k) \in Nat /\ Len(table[k].times) \in Nat /\ Len(kept[k].times) \in Nat
        BY <3>1, <3>5, AllowedFacts
      <4>2. QED
        BY <3>1, <3>5, <4>1
    <3>7. kept[k] \in [times : Seq(Nat), since : 1 .. Len(log)]
      BY <2>2, <3>0, <3>2, <3>4
    <3>8. QED
      BY <2>2, <3>1, <3>3, <3>6, <3>7
  <2>4. IsFiniteSet(DOMAIN kept)
    BY <1>1, <2>2, FS_Subset
  <2>5. Cardinality(R) <= MaxKeys
    <3>1. \A k \in DOMAIN kept : kept[k].since \in 1 .. Len(log) /\ log[kept[k].since].key = k
      BY <2>3
    <3>2. QED
      BY <2>4, <3>1, YoungestFew
  <2>6. DOMAIN Prune(table) = R /\ \A k \in R : Prune(table)[k] = kept[k]
    BY <2>1 DEF Keep
  <2>7. R \subseteq DOMAIN kept
    OBVIOUS
  <2> HIDE DEF R
  <2>8. Held(Prune(table), log)
    BY <2>3, <2>6, <2>7 DEF Held
  <2>9. QED
    BY <1>4, <2>5, <2>6, <2>8
<1>5. QED
  BY <1>2, <1>3, <1>4

\* The times of a key that is checked, their old ones gone, list its hits of the window.
LEMMA BucketFacts ==
    ASSUME NEW table, NEW log, Rated(table, log, now), NEW k \in Keys
    PROVE  LET b == Live(Times(table, k))
           IN  /\ b \in Seq(Nat) /\ (b # <<>> => k \in DOMAIN table) /\ Len(b) <= Allowed(k)
               /\ Recorded(table, log, now) => \E g : Lists(g, b, log, LiveIn(log, k, now))
<1> DEFINE times == Times(table, k)
           b == Live(times)
<1>1. log \in Seq(Hit) /\ now \in Nat /\ Held(table, log)
  BY DEF Rated
<1>2. times \in Seq(Nat) /\ Len(times) <= Allowed(k) /\ (times # <<>> => k \in DOMAIN table)
  <2>1. CASE k \in DOMAIN table
    <3>1. table[k] \in [times : Seq(Nat), since : 1 .. Len(log)] /\ Len(table[k].times) <= Allowed(k)
      BY <1>1, <2>1 DEF Held
    <3>2. QED
      BY <2>1, <3>1 DEF Times
  <2>2. CASE k \notin DOMAIN table
    BY <2>2, AllowedFacts DEF Times
  <2>3. QED
    BY <2>1, <2>2
<1>3. Recorded(table, log, now) => \E f : Lists(f, times, log, LiveIn(log, k, now))
  <2>1. CASE k \in KeysOf(log)
    BY <2>1 DEF Recorded, Times
  <2>2. CASE k \notin KeysOf(log)
    <3>1. LiveIn(log, k, now) = {}
      BY <2>2 DEF LiveIn, KeysOf
    <3> DEFINE f == [i \in {} |-> 0]
    <3>2. f \in [{} -> 1 .. Len(times)]
      OBVIOUS
    <3>3. Lists(f, times, log, {})
      BY <3>2 DEF Lists
    <3>4. QED
      BY <3>1, <3>3
  <2>3. QED
    BY <2>1, <2>2
<1> HIDE DEF times
<1>4. PICK old \in 0 .. Len(times) : b \in Seq(Nat) /\ Len(b) = Len(times) - old
  BY <1>1, <1>2, LiveFacts
<1>5. Len(b) <= Len(times) /\ Len(b) \in Nat /\ Len(times) \in Nat /\ Allowed(k) \in Nat
  BY <1>2, <1>4, AllowedFacts
<1>6. Len(b) <= Allowed(k)
  BY <1>2, <1>5
<1>7. b # <<>> => times # <<>>
  BY <1>4, <1>5
<1>8. Recorded(table, log, now) => \E g : Lists(g, b, log, LiveIn(log, k, now))
  BY <1>1, <1>2, <1>3, SlidLists
<1>9. QED
  BY <1>2, <1>4, <1>6, <1>7, <1>8 DEF times

\* A check keeps the table and the log in step.
LEMMA Checked ==
    ASSUME NEW table, NEW log, Rated(table, log, now), NEW k \in Keys
    PROVE  LET c == Check(table, k, Allowed(k), Len(log) + 1)
           IN  /\ c.ok \in BOOLEAN
               /\ Rated(c.table, IF c.ok THEN Append(log, [key |-> k, at |-> now]) ELSE log, now)
<1> DEFINE b == Live(Times(table, k))
           hit == [key |-> k, at |-> now]
           c == Check(table, k, Allowed(k), Len(log) + 1)
<1>1. /\ log \in Seq(Hit) /\ now \in Nat /\ Held(table, log)
      /\ Cardinality(DOMAIN table) <= MaxKeys
      /\ Cardinality(KeysOf(log)) <= MaxKeys => Recorded(table, log, now)
  BY DEF Rated
<1>2. /\ b \in Seq(Nat) /\ (b # <<>> => k \in DOMAIN table) /\ Len(b) <= Allowed(k)
      /\ Recorded(table, log, now) => \E g : Lists(g, b, log, LiveIn(log, k, now))
  BY BucketFacts
<1>3. Allowed(k) \in Nat \ {0} /\ Len(b) \in Nat
  BY <1>2, AllowedFacts
<1>4. /\ c.ok = IF Len(b) < Allowed(k) THEN TRUE ELSE FALSE
      /\ c.table = IF Len(b) < Allowed(k)
                   THEN Prune(Store(table, k, Append(b, now), Len(log) + 1))
                   ELSE Store(table, k, b, Len(log) + 1)
  <2>1. c.ok = (Len(b) < Allowed(k))
    BY DEF Check
  <2>2. CASE Len(b) < Allowed(k)
    BY <2>1, <2>2 DEF Check
  <2>3. CASE ~(Len(b) < Allowed(k))
    <3>1. (Len(b) < Allowed(k)) = FALSE
      BY <2>3
    <3>2. c.table = Store(table, k, b, Len(log) + 1)
      BY <2>3 DEF Check
    <3> HIDE DEF c
    <3>3. c.ok = FALSE
      BY <2>1, <3>1, Zenon
    <3>4. QED
      BY <2>3, <3>2, <3>3
  <2>4. QED
    BY <2>2, <2>3
<1> SUFFICES c.ok \in BOOLEAN /\ Rated(c.table, IF c.ok THEN Append(log, hit) ELSE log, now)
  OBVIOUS
<1> HIDE DEF b, c
<1>6. CASE Len(b) < Allowed(k)
  <2> DEFINE s == Store(table, k, Append(b, now), Len(log) + 1)
  <2>0. PICK more : more = Append(log, hit)
    OBVIOUS
  <2>1. Append(b, now) \in Seq(Nat) /\ Append(b, now) # <<>> /\ Len(Append(b, now)) <= Allowed(k)
    <3>1. now \in Nat /\ b \in Seq(Nat)
      BY <1>1, <1>2
    <3>2. Append(b, now) \in Seq(Nat) /\ Len(Append(b, now)) = Len(b) + 1
      BY <3>1
    <3>3. Append(b, now) # <<>>
      <4> DEFINE a == Append(b, now)
      <4>1. a \in Seq(Nat) /\ Len(a) # 0
        BY <1>3, <3>2
      <4> HIDE DEF a
      <4>2. a # <<>>
        BY <4>1
      <4>3. QED
        BY <4>2 DEF a
    <3>4. Len(Append(b, now)) <= Allowed(k)
      BY <1>3, <1>6, <3>2
    <3>5. QED
      BY <3>2, <3>3, <3>4
  <2>2. Goes(log, more, table, k) /\ more = Append(log, [key |-> k, at |-> now])
    BY <2>0 DEF Goes
  <2> HIDE DEF hit
  <2>3. more \in Seq(Hit) /\ Cardinality(KeysOf(log)) <= Cardinality(KeysOf(more))
    <3>1. Goes(log, more, table, k) /\ log \in Seq(Hit) /\ now \in Nat
      BY <1>1, <2>2
    <3>2. more \in Seq(Hit)
      BY <3>1, GoesFacts
    <3>3. QED
      BY <3>1, <3>2, GoesFacts
  <2>4. Held(s, more)
    BY <1>1, <2>1, <2>2, StoredHeld
  <2>5. /\ Cardinality(KeysOf(log)) \in Nat /\ Cardinality(KeysOf(more)) \in Nat /\ MaxKeys \in Nat
        /\ Cardinality(DOMAIN s) \in Nat /\ Cardinality(DOMAIN s) <= Cardinality(KeysOf(more))
    <3>1. IsFiniteSet(KeysOf(log)) /\ IsFiniteSet(KeysOf(more))
      BY <1>1, <2>3, KeysFinite
    <3>2. DOMAIN s \subseteq KeysOf(more) /\ IsFiniteSet(DOMAIN s)
      BY <2>3, <2>4, HeldSeen
    <3> HIDE DEF s
    <3>3. QED
      BY <3>1, <3>2, FS_CardinalityType, FS_Subset, LimiterAssumption DEF LimiterAssumption
  <2>6. ASSUME Cardinality(KeysOf(more)) <= MaxKeys PROVE Recorded(s, more, now)
    <3>1. Recorded(table, log, now)
      BY <1>1, <2>3, <2>5, <2>6
    <3>2. PICK f : Lists(f, b, log, LiveIn(log, k, now))
      BY <1>2, <3>1
    <3>3. PICK g : Lists(g, Append(b, now), more, LiveIn(more, k, now))
      BY <1>1, <1>2, <2>2, <3>2, HitLists
    <3>4. QED
      BY <1>1, <2>1, <2>2, <3>1, <3>3, StoredRecorded
  <2> HIDE DEF s
  <2>7. /\ Held(Prune(s), more) /\ Cardinality(DOMAIN Prune(s)) <= MaxKeys
        /\ Cardinality(DOMAIN s) <= MaxKeys =>
             DOMAIN Prune(s) = DOMAIN s /\ \A j \in DOMAIN s : Prune(s)[j] = s[j]
    BY <1>1, <2>3, <2>4, Pruned
  <2>8. ASSUME Cardinality(KeysOf(more)) <= MaxKeys PROVE Recorded(Prune(s), more, now)
    <3>1. DOMAIN Prune(s) = DOMAIN s /\ \A j \in DOMAIN s : Prune(s)[j] = s[j]
      BY <2>5, <2>7, <2>8
    <3>2. Recorded(s, more, now)
      BY <2>6, <2>8
    <3>3. QED
      BY <3>1, <3>2 DEF Recorded
  <2>9. Rated(Prune(s), more, now)
    BY <1>1, <2>3, <2>7, <2>8 DEF Rated
  <2>10. QED
    BY <1>4, <1>6, <2>0, <2>9 DEF s
<1>7. CASE ~(Len(b) < Allowed(k))
  <2> DEFINE s == Store(table, k, b, Len(log) + 1)
  <2>1. b # <<>> /\ k \in DOMAIN table
    BY <1>2, <1>3, <1>7
  <2>2. Goes(log, log, table, k)
    BY <2>1 DEF Goes
  <2>3. Held(s, log)
    BY <1>1, <1>2, <2>1, <2>2, StoredHeld
  <2>4. ASSUME Cardinality(KeysOf(log)) <= MaxKeys PROVE Recorded(s, log, now)
    <3>1. Recorded(table, log, now)
      BY <1>1, <2>4
    <3>2. PICK g : Lists(g, b, log, LiveIn(log, k, now))
      BY <1>2, <3>1
    <3>3. QED
      BY <1>1, <1>2, <2>2, <3>1, <3>2, StoredRecorded
  <2>5. DOMAIN s = DOMAIN table
    BY <2>1 DEF Store
  <2> HIDE DEF s
  <2>6. Rated(s, log, now)
    BY <1>1, <2>3, <2>4, <2>5 DEF Rated
  <2>7. QED
    <3>1. c.table = s
      BY <1>4, <1>7 DEF s
    <3>2. c.ok = FALSE
      BY <1>4, <1>7
    <3>3. QED
      BY <2>6, <3>1, <3>2
<1>8. QED
  BY <1>6, <1>7

\* Both checks of a request, the second on what the first has left.
LEMMA Enforced ==
    ASSUME Rated(hits, passed, now), NEW r \in Requests, NEW admitted,
           enforce_rate_limit(Of[r].ip, Of[r].user, RateLimit, admitted)
    PROVE  Rated(hits, passed, now)'
<1> DEFINE ip == Of[r].ip
           user == Of[r].user
           hit(k) == [key |-> k, at |-> now]
           first == Check(hits, ip, Allowed(ip), Len(passed) + 1)
           log == Append(passed, hit(ip))
           second == Check(first.table, user, Allowed(user), Len(log) + 1)
<1>1. ip \in Keys /\ user \in Keys /\ Allowed(ip) = RateLimit /\ Allowed(user) = identity_limit(RateLimit)
  BY AllowedFacts DEF Keys
<1>2. passed \in Seq(Hit) /\ now \in Nat /\ now' = now
  BY DEF Rated, enforce_rate_limit
<1>3. hit(ip) \in Hit /\ hit(user) \in Hit
  BY <1>1, <1>2 DEF Hit
<1>4. log \in Seq(Hit) /\ Len(log) = Len(passed) + 1 /\ Len(log) + 1 = Len(passed) + 2
  BY <1>2, <1>3
<1>5. /\ hits' = IF first.ok THEN second.table ELSE first.table
      /\ passed' = passed \o (IF ~first.ok THEN <<>>
                              ELSE IF ~second.ok THEN <<hit(ip)>> ELSE <<hit(ip), hit(user)>>)
  BY <1>1, <1>4 DEF enforce_rate_limit
<1>6. first.ok \in BOOLEAN /\ Rated(first.table, IF first.ok THEN log ELSE passed, now)
  BY <1>1, Checked
<1> HIDE DEF first
<1>7. CASE ~first.ok
  <2>1. hits' = first.table /\ passed' = passed
    BY <1>2, <1>5, <1>7
  <2>2. Rated(hits', passed', now')
    BY <1>2, <1>6, <1>7, <2>1
  <2>3. QED
    BY <2>2
<1>8. CASE first.ok
  <2>1. second.ok \in BOOLEAN
        /\ Rated(second.table, IF second.ok THEN Append(log, hit(user)) ELSE log, now)
    <3> HIDE DEF log
    <3>1. QED
      BY <1>1, <1>6, <1>8, Checked
  <2> HIDE DEF second
  <2>2. hits' = second.table
    BY <1>5, <1>8
  <2>3. passed' = IF second.ok THEN Append(log, hit(user)) ELSE log
    <3>1. passed \o <<hit(ip)>> = log /\ passed \o <<hit(ip), hit(user)>> = Append(log, hit(user))
      <4> DEFINE x == hit(ip)
                 y == hit(user)
      <4>1. x \in Hit /\ y \in Hit
        BY <1>3
      <4> HIDE DEF x, y, hit
      <4>2. passed \o <<x>> = Append(passed, x) /\ passed \o <<x, y>> = Append(Append(passed, x), y)
        BY <1>2, <4>1
      <4>3. QED
        BY <4>2 DEF x, y
    <3>2. QED
      BY <1>5, <1>8, <2>1, <3>1
  <2>4. Rated(hits', passed', now')
    BY <1>2, <2>1, <2>2, <2>3
  <2>5. QED
    BY <2>4
<1>9. QED
  BY <1>6, <1>7, <1>8

\* Time only takes hits out of the window.
LEMMA Later ==
    ASSUME NEW table, NEW log, NEW t \in Nat, Rated(table, log, t)
    PROVE  Rated(table, log, t + 1)
<1>1. log \in Seq(Hit)
  BY DEF Rated
<1>2. ASSUME Recorded(table, log, t) PROVE Recorded(table, log, t + 1)
  <2> SUFFICES ASSUME NEW k \in KeysOf(log)
               PROVE  \E f : Lists(f, table[k].times, log, LiveIn(log, k, t + 1))
    BY <1>2 DEF Recorded
  <2>1. PICK f : Lists(f, table[k].times, log, LiveIn(log, k, t))
    BY <1>2 DEF Recorded
  <2>2. LiveIn(log, k, t + 1) \subseteq LiveIn(log, k, t)
    <3>1. ASSUME NEW i \in 1 .. Len(log), log[i].at + Window >= t + 1 PROVE log[i].at + Window >= t
      <4>1. log[i] \in Hit
        BY <1>1
      <4>2. log[i].at \in Nat
        BY <4>1 DEF Hit
      <4>3. QED
        BY <3>1, <4>2, LimiterAssumption DEF LimiterAssumption
    <3>2. QED
      BY <3>1 DEF LiveIn
  <2> DEFINE S == LiveIn(log, k, t + 1)
             g == [i \in S |-> f[i]]
  <2>3. Lists(g, table[k].times, log, S)
    <3> HIDE DEF S
    <3>1. S \subseteq LiveIn(log, k, t)
      BY <2>2 DEF S
    <3>2. QED
      BY <2>1, <3>1 DEF Lists
  <2>4. QED
    BY <2>3
<1>3. QED
  BY <1>2 DEF Rated

LEMMA RatedHolds == SpeechSpec => []Rated(hits, passed, now)
<1>1. InitSpeech => Rated(hits, passed, now)
  <2> SUFFICES ASSUME InitSpeech PROVE Rated(hits, passed, now)
    OBVIOUS
  <2>1. now = 0 /\ DOMAIN hits = {} /\ passed = <<>>
    BY DEF InitSpeech, InitLimiter
  <2>2. KeysOf(passed) = {} /\ Cardinality(DOMAIN hits) = 0
    BY <2>1, FS_EmptySet DEF KeysOf
  <2>3. MaxKeys \in Nat /\ passed \in Seq(Hit)
    BY <2>1, LimiterAssumption DEF LimiterAssumption
  <2>4. Held(hits, passed) /\ Recorded(hits, passed, now)
    BY <2>1, <2>2 DEF Held, Recorded
  <2>5. QED
    BY <2>1, <2>2, <2>3, <2>4 DEF Rated
<1>2. ASSUME Rated(hits, passed, now), [NextSpeech]_speechVars PROVE Rated(hits, passed, now)'
  <2>1. ASSUME UNCHANGED limiter PROVE Rated(hits, passed, now)'
    <3>1. hits' = hits /\ passed' = passed /\ now' = now
      BY <2>1 DEF limiter
    <3>2. Rated(hits', passed', now')
      BY <1>2, <3>1
    <3>3. QED
      BY <3>2
  <2>2. ASSUME NEW r \in Requests, Route(r) PROVE Rated(hits, passed, now)'
    <3>1. PICK admitted \in BOOLEAN :
                  enforce_rate_limit(Of[r].ip, Of[r].user, RateLimit, admitted)
      BY <2>2 DEF Route
    <3>2. QED
      BY <1>2, <3>1, Enforced
  <2>3. ASSUME NEW r \in Requests,
               \/ Lookup(r) \/ Voiced(r) \/ Chunk(r) \/ ChunkFails(r) \/ Spoken(r) \/ SpeakWhole(r)
        PROVE  Rated(hits, passed, now)'
    BY <2>1, <2>3 DEF Lookup, Voiced, Chunk, ChunkFails, Spoken, SpeakWhole
  <2>4. CASE MoveFile
    BY <2>1, <2>4 DEF MoveFile
  <2>5. CASE TimePasses
    <3>1. hits' = hits /\ passed' = passed /\ now' = now + 1 /\ now \in Nat
      BY <1>2, <2>5 DEF TimePasses, Tick, Rated
    <3>2. Rated(hits', passed', now')
      BY <1>2, <3>1, Later
    <3>3. QED
      BY <3>2
  <2>6. CASE UNCHANGED speechVars
    BY <2>1, <2>6 DEF speechVars
  <2>7. QED
    BY <1>2, <2>2, <2>3, <2>4, <2>5, <2>6 DEF NextSpeech
<1>3. QED
  BY <1>1, <1>2, PTL DEF SpeechSpec

\* For all requests, limits, windows and caps: the table never outgrows its cap, and as
\* long as no more keys were let through than the cap, every address and every user has in
\* every window at most as many hits as its limit, however the checks, the refusals, the
\* old hits that are dropped and the pruning follow one another (check, _prune_locked,
\* enforce_rate_limit).
THEOREM RateKeptHolds == SpeechSpec => []RateKept
<1>1. Rated(hits, passed, now) => RateKept
  <2> SUFFICES ASSUME Rated(hits, passed, now) PROVE RateKept
    OBVIOUS
  <2>1. /\ passed \in Seq(Hit) /\ now \in Nat /\ Held(hits, passed)
        /\ Cardinality(DOMAIN hits) <= MaxKeys
        /\ Cardinality(KeysOf(passed)) <= MaxKeys => Recorded(hits, passed, now)
    BY DEF Rated
  <2>2. KeysSeen = KeysOf(passed) /\ \A k : LiveHits(k) = LiveIn(passed, k, now)
    <3>1. DOMAIN passed = 1 .. Len(passed)
      BY <2>1
    <3>2. QED
      BY <3>1 DEF KeysSeen, KeysOf, LiveHits, LiveIn, InWindow
  <2>3. ASSUME NEW k, Cardinality(KeysSeen) <= MaxKeys PROVE Cardinality(LiveHits(k)) <= Allowed(k)
    <3>1. CASE k \in KeysOf(passed)
      <4>1. k \in DOMAIN hits
        BY <2>1, <2>2, <2>3, <3>1 DEF Recorded
      <4>2. PICK f : Lists(f, hits[k].times, passed, LiveHits(k))
        BY <2>1, <2>2, <2>3, <3>1 DEF Recorded
      <4>3. hits[k] \in [times : Seq(Nat), since : 1 .. Len(passed)] /\ Len(hits[k].times) <= Allowed(k)
        BY <2>1, <4>1 DEF Held
      <4> DEFINE n == Len(hits[k].times)
      <4>4. n \in Nat /\ n <= Allowed(k) /\ Allowed(k) \in Nat
        BY <4>3, AllowedFacts
      <4>5. f \in Injection(LiveHits(k), 1 .. n)
        BY <4>2 DEF Lists, Injection, IsInjective
      <4> HIDE DEF n
      <4>6. IsFiniteSet(1 .. n) /\ Cardinality(1 .. n) = n
        BY <4>4, FS_Interval
      <4>7. Cardinality(LiveHits(k)) <= n /\ Cardinality(LiveHits(k)) \in Nat
        BY <4>5, <4>6, FS_Injection, FS_CardinalityType
      <4>8. QED
        BY <4>4, <4>7
    <3>2. CASE k \notin KeysOf(passed)
      <4>1. LiveHits(k) = {}
        BY <2>2, <3>2 DEF LiveIn, KeysOf
      <4>2. Cardinality(LiveHits(k)) = 0
        BY <4>1, FS_EmptySet
      <4>3. QED
        BY <4>2, AllowedFacts
    <3>3. QED
      BY <3>1, <3>2
  <2>4. \A k : Kept(k, Allowed(k))
    BY <2>3 DEF Kept
  <2>5. QED
    BY <2>1, <2>4, AllowedFacts DEF RateKept, KeysBounded
<1>2. QED
  BY <1>1, RatedHolds, PTL
=============================================================================
