------------------------------ MODULE HeavyLock ------------------------------
(***************************************************************************)
(* Chat and speech sharing one process: core/memory_guard.py holds a       *)
(* re-entrant lock, ChatService.ask takes it on the event loop's thread    *)
(* around a whole graph run, TtsService takes it on worker threads around  *)
(* a synthesis.  Both hand work to the same default thread pool.           *)
(*                                                                         *)
(* Three things can wait for one another: the event loop's thread (inside  *)
(* acquire, when nothing else can run on the loop), the worker threads     *)
(* (inside acquire, when they are lost to the pool) and the tasks of the   *)
(* loop (for a pool thread, or for the result of one).                     *)
(***************************************************************************)
EXTENDS Naturals, FiniteSets, Sequences

CONSTANTS
    Asks,        \* POST /api/chat requests
    Streamed,    \* those of Asks answered over SSE (ask_stream): they take no lock
    Speaks,      \* text-to-speech requests
    Chunked,     \* those of Speaks that synthesize sentence by sentence (speak-stream)
    PoolSize,    \* threads of asyncio's default executor
    MaxHops,     \* calls to the pool in one graph run
    Sentences,   \* sentences of a streamed text
    NoOne

ASSUME RequestsAssumption ==
    /\ IsFiniteSet(Asks) /\ IsFiniteSet(Speaks)
    /\ Streamed \subseteq Asks /\ Chunked \subseteq Speaks
    /\ Asks \cap Speaks = {} /\ NoOne \notin Asks \cup Speaks
    /\ "loop" \notin Speaks /\ "loop" # NoOne
ASSUME SizesAssumption ==
    PoolSize \in Nat \ {0} /\ MaxHops \in Nat /\ Sentences \in Nat \ {0}

VARIABLES
    owner, depth,   \* threading.RLock: the owning thread and its recursion level
    blocked,        \* the ask in whose acquire the loop's thread sits, or NoOne
    ask,            \* where the task of a request stands
    hops,           \* pool calls its graph run has made
    speak,          \* where the worker of a speech request stands
    sections,       \* lock sections the worker still has to go through
    queue           \* jobs waiting for a pool thread, first come first served

vars == <<owner, depth, blocked, ask, hops, speak, sections, queue>>

AskStates == {"new", "acquiring", "graph", "queued", "in_thread", "returned", "done"}
SpeakStates == {"new", "queued", "waiting", "holding", "done"}

\* synthesize is one section; synthesize_sentences one for the voice and one per sentence
Sections(s) == IF s \in Chunked THEN 1 + Sentences ELSE 1

Init ==
    /\ owner = NoOne /\ depth = 0 /\ blocked = NoOne
    /\ ask = [a \in Asks |-> "new"] /\ hops = [a \in Asks |-> 0]
    /\ speak = [s \in Speaks |-> "new"] /\ sections = [s \in Speaks |-> Sections(s)]
    /\ queue = <<>>

\* The loop runs one callback at a time, and none while its thread is in acquire.
LoopFree == blocked = NoOne

-----------------------------------------------------------------------------
(* heavy_memory_op                                                         *)

Acquirable_Mnot_checked(thread) == TRUE
Acquirable_Mnot_reentrant(thread) == owner = NoOne

\* RLock.acquire: free, or already owned by the calling thread.
Acquirable(thread) == owner \in {NoOne, thread}
Acquire(thread) == owner' = thread /\ depth' = depth + 1

Release_Mforgets_depth(thread) == owner' = NoOne /\ depth' = depth - 1

Release(thread) ==
    /\ depth' = depth - 1
    /\ owner' = (IF depth = 1 THEN NoOne ELSE thread)

-----------------------------------------------------------------------------
(* ChatService.ask and ask_stream, on the event loop                       *)

\* A new request reaches its graph; ask enters heavy_memory_op first, and that
\* acquire blocks the thread it is called on.
StartAsk(a) ==
    /\ LoopFree /\ ask[a] = "new"
    /\ IF a \in Streamed
       THEN ask' = [ask EXCEPT ![a] = "graph"] /\ UNCHANGED <<owner, depth, blocked>>
       ELSE IF Acquirable("loop")
       THEN Acquire("loop") /\ ask' = [ask EXCEPT ![a] = "graph"] /\ UNCHANGED blocked
       ELSE /\ blocked' = a /\ ask' = [ask EXCEPT ![a] = "acquiring"]
            /\ UNCHANGED <<owner, depth>>
    /\ UNCHANGED <<hops, speak, sections, queue>>

LoopAcquires(a) ==
    /\ blocked = a /\ Acquirable("loop")
    /\ Acquire("loop")
    /\ blocked' = NoOne /\ ask' = [ask EXCEPT ![a] = "graph"]
    /\ UNCHANGED <<hops, speak, sections, queue>>

\* A node awaits a call in the pool (asyncio.to_thread).
CallPool(a) ==
    /\ LoopFree /\ ask[a] = "graph" /\ hops[a] < MaxHops
    /\ ask' = [ask EXCEPT ![a] = "queued"]
    /\ hops' = [hops EXCEPT ![a] = @ + 1]
    /\ queue' = Append(queue, a)
    /\ UNCHANGED <<owner, depth, blocked, speak, sections>>

ResumeAsk(a) ==
    /\ LoopFree /\ ask[a] = "returned"
    /\ ask' = [ask EXCEPT ![a] = "graph"]
    /\ UNCHANGED <<owner, depth, blocked, hops, speak, sections, queue>>

LeaveGraph_Mkeeps_lock(a) ==
    /\ LoopFree /\ ask[a] = "graph"
    /\ ask' = [ask EXCEPT ![a] = "done"]
    /\ UNCHANGED <<owner, depth, blocked, hops, speak, sections, queue>>

\* The run ends, or a node raises: the lock is released either way.
LeaveGraph(a) ==
    /\ LoopFree /\ ask[a] = "graph"
    /\ ask' = [ask EXCEPT ![a] = "done"]
    /\ IF a \in Streamed THEN UNCHANGED <<owner, depth>> ELSE Release("loop")
    /\ UNCHANGED <<blocked, hops, speak, sections, queue>>

-----------------------------------------------------------------------------
(* The speech routes                                                       *)

StartSpeak(s) ==
    /\ LoopFree /\ speak[s] = "new"
    /\ speak' = [speak EXCEPT ![s] = "queued"]
    /\ queue' = Append(queue, s)
    /\ UNCHANGED <<owner, depth, blocked, ask, hops, sections>>

SpeakAcquires(s) ==
    /\ speak[s] = "waiting" /\ Acquirable(s)
    /\ Acquire(s)
    /\ speak' = [speak EXCEPT ![s] = "holding"]
    /\ UNCHANGED <<blocked, ask, hops, sections, queue>>

\* One section is over; after the last one, or an error, the worker returns.
SpeakReleases(s) ==
    /\ speak[s] = "holding"
    /\ Release(s)
    /\ sections' = [sections EXCEPT ![s] = @ - 1]
    /\ \/ sections[s] > 1 /\ speak' = [speak EXCEPT ![s] = "waiting"]
       \/ speak' = [speak EXCEPT ![s] = "done"]
    /\ UNCHANGED <<blocked, ask, hops, queue>>

-----------------------------------------------------------------------------
(* asyncio's default ThreadPoolExecutor                                    *)

Busy == {a \in Asks : ask[a] = "in_thread"} \cup
        {s \in Speaks : speak[s] \in {"waiting", "holding"}}

\* A cached text needs no synthesis and an empty one is refused: no section then.
ThreadTakesJob ==
    /\ queue # <<>> /\ Cardinality(Busy) < PoolSize
    /\ queue' = Tail(queue)
    /\ LET job == Head(queue) IN
         \/ /\ job \in Asks
            /\ ask' = [ask EXCEPT ![job] = "in_thread"]
            /\ UNCHANGED speak
         \/ /\ job \in Speaks
            /\ \/ speak' = [speak EXCEPT ![job] = "waiting"]
               \/ speak' = [speak EXCEPT ![job] = "done"]
            /\ UNCHANGED ask
    /\ UNCHANGED <<owner, depth, blocked, hops, sections>>

\* The call returns; its result waits for the loop.
ThreadReturns(a) ==
    /\ ask[a] = "in_thread"
    /\ ask' = [ask EXCEPT ![a] = "returned"]
    /\ UNCHANGED <<owner, depth, blocked, hops, speak, sections, queue>>

-----------------------------------------------------------------------------
AskStep(a) ==
    LoopAcquires(a) \/ CallPool(a) \/ ResumeAsk(a) \/ LeaveGraph(a) \/ ThreadReturns(a)
SpeakStep(s) == SpeakAcquires(s) \/ SpeakReleases(s)

Next ==
    \/ \E a \in Asks : StartAsk(a) \/ AskStep(a)
    \/ \E s \in Speaks : StartSpeak(s) \/ SpeakStep(s)
    \/ ThreadTakesJob

Spec == Init /\ [][Next]_vars

\* The loop runs every ready callback, the operating system every runnable
\* thread; whether a request ever arrives is left open.
FairSpec ==
    /\ Spec
    /\ \A a \in Asks : WF_vars(AskStep(a))
    /\ \A s \in Speaks : WF_vars(SpeakStep(s))
    /\ WF_vars(ThreadTakesJob)

-----------------------------------------------------------------------------
(* Correctness                                                             *)

TypeOK ==
    /\ owner \in {NoOne, "loop"} \cup Speaks /\ depth \in Nat
    /\ blocked \in Asks \cup {NoOne}
    /\ ask \in [Asks -> AskStates] /\ hops \in [Asks -> 0..MaxHops]
    /\ speak \in [Speaks -> SpeakStates] /\ sections \in [Speaks -> Nat]
    /\ queue \in Seq(Asks \cup Speaks)

\* The runs inside heavy_memory_op("chat_graph").
Guarded == {a \in Asks \ Streamed : ask[a] \in {"graph", "queued", "in_thread", "returned"}}

\* The lock and the sections agree: as many levels as graph runs inside it, or
\* the one synthesis that owns it; and the loop is blocked by no run of its own.
LockDiscipline ==
    /\ owner = NoOne => depth = 0 /\ Guarded = {}
    /\ owner = "loop" => depth = Cardinality(Guarded) /\ depth > 0
    /\ owner \in Speaks => depth = 1 /\ Guarded = {}
    /\ \A s \in Speaks : speak[s] = "holding" <=> owner = s
    /\ \A a \in Asks : ask[a] = "acquiring" <=> blocked = a

\* "Avoid stacking chat + TTS peak RAM": no synthesis runs beside a guarded graph
\* run or beside another synthesis.
NeverStacked ==
    /\ \A s \in Speaks : speak[s] = "holding" => Guarded = {}
    /\ \A s, t \in Speaks : speak[s] = "holding" /\ speak[t] = "holding" => s = t

\* The loop's thread is only ever held up by a synthesis, and not by a run that
\* would need the loop to get on.
LoopNeverBlocksItself == [][owner = "loop" => blocked' = NoOne]_vars

\* Every request that entered its graph, every speech that was started, is
\* answered.  Holds when the pool is larger than the number of speech workers.
AsksFinish == \A a \in Asks : ask[a] # "new" ~> ask[a] = "done"
SpeaksFinish == \A s \in Speaks : speak[s] # "new" ~> speak[s] = "done"

-----------------------------------------------------------------------------
(* Statements of the repository that the code does not keep                *)

\* "we only serialize short critical sections (model load / single chunk synth /
\* one graph invoke)": at most one graph run holds the lock.
GraphsSerialized == Cardinality(Guarded) <= 1

\* "Holding a lock for an entire Speak *or* SSE stream would stall the other;
\* instead we only serialize short critical sections": a graph run inside the lock
\* is not stalled for good by speech requests.
GuardedAsksFinish == \A a \in Asks \ Streamed : ask[a] = "graph" ~> ask[a] = "done"
=============================================================================
