# Verification of chat-sql

chat-sql answers questions about a connected warehouse in plain language. A FastAPI backend
(`src/backend/app`) runs a LangGraph agent that plans SQL, checks it against the tables it may use,
executes it and narrates the result; a Next.js frontend (`src/frontend/src`) shows the conversation and
reads answers aloud. This directory holds TLA+ modules for the parts of the system whose correctness
depends on the order of events, TLC configurations that check them on small instances, and TLAPS proofs
that hold for every size.

1. [The system](#1-the-system)
2. [Plan](#2-plan)
3. [The models](#3-the-models)
4. [What the runs check](#4-what-the-runs-check)
5. [What is proved](#5-what-is-proved)
6. [Where the code and its documentation part](#6-where-the-code-and-its-documentation-part)
7. [Assumptions and what is not modelled](#7-assumptions-and-what-is-not-modelled)

How to run (from this directory): `tlc -workers 2 -config X.cfg M` with the pairs of section 4, and
`tlapm M` for the eight modules named `*Proofs.tla` (section 5).

## 1. The system

One browser page per tab talks to one or more server processes. A server process has one event loop and
one default thread pool; requests share a project database (users, tokens, data sources, sessions,
messages, query history, schema vectors), and every request is one transaction of it (`get_db`), which
is committed *after* its response has been sent. Uploaded tables live in a second database. The model
provider, the embedding provider and the customers' warehouses are outside services.

| Component | State it keeps | Operations | What is hard | What makes it correct |
|---|---|---|---|---|
| Analytics agent graph (`graph/*.py`) | the run's state dict: SQL, error, rows, answer, attempts, linked tables, retry flags, snapshot | 12 nodes, 7 conditional edges, 3 retry loops that share one generate node | loops with separate flags; state of an earlier round left in a later one; the framework's limit on node executions | every run ends; bounded provider calls; only a SELECT runs; answer, SQL and rows belong together; a result once found is not lost |
| SQL checking and execution (`sql_validator.py`, `warehouse_executor.py`, `scope_guard.py`) | none | validate, execute, classify | an empty allowlist; which failures raise and which return | as above, seen by the graph |
| Schema retrieval and linking (`rag_service.py`, `schema_linker.py`, ...) | none (reads the index) | retrieve, link, merge, cap | an index replaced between two reads; caps on merged sets | context within the cap, never without tables that exist |
| Heavy-operation lock (`core/memory_guard.py`) and the thread pool | one re-entrant lock per process; pool threads | acquire and release around a graph run, a synthesis, a voice load | a blocking acquire on the loop's thread; re-entry by another request on the same thread; waiting for a thread while holding the lock | mutual exclusion of synthesis and graph runs; levels match sections; everyone is answered |
| Chat turns (`chat_service.py`, `chat_persistence.py`, `models/*.py`) | sessions, messages, query history | ask, stream, store, reload a conversation | commits after responses; equal timestamps; two reads in one reload; half-stored turns | a turn is whole or absent; a reload pairs questions, answers and SQL; prompts see fresh SQL |
| Schema index (`schema_embedding_service.py`) | vectors of a source, a summary in `extra_config`, the in-process guard | rebuild | overlapping rebuilds across processes and after the guard; failure between DELETE and INSERT | never left empty; summary and index agree |
| Authentication (`auth_service.py`, `deps/auth.py`) | register of refresh tokens | login, refresh (rotation), logout, codes by mail | two rotations of one token; logout during a rotation | a browser keeps a working token; logout reaches every token |
| Browser session (`lib/api.ts`, `lib/auth.ts`, `analyst-app.tsx`) | shared cookies; per tab what is shown and the refresh in flight | call, retry after refresh, sign in and out | one refresh for many calls; late and lost answers; two tabs | no call waits for ever or fails because a token expired |
| Speech playback (`lib/speak-playback.ts`) | queue, audio element, generation counter, drain flag, prefetch | play, stop, prefetch, drain, fall back | continuations of stopped plays still suspended; one flag for several drains | one voice; silence after a stop; sentences in order |
| Speech synthesis (`tts_service.py`, `routes/voice.py`) | cache with two size counters, loaded voice | synthesize, stream, look up, evict | counters that disagree with entries; half a synthesis that is cached; a text cut at four kinds of boundary | bounded, consistent with its entries; who ends well heard the whole text |
| Workspace conversation (`use-workspace-chat.ts`) | turns shown, session selected, request under way | ask, new chat, open a past session, open and leave a source, reload | answers that arrive after the conversation was changed | an answer lands in the conversation it was asked in |
| Data sources and uploads (`data_source_service.py`, `upload_service.py`) | rows in one database, a schema in another | connect, upload, deactivate | two databases without a common transaction | no active source without its table |
| Rate limiter (`security/rate_limit.py`) | buckets of hit times | check | eviction of buckets at the cap | a key's hits are counted |
| Question understanding (`intent_router.py`, `entity_linker.py`, `follow_up.py`, `scope_guard.py`) | none; four steps of the graph's state | route, correct the model by safety nets, link entities, judge the scope | a verdict corrected in one place and read in another; what linking dropped looks out of scope | no question about the warehouse is refused by the model alone; verdict and earlier SQL agree |
| Suggestions, profiles, charts, service shell | none of their own, or one component's fields | pure functions, read-only queries | - | - |

Which of them are modelled, and how completely, is the `components` list of `PROJECT.json`.

Interactions: the routes call `ChatService`, which takes the heavy-operation lock, reads history and the
last SQL, runs the graph, and stores the turn. The graph calls the provider (sync nodes in the default
pool), the index (project database) and the warehouse. Speech workers sit in the same pool and take the
same lock. In the browser all calls go through `lib/api.ts`, whose calls share one refresh per tab while
cookies are shared by all tabs.

The hazards found while reading, each with its line and the properties aimed at it, are the `hazards` of
`PROJECT.json`.

## 2. Plan

Order of importance, most important first. "Proved" means the safety properties of the module's run hold
by theorem; the exceptions are named in section 5.

| # | Module | Status | Abstract specification / theorems |
|---|---|---|---|
| 1 | `ChatGraph`, `RetryBudget` | modelled, checked, proved | the graph implements `RetryBudget`; bounds; evidence |
| 2 | `HeavyLock` | modelled, checked, proved | lock discipline for any number of requests |
| 3 | `ChatTurns` | modelled, checked, proved | turns whole and paired, prompts with fresh SQL, for any number of requests and sessions |
| 4 | `SchemaIndex` | modelled, checked, proved | never emptied, summary and index agree |
| 5 | `SpeakPlayback` | modelled, checked, proved | one voice, silence after a stop, order |
| 6 | `BrowserSession` | modelled, checked, proved | nobody waits for nothing, a working token, logout |
| 7 | `WorkspaceChat` | modelled, checked, proved | one conversation on screen while the user waits; for every user, only late arrivals mix sources |
| 8 | `DataSources` (sources, uploads, files in the other database) | modelled, checked, proved | a listed source has its tables; no orphan schema |
| 9 | `SchemaLinking`, `Understanding`, `QuestionPrep` | modelled, checked, proved | the first four nodes implement those of `ChatGraph`; refusals and links justified |
| 10 | `SpeechService`, `SpeechText`, `RateLimit` | modelled, checked, proved | the cut of a text against "the chunks say the text"; account; limits |
| 11 | `OtpCodes` (registration, codes by mail, resend) | left | a code is used once; a verified user stays verified |
| 12 | `SqlValidator` as pure operators | left | against a reference definition of "names only these tables" |

Composition: `ChatGraph` inside one request, `HeavyLock` around several, `ChatTurns` across requests.
They share no state but a run's outcome (`ChatTurns!outcome` is the `node`/`status` a `ChatGraph` run
ends with; `HeavyLock`'s graph runs are `ChatGraph` runs that hop to the pool), so they are kept apart and
each checked alone. Where two components do share state they are one specification: `QuestionPrep` is
built from `Understanding` and `SchemaLinking`, `SpeechService` from `RateLimit` and `SpeechText`. Where one
details another, the relation is checked: `ChatGraph` implements `RetryBudget`, `QuestionPrep` implements
`ChatGraph`.

Runs are kept for distinct questions: one passing run per component, and a failing one for each of two
disagreements between code and text; the others are listed in section 6.

## 3. The models

Constants are sizes, sets of names and switches; variables carry the code's names where TLA+ allows it.
A definition named `X_M...` is a plausible slip in `X`, used only to test that a property notices it.

### ChatGraph and RetryBudget

`ChatGraph` is one run of the compiled graph. `node` is the node LangGraph runs next, every node of
`chat_graph.py` is one action with its whole patch, and the conditional edges are the `RouteAfter...`
operators applied to the primed state, as LangGraph routes on the patched state. `steps` is LangGraph's
step counter. A SQL text is the set of tables it names; a result remembers its size class and the query
that returned it; an answer remembers the query it narrates: this is what makes mixing rounds visible.
Retrieval, linking and capping return any set the code could return (`Retrieved`, `Capped`, `Merged`,
`Proposed`); the provider's, the index's and the warehouse's replies are free, raising included
(`NodeRaises`). `calls` is a history variable that counts generations.

`RetryBudget` is the abstract specification: rounds of at most `MaxAttempts` generations, at most one
extra round for new tables and one for an empty result. `ChatGraph` implements it under
`expanded <- didExpand, rewritten <- didEmpty, over <- node \in Ended`.

### HeavyLock

`memory_guard.py`'s `RLock` is `owner` and `depth`. The event loop's thread owns it for all guarded asks
together, because they run on one thread: a second ask re-enters it. `blocked` is the ask in whose
`acquire` the loop's thread sits; while it is set no callback runs (`LoopFree`). `ask[a]` is where the task
of a request stands, `queue` the executor's queue, `speak[s]` the worker of a speech request with the lock
`sections` it has left (one for `synthesize`, one for the voice and one per sentence for the streamed
form). `ask_stream` takes no lock, as in the code.

### ChatTurns

Requests go through `get_or_create_session`, `load_history`, the prior SQL, the graph, the flushes of
`_persist_result`, `touch_session` with its row lock, the response, and only then the commit. `at` is
`func.now()`, the transaction's start. A statement sees rows of `committed` transactions (READ COMMITTED).
Equal `created_at` values come in either order where only they are sorted by (`Recalled`), and in table
order where Python's stable sort follows (`Turns`). `Fail` and `PersistFails` differ for the two routes:
`ask` turns an exception into an `HTTPException` and rolls back, the stream turns it into an event and
returns, after which `get_db` commits what there is.

### SchemaIndex

Rebuilds of one source in several processes. The guard `indexing` is per process and left before the
commit. A DELETE goes for the rows committed when it starts (`target`), waits for open transactions that
have deleted them (`RowsLocked`) and skips what those deleted for good; the new rows and `extra_config`
are one flush, whose source row another rebuild may have locked.

### SpeakPlayback

The module-level variables of `speak-playback.ts` are variables here (`generation`, `pending`, `draining`,
`audio`, `shown`, `prefetches`). One action is one JavaScript task: the code between two awaits, with the
synchronous helpers it calls. `aborted` are elements released while their `play()` was pending: the drain
that awaits one is still to be woken. `plays[g].begun` records which sentences began.

### BrowserSession

`exchanges` are the requests to `/api/auth`, each a transaction on the server (`received`, `checked`,
`open`, `over`) and an answer on its way to the browser. `jar` is the cookies all tabs share. Row locks are
those of UPDATE: a rotation updates its row by key whatever became of it meanwhile, a logout updates the
rows its statement found. In each tab `refreshing` is `refreshInFlight`, `call[c]` where an API call
stands. Cookies set on the response object of a route that then raises `HTTPException` are discarded by
FastAPI, so a refusal leaves the jar alone. Opening another tab stands for a reload of a page.

### SchemaLinking, Understanding and QuestionPrep

`ChatGraph` leaves open what routing, linking and the scope guard decide; `QuestionPrep` has these four nodes
in detail and is shown to be an instance of it (`ImplementsGraph`, a refinement mapping that hides what is
only known here and maps an index rebuild and the counters to stuttering).
The modules hold no recursive operator, so that they can be proved about.

A question is what its words match: the sequence of words that are no stop words, the cues its regular
expressions find (`says`) and the way it may continue a conversation (`refines`). `SchemaLinking` is pure:
naming tables by whole names and by parts, matching columns, seeds, the walk along foreign keys with its cap
(`Visit` is one pop of the queue, the walk a recursive function that counts the pops), ranking and merging.
Where the code loops over words or tables, the loop is said by what it finds: the first word that names a
table (`FirstOf`), the tables in the order of their first occurrence (`Distinct`), the elements at some
places in their order (`At`). `Understanding` is pure too and returns *sets* of outcomes where the model's reply is one of the
inputs: `Routed` is the router with its repair, its fallback and the safety nets in the code's order,
`LinkedEntities` the entity linker, `Assessed` the scope guard. `QuestionPrep` has one action per node and
`IndexBuilt`, the rebuild that commits between two of them: the catalog was loaded when the run began and
the chunks are read later. `seeds` and `asked` are history variables.

### DataSources

A request is named by the source it creates or the one it names (`Of`). `row` is what is committed of a
source, `table` whether its tables are there; they are two databases, so the schema of an upload is loaded
before its row is flushed and dropped while the deactivation is still uncommitted. A removal holds the row's
`lock` from its flush to its commit. A warehouse's tables are never dropped (`is_upload_schema`). Every
statement may fail, and `Crash` may come between any two steps: it rolls back the open transactions and
leaves what the other database committed. `broken` is a history variable of the sources something went
wrong for; the properties say that nothing goes wrong otherwise.

### WorkspaceChat

One tab, one user. The state of `useWorkspaceChat` (turns, `hydratedSessionRef`, `loadingSession`, the load
its effect awaits) and of `AnalystApp` (auth, workspace, the copy in `sessionStorage`, what is being opened).
A session is named by the question that created it, and a turn by its question. A request carries the source,
the session and the `mount` it was made from: React drops the state updates of a component that is gone,
but the callback to its parent is still called, which is what `AnswerArrives` and `SelectedArrives` do when
the mount is no longer `Here`. `Rendered` is the effect on `[sessionId]`. The server's part is one step
(`Serve`). `Reload` makes the answers under way unreachable (mount 0) and restores the saved workspace.
`Waits` says the user opens no other source and does not sign out while something is awaited. `strayed` is a
history variable: the sessions that were asked for while one source was open and arrived while another was.

### RateLimit, SpeechText and SpeechService

`RateLimit` is the limiter: one ordered table of hit times for all scopes, checked for the address and then
for the user, pruned when it has more keys than `MaxKeys`. The order of the dictionary, which decides whom the pruning
drops, is the number of the hit that put a key there (`since`). `SpeechText` is how a text is cut into
chunks. A text is its length, the positions of its blanks and which of them stand behind a full stop or a
comma; a chunk is an interval of positions, and the three levels of the code (sentences, clauses, words, and
the slices of a word that fits nowhere) are one function from a position to the end of the chunk that begins
there (`ChunkEnd`, `Cut`). `SpeechService` composes the two with
`TtsService` and the two routes: `Route` on the event loop, then the worker thread step by step. Loading the
voice and a chunk are each one section of the heavy lock and one step; the cache has its own lock and each
of its operations is one. `load_error` is remembered for good, as in the code.

## 4. What the runs check

| Run | Module, cfg | Properties | Shows |
|---|---|---|---|
| chat_graph | ChatGraph, ChatGraph.cfg | EvidenceConsistent, KeepsFirstResult, ImplementsBudget, Terminates | every route under the default limit: what is returned belongs together, the retry policy implements its budget, every run ends and is cut off only where its rounds cost more than the limit |
| heavy_lock | HeavyLock, HeavyLock.cfg | LockDiscipline, NeverStacked, AsksFinish, SpeaksFinish | graph runs and syntheses exclude one another and everyone is answered, given threads to spare |
| chat_turns | MCChatTurns, ChatTurns.cfg | TurnStoredWhole, TurnsPaired, PriorSqlFresh, RequestsEnd | turns stored whole and reloaded with their own answers, in order |
| schema_index | MCSchemaIndex, SchemaIndex.cfg | NeverEmptied, SummaryDescribesIndex, GuardCoversWork, RebuildsEnd | no overlap or failure of rebuilds leaves a source without an index |
| speak_playback | MCSpeakPlayback, SpeakPlayback.cfg | OneVoice, StoppedStaysSilent, SpokenInOrder, PlaybackEnds | one voice, none after a stop, sentences in order |
| browser_session | BrowserSession, BrowserSession.cfg | WaitersHaveRefresh, JarLive, LogoutRevokes, ExpiryIsHidden, CallsEnd | tabs that refresh and sign out at once keep a working token and end every call |
| question_prep | MCQuestionPrep, QuestionPrep.cfg | RefusalsJustified, PriorSqlFollowed, PriorTablesLinked, LinkedNearestFirst, ImplementsGraph | whatever the model replies, verdict, earlier SQL and linked tables agree; the nodes implement `ChatGraph`'s |
| question_prep_cap | MCQuestionPrep, QuestionPrepCap.cfg | ContextCapped (violated) | section 6 |
| data_sources | MCDataSources, DataSources.cfg | ActiveHasTable, NoOrphans, RequestsEnd | two tabs, readers, failures and a crash: a listed source has its tables, nothing is left behind without a failure |
| workspace_chat | MCWorkspaceChat, WorkspaceChat.cfg | OneConversation, SessionsKeepSource, BusyEnds | late answers, openings and reloads of a user who waits: one conversation on screen, sessions of one source |
| workspace_leaves | MCWorkspaceChat, WorkspaceChatLeaves.cfg | SessionsKeepSource (violated) | section 6 |
| speech_service | MCSpeechService, SpeechService.cfg | AccountExact, PlaysWhole, RateKept | concurrent syntheses of one text, failures at every chunk, a voice that comes and goes: an exact cache, whole answers, limits kept |

Type invariants are not among the runs' properties, because they are proved (in `WorkspaceChat` and
`SpeechService` as `Typed` and as parts of the inductive invariants). `ChatGraph` also keeps `Progress`,
`StepsBounded`, `CallsBounded`, `CutOffOverBudget`, `Custody` and `NonEmptyResultKept`, `HeavyLock` keeps `LoopNeverBlocksItself`
and `WorkspaceChat` `SavedIsOpen` and `OnlyLateArrivalsMix` (explored with `Waits = FALSE` too: 197,520 states
with the bounds of WorkspaceChatLeaves.cfg): they are proved, and no run repeats them.

### Bounds, and why they are enough

- **ChatGraph.cfg**: two tables and `MaxTables = 1` are the least for which capping, a merge that adds
  something, an overview and an allowlist miss on a real and on an invented name all occur; two attempts
  distinguish the first, a middle and the last of a round. `RecursionLimit = 25` is LangGraph's default, under
  which the program runs; the longest route takes 26 nodes, so that every node of the three rounds is reached
  and the cut-off too. A source without a schema (`SchemaScoped = FALSE`) only skips a check; the
  properties were found to hold of it as well (with a limit of 24, one less than its longest route), and the
  theorems cover both.
- **HeavyLock.cfg**: two guarded asks show re-entry, a third is streamed; of two speech requests one is
  sentence by sentence; three threads are one more than the speech workers can take. One hop and two
  sentences let a request leave and re-enter each section.
- **ChatTurns.cfg**: a first question and two that continue it from two tabs with the same wording are the
  least for overlapping commits, equal questions and a reload between them; `HistoryLimit = 3` is odd, so
  that the cut falls inside a turn.
- **SchemaIndex.cfg**: four rebuilds in two processes give overlap within a process (after the response),
  across processes, and chains of waiting DELETEs.
- **SpeakPlayback.cfg**: two presses give a stopped play beside its successor; two answers, a prefetch and
  its replacement; two sentences, one playing and one queued; streams and elements may fail at every point.
- **BrowserSession.cfg**: two tabs, two calls of either kind made in either tab, one expiry, one login or
  logout, one lost answer. The invariants were also explored
  with three calls (7.2 million states) while the module was written, and held.

- **QuestionPrep.cfg**: four tables in a chain of foreign keys with room for three (`MaxTables`), so that a
  walk is cut off by the cap and by the hops; two retrieved chunks; a compound table name, so that parts of
  names match; eleven questions, one for each way the cues, the refinements and the matches can fall
  together; confidences on both sides of `Trust`; earlier SQL of one table and of two that are joined.
  **QuestionPrepCap.cfg** has the same constants: two retrieved and two forced tables are one more than fit.
- **DataSources.cfg**: an upload with two removals (one waits for the lock of the other) and a reader that
  the DROP waits for, a warehouse with one removal, and a crash anywhere.
- **WorkspaceChat.cfg**: two sources, one of them saved before; three questions give a session with two
  turns beside another session; four mounts allow two switches and two reloads. **WorkspaceChatLeaves.cfg**
  needs only two questions.
- **SpeechService.cfg**: three requests for one text (two of them alike, hence the symmetry), one for
  another, with synthesis sizes that vary; one entry and four bytes make both budgets bite; room for three
  of the four keys that two addresses and two users have. `Window = 0` counts the hits of one moment, and one
  tick makes them old. `MCSpeechService!SplitSaysAll` checks the cut on every text of at most ten characters
  (`MaxLength`), with blanks, full stops and commas wherever they can be, and also that no chunk is longer
  than allowed and the first is short; TLC evaluates it before the run.

`MaxAsks`, `MaxMounts`, `MaxCrashes`, `MaxTime`, `MaxMoves`, `MaxPresses`, `MaxAnswers`, `MaxExpiries`,
`MaxSignings`, `MaxLost`, `MaxHops` and `Sentences` bound what users, networks and texts may do; they are
guards of the models and named in their `CONSTANTS`.
`CHECK_DEADLOCK FALSE` is set everywhere because every model stops when all of its requests are answered;
that nothing stops earlier is what the liveness properties say.

### Fairness

Only steps that the program's own scheduler takes are fair; users, arrivals, failures and losses never.

- `ChatGraph`: `WF(Next)`: the loop keeps driving a run and every call a node makes has a timeout.
- `HeavyLock`: weak fairness per request's steps and for the pool: the loop runs ready callbacks, the
  operating system runs runnable threads. A lock that stays free is taken by somebody, not by all: the
  sections are finite, so weak fairness per worker is enough.
- `ChatTurns`, `SchemaIndex`: each request that was accepted goes on; a commit may fail.
- `SpeakPlayback`: streams end, elements play or fail, intervals fire.
- `BrowserSession`: the server serves what it received, answers arrive or are lost, callbacks run.
- `DataSources`: weak fairness of every request that has begun; strong fairness of `Deactivate`, because the
  database grants a lock that becomes free again and again to each that waits, and of a reader's end,
  because a question sends boundedly many statements (`ChatGraphProofs!StepBound`) and each is cut off by
  `statement_timeout`. Without either a removal could starve.
- `WorkspaceChat`: a request that was sent is served or refused, and its answer arrives or fails.
- `QuestionPrep` and `SpeechService` are checked for safety only; the steps of the former are some of
  `ChatGraph`'s, whose `Terminates` counts them.

## 5. What is proved

TLAPS checks the theorems of eight modules, for every value of the constants that satisfies the named
assumptions of the modules (`BoundsAssumption`, `FlagsAssumption`, `NamesAssumption` of `ChatGraph`,
`RequestsAssumption` and `SizesAssumption` of `HeavyLock`, and so on), which TLC evaluates in the runs.
`OneConversationHolds` of `WorkspaceChat` has one more hypothesis, `Waits`. Each follows one plan: an inductive invariant,
the lemma that `Init` gives it, one lemma or step per action that keeps it, and the theorems read off it.

**ChatGraphProofs.** `TypeOK /\ Progress` is inductive. The bounds are not inductive by themselves: a
counter says nothing of how many rounds are still open. `Progress` ties `steps` and `calls` to the node, the
attempts of the open round and the rounds already closed (`ClosedSteps`, `ClosedCalls`). From it follow
`TypeCorrect`, `StepBound` (at most 9 * MaxAttempts + 8 nodes), `CallBound` (at most 3 * MaxAttempts
generations), `CutOffOnlyOverBudget` (whatever the limit, a run is cut off only where the rounds its flags have
opened, each at its longest, cost more) and `LimitSuffices`: a limit of 9 * MaxAttempts + 8 cuts nothing off.
`Custody` is the second inductive invariant: for each node, what `scope`, `status`, `sql`, `rows`, `answer`
and the snapshot must be when it is about to run; without it nothing excludes that a restored answer is
put beside rows of the rewrite. From it follow `ConsistentEvidence`, `FirstResultKept` and the action property `NonEmptyKept`. `BudgetImplemented` maps every step to a step of
`RetryBudget` or a stutter, using `Progress` for the attempts left in a round.

**ChatTurnsProofs.** `Inductive` says for each step of a request which of its rows are flushed (`Flushed`):
half a turn exists between two flushes, and no step from which a commit is reached has that. The rows are
those of the request in two sequences, so the lemmas say what an `Append` adds to the rows of whom. It
yields `TurnStoredWholeHolds`: a committed turn has both messages and its record, or nothing if the client
was told of an error. The other two need to know *when* a row was seen. `Deep` adds that start times are
distinct and behind nobody's commit (`Times`), that a request has each of its rows once (`RowsOnce`), what
the SQL a request remembers was when its snapshot was taken (`Remembered`), and that the rows a reload has
read first are still visible when it reads the others (`Rereads`, from the action property `Grows`: no step
takes a row away or hides a committed one). From it follow `PriorSqlFreshHolds` and, with lemmas about the
n-th row of a session in the order of its timestamps, `TurnsPairedHolds`: a reload puts every answer under
its own question, and beside it a record that ran for the same wording.

**SpeakPlaybackProofs.** Order is stated with runs of numbers: what is queued continues what began, and what
the stream has taken is both together (`Queued`, with lemmas that runs join, split and lose their head). The
generation counter is the reason (`Numbered`): continuations of stopped plays compare it first. `VoiceAlone`
and `AudioOfNow` tie the fallback voice and the element to the play of now.

**BrowserSessionProofs.** The exchanges are a growing sequence, so every conjunct quantifies over those
sent. `Linked`, `Answered` and `Replaced` say how tokens, revocations and answers depend on each other;
`OneRefresh` identifies a tab's refresh in flight with the only pending exchange of its kind, from which
`WaitersHaveRefreshHolds`. `Found` is what a logout must have seen for `LogoutRevokesHolds`, `Holds` gives
`JarLiveHolds`, and `DeniedOnce` counts refusals for `ExpiryIsHiddenHolds` (one expiry, nothing lost).

**DataSourcesProofs.** The two databases agree up to the removal that holds the row's lock: `LockIsHeld` and
`TableBeforeRow` say who may be between the two. Besides `ActiveHasTableHolds` and `NoOrphansHolds` it yields
`RemovalsExclude`: at most one removal of a source is between its flush and its commit. The module also
holds the theorems about `SchemaIndex`, whose names are disjoint from those of `DataSources` (a source and
its index are two halves of one lifecycle). A rebuild's batch is committed last and a DELETE finds committed
batches only (`CommitLast`, `DeletesSeen`), so the batch of an uncommitted rebuild is never deleted; with
`SummaryWithIndex` this gives `NeverEmptiedHolds` and `SummaryDescribesIndexHolds`, and `GuardCoversWorkHolds`
says that who works in a process is counted by its guard.

**WorkspaceChatProofs.** Two inductive invariants. `Roaming` is about every user: a session that a question,
the workspace, a load or a stored turn names is one of the same source unless it strayed (`Home`), questions
keep their source, and what strayed stays so (`HomeKeeps`), so that only the arrival of an answer or of a past
session can take a session away from its source (`ArrivesHome`). It yields `OnlyLateArrivalsMixHolds` and
`SavedIsOpenHolds` without `Waits`. `Inductive` is about a user who waits: whatever is awaited is of the open
workspace's source (`OneSource`), nothing is opened but from the picker (`Alone`), every question keeps a
session of its own source (`Kept`) and sessions hold only such questions (`Filed`). `Screen` is the invariant behind
`OneConversationHolds`: what is shown, what a load under way will show, and what the awaited answer will be
added to, are each a part of one stored session, in its order (`PartOf`, with lemmas on prefixes and on two
parts that come together), and at most one question is awaited (`OneAwaited`).

**QuestionPrepProofs.** The linking first, as pure facts. The provers know no induction with an operator as
parameter, so the module proves its own from the well-foundedness of the natural numbers, for *sets* of
numbers (`Least`, `CountUp`), and uses it for the recursive functions: the queue of the walk after n pops is
duplicate-free, holds only tables reached in as many steps as noted (`Sound`), in breadth-first order
(`Breadth`) and with whole layers before the next unless the context is full (`Layered`); `VisitKeeps` is the
step, `WalkFacts` the result, for every graph of foreign keys, every set of seeds and every limit. (The limit
bounds what the walk adds: the seeds are in the context even where they alone exceed it, section 6.) `LinkedStep`
carries it to the node: `LinkedNearestFirstHolds` and `PriorTablesLinkedHolds`. The router by cases of its
safety nets (`NetsCatch`, `RoutedRefusal`): `RefusalsJustifiedHolds`, `PriorSqlFollowedHolds`. `AskedOnceHolds`
bounds the model calls of the four nodes. `ImplementsGraphHolds` is the refinement: each node in detail is
that node of `ChatGraph`, an index built meanwhile a stutter; it needs what linking leaves (`Passed`), that
retrieval returns rows of the index (`KeptIsRetrieved`) and that two sets of seeds give at most what
`ChatGraph!Merged` allows (`SeedsTogether`). Together with `ChatGraphProofs` every theorem about the graph
holds of a run with the detailed nodes.

**SpeechProofs.** The heavy lock and the speech it guards, in one module with disjoint names.
*HeavyLock*: `Inductive == TypeOK /\ LockDiscipline /\ Bookkeeping /\ LoopAwake`. `LockDiscipline`
relates `depth` to the *number* of guarded runs, so its proof needs the cardinality lemmas (`GuardedGrows`,
`GuardedShrinks`) and, for `ThreadTakesJob`, that a queued job is queued once and is in state `queued`
(`Bookkeeping`, with lemmas about `Append` and `Tail`). It yields `LockDisciplineHolds`, `StackingAvoided`
and `LoopNotSelfBlocked`.
*The cut of a text*: `SplitSaysWhole`, for every text and all settings. `ChunkEndFacts` says that a chunk ends
behind its beginning and never behind a blank; `CutIsRecursive` that the recursive function exists;
`CutFacts`, by induction from the end of the text, that the chunks from every position are a `Chain`; and
`FirstCutAgain` that a chain whose first chunk is cut once more is one.
*The cache*: `Account` (the entries are whole answers, no text twice, the account is their `Total`, both
budgets are kept) and `Played` are inductive; `SumsAgree` says that equal stretches of two accounts have equal
sums, from which come the lemmas on an entry added, taken out or dropped from the front, and `Evicted`.
They yield `AccountExactHolds` and, with `SplitSaysWhole`, `PlaysWholeHolds`.
*The limiter*: `Rated` says that every key of the table has a hit of its own that put it there and no more
times than its limit (`Held`), and, as long as no more keys than the cap were seen, that the hits of its window
can be mapped one to one to its times (`Recorded`, `Lists`): a count of the table's times then bounds a count
of the history. `Checked` is the lemma about one check, used for the address and, on what that left, for the
user; `Pruned` needs that the keys with the fewest younger ones are no more than the cap (`YoungestFew`).
It yields `RateKeptHolds`.

Only model-checked: liveness under fairness (`Terminates`, `AsksFinish`, `SpeaksFinish`, `RequestsEnd`,
`RebuildsEnd`, `PlaybackEnds`, `CallsEnd`, `BusyEnds`), which is beyond this prover; and that no chunk is longer
than `tts_max_chars` (`SplitSaysAll`), which no theorem states; and `SessionsKeepSource` under `Waits`, in whose
place the theorem says what holds of every user. Every other safety property of a passing run is a theorem.

## 6. Where the code and its documentation part

Two disagreements have a run (`findings` of `PROJECT.json`). In `workspace_leaves` the user leaves a workspace
while its question is under way. `handleSessionChange` gives the answer's session to whatever workspace is
open then (`analyst-app.tsx:206`), and `get_or_create_session` takes it: the next question about the new
source is stored in a session of the old one, and the sessions listed "for a data source" are not. With
`Waits = FALSE` the other two properties of `WorkspaceChat` fail as well: a source whose
opening ends while another workspace is on screen takes over that one's turns (`OneConversation`); and the
stale answer starts the load of its session, which the workspace's own answer then cancels without a reset
of `loadingSession`, so that the controls stay disabled (`BusyEnds`).

In `question_prep_cap` the context of a question holds four tables although `max_tables` is three. The
docstring of `SchemaLinker.expand` says the walk "stops at `max_tables` real tables" (`schema_linker.py:159`),
and the backend's README calls the setting the "cap on tables in schema context". The code takes every seed
before it looks at the cap (`schema_linker.py:187`), and seeds are the retrieved tables, those the question
names and those the entity linker found. `LinkedNearestFirst` says what the cap does bound: what is added
to the seeds.

Further statements of the repository are written at the end of their modules and were found violated; no
run repeats them. To see one, replace the properties of the module's cfg by it:

| Definition | What was seen | Constants |
|---|---|---|
| `ChatGraph!KeepsBetterOutcome` | a rewrite round that ends in a fruitless schema expansion bypasses `resolve_empty_retry`, and the first result, which was kept, is lost (`nodes.py:285`); `KeepsFirstResult` is what does hold | ChatGraph.cfg |
| `ChatGraph!NeverOutOfSteps` | LangGraph's default limit of 25 nodes is below the 35 that three attempts may need, and below the 26 of two attempts (`chat_graph.py:251`); `LimitSuffices` says which limit would do | ChatGraph.cfg |
| `ChatGraph!EmptyAllowlistFailsClosed` | for a source without a schema, an empty allowlist skips the table check (`sql_validator.py:89`) | ChatGraph.cfg, SchemaScoped FALSE |
| `ChatGraph!ExpandKeepsTables` | an expansion of a context above the cap drops tables it had (`prep_nodes.py:436`) | ChatGraph.cfg |
| `ChatGraph!ReportsEveryAttempt` | an expansion resets the attempts reported (`prep_nodes.py:495`) | ChatGraph.cfg |
| `HeavyLock!GuardedAsksFinish` | as many speech requests as pool threads wait for the lock of a graph run that waits for a thread (`chat_service.py:88`) | HeavyLock.cfg, PoolSize 2 |
| `HeavyLock!GraphsSerialized` | asks re-enter the lock on the loop's thread: two graph runs overlap | HeavyLock.cfg |
| `ChatTurns!FollowUpFindsSession` | the answer is sent before the commit: a prompt follow-up does not find its session (`database.py:35`) | ChatTurns.cfg |
| `ChatTurns!HistoryChronological` | both rows of a turn share their timestamp; an answer may precede its question in a prompt | ChatTurns.cfg |
| `ChatTurns!TurnsShowOwnSql` | equal questions: a record is matched by wording and may be another turn's | ChatTurns.cfg |
| `SchemaIndex!IndexOfOneRebuild` | a rebuild that starts after the guard was left and before the commit adds a second set of rows | SchemaIndex.cfg |
| `SpeakPlayback!WholeAnswerSpoken` | the prefetch of a new answer empties the one being played (`speak-playback.ts:93`) | SpeakPlayback.cfg |
| `SpeakPlayback!QueueIsDrained` | a sentence that fails after the last was queued leaves the rest waiting | SpeakPlayback.cfg, N 3, MaxAnswers 1, Failures {"audio"} |
| `SpeakPlayback!SentenceNotCutOff` | a stopped play's drain clears its successor's flag, and two drains overlap | SpeakPlayback.cfg, N 3, MaxAnswers 1, Failures {} |
| `BrowserSession!SignedOutWhenCookiesDie` | a late 401 starts a refresh with a token whose issue is not committed yet; it is refused and the tab is signed out of a session that lives | BrowserSession.cfg |
| `QuestionPrep!NamedTableNotRefused` | a follow-up of nothing is routed again by the regular expressions, whose verdict passes no safety net: a question that names a table is refused as trivia (`prep_nodes.py:140`, against the comment at `intent_router.py:263`) | QuestionPrep.cfg |

## 7. Assumptions and what is not modelled

- PostgreSQL: READ COMMITTED; rows of a table without ORDER BY come in insertion order in `ReloadMessages`
  and `ReloadRecords`; transactions begin at distinct times; a DELETE or UPDATE meets its rows as a batch.
- FastAPI resumes `get_db` after the response; a client that disconnects is not modelled; a commit may fail
  (`ChatTurns`, `SchemaIndex`), in `BrowserSession` it does not.
- The browser: one task at a time; a released element's pending `play()` is rejected later, in any order;
  the fallback voice starts at once or not at all.
- Tokens: access tokens expire, refresh tokens do not within a behaviour. `boot` asks `/api/auth/me`, which
  never refreshes: a tab opened after an expiry shows the sign-in form, as in the code.
- `WorkspaceChat`: React drops the updates of an unmounted component; one tab is enough, because
  `sessionStorage` belongs to a tab and sessions on the server are only appended to.
- `DataSources`: `DROP SCHEMA` waits for statements that read the schema; a session's locks end with its
  transaction, a crash ends all of them.
- `SpeechService`: the worker runs to its end although its client has gone; the text arrives cleaned of
  markup; the time of a hit is that of its check.
- The provider's own retries, prompts, parsing of SQL, embedding distances, the patterns of the regular
  expressions and all formatting are abstracted to the outcomes the callers distinguish.

Not modelled:

- Registration and the codes sent by mail, their expiry and resending (parts of `auth_service.py`): a
  sequential state of one user's rows, left for part 11 of the plan.
- `sql_validator.py` and `sql_generator.py` beyond the verdicts the graph sees: they walk the syntax tree of
  a library, and a model would restate that library.
- Suggestions, profiles, overviews and introspection: read-only queries and wording.
- The list of past sessions as a state of its own, the re-run of stored SQL on a reload.
- Speech recognition, charts, insight panels and forms: one component's state and pure rendering.
- The provider's client, configuration, health, mail, encryption, migrations and the scripts that seed a
  sample warehouse: no state that events can disorder.
