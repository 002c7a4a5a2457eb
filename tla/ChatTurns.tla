------------------------------ MODULE ChatTurns ------------------------------
(***************************************************************************)
(* Conversations in the project database: what POST /api/chat and its SSE  *)
(* twin read before the graph runs, what they write after it, and what     *)
(* GET /api/chat/sessions/{id} puts together from it.                      *)
(*                                                                         *)
(* Every request is one transaction (get_db), READ COMMITTED: a statement  *)
(* sees what was committed before it.  created_at is func.now(), the time  *)
(* the transaction began, so the rows of one request share it.  FastAPI    *)
(* leaves get_db, which commits, after the response has been sent.         *)
(***************************************************************************)
EXTENDS Naturals, FiniteSets, Sequences, SequencesExt

CONSTANTS
    Requests,       \* questions asked of one data source by one user
    Streamed,       \* those asked over POST /api/chat/stream
    Continues,      \* the request whose answer told the client the session, or None
    Question,       \* the text of a request's question
    Reloads,        \* GET /api/chat/sessions/{id} requests
    Reopens,        \* the request whose session a reload asks for
    HistoryLimit,   \* CHAT_HISTORY_LIMIT
    None

ASSUME RequestsAssumption ==
    /\ IsFiniteSet(Requests) /\ Streamed \subseteq Requests /\ None \notin Requests
    /\ Continues \in [Requests -> Requests \cup {None}]
    /\ Reopens \in [Reloads -> Requests]
    /\ DOMAIN Question = Requests
ASSUME LimitAssumption == HistoryLimit \in Nat

VARIABLES
    step,        \* where a request stands
    at,          \* when its transaction began, 0 before it did
    session,     \* the session it belongs to, named by the request that made it
    history,     \* the messages it loaded for its prompts
    prior,       \* the request whose SQL it loaded as prior_sql
    outcome,     \* what its graph run ended with
    told,        \* what its client has heard
    messages,    \* table messages, in the order of insertion
    records,     \* table query_history, in the order of insertion
    committed,   \* requests whose transaction is committed
    reload       \* where a reload stands and the rows it has read, by their places

vars == <<step, at, session, history, prior, outcome, told, messages, records,
          committed, reload>>

Steps == {"new", "begun", "joined", "recalled", "running", "asked", "recorded",
          "touched", "closing", "over"}
\* ok with an SQL text; or a refusal, a clarification, a failure.
Outcomes == {"none", "ok_sql", "other"}
Roles == {"user", "assistant"}
MessageRows == [role : Roles, of : Requests]

Init ==
    /\ step = [r \in Requests |-> "new"] /\ at = [r \in Requests |-> 0]
    /\ session = [r \in Requests |-> None]
    /\ history = [r \in Requests |-> <<>>] /\ prior = [r \in Requests |-> None]
    /\ outcome = [r \in Requests |-> "none"] /\ told = [r \in Requests |-> "nothing"]
    /\ messages = <<>> /\ records = <<>> /\ committed = {}
    /\ reload = [l \in Reloads |-> [step |-> "new", messages |-> {}, records |-> {}]]

Goto(r, to) == step' = [step EXCEPT ![r] = to]
Tell(r, what) == told' = [told EXCEPT ![r] = what]

\* Requests of session s whose rows a statement sees now.
Visible(s) == {r \in committed : session[r] = s}
SessionExists(s) == s \in committed /\ session[s] = s

\* The rows of session s such a statement sees, by their places in the tables, which only
\* grow; and the created_at of the rows.
VisibleMessages(s) == {i \in DOMAIN messages : messages[i].of \in Visible(s)}
VisibleRecords(s) == {i \in DOMAIN records : records[i] \in Visible(s)}
MessageTimes == [i \in DOMAIN messages |-> at[messages[i].of]]
RecordTimes == [i \in DOMAIN records |-> at[records[i]]]

-----------------------------------------------------------------------------
(* Before the graph: get_or_create_session, load_history, prior SQL        *)

\* The transaction begins with its first statement (the user of the token); a
\* client continues a session only when an answer has told it which.
Begin(r) ==
    /\ step[r] = "new"
    /\ Continues[r] # None => told[Continues[r]] = "answer"
    /\ at' = [at EXCEPT ![r] = 1 + Cardinality({q \in Requests : at[q] > 0})]
    /\ Goto(r, "begun")
    /\ UNCHANGED <<session, history, prior, outcome, told, messages, records, committed, reload>>

\* A new session, or an existing one; "Chat session not found" otherwise.
JoinSession(r) ==
    /\ step[r] = "begun"
    /\ LET s == IF Continues[r] = None THEN r ELSE session[Continues[r]] IN
         IF Continues[r] = None \/ SessionExists(s)
         THEN /\ session' = [session EXCEPT ![r] = s]
              /\ Goto(r, "joined") /\ UNCHANGED told
         ELSE /\ Goto(r, "over") /\ Tell(r, "error") /\ UNCHANGED session
    /\ UNCHANGED <<at, history, prior, outcome, messages, records, committed, reload>>

\* ORDER BY created_at DESC LIMIT n, then reversed: the newest rows, the oldest of them
\* first.  The two messages of a request share their created_at and come in either order.
Recalled(s) ==
    LET rows == VisibleMessages(s)
        n == IF Cardinality(rows) < HistoryLimit THEN Cardinality(rows) ELSE HistoryLimit
        Newest(pick) ==
            /\ \A j, k \in 1 .. n : j < k =>
                 pick[j] # pick[k] /\ MessageTimes[pick[j]] <= MessageTimes[pick[k]]
            /\ \A i \in rows \ {pick[k] : k \in 1 .. n} : \A k \in 1 .. n :
                 MessageTimes[i] <= MessageTimes[pick[k]]
    IN {[k \in 1 .. n |-> messages[pick[k]]] : pick \in {p \in [1 .. n -> rows] : Newest(p)}}

LoadHistory(r) ==
    /\ step[r] = "joined"
    /\ \E rows \in Recalled(session[r]) : history' = [history EXCEPT ![r] = rows]
    /\ Goto(r, "recalled")
    /\ UNCHANGED <<at, session, prior, outcome, told, messages, records, committed, reload>>

\* Records of the session with status ok and an SQL text.
WithSql(s) == {q \in Visible(s) : q \in ToSet(records) /\ outcome[q] = "ok_sql"}

NewestWithSql_Moldest(s) ==
    {q \in WithSql(s) : \A p \in WithSql(s) : at[p] >= at[q]}

\* ORDER BY created_at DESC LIMIT 1
NewestWithSql(s) ==
    {q \in WithSql(s) : \A p \in WithSql(s) : at[p] <= at[q]}

LoadPriorSql(r) ==
    /\ step[r] = "recalled"
    /\ \E q \in IF WithSql(session[r]) = {} THEN {None} ELSE NewestWithSql(session[r]) :
         prior' = [prior EXCEPT ![r] = q]
    /\ Goto(r, "running")
    /\ UNCHANGED <<at, session, history, outcome, told, messages, records, committed, reload>>

-----------------------------------------------------------------------------
(* After the graph: _persist_result                                        *)

\* The run ends, and the question is the first row flushed.
AddQuestion(r) ==
    /\ step[r] = "running"
    /\ \E o \in Outcomes \ {"none"} : outcome' = [outcome EXCEPT ![r] = o]
    /\ messages' = Append(messages, [role |-> "user", of |-> r])
    /\ Goto(r, "asked")
    /\ UNCHANGED <<at, session, history, prior, told, records, committed, reload>>

\* The answer and the query-history record: two tables, one flush after the other.
AddAnswerAndRecord(r) ==
    /\ step[r] = "asked"
    /\ messages' = Append(messages, [role |-> "assistant", of |-> r])
    /\ records' = Append(records, r)
    /\ Goto(r, "recorded")
    /\ UNCHANGED <<at, session, history, prior, outcome, told, committed, reload>>

RowLocked_Mfor_good(s) == \E q \in Requests : session[q] = s /\ told[q] = "answer"

\* An update of the session's row waits for the transaction that updated it before.
RowLocked(s) == \E q \in Requests : session[q] = s /\ step[q] = "touched"

\* touch_session, and the response is sent.
TouchAndReply(r) ==
    /\ step[r] = "recorded" /\ ~RowLocked(session[r])
    /\ Goto(r, "touched") /\ Tell(r, "answer")
    /\ UNCHANGED <<at, session, history, prior, outcome, messages, records, committed, reload>>

-----------------------------------------------------------------------------
(* The end of the transaction                                              *)

\* get_db goes on after the response: a commit, or a connection lost before it.
Commit(r) ==
    /\ step[r] \in {"touched", "closing"}
    /\ \/ committed' = committed \cup {r}
       \/ UNCHANGED committed
    /\ Goto(r, "over")
    /\ UNCHANGED <<at, session, history, prior, outcome, told, messages, records, reload>>

\* Bootstrap or graph raise: ask turns it into an HTTPException, which rolls back;
\* ask_stream into an error event, after which get_db commits what there is.
Fail(r) ==
    /\ step[r] \in {"joined", "recalled", "running"}
    /\ Tell(r, "error")
    /\ Goto(r, IF r \in Streamed THEN "closing" ELSE "over")
    /\ UNCHANGED <<at, session, history, prior, outcome, messages, records, committed, reload>>

PersistFails_Mstream_commits(r) ==
    /\ step[r] \in {"asked", "recorded"}
    /\ Tell(r, "error")
    /\ Goto(r, IF r \in Streamed THEN "closing" ELSE "over")
    /\ UNCHANGED <<at, session, history, prior, outcome, messages, records, committed, reload>>

\* A flush of _persist_result fails.  SQLAlchemy has rolled the transaction back by
\* then, so that the commit after a stream's error event raises as well.
PersistFails(r) ==
    /\ step[r] \in {"asked", "recorded"}
    /\ Tell(r, "error") /\ Goto(r, "over")
    /\ UNCHANGED <<at, session, history, prior, outcome, messages, records, committed, reload>>

-----------------------------------------------------------------------------
(* get_session_detail                                                      *)

\* The session and its messages; the messages as the table gives them.
ReloadMessages(l) ==
    LET s == session[Reopens[l]] IN
    /\ reload[l].step = "new" /\ told[Reopens[l]] = "answer"
    /\ reload' = [reload EXCEPT ![l] =
         IF SessionExists(s)
         THEN [step |-> "records", messages |-> VisibleMessages(s), records |-> {}]
         ELSE [@ EXCEPT !.step = "not_found"]]
    /\ UNCHANGED <<step, at, session, history, prior, outcome, told, messages, records, committed>>

\* selectinload reads the query history in a statement of its own.
ReloadRecords(l) ==
    /\ reload[l].step = "records"
    /\ reload' = [reload EXCEPT ![l].step = "done",
         ![l].records = VisibleRecords(session[Reopens[l]])]
    /\ UNCHANGED <<step, at, session, history, prior, outcome, told, messages, records, committed>>

Before_Mskipped(times, i, j) == i < j

\* Row i comes before row j in sorted(rows, key=created_at), which is stable.
Before(times, i, j) == times[i] < times[j] \/ (times[i] = times[j] /\ i < j)

\* _build_turns makes a turn of every question, in that order; the request the turn shows
\* is the question's own.
Asked(l) == {i \in reload[l].messages : messages[i].role = "user"}

\* The answer of a turn: the next message, when it is one.
Answered(l, i) ==
    {messages[j].of : j \in {j \in reload[l].messages :
        /\ Before(MessageTimes, i, j) /\ messages[j].role = "assistant"
        /\ \A k \in reload[l].messages :
             ~(Before(MessageTimes, i, k) /\ Before(MessageTimes, k, j))}}

\* The record of a turn: every question takes the next of those with its wording.
Wording(i) == Question[messages[i].of]
SameAsked(l, i) == {j \in Asked(l) : Wording(j) = Wording(i)}
SameRecords(l, i) == {q \in reload[l].records : Question[records[q]] = Wording(i)}
Ran(l, i) ==
    LET nth == Cardinality({j \in SameAsked(l, i) : ~Before(MessageTimes, i, j)})
        Rank(q) == Cardinality({p \in SameRecords(l, i) : ~Before(RecordTimes, q, p)})
    IN {records[q] : q \in {q \in SameRecords(l, i) : Rank(q) = nth}}

-----------------------------------------------------------------------------
Proceed(r) ==
    \/ JoinSession(r) \/ LoadHistory(r) \/ LoadPriorSql(r)
    \/ AddQuestion(r) \/ AddAnswerAndRecord(r) \/ TouchAndReply(r) \/ Commit(r)

Next ==
    \/ \E r \in Requests : Begin(r) \/ Proceed(r) \/ Fail(r) \/ PersistFails(r)
    \/ \E l \in Reloads : ReloadMessages(l) \/ ReloadRecords(l)

Spec == Init /\ [][Next]_vars

\* The loop gets round to every request and the graph's calls have timeouts; a
\* client may never send one, and nothing has to fail.
FairSpec == Spec /\ \A r \in Requests : WF_vars(Proceed(r))

-----------------------------------------------------------------------------
(* Correctness                                                             *)

TypeOK ==
    /\ step \in [Requests -> Steps] /\ at \in [Requests -> 0..Cardinality(Requests)]
    /\ session \in [Requests -> Requests \cup {None}]
    /\ history \in [Requests -> Seq(MessageRows)]
    /\ prior \in [Requests -> Requests \cup {None}]
    /\ outcome \in [Requests -> Outcomes]
    /\ told \in [Requests -> {"nothing", "answer", "error"}]
    /\ messages \in Seq(MessageRows) /\ records \in Seq(Requests)
    /\ committed \subseteq Requests
    /\ \A l \in Reloads : reload[l].step \in {"new", "records", "not_found", "done"}

RowsOf(r) == {m.role : m \in {x \in ToSet(messages) : x.of = r}} \cup
             {"record" : q \in {x \in ToSet(records) : x = r}}

\* A turn is stored whole or not at all, and never one whose client was told of an
\* error: neither a failed flush nor the stream's swallowed exceptions leave a half.
TurnStoredWhole == \A r \in committed :
    RowsOf(r) = IF told[r] = "answer" THEN Roles \cup {"record"} ELSE {}

\* However transactions overlap, a reloaded conversation shows every question with
\* its own answer, in the order the questions were asked, and an SQL text that was
\* run for a question of the same wording.
TurnsPaired == \A l \in Reloads : reload[l].step = "done" =>
    /\ \A i \in Asked(l) :
         /\ Answered(l, i) = {messages[i].of}
         /\ \E q \in Requests : Ran(l, i) = {q} /\ Question[q] = Wording(i)
    /\ \A i, j \in Asked(l) : Before(MessageTimes, i, j) => MessageTimes[i] < MessageTimes[j]

\* prior_sql is read after the history: it is never older than the newest SQL the
\* history's turns led to, even when another request commits between the reads.
PriorSqlFresh == \A r \in Requests : step[r] = "running" =>
    \A i \in DOMAIN history[r] :
        LET q == history[r][i].of IN
        outcome[q] = "ok_sql" => prior[r] # None /\ at[q] <= at[prior[r]]

\* Whatever the others do, a request that began is over at some time: the lock on
\* the session's row is always given back.
RequestsEnd == \A r \in Requests : step[r] = "begun" ~> step[r] = "over"

-----------------------------------------------------------------------------
(* Statements of the repository that the code does not keep                *)

\* "alternating user/assistant history messages": the question of a turn comes
\* before its answer in the history a prompt is built from.
HistoryChronological == \A r \in Requests : \A i, j \in DOMAIN history[r] :
    (history[r][i].of = history[r][j].of /\ history[r][i].role = "user"
     /\ history[r][j].role = "assistant") => i < j

\* "Multi-turn sessions inject the last few chat turns into SQL generation": a
\* question that continues an answered one finds the session it was told of, unless
\* that answer's transaction failed to commit.
FollowUpFindsSession == \A r \in Requests :
    step[r] = "over" /\ session[r] = None =>
        step[Continues[r]] = "over" /\ Continues[r] \notin committed

\* "reconstructed turns (SQL + live results)": a reloaded turn shows the SQL that
\* was run for it.
TurnsShowOwnSql == \A l \in Reloads : reload[l].step = "done" =>
    \A i \in Asked(l) : Ran(l, i) = {messages[i].of}
=============================================================================
