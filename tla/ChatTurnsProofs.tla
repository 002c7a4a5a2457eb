--------------------------- MODULE ChatTurnsProofs ---------------------------
(***************************************************************************)
(* Theorems about ChatTurns, for any number of requests, sessions and      *)
(* reloads, and any interleaving of their transactions.                    *)
(***************************************************************************)
EXTENDS ChatTurns, FiniteSetTheorems, TLAPS

\* The tables hold messages and records of requests.
Tables ==
    /\ messages \in Seq(MessageRows) /\ records \in Seq(Requests)
    /\ step \in [Requests -> Steps]
    /\ told \in [Requests -> {"nothing", "answer", "error"}]
    /\ committed \subseteq Requests

Whole == Roles \cup {"record"}

\* The rows a request has flushed by the step it stands at, and what its client knows:
\* the two flushes leave half a turn between them, which nothing commits.
Flushed(r) ==
    /\ step[r] \in {"new", "begun", "joined", "recalled", "running", "closing"} => RowsOf(r) = {}
    /\ step[r] = "asked" => RowsOf(r) = {"user"}
    /\ step[r] \in {"recorded", "touched"} => RowsOf(r) = Whole
    /\ step[r] # "over" => r \notin committed
    /\ step[r] \in {"new", "begun", "joined", "recalled", "running", "asked", "recorded"} =>
         told[r] = "nothing"
    /\ step[r] = "touched" => told[r] = "answer"
    /\ step[r] = "closing" => told[r] = "error"
    /\ r \in committed => RowsOf(r) = IF told[r] = "answer" THEN Whole ELSE {}

Inductive == Tables /\ \A r \in Requests : Flushed(r)

-----------------------------------------------------------------------------
(* What the flushes add to the rows of a request                           *)

MessagesOf(r) == {m.role : m \in {x \in ToSet(messages) : x.of = r}}
RecordOf(r) == {"record" : q \in {x \in ToSet(records) : x = r}}

\* A flush of a message adds its role to the rows of its request, and to no other's.
LEMMA QuestionAdds ==
    ASSUME Tables, NEW r \in Requests, NEW role \in Roles,
           messages' = Append(messages, [role |-> role, of |-> r])
    PROVE  /\ messages' \in Seq(MessageRows)
           /\ MessagesOf(r)' = MessagesOf(r) \cup {role}
           /\ \A q \in Requests : q # r => MessagesOf(q)' = MessagesOf(q)
<1> DEFINE row == [role |-> role, of |-> r]
<1>1. row \in MessageRows /\ messages \in Seq(MessageRows) /\ row.role = role /\ row.of = r
  BY DEF Tables, MessageRows
<1> HIDE DEF row
<1>2. messages' = Append(messages, row)
  BY DEF row
<1>3. messages' \in Seq(MessageRows) /\ ToSet(messages)' = ToSet(messages) \cup {row}
  BY <1>1, <1>2 DEF ToSet
<1>4. \A q \in Requests : {x \in ToSet(messages)' : x.of = q}
          = {x \in ToSet(messages) : x.of = q} \cup (IF q = r THEN {row} ELSE {})
  BY <1>1, <1>3
<1>5. MessagesOf(r)' = MessagesOf(r) \cup {role}
  BY <1>1, <1>4 DEF MessagesOf
<1>6. ASSUME NEW q \in Requests, q # r
      PROVE  MessagesOf(q)' = MessagesOf(q)
  BY <1>4, <1>6 DEF MessagesOf
<1>7. QED
  BY <1>3, <1>5, <1>6

\* A flush of a record adds it to the rows of its request, and to no other's.
LEMMA RecordAdds ==
    ASSUME Tables, NEW r \in Requests, records' = Append(records, r)
    PROVE  /\ records' \in Seq(Requests) /\ RecordOf(r)' = {"record"}
           /\ \A q \in Requests : q # r => RecordOf(q)' = RecordOf(q)
<1>1. records' \in Seq(Requests) /\ ToSet(records)' = ToSet(records) \cup {r}
  BY DEF Tables, ToSet
<1>2. \A q \in Requests : q # r => {x \in ToSet(records)' : x = q} = {x \in ToSet(records) : x = q}
  BY <1>1
<1>3. QED
  BY <1>1, <1>2 DEF RecordOf

-----------------------------------------------------------------------------
(* The steps                                                               *)

\* A step of one request leaves the rows of the others as they are.
LEMMA OneMoves ==
    ASSUME Inductive, NEW r \in Requests, NEW to \in Steps, Goto(r, to),
           NEW what \in {"nothing", "answer", "error"},
           Tell(r, what) \/ (UNCHANGED told /\ told[r] = what),
           messages' \in Seq(MessageRows), records' \in Seq(Requests),
           committed' = committed \/ committed' = committed \cup {r},
           \A q \in Requests : q # r => RowsOf(q)' = RowsOf(q),
           step'[r] = to /\ told'[r] = what => Flushed(r)'
    PROVE  Inductive'
<1>1. /\ step' \in [Requests -> Steps] /\ told' \in [Requests -> {"nothing", "answer", "error"}]
      /\ step'[r] = to /\ told'[r] = what
      /\ \A q \in Requests : q # r => step'[q] = step[q] /\ told'[q] = told[q]
  BY DEF Inductive, Tables, Goto, Tell
<1>2. Tables'
  BY <1>1 DEF Inductive, Tables
<1>3. ASSUME NEW q \in Requests PROVE Flushed(q)'
  <2>1. CASE q = r
    BY <1>1, <2>1
  <2>2. CASE q # r
    <3>1. q \in committed' <=> q \in committed
      BY <2>2
    <3>2. QED
      BY <1>1, <2>2, <3>1 DEF Inductive, Flushed
  <2>3. QED
    BY <2>1, <2>2
<1>4. QED
  BY <1>2, <1>3 DEF Inductive

\* Every step keeps the invariant.
LEMMA StepKeeps == Inductive /\ [Next]_vars => Inductive'
<1> SUFFICES ASSUME Inductive, [Next]_vars PROVE Inductive'
  OBVIOUS
<1>1. Tables /\ (\A r \in Requests : Flushed(r) /\ step[r] \in Steps
                                    /\ told[r] \in {"nothing", "answer", "error"})
  BY DEF Inductive, Tables
<1>2. ASSUME UNCHANGED <<messages, records>>
      PROVE  /\ messages' \in Seq(MessageRows) /\ records' \in Seq(Requests)
             /\ \A q \in Requests : RowsOf(q)' = RowsOf(q)
  BY <1>1, <1>2 DEF Tables, RowsOf
<1>3. ASSUME NEW r \in Requests, Begin(r) PROVE Inductive'
  <2>1. /\ step[r] = "new" /\ Goto(r, "begun") /\ UNCHANGED <<told, messages, records, committed>>
    BY <1>3 DEF Begin
  <2>2. step'[r] = "begun" /\ told'[r] = told[r] => Flushed(r)'
    BY <1>1, <1>2, <2>1 DEF Flushed
  <2>3. QED
    BY <1>1, <1>2, <2>1, <2>2, OneMoves DEF Steps
<1>4. ASSUME NEW r \in Requests, JoinSession(r) PROVE Inductive'
  <2>1. step[r] = "begun" /\ UNCHANGED <<messages, records, committed>>
    BY <1>4 DEF JoinSession
  <2>2. PICK to \in {"joined", "over"} :
          Goto(r, to) /\ IF to = "joined" THEN UNCHANGED told ELSE Tell(r, "error")
    BY <1>4 DEF JoinSession
  <2>3. CASE to = "joined"
    <3>1. step'[r] = to /\ told'[r] = told[r] => Flushed(r)'
      BY <1>1, <1>2, <2>1, <2>3 DEF Flushed
    <3>2. QED
      BY <1>1, <1>2, <2>1, <2>2, <2>3, <3>1, OneMoves DEF Steps
  <2>4. CASE to = "over"
    <3>1. step'[r] = to /\ told'[r] = "error" => Flushed(r)'
      BY <1>1, <1>2, <2>1, <2>4 DEF Flushed
    <3>2. QED
      BY <1>1, <1>2, <2>1, <2>2, <2>4, <3>1, OneMoves DEF Steps
  <2>5. QED
    BY <2>3, <2>4
<1>5. ASSUME NEW r \in Requests, LoadHistory(r) \/ LoadPriorSql(r) PROVE Inductive'
  <2>1. /\ step[r] \in {"joined", "recalled"} /\ UNCHANGED <<told, messages, records, committed>>
        /\ Goto(r, "recalled") \/ Goto(r, "running")
    BY <1>5 DEF LoadHistory, LoadPriorSql
  <2>2. step'[r] \in {"recalled", "running"} /\ told'[r] = told[r] => Flushed(r)'
    BY <1>1, <1>2, <2>1 DEF Flushed
  <2>3. QED
    BY <1>1, <1>2, <2>1, <2>2, OneMoves DEF Steps
<1>6. ASSUME NEW r \in Requests, AddQuestion(r) PROVE Inductive'
  <2>1. /\ step[r] = "running" /\ messages' = Append(messages, [role |-> "user", of |-> r])
        /\ Goto(r, "asked") /\ UNCHANGED <<told, records, committed>>
    BY <1>6 DEF AddQuestion
  <2>2. /\ messages' \in Seq(MessageRows) /\ records' \in Seq(Requests)
        /\ MessagesOf(r)' = MessagesOf(r) \cup {"user"} /\ RecordOf(r)' = RecordOf(r)
        /\ \A q \in Requests : q # r => RowsOf(q)' = RowsOf(q)
    <3>1. \A q \in Requests : RecordOf(q)' = RecordOf(q)
      BY <2>1 DEF RecordOf
    <3>2. messages' \in Seq(MessageRows) /\ MessagesOf(r)' = MessagesOf(r) \cup {"user"}
          /\ \A q \in Requests : q # r => MessagesOf(q)' = MessagesOf(q)
      BY <1>1, <2>1, QuestionAdds DEF Roles
    <3>3. QED
      BY <1>1, <2>1, <3>1, <3>2 DEF Tables, RowsOf, MessagesOf, RecordOf
  <2>3. RowsOf(r)' = {"user"}
    BY <1>1, <2>1, <2>2 DEF Flushed, RowsOf, MessagesOf, RecordOf
  <2>4. step'[r] = "asked" /\ told'[r] = told[r] => Flushed(r)'
    BY <1>1, <2>1, <2>3 DEF Flushed
  <2>5. QED
    BY <1>1, <2>1, <2>2, <2>4, OneMoves DEF Steps
<1>7. ASSUME NEW r \in Requests, AddAnswerAndRecord(r) PROVE Inductive'
  <2>1. /\ step[r] = "asked" /\ messages' = Append(messages, [role |-> "assistant", of |-> r])
        /\ records' = Append(records, r)
        /\ Goto(r, "recorded") /\ UNCHANGED <<told, committed>>
    BY <1>7 DEF AddAnswerAndRecord
  <2>2. messages' \in Seq(MessageRows) /\ MessagesOf(r)' = MessagesOf(r) \cup {"assistant"}
        /\ \A q \in Requests : q # r => MessagesOf(q)' = MessagesOf(q)
    BY <1>1, <2>1, QuestionAdds DEF Roles
  <2>3. records' \in Seq(Requests) /\ RecordOf(r)' = {"record"}
        /\ \A q \in Requests : q # r => RecordOf(q)' = RecordOf(q)
    BY <1>1, <2>1, RecordAdds
  <2>4. \A q \in Requests : q # r => RowsOf(q)' = RowsOf(q)
    BY <2>2, <2>3 DEF RowsOf, MessagesOf, RecordOf
  <2>5. RowsOf(r)' = Whole
    <3>1. RowsOf(r) = MessagesOf(r) \cup RecordOf(r) /\ RowsOf(r)' = MessagesOf(r)' \cup RecordOf(r)'
      BY DEF RowsOf, MessagesOf, RecordOf
    <3>2. RowsOf(r) = {"user"}
      BY <1>1, <2>1 DEF Flushed
    <3>3. "record" \notin MessagesOf(r) => MessagesOf(r) = {"user"}
      BY <3>1, <3>2 DEF RecordOf
    <3>4. QED
      BY <2>2, <2>3, <3>1, <3>2, <3>3 DEF Whole, Roles
  <2>6. step'[r] = "recorded" /\ told'[r] = told[r] => Flushed(r)'
    BY <1>1, <2>1, <2>5 DEF Flushed
  <2>7. QED
    BY <1>1, <2>1, <2>2, <2>3, <2>4, <2>6, OneMoves DEF Steps
<1>8. ASSUME NEW r \in Requests, TouchAndReply(r) PROVE Inductive'
  <2>1. /\ step[r] = "recorded" /\ Goto(r, "touched") /\ Tell(r, "answer")
        /\ UNCHANGED <<messages, records, committed>>
    BY <1>8 DEF TouchAndReply
  <2>2. step'[r] = "touched" /\ told'[r] = "answer" => Flushed(r)'
    BY <1>1, <1>2, <2>1 DEF Flushed
  <2>3. QED
    BY <1>1, <1>2, <2>1, <2>2, OneMoves DEF Steps
<1>9. ASSUME NEW r \in Requests, Commit(r) PROVE Inductive'
  <2>1. /\ step[r] \in {"touched", "closing"} /\ Goto(r, "over")
        /\ committed' = committed \/ committed' = committed \cup {r}
        /\ UNCHANGED <<told, messages, records>>
    BY <1>9 DEF Commit
  <2>2. step'[r] = "over" /\ told'[r] = told[r] => Flushed(r)'
    BY <1>1, <1>2, <2>1 DEF Flushed
  <2>3. QED
    BY <1>1, <1>2, <2>1, <2>2, OneMoves DEF Steps
<1>10. ASSUME NEW r \in Requests, Fail(r) \/ PersistFails(r) PROVE Inductive'
  <2>1. /\ step[r] \in {"joined", "recalled", "running", "asked", "recorded"} /\ Tell(r, "error")
        /\ UNCHANGED <<messages, records, committed>>
    BY <1>10 DEF Fail, PersistFails
  <2>2. PICK to \in {"closing", "over"} :
          Goto(r, to) /\ (to = "closing" => step[r] \in {"joined", "recalled", "running"})
    BY <1>10 DEF Fail, PersistFails
  <2>3. step'[r] = to /\ told'[r] = "error" => Flushed(r)'
    BY <1>1, <1>2, <2>1, <2>2 DEF Flushed
  <2>4. QED
    BY <1>1, <1>2, <2>1, <2>2, <2>3, OneMoves DEF Steps
<1>11. ASSUME UNCHANGED <<step, told, messages, records, committed>> PROVE Inductive'
  BY <1>11 DEF Inductive, Tables, Flushed, RowsOf
<1>12. ASSUME NEW l \in Reloads, ReloadMessages(l) \/ ReloadRecords(l) PROVE Inductive'
  BY <1>11, <1>12 DEF ReloadMessages, ReloadRecords
<1>13. CASE UNCHANGED vars
  BY <1>11, <1>13 DEF vars
<1>14. QED
  BY <1>3, <1>4, <1>5, <1>6, <1>7, <1>8, <1>9, <1>10, <1>12, <1>13 DEF Next, Proceed

\* No request has flushed anything at first.
LEMMA InitHolds == Init => Inductive
<1> SUFFICES ASSUME Init PROVE Inductive
  OBVIOUS
<1>1. Tables
  BY DEF Init, Tables, Steps
<1>2. ASSUME NEW r \in Requests PROVE RowsOf(r) = {}
  BY DEF Init, RowsOf, ToSet
<1>3. QED
  BY <1>1, <1>2 DEF Init, Inductive, Flushed

-----------------------------------------------------------------------------
(* Theorems                                                                *)

\* _persist_result under get_db: whatever fails, and however requests overlap, a turn is
\* committed with its question, its answer and its record or with none of them, and with
\* none when its client was told of an error.
THEOREM TurnStoredWholeHolds == Spec => []TurnStoredWhole
<1>1. Spec => []Inductive
  BY InitHolds, StepKeeps, PTL DEF Spec
<1>2. Inductive => TurnStoredWhole
  BY DEF Inductive, Tables, Flushed, TurnStoredWhole, Whole
<1>3. QED
  BY <1>1, <1>2, PTL

-----------------------------------------------------------------------------
(* Types                                                                   *)

Reread == [step : {"new", "records", "not_found", "done"}, messages : SUBSET Nat,
           records : SUBSET Nat]

Types ==
    /\ at \in [Requests -> Nat] /\ session \in [Requests -> Requests \cup {None}]
    /\ history \in [Requests -> Seq(MessageRows)]
    /\ prior \in [Requests -> Requests \cup {None}]
    /\ outcome \in [Requests -> Outcomes] /\ reload \in [Reloads -> Reread]

\* The places of a table are finitely many numbers, and so are those a statement sees.
LEMMA VisiblePlaces ==
    ASSUME Tables, NEW s
    PROVE  /\ VisibleMessages(s) \subseteq DOMAIN messages /\ IsFiniteSet(VisibleMessages(s))
           /\ VisibleRecords(s) \subseteq DOMAIN records /\ IsFiniteSet(VisibleRecords(s))
           /\ DOMAIN messages \subseteq Nat /\ DOMAIN records \subseteq Nat
<1>1. /\ DOMAIN messages = 1 .. Len(messages) /\ Len(messages) \in Nat
      /\ DOMAIN records = 1 .. Len(records) /\ Len(records) \in Nat
  BY DEF Tables
<1>2. IsFiniteSet(DOMAIN messages) /\ IsFiniteSet(DOMAIN records)
  BY <1>1, FS_Interval
<1>3. VisibleMessages(s) \subseteq DOMAIN messages /\ VisibleRecords(s) \subseteq DOMAIN records
  BY DEF VisibleMessages, VisibleRecords
<1>4. QED
  BY <1>1, <1>2, <1>3, FS_Subset

\* What load_history finds is messages the session's committed requests stored.
LEMMA RecalledRows ==
    ASSUME Tables, NEW s, NEW rows \in Recalled(s)
    PROVE  /\ rows \in Seq(MessageRows)
           /\ \A k \in DOMAIN rows : \E i \in VisibleMessages(s) : rows[k] = messages[i]
<1> DEFINE n == IF Cardinality(VisibleMessages(s)) < HistoryLimit
                THEN Cardinality(VisibleMessages(s)) ELSE HistoryLimit
<1>1. n \in Nat
  BY VisiblePlaces, FS_CardinalityType, LimitAssumption
<1>2. PICK pick \in [1 .. n -> VisibleMessages(s)] : rows = [k \in 1 .. n |-> messages[pick[k]]]
  BY DEF Recalled
<1> HIDE DEF n
<1>3. \A i \in VisibleMessages(s) : messages[i] \in MessageRows
  BY VisiblePlaces DEF Tables
<1>4. \A k \in 1 .. n : pick[k] \in VisibleMessages(s) /\ rows[k] = messages[pick[k]]
  BY <1>2
<1>5. rows \in [1 .. n -> MessageRows]
  BY <1>2, <1>3, <1>4
<1>6. rows \in Seq(MessageRows)
  BY <1>1, <1>5
<1>7. QED
  BY <1>4, <1>5, <1>6

LEMMA InitTyped == Init => Types
BY DEF Init, Types, Reread, Outcomes

\* Every step keeps the types.
LEMMA TypesKeep == Inductive /\ Types /\ [Next]_vars => Types'
<1> SUFFICES ASSUME Inductive, Types, [Next]_vars PROVE Types'
  OBVIOUS
<1>1. /\ Tables /\ committed \subseteq Requests
      /\ at \in [Requests -> Nat] /\ session \in [Requests -> Requests \cup {None}]
      /\ history \in [Requests -> Seq(MessageRows)]
      /\ prior \in [Requests -> Requests \cup {None}]
      /\ outcome \in [Requests -> Outcomes] /\ reload \in [Reloads -> Reread]
  BY DEF Inductive, Tables, Types
<1>2. ASSUME NEW r \in Requests, Begin(r) PROVE Types'
  <2>1. {q \in Requests : at[q] > 0} \in SUBSET Requests
    OBVIOUS
  <2>2. Cardinality({q \in Requests : at[q] > 0}) \in Nat
    BY <2>1, RequestsAssumption, FS_Subset, FS_CardinalityType
  <2>3. at' = [at EXCEPT ![r] = 1 + Cardinality({q \in Requests : at[q] > 0})]
        /\ UNCHANGED <<session, history, prior, outcome, reload>>
    BY <1>2 DEF Begin
  <2>4. 1 + Cardinality({q \in Requests : at[q] > 0}) \in Nat
    BY <2>2
  <2>5. at' \in [Requests -> Nat]
    BY <1>1, <2>3, <2>4
  <2>6. QED
    BY <1>1, <2>3, <2>5 DEF Types
<1>3. ASSUME NEW r \in Requests, JoinSession(r) PROVE Types'
  <2>1. session' \in [Requests -> Requests \cup {None}]
    BY <1>1, <1>3 DEF JoinSession, SessionExists
  <2>2. QED
    BY <1>1, <1>3, <2>1 DEF JoinSession, Types
<1>4. ASSUME NEW r \in Requests, LoadHistory(r) PROVE Types'
  <2>1. PICK rows \in Recalled(session[r]) : history' = [history EXCEPT ![r] = rows]
    BY <1>4 DEF LoadHistory
  <2>2. rows \in Seq(MessageRows)
    BY <1>1, RecalledRows
  <2>3. history' \in [Requests -> Seq(MessageRows)]
    BY <1>1, <2>1, <2>2
  <2>4. QED
    BY <1>1, <1>4, <2>3 DEF LoadHistory, Types
<1>5. ASSUME NEW r \in Requests, LoadPriorSql(r) PROVE Types'
  <2>1. PICK q \in Requests \cup {None} : prior' = [prior EXCEPT ![r] = q]
    <3>1. NewestWithSql(session[r]) \subseteq Requests
      BY <1>1 DEF NewestWithSql, WithSql, Visible
    <3>2. QED
      BY <1>5, <3>1 DEF LoadPriorSql
  <2>2. prior' \in [Requests -> Requests \cup {None}]
    BY <1>1, <2>1
  <2>3. QED
    BY <1>1, <1>5, <2>2 DEF LoadPriorSql, Types
<1>6. ASSUME NEW r \in Requests, AddQuestion(r) PROVE Types'
  <2>1. outcome' \in [Requests -> Outcomes]
    BY <1>1, <1>6 DEF AddQuestion
  <2>2. QED
    BY <1>1, <1>6, <2>1 DEF AddQuestion, Types
<1>7. ASSUME NEW r \in Requests,
             \/ AddAnswerAndRecord(r) \/ TouchAndReply(r) \/ Commit(r) \/ Fail(r) \/ PersistFails(r)
      PROVE  Types'
  BY <1>1, <1>7 DEF AddAnswerAndRecord, TouchAndReply, Commit, Fail, PersistFails, Types
<1>8. ASSUME NEW l \in Reloads, ReloadMessages(l) \/ ReloadRecords(l) PROVE Types'
  <2>1. UNCHANGED <<at, session, history, prior, outcome>>
    BY <1>8 DEF ReloadMessages, ReloadRecords
  <2>2. PICK row \in Reread : reload' = [reload EXCEPT ![l] = row]
    <3>1. \A s : VisibleMessages(s) \subseteq Nat /\ VisibleRecords(s) \subseteq Nat
      BY <1>1, VisiblePlaces
    <3>2. reload[l] \in Reread
      BY <1>1
    <3>3. CASE ReloadMessages(l)
      <4>1. \A s : [step |-> "records", messages |-> VisibleMessages(s), records |-> {}] \in Reread
        BY <3>1 DEF Reread
      <4>2. [reload[l] EXCEPT !.step = "not_found"] \in Reread
        BY <3>2 DEF Reread
      <4>3. QED
        BY <3>3, <4>1, <4>2 DEF ReloadMessages
    <3>4. CASE ReloadRecords(l)
      <4>1. [reload[l] EXCEPT !.step = "done", !.records = VisibleRecords(session[Reopens[l]])] \in Reread
        BY <3>1, <3>2 DEF Reread
      <4>2. reload' = [reload EXCEPT ![l] =
              [reload[l] EXCEPT !.step = "done", !.records = VisibleRecords(session[Reopens[l]])]]
        BY <1>1, <3>2, <3>4 DEF ReloadRecords, Reread
      <4>3. QED
        BY <4>1, <4>2
    <3>5. QED
      BY <1>8, <3>3, <3>4
  <2>3. reload' \in [Reloads -> Reread]
    BY <1>1, <2>2
  <2>4. QED
    BY <1>1, <2>1, <2>3 DEF Types
<1>9. CASE UNCHANGED vars
  BY <1>1, <1>9 DEF vars, Types
<1>10. QED
  BY <1>2, <1>3, <1>4, <1>5, <1>6, <1>7, <1>8, <1>9 DEF Next, Proceed

-----------------------------------------------------------------------------
(* What overlapping transactions leave behind                              *)

\* The time a transaction began tells it from every other.
Begun == {q \in Requests : at[q] > 0}
Times ==
    /\ \A q \in Requests : at[q] = 0 <=> step[q] = "new"
    /\ \A q \in Requests : at[q] <= Cardinality(Begun)
    /\ \A p, q \in Begun : at[p] = at[q] => p = q

\* A request stores one question, one answer after it and one record.
RowsOnce ==
    /\ \A i, j \in DOMAIN messages : messages[i] = messages[j] => i = j
    /\ \A i, j \in DOMAIN messages :
         messages[i].of = messages[j].of /\ messages[i].role = "user"
         /\ messages[j].role = "assistant" => i < j
    /\ \A i, j \in DOMAIN records : records[i] = records[j] => i = j

\* A history is of turns of the request's session that are stored whole, and the SQL found
\* with it is of that session and no older than theirs.
Remembered(r) ==
    /\ step[r] \in {"recalled", "running"} => \A i \in DOMAIN history[r] :
         history[r][i].of \in Visible(session[r]) /\ history[r][i].of \in ToSet(records)
    /\ step[r] = "running" =>
         /\ prior[r] # None => prior[r] \in Visible(session[r])
         /\ \A i \in DOMAIN history[r] : outcome[history[r][i].of] = "ok_sql" =>
              prior[r] # None /\ at[history[r][i].of] <= at[prior[r]]

\* A reload has read, of every request it saw, all the messages, and later its record.
Rereads == \A l \in Reloads : reload[l].step \in {"records", "done"} =>
    /\ told[Reopens[l]] = "answer"
    /\ \A i \in reload[l].messages :
         i \in DOMAIN messages /\ messages[i].of \in Visible(session[Reopens[l]])
    /\ \A i \in reload[l].messages, j \in DOMAIN messages :
         messages[j].of = messages[i].of => j \in reload[l].messages
    /\ reload[l].step = "done" =>
         /\ \A q \in reload[l].records : q \in DOMAIN records
         /\ \A i \in reload[l].messages :
              \E q \in reload[l].records : records[q] = messages[i].of

Deep == Types /\ Times /\ RowsOnce /\ (\A r \in Requests : Remembered(r)) /\ Rereads

-----------------------------------------------------------------------------
(* What a step leaves alone                                                *)

\* The tables grow; a request that is over keeps what it was, one that joined keeps its
\* session, one that began keeps its time; and an answer cannot be taken back.
Grows ==
    /\ committed \subseteq committed'
    /\ \A i \in DOMAIN messages : i \in DOMAIN messages' /\ messages'[i] = messages[i]
    /\ \A i \in DOMAIN messages' : i \in DOMAIN messages \/ step[messages'[i].of] # "over"
    /\ \A i \in DOMAIN records : i \in DOMAIN records' /\ records'[i] = records[i]
    /\ \A q \in Requests :
         /\ step[q] = "over" => step'[q] = "over" /\ outcome'[q] = outcome[q]
         /\ step[q] \notin {"new", "begun"} =>
              step'[q] \notin {"new", "begun"} /\ session'[q] = session[q]
         /\ step[q] # "new" => step'[q] # "new" /\ at'[q] = at[q]
         /\ told[q] = "answer" => told'[q] = "answer"

\* A row at the end of a table moves no other.
LEMMA AppendGrows ==
    ASSUME NEW S, NEW t \in Seq(S), NEW x \in S
    PROVE  /\ \A i \in DOMAIN t : i \in DOMAIN Append(t, x) /\ Append(t, x)[i] = t[i]
           /\ \A i \in DOMAIN Append(t, x) : i \in DOMAIN t \/ (i = Len(t) + 1 /\ Append(t, x)[i] = x)
           /\ Len(t) + 1 \in DOMAIN Append(t, x) /\ Len(t) + 1 \notin DOMAIN t
           /\ \A i \in DOMAIN t : i < Len(t) + 1
OBVIOUS

\* No step does more than that.
LEMMA StepGrows == Inductive /\ Types /\ [Next]_vars => Grows
<1> SUFFICES ASSUME Inductive, Types, [Next]_vars PROVE Grows
  OBVIOUS
<1>1. /\ Tables /\ step \in [Requests -> Steps]
      /\ told \in [Requests -> {"nothing", "answer", "error"}]
      /\ at \in [Requests -> Nat] /\ session \in [Requests -> Requests \cup {None}]
      /\ outcome \in [Requests -> Outcomes]
      /\ messages \in Seq(MessageRows) /\ records \in Seq(Requests)
      /\ \A r \in Requests : Flushed(r)
  BY DEF Inductive, Tables, Types
<1>2. ASSUME UNCHANGED <<messages, records>>
      PROVE  /\ \A i \in DOMAIN messages : i \in DOMAIN messages' /\ messages'[i] = messages[i]
             /\ \A i \in DOMAIN messages' : i \in DOMAIN messages
             /\ \A i \in DOMAIN records : i \in DOMAIN records' /\ records'[i] = records[i]
  BY <1>2
<1>3. ASSUME NEW r \in Requests, Begin(r) PROVE Grows
  <2>1. /\ step[r] = "new" /\ step' = [step EXCEPT ![r] = "begun"]
        /\ \E n : at' = [at EXCEPT ![r] = n]
        /\ UNCHANGED <<session, outcome, told, messages, records, committed>>
    BY <1>3 DEF Begin, Goto
  <2>2. QED
    BY <1>1, <1>2, <2>1 DEF Grows
<1>4. ASSUME NEW r \in Requests, JoinSession(r) PROVE Grows
  <2>1. /\ step[r] = "begun" /\ \E to \in {"joined", "over"} : step' = [step EXCEPT ![r] = to]
        /\ \A q \in Requests : q # r => session'[q] = session[q]
        /\ told' = told \/ (told' = [told EXCEPT ![r] = "error"])
        /\ UNCHANGED <<at, outcome, messages, records, committed>>
    BY <1>1, <1>4 DEF JoinSession, Goto, Tell
  <2>2. told[r] = "nothing"
    BY <1>1, <2>1 DEF Flushed
  <2>3. QED
    BY <1>1, <1>2, <2>1, <2>2 DEF Grows
<1>5. ASSUME NEW r \in Requests, LoadHistory(r) \/ LoadPriorSql(r) PROVE Grows
  <2>1. /\ step[r] \in {"joined", "recalled"}
        /\ \E to \in {"recalled", "running"} : step' = [step EXCEPT ![r] = to]
        /\ UNCHANGED <<at, session, outcome, told, messages, records, committed>>
    BY <1>5 DEF LoadHistory, LoadPriorSql, Goto
  <2>2. QED
    BY <1>1, <1>2, <2>1 DEF Grows
<1>6. ASSUME NEW r \in Requests, AddQuestion(r) \/ AddAnswerAndRecord(r) PROVE Grows
  <2>1. /\ step[r] \in {"running", "asked"}
        /\ \E to \in {"asked", "recorded"} : step' = [step EXCEPT ![r] = to]
        /\ \E o : outcome' = [outcome EXCEPT ![r] = o] \/ outcome' = outcome
        /\ records' = records \/ records' = Append(records, r)
        /\ UNCHANGED <<at, session, told, committed>>
    BY <1>6 DEF AddQuestion, AddAnswerAndRecord, Goto
  <2>2. PICK row \in MessageRows : row.of = r /\ messages' = Append(messages, row)
    <3>1. PICK role \in Roles : messages' = Append(messages, [role |-> role, of |-> r])
      BY <1>6 DEF AddQuestion, AddAnswerAndRecord, Roles
    <3>2. [role |-> role, of |-> r] \in MessageRows /\ [role |-> role, of |-> r].of = r
      BY DEF MessageRows
    <3>3. QED
      BY <3>1, <3>2
  <2>3. /\ \A i \in DOMAIN messages : i \in DOMAIN messages' /\ messages'[i] = messages[i]
        /\ \A i \in DOMAIN messages' : i \in DOMAIN messages \/ messages'[i] = row
    BY <1>1, <2>2, AppendGrows
  <2>4. \A i \in DOMAIN records : i \in DOMAIN records' /\ records'[i] = records[i]
    BY <1>1, <2>1, AppendGrows
  <2>5. \A q \in Requests : q # r => step'[q] = step[q] /\ outcome'[q] = outcome[q]
    BY <1>1, <2>1
  <2>6. step'[r] \in {"asked", "recorded"}
    BY <1>1, <2>1
  <2>7. QED
    BY <2>1, <2>2, <2>3, <2>4, <2>5, <2>6 DEF Grows
<1>7. ASSUME NEW r \in Requests, TouchAndReply(r) \/ Fail(r) \/ PersistFails(r) PROVE Grows
  <2>1. /\ step[r] \in {"joined", "recalled", "running", "asked", "recorded"}
        /\ \E to \in {"touched", "closing", "over"} : step' = [step EXCEPT ![r] = to]
        /\ \E what : told' = [told EXCEPT ![r] = what]
        /\ UNCHANGED <<at, session, outcome, messages, records, committed>>
    BY <1>7 DEF TouchAndReply, Fail, PersistFails, Goto, Tell
  <2>2. told[r] = "nothing"
    BY <1>1, <2>1 DEF Flushed
  <2>3. QED
    BY <1>1, <1>2, <2>1, <2>2 DEF Grows
<1>8. ASSUME NEW r \in Requests, Commit(r) PROVE Grows
  <2>1. /\ step[r] \in {"touched", "closing"} /\ step' = [step EXCEPT ![r] = "over"]
        /\ committed \subseteq committed'
        /\ UNCHANGED <<at, session, outcome, told, messages, records>>
    BY <1>8 DEF Commit, Goto
  <2>2. QED
    BY <1>1, <1>2, <2>1 DEF Grows
<1>9. CASE UNCHANGED <<step, at, session, outcome, told, messages, records, committed>>
  BY <1>2, <1>9 DEF Grows
<1>10. ASSUME NEW l \in Reloads, ReloadMessages(l) \/ ReloadRecords(l) PROVE Grows
  BY <1>9, <1>10 DEF ReloadMessages, ReloadRecords
<1>11. CASE UNCHANGED vars
  BY <1>9, <1>11 DEF vars
<1>12. QED
  BY <1>3, <1>4, <1>5, <1>6, <1>7, <1>8, <1>10, <1>11 DEF Next, Proceed

\* What was visible stays visible.
LEMMA VisibleStays ==
    ASSUME Inductive, Grows, NEW s, NEW q \in Visible(s)
    PROVE  /\ q \in Requests /\ step[q] = "over" /\ q \in committed' /\ session'[q] = s
           /\ outcome'[q] = outcome[q] /\ at'[q] = at[q]
<1>1. q \in committed /\ session[q] = s /\ q \in Requests
  BY DEF Visible, Inductive, Tables
<1>2. step[q] = "over"
  BY <1>1 DEF Inductive, Flushed
<1>3. QED
  BY <1>1, <1>2 DEF Grows

-----------------------------------------------------------------------------
(* The parts of the invariant                                              *)

\* A transaction begins later than those that began.
LEMMA TimesKeep == ASSUME Inductive, Deep, [Next]_vars PROVE Times'
<1>1. at \in [Requests -> Nat] /\ step \in [Requests -> Steps] /\ Times
  BY DEF Inductive, Deep, Tables, Types
<1>2. IsFiniteSet(Begun) /\ Cardinality(Begun) \in Nat
  BY RequestsAssumption, FS_Subset, FS_CardinalityType DEF Begun
<1>3. ASSUME UNCHANGED at, \A q \in Requests : step'[q] = "new" <=> step[q] = "new" PROVE Times'
  BY <1>1, <1>3 DEF Times, Begun
<1>4. ASSUME NEW r \in Requests, Begin(r) PROVE Times'
  <2>1. /\ step[r] = "new" /\ step' = [step EXCEPT ![r] = "begun"]
        /\ at' = [at EXCEPT ![r] = 1 + Cardinality(Begun)]
    BY <1>4 DEF Begin, Goto, Begun
  <2>2. r \notin Begun
    BY <1>1, <2>1 DEF Times, Begun
  <2>3. /\ at'[r] = 1 + Cardinality(Begun) /\ step'[r] = "begun"
        /\ \A q \in Requests : q # r => at'[q] = at[q] /\ step'[q] = step[q]
    BY <1>1, <2>1
  <2>4. Begun' = Begun \cup {r}
    BY <1>2, <2>3 DEF Begun
  <2>5. Cardinality(Begun') = Cardinality(Begun) + 1
    BY <1>2, <2>2, <2>4, FS_AddElement
  <2>6. \A q \in Requests : at[q] \in Nat /\ at[q] <= Cardinality(Begun)
    BY <1>1 DEF Times
  <2>7. \A q \in Requests : at'[q] = 0 <=> step'[q] = "new"
    BY <1>1, <1>2, <2>3 DEF Times
  <2>8. \A q \in Requests : at'[q] <= Cardinality(Begun')
    BY <1>2, <2>3, <2>5, <2>6
  <2>9. \A p, q \in Begun' : at'[p] = at'[q] => p = q
    <3> SUFFICES ASSUME NEW p \in Begun', NEW q \in Begun', at'[p] = at'[q], p # q PROVE FALSE
      OBVIOUS
    <3>1. p \in Requests /\ q \in Requests
      BY DEF Begun
    <3>2. CASE p = r \/ q = r
      BY <1>2, <2>3, <2>6, <3>1, <3>2
    <3>3. CASE p # r /\ q # r
      BY <1>1, <2>3, <2>4, <3>1, <3>3 DEF Times
    <3>4. QED
      BY <3>2, <3>3
  <2>10. QED
    BY <2>7, <2>8, <2>9 DEF Times
<1>5. ASSUME NEW r \in Requests, Proceed(r) \/ Fail(r) \/ PersistFails(r) PROVE Times'
  <2>1. /\ step[r] # "new" /\ UNCHANGED at
        /\ \E to \in Steps \ {"new"} : step' = [step EXCEPT ![r] = to]
    BY <1>5 DEF Proceed, JoinSession, LoadHistory, LoadPriorSql, AddQuestion, AddAnswerAndRecord,
       TouchAndReply, Commit, Fail, PersistFails, Goto, Steps
  <2>2. \A q \in Requests : step'[q] = "new" <=> step[q] = "new"
    BY <1>1, <2>1
  <2>3. QED
    BY <1>3, <2>1, <2>2
<1>6. CASE (\E l \in Reloads : ReloadMessages(l) \/ ReloadRecords(l)) \/ UNCHANGED vars
  <2>1. UNCHANGED <<at, step>>
    BY <1>6 DEF ReloadMessages, ReloadRecords, vars
  <2>2. QED
    BY <1>3, <2>1
<1>7. QED
  BY <1>4, <1>5, <1>6 DEF Next

\* RowsOf lists what the tables hold of a request.
LEMMA RowsListed ==
    ASSUME Tables
    PROVE  /\ \A i \in DOMAIN messages :
                messages[i] \in MessageRows /\ messages[i].role \in RowsOf(messages[i].of)
           /\ \A i \in DOMAIN records : records[i] \in Requests /\ "record" \in RowsOf(records[i])
           /\ \A r, role : role \in RowsOf(r) /\ role # "record" =>
                \E i \in DOMAIN messages : messages[i].of = r /\ messages[i].role = role
           /\ \A r : "record" \in RowsOf(r) => \E i \in DOMAIN records : records[i] = r
<1>1. /\ messages \in Seq(MessageRows) /\ records \in Seq(Requests)
      /\ ToSet(messages) = {messages[i] : i \in DOMAIN messages}
      /\ ToSet(records) = {records[i] : i \in DOMAIN records}
  BY DEF Tables, ToSet
<1>2. \A i \in DOMAIN messages : messages[i] \in MessageRows
  BY <1>1
<1>3. \A i \in DOMAIN records : records[i] \in Requests
  BY <1>1
<1>4. \A i \in DOMAIN messages : messages[i].role \in MessagesOf(messages[i].of)
  BY <1>1 DEF MessagesOf
<1>5. \A i \in DOMAIN records : "record" \in RecordOf(records[i])
  BY <1>1 DEF RecordOf
<1>6. \A r : RowsOf(r) = MessagesOf(r) \cup RecordOf(r)
  BY DEF RowsOf, MessagesOf, RecordOf
<1>7. ASSUME NEW r, NEW role, role \in RowsOf(r), role # "record"
      PROVE  \E i \in DOMAIN messages : messages[i].of = r /\ messages[i].role = role
  <2>1. role \in MessagesOf(r)
    BY <1>6, <1>7 DEF RecordOf
  <2>2. QED
    BY <1>1, <2>1 DEF MessagesOf
<1>8. ASSUME NEW r, "record" \in RowsOf(r) PROVE \E i \in DOMAIN records : records[i] = r
  <2>1. "record" \notin MessagesOf(r)
    <3>1. \A x \in MessageRows : x.role # "record"
      BY DEF MessageRows, Roles
    <3>2. QED
      BY <1>1, <1>2, <3>1 DEF MessagesOf
  <2>2. "record" \in RecordOf(r)
    BY <1>6, <1>8, <2>1
  <2>3. QED
    BY <1>1, <2>2 DEF RecordOf
<1>9. QED
  BY <1>2, <1>3, <1>4, <1>5, <1>6, <1>7, <1>8

\* A request of which a message or a record is visible is stored whole.
LEMMA VisibleWhole ==
    ASSUME Inductive, NEW q \in committed, RowsOf(q) # {}
    PROVE  RowsOf(q) = Whole /\ step[q] = "over" /\ q \in Requests
<1>1. q \in Requests /\ Flushed(q)
  BY DEF Inductive, Tables
<1>2. QED
  BY <1>1 DEF Flushed

\* A flush adds the row its request does not have.
LEMMA RowsKeep == ASSUME Inductive, Deep, [Next]_vars PROVE RowsOnce'
<1>1. /\ Tables /\ messages \in Seq(MessageRows) /\ records \in Seq(Requests) /\ RowsOnce
      /\ \A r \in Requests : Flushed(r)
  BY DEF Inductive, Deep, Tables
<1>2. ASSUME NEW r \in Requests, NEW role \in Roles, role \notin RowsOf(r),
             role = "user" => "assistant" \notin RowsOf(r),
             messages' = Append(messages, [role |-> role, of |-> r])
      PROVE  /\ \A i, j \in DOMAIN messages' : messages'[i] = messages'[j] => i = j
             /\ \A i, j \in DOMAIN messages' :
                  messages'[i].of = messages'[j].of /\ messages'[i].role = "user"
                  /\ messages'[j].role = "assistant" => i < j
  <2> DEFINE row == [role |-> role, of |-> r]
             last == Len(messages) + 1
  <2>1. row \in MessageRows /\ row.role = role /\ row.of = r
    BY DEF MessageRows
  <2> HIDE DEF row
  <2>2. /\ \A i \in DOMAIN messages : i \in DOMAIN messages' /\ messages'[i] = messages[i]
        /\ \A i \in DOMAIN messages' : i \in DOMAIN messages \/ (i = last /\ messages'[i] = row)
        /\ \A i \in DOMAIN messages : i < last
    BY <1>1, <1>2, <2>1, AppendGrows DEF row
  <2> HIDE DEF last
  <2>3. \A i \in DOMAIN messages : messages[i].role \in RowsOf(messages[i].of)
    BY <1>1, RowsListed
  <2>4. \A i \in DOMAIN messages : messages[i].of = r => messages[i].role # role
    BY <1>2, <2>3
  <2>5. \A i \in DOMAIN messages : messages[i].of = r /\ role = "user" => messages[i].role # "assistant"
    BY <1>2, <2>3
  <2>6. \A i, j \in DOMAIN messages' : messages'[i] = messages'[j] => i = j
    BY <1>1, <2>1, <2>2, <2>4 DEF RowsOnce
  <2>7. ASSUME NEW i \in DOMAIN messages', NEW j \in DOMAIN messages',
               messages'[i].of = messages'[j].of, messages'[i].role = "user",
               messages'[j].role = "assistant"
        PROVE  i < j
    <3>1. CASE i \in DOMAIN messages /\ j \in DOMAIN messages
      BY <1>1, <2>2, <2>7, <3>1 DEF RowsOnce
    <3>2. CASE i \in DOMAIN messages /\ j \notin DOMAIN messages
      BY <2>2, <3>2
    <3>3. CASE i \notin DOMAIN messages
      <4>1. role = "user" /\ messages'[j].of = r
        BY <2>1, <2>2, <2>7, <3>3
      <4>2. j \in DOMAIN messages
        BY <2>1, <2>2, <2>7, <4>1
      <4>3. QED
        BY <2>2, <2>5, <2>7, <4>1, <4>2
    <3>4. QED
      BY <3>1, <3>2, <3>3
  <2>8. QED
    BY <2>6, <2>7
<1>3. ASSUME NEW r \in Requests, "record" \notin RowsOf(r), records' = Append(records, r)
      PROVE  \A i, j \in DOMAIN records' : records'[i] = records'[j] => i = j
  <2>1. /\ \A i \in DOMAIN records : i \in DOMAIN records' /\ records'[i] = records[i]
        /\ \A i \in DOMAIN records' : i \in DOMAIN records \/ (i = Len(records) + 1 /\ records'[i] = r)
    BY <1>1, <1>3, AppendGrows
  <2>2. \A i \in DOMAIN records : records[i] # r
    BY <1>1, <1>3, RowsListed
  <2>3. QED
    BY <1>1, <2>1, <2>2 DEF RowsOnce
<1>4. ASSUME NEW r \in Requests, AddQuestion(r) PROVE RowsOnce'
  <2>1. /\ RowsOf(r) = {} /\ messages' = Append(messages, [role |-> "user", of |-> r])
        /\ UNCHANGED records
    BY <1>1, <1>4 DEF AddQuestion, Flushed
  <2>2. QED
    BY <1>1, <1>2, <2>1 DEF RowsOnce, Roles
<1>5. ASSUME NEW r \in Requests, AddAnswerAndRecord(r) PROVE RowsOnce'
  <2>1. /\ RowsOf(r) = {"user"} /\ messages' = Append(messages, [role |-> "assistant", of |-> r])
        /\ records' = Append(records, r)
    BY <1>1, <1>5 DEF AddAnswerAndRecord, Flushed
  <2>2. QED
    BY <1>2, <1>3, <2>1 DEF RowsOnce, Roles
<1>6. CASE UNCHANGED <<messages, records>>
  BY <1>1, <1>6 DEF RowsOnce
<1>7. ASSUME NEW r \in Requests,
             \/ Begin(r) \/ JoinSession(r) \/ LoadHistory(r) \/ LoadPriorSql(r) \/ TouchAndReply(r)
             \/ Commit(r) \/ Fail(r) \/ PersistFails(r)
      PROVE  UNCHANGED <<messages, records>>
  BY <1>7 DEF Begin, JoinSession, LoadHistory, LoadPriorSql, TouchAndReply, Commit, Fail, PersistFails
<1>8. CASE (\E l \in Reloads : ReloadMessages(l) \/ ReloadRecords(l)) \/ UNCHANGED vars
  BY <1>6, <1>8 DEF ReloadMessages, ReloadRecords, vars
<1>9. QED
  BY <1>4, <1>5, <1>6, <1>7, <1>8 DEF Next, Proceed

\* A history is read once and stays what it was.
LEMMA RemembersKeep ==
    ASSUME Inductive, Deep, Grows, [Next]_vars, NEW r \in Requests
    PROVE  Remembered(r)'
<1>1. /\ Tables /\ records \in Seq(Requests) /\ step \in [Requests -> Steps] /\ Remembered(r)
      /\ history \in [Requests -> Seq(MessageRows)] /\ prior \in [Requests -> Requests \cup {None}]
      /\ at \in [Requests -> Nat] /\ session \in [Requests -> Requests \cup {None}]
      /\ outcome \in [Requests -> Outcomes]
  BY DEF Inductive, Deep, Tables, Types
<1>2. ToSet(records) \subseteq ToSet(records)'
  BY <1>1 DEF Grows, ToSet
<1>3. ASSUME step[r] \notin {"new", "begun"}
      PROVE  \A q \in Visible(session[r]) : /\ q \in Visible(session[r])'
                                            /\ outcome'[q] = outcome[q] /\ at'[q] = at[q]
  <2>1. session'[r] = session[r]
    BY <1>3 DEF Grows
  <2>2. QED
    BY <2>1, VisibleStays DEF Visible
<1>4. ASSUME step'[r] = step[r], history'[r] = history[r], prior'[r] = prior[r]
      PROVE  Remembered(r)'
  <2>1. CASE step[r] \notin {"recalled", "running"}
    BY <1>4, <2>1 DEF Remembered
  <2>2. CASE step[r] \in {"recalled", "running"}
    <3>1. \A i \in DOMAIN history[r] : history[r][i].of \in Visible(session[r])
                                       /\ history[r][i].of \in ToSet(records)
      BY <1>1, <2>2 DEF Remembered
    <3>2. \A i \in DOMAIN history'[r] : history'[r][i].of \in Visible(session[r])'
                                        /\ history'[r][i].of \in ToSet(records)'
      BY <1>2, <1>3, <1>4, <2>2, <3>1
    <3>3. CASE step[r] = "recalled"
      BY <1>4, <3>2, <3>3 DEF Remembered
    <3>4. CASE step[r] = "running"
      <4>1. prior'[r] # None => prior'[r] \in Visible(session[r])' /\ at'[prior[r]] = at[prior[r]]
        BY <1>1, <1>3, <1>4, <3>4 DEF Remembered
      <4>2. \A i \in DOMAIN history[r] : /\ outcome'[history[r][i].of] = outcome[history[r][i].of]
                                         /\ at'[history[r][i].of] = at[history[r][i].of]
        BY <1>3, <3>1, <3>4
      <4>3. \A i \in DOMAIN history'[r] : outcome'[history'[r][i].of] = "ok_sql" =>
               prior'[r] # None /\ at'[history'[r][i].of] <= at'[prior'[r]]
        BY <1>1, <1>4, <3>4, <4>1, <4>2 DEF Remembered
      <4>4. QED
        BY <3>2, <4>1, <4>3 DEF Remembered
    <3>5. QED
      BY <2>2, <3>3, <3>4
  <2>3. QED
    BY <2>1, <2>2
<1>5. CASE LoadHistory(r)
  <2>1. /\ step[r] = "joined" /\ step'[r] = "recalled" /\ UNCHANGED <<session, records, committed>>
    BY <1>1, <1>5 DEF LoadHistory, Goto
  <2>2. PICK rows \in Recalled(session[r]) : history'[r] = rows
    BY <1>1, <1>5 DEF LoadHistory
  <2>3. ASSUME NEW k \in DOMAIN rows
        PROVE  rows[k].of \in Visible(session[r]) /\ rows[k].of \in ToSet(records)
    <3>1. PICK i \in VisibleMessages(session[r]) : rows[k] = messages[i]
      BY <1>1, RecalledRows
    <3>2. i \in DOMAIN messages /\ messages[i].of \in Visible(session[r])
      BY DEF VisibleMessages
    <3>3. messages[i].of \in committed /\ messages[i].role \in RowsOf(messages[i].of)
      BY <1>1, <3>2, RowsListed DEF Visible
    <3>4. RowsOf(messages[i].of) = Whole
      BY <3>3, VisibleWhole
    <3>5. \E j \in DOMAIN records : records[j] = messages[i].of
      BY <1>1, <3>4, RowsListed DEF Whole
    <3>6. QED
      BY <3>1, <3>2, <3>5 DEF ToSet
  <2>4. \A q \in Visible(session[r]) : q \in Visible(session[r])'
    BY <2>1 DEF Visible
  <2>5. QED
    BY <1>2, <2>1, <2>2, <2>3, <2>4 DEF Remembered
<1>6. CASE LoadPriorSql(r)
  <2>1. /\ step[r] = "recalled" /\ step'[r] = "running"
        /\ UNCHANGED <<at, session, history, outcome, records, committed>>
    BY <1>1, <1>6 DEF LoadPriorSql, Goto
  <2>2. PICK p \in IF WithSql(session[r]) = {} THEN {None} ELSE NewestWithSql(session[r]) :
          prior'[r] = p
    BY <1>1, <1>6 DEF LoadPriorSql
  <2>3. \A i \in DOMAIN history[r] : history[r][i].of \in Visible(session[r])
                                     /\ history[r][i].of \in ToSet(records)
    BY <1>1, <2>1 DEF Remembered
  <2>4. \A i \in DOMAIN history[r] :
          outcome[history[r][i].of] = "ok_sql" => history[r][i].of \in WithSql(session[r])
    BY <2>3 DEF WithSql
  <2>5. None \notin Visible(session[r])
    BY RequestsAssumption DEF Visible, Inductive, Tables
  <2>6. WithSql(session[r]) # {} => p \in Visible(session[r]) /\ p # None
                                    /\ \A q \in WithSql(session[r]) : at[q] <= at[p]
    BY <2>2, <2>5 DEF NewestWithSql, WithSql
  <2>7. \A q \in Visible(session[r]) : q \in Visible(session[r])'
    BY <2>1 DEF Visible
  <2>8. \A i \in DOMAIN history'[r] : history'[r][i].of \in Visible(session[r])'
                                      /\ history'[r][i].of \in ToSet(records)'
    BY <2>1, <2>3, <2>7
  <2>9. prior'[r] # None => prior'[r] \in Visible(session[r])'
    BY <2>2, <2>6, <2>7
  <2>10. \A i \in DOMAIN history'[r] : outcome'[history'[r][i].of] = "ok_sql" =>
            prior'[r] # None /\ at'[history'[r][i].of] <= at'[prior'[r]]
    BY <2>1, <2>2, <2>4, <2>6
  <2>11. QED
    BY <2>1, <2>8, <2>9, <2>10 DEF Remembered
<1>7. CASE Begin(r) \/ JoinSession(r) \/ AddQuestion(r) \/ AddAnswerAndRecord(r)
           \/ TouchAndReply(r) \/ Commit(r) \/ Fail(r) \/ PersistFails(r)
  <2>1. step'[r] \notin {"recalled", "running"}
    BY <1>1, <1>7 DEF Begin, JoinSession, AddQuestion, AddAnswerAndRecord, TouchAndReply, Commit,
       Fail, PersistFails, Goto
  <2>2. QED
    BY <2>1 DEF Remembered
<1>8. ASSUME NEW q \in Requests, q # r, Begin(q) \/ Proceed(q) \/ Fail(q) \/ PersistFails(q)
      PROVE  step'[r] = step[r] /\ history'[r] = history[r] /\ prior'[r] = prior[r]
  BY <1>1, <1>8 DEF Begin, Proceed, JoinSession, LoadHistory, LoadPriorSql, AddQuestion,
     AddAnswerAndRecord, TouchAndReply, Commit, Fail, PersistFails, Goto
<1>9. CASE (\E l \in Reloads : ReloadMessages(l) \/ ReloadRecords(l)) \/ UNCHANGED vars
  BY <1>4, <1>9 DEF ReloadMessages, ReloadRecords, vars
<1>10. QED
  BY <1>4, <1>5, <1>6, <1>7, <1>8, <1>9 DEF Next, Proceed

\* What a reload has read stays whole: no request it saw stores anything more.
LEMMA RereadsKeep == ASSUME Inductive, Deep, Grows, [Next]_vars PROVE Rereads'
<1>1. /\ Tables /\ reload \in [Reloads -> Reread] /\ Rereads /\ Types
      /\ \A l \in Reloads : Reopens[l] \in Requests
  BY RequestsAssumption DEF Inductive, Deep, Types
<1>2. ASSUME NEW l \in Reloads, told[Reopens[l]] = "answer"
      PROVE  /\ told'[Reopens[l]] = "answer" /\ session'[Reopens[l]] = session[Reopens[l]]
             /\ \A q \in Visible(session[Reopens[l]]) : q \in Visible(session[Reopens[l]])'
  <2>1. step[Reopens[l]] \notin {"new", "begun"}
    BY <1>1, <1>2 DEF Inductive, Flushed
  <2>2. told'[Reopens[l]] = "answer" /\ session'[Reopens[l]] = session[Reopens[l]]
    BY <1>1, <1>2, <2>1 DEF Grows
  <2>3. QED
    BY <2>2, VisibleStays DEF Visible
<1> DEFINE Whole1(l) ==
      /\ told[Reopens[l]] = "answer"
      /\ \A i \in reload[l].messages :
           i \in DOMAIN messages /\ messages[i].of \in Visible(session[Reopens[l]])
      /\ \A i \in reload[l].messages, j \in DOMAIN messages :
           messages[j].of = messages[i].of => j \in reload[l].messages
           Recorded(l) ==
      /\ \A q \in reload[l].records : q \in DOMAIN records
      /\ \A i \in reload[l].messages : \E q \in reload[l].records : records[q] = messages[i].of
<1>3. ASSUME NEW l \in Reloads, Whole1(l), reload'[l].messages = reload[l].messages
      PROVE  Whole1(l)'
  <2>1. \A i \in reload[l].messages :
          i \in DOMAIN messages' /\ messages'[i] = messages[i]
          /\ messages'[i].of \in Visible(session[Reopens[l]])'
    BY <1>2, <1>3 DEF Grows
  <2>2. ASSUME NEW i \in reload[l].messages, NEW j \in DOMAIN messages', messages'[j].of = messages'[i].of
        PROVE  j \in reload[l].messages
    <3>1. step[messages[i].of] = "over"
      BY <1>3, VisibleStays
    <3>2. j \in DOMAIN messages /\ messages'[j] = messages[j]
      BY <2>1, <2>2, <3>1 DEF Grows
    <3>3. QED
      BY <1>3, <2>1, <2>2, <3>2
  <2>3. QED
    BY <1>2, <1>3, <2>1, <2>2
<1>4. ASSUME NEW l \in Reloads, Whole1(l), Recorded(l), reload'[l].messages = reload[l].messages,
             reload'[l].records = reload[l].records
      PROVE  Recorded(l)'
  <2>1. \A q \in reload[l].records : q \in DOMAIN records' /\ records'[q] = records[q]
    BY <1>4 DEF Grows
  <2>2. \A i \in reload[l].messages : messages'[i] = messages[i]
    BY <1>4 DEF Grows
  <2>3. QED
    BY <1>4, <2>1, <2>2
<1>5. \A l \in Reloads : reload[l].step \in {"records", "done"} =>
        Whole1(l) /\ (reload[l].step = "done" => Recorded(l))
  BY <1>1 DEF Rereads
<1>6. ASSUME \A l \in Reloads : reload'[l].step \in {"records", "done"} =>
                Whole1(l)' /\ (reload'[l].step = "done" => Recorded(l)')
      PROVE  Rereads'
  BY <1>6 DEF Rereads
<1>7. ASSUME NEW l \in Reloads, reload'[l] = reload[l], reload'[l].step \in {"records", "done"}
      PROVE  Whole1(l)' /\ (reload'[l].step = "done" => Recorded(l)')
  <2>1. Whole1(l) /\ (reload[l].step = "done" => Recorded(l))
    BY <1>5, <1>7
  <2> HIDE DEF Whole1, Recorded
  <2>2. QED
    BY <1>3, <1>4, <1>7, <2>1
<1>8. ASSUME NEW l \in Reloads, ReloadMessages(l), reload'[l].step \in {"records", "done"}
      PROVE  Whole1(l)' /\ (reload'[l].step = "done" => Recorded(l)')
  <2> DEFINE s == session[Reopens[l]]
  <2>1. /\ told[Reopens[l]] = "answer"
        /\ UNCHANGED <<session, told, messages, records, committed>>
    BY <1>8 DEF ReloadMessages
  <2>2. reload[l].step = "new" /\ reload[l] \in Reread
    BY <1>1, <1>8 DEF ReloadMessages
  <2>3. reload'[l].step = "records" /\ reload'[l].messages = VisibleMessages(s)
    <3>1. CASE SessionExists(s)
      BY <1>1, <1>8, <3>1 DEF ReloadMessages
    <3>2. CASE ~SessionExists(s)
      <4>1. reload'[l].step = "not_found"
        BY <1>1, <1>8, <2>2, <3>2 DEF ReloadMessages, Reread
      <4>2. QED
        BY <1>8, <4>1
    <3>3. QED
      BY <3>1, <3>2
  <2>4. Visible(s)' = Visible(s)
    BY <2>1 DEF Visible
  <2>5. QED
    BY <2>1, <2>3, <2>4 DEF VisibleMessages
<1>9. ASSUME NEW l \in Reloads, ReloadRecords(l)
      PROVE  Whole1(l)' /\ (reload'[l].step = "done" => Recorded(l)')
  <2> DEFINE s == session[Reopens[l]]
  <2>1. /\ reload[l].step = "records" /\ reload[l] \in Reread
        /\ UNCHANGED <<session, told, messages, records, committed>>
    BY <1>1, <1>9 DEF ReloadRecords
  <2>2. reload'[l].messages = reload[l].messages /\ reload'[l].records = VisibleRecords(s)
    BY <1>1, <1>9, <2>1 DEF ReloadRecords, Reread
  <2>3. Whole1(l)
    BY <1>5, <2>1
  <2>4. ASSUME NEW i \in reload[l].messages
        PROVE  \E q \in VisibleRecords(s) : records[q] = messages[i].of
    <3>1. i \in DOMAIN messages /\ messages[i].of \in Visible(s)
      BY <2>3
    <3>2. messages[i].of \in committed /\ messages[i].role \in RowsOf(messages[i].of)
      BY <1>1, <3>1, RowsListed DEF Visible
    <3>3. RowsOf(messages[i].of) = Whole
      BY <3>2, VisibleWhole
    <3>4. PICK q \in DOMAIN records : records[q] = messages[i].of
      BY <1>1, <3>3, RowsListed DEF Whole
    <3>5. QED
      BY <3>1, <3>4 DEF VisibleRecords
  <2>5. \A q \in VisibleRecords(s) : q \in DOMAIN records
    BY DEF VisibleRecords
  <2>6. Whole1(l)'
    BY <1>3, <2>2, <2>3
  <2>7. Recorded(l)'
    BY <2>1, <2>2, <2>4, <2>5
  <2>8. QED
    BY <2>6, <2>7
<1> HIDE DEF Whole1, Recorded
<1>10. CASE UNCHANGED reload
  BY <1>6, <1>7, <1>10
<1>11. ASSUME NEW l \in Reloads, ReloadMessages(l) \/ ReloadRecords(l) PROVE Rereads'
  <2>1. \A k \in Reloads : k # l => reload'[k] = reload[k]
    BY <1>1, <1>11 DEF ReloadMessages, ReloadRecords
  <2>2. QED
    BY <1>6, <1>7, <1>8, <1>9, <1>11, <2>1
<1>12. ASSUME NEW r \in Requests, Begin(r) \/ Proceed(r) \/ Fail(r) \/ PersistFails(r)
       PROVE  UNCHANGED reload
  BY <1>12 DEF Begin, Proceed, JoinSession, LoadHistory, LoadPriorSql, AddQuestion,
     AddAnswerAndRecord, TouchAndReply, Commit, Fail, PersistFails
<1>13. QED
  BY <1>10, <1>11, <1>12 DEF Next, vars

\* The invariant holds in every state.
LEMMA DeepHolds == Spec => [](Inductive /\ Deep)
<1>1. Init => Inductive /\ Deep
  <2> SUFFICES ASSUME Init PROVE Inductive /\ Deep
    OBVIOUS
  <2>1. Inductive /\ Types
    BY InitHolds, InitTyped
  <2>2. Times
    <3>1. Begun = {} /\ \A q \in Requests : at[q] = 0 /\ step[q] = "new"
      BY DEF Init, Begun
    <3>2. QED
      BY <3>1, FS_EmptySet DEF Times
  <2>3. RowsOnce /\ Rereads /\ \A r \in Requests : Remembered(r)
    BY DEF Init, RowsOnce, Rereads, Remembered
  <2>4. QED
    BY <2>1, <2>2, <2>3 DEF Deep
<1>2. Inductive /\ Deep /\ [Next]_vars => (Inductive /\ Deep)'
  <2> SUFFICES ASSUME Inductive, Deep, [Next]_vars PROVE Inductive' /\ Deep'
    OBVIOUS
  <2>1. Inductive' /\ Types' /\ Grows
    BY StepKeeps, TypesKeep, StepGrows DEF Deep
  <2>2. QED
    BY <2>1, TimesKeep, RowsKeep, RemembersKeep, RereadsKeep DEF Deep
<1>3. QED
  BY <1>1, <1>2, PTL DEF Spec

\* load_history and load_last_successful_sql: however transactions overlap, the SQL a
\* follow-up builds on is not older than the newest SQL its history's turns led to.
THEOREM PriorSqlFreshHolds == Spec => []PriorSqlFresh
<1>1. Deep => PriorSqlFresh
  BY DEF Deep, Remembered, PriorSqlFresh
<1>2. QED
  BY <1>1, DeepHolds, PTL

-----------------------------------------------------------------------------
(* What a reload makes of the rows it read                                 *)

\* Of finitely many rows, exactly one is the n-th by time: counting the rows up to each
\* is an injection into 1 .. the number of rows, and so reaches every number of them.
LEMMA NthRow ==
    ASSUME NEW D \in SUBSET Nat, NEW times \in [D -> Nat], NEW S \in SUBSET D, IsFiniteSet(S),
           NEW n \in 1 .. Cardinality(S)
    PROVE  \E q \in S : {p \in S : Cardinality({o \in S : ~Before(times, p, o)}) = n} = {q}
<1> DEFINE UpTo(p) == {o \in S : ~Before(times, p, o)}
           rank == [p \in S |-> Cardinality(UpTo(p))]
<1>1. Cardinality(S) \in Nat
  BY FS_CardinalityType
<1>2. \A p \in S : times[p] \in Nat /\ p \in Nat
  OBVIOUS
<1>3. ASSUME NEW p \in S
      PROVE  /\ IsFiniteSet(UpTo(p)) /\ p \in UpTo(p)
             /\ Cardinality(UpTo(p)) \in 1 .. Cardinality(S)
  <2>1. p \in UpTo(p) /\ UpTo(p) \in SUBSET S
    BY <1>2 DEF Before
  <2>2. IsFiniteSet(UpTo(p)) /\ Cardinality(UpTo(p)) <= Cardinality(S)
    BY <2>1, FS_Subset
  <2>3. Cardinality(UpTo(p)) \in Nat /\ Cardinality(UpTo(p)) # 0
    BY <2>1, <2>2, FS_CardinalityType, FS_EmptySet
  <2>4. QED
    BY <1>1, <2>1, <2>2, <2>3
<1>4. ASSUME NEW p \in S, NEW q \in S, Before(times, p, q)
      PROVE  Cardinality(UpTo(p)) # Cardinality(UpTo(q))
  <2>1. \A o \in S : ~Before(times, p, o) => ~Before(times, q, o)
    BY <1>2, <1>4 DEF Before
  <2>2. UpTo(p) \in SUBSET UpTo(q)
    BY <2>1
  <2>3. q \notin UpTo(p) /\ q \in UpTo(q)
    BY <1>3, <1>4
  <2>4. QED
    BY <1>3, <2>2, <2>3, FS_Subset
<1>5. ASSUME NEW p \in S, NEW q \in S, p # q PROVE rank[p] # rank[q]
  <2>1. Before(times, p, q) \/ Before(times, q, p)
    BY <1>2, <1>5 DEF Before
  <2>2. QED
    BY <1>4, <2>1
<1>6. rank \in [S -> 1 .. Cardinality(S)]
  BY <1>3
<1>7. rank \in Injection(S, 1 .. Cardinality(S))
  BY <1>5, <1>6 DEF Injection, IsInjective
<1>8. IsFiniteSet(1 .. Cardinality(S)) /\ Cardinality(1 .. Cardinality(S)) = Cardinality(S)
  <2>1. Cardinality(S) \in Int /\ 1 \in Int
    BY <1>1
  <2>2. QED
    BY <1>1, <2>1, FS_Interval
<1>9. rank \in Surjection(S, 1 .. Cardinality(S))
  BY <1>7, <1>8, FS_Injection
<1>10. PICK q \in S : rank[q] = n
  BY <1>9 DEF Surjection
<1>11. \A p \in S : Cardinality(UpTo(p)) = rank[p]
  OBVIOUS
<1> HIDE DEF rank, UpTo
<1>12. {p \in S : Cardinality(UpTo(p)) = n} = {q}
  BY <1>5, <1>10, <1>11
<1>13. QED
  BY <1>12 DEF UpTo

\* A reload that is done, with what its rows say of the requests they belong to.
LEMMA RereadRows ==
    ASSUME Inductive, Deep, NEW l \in Reloads, reload[l].step = "done",
           NEW i \in reload[l].messages
    PROVE  /\ i \in DOMAIN messages /\ i \in Nat /\ messages[i] \in MessageRows
           /\ messages[i].of \in Begun /\ MessageTimes[i] = at[messages[i].of]
           /\ RowsOf(messages[i].of) = Whole
           /\ \E q \in reload[l].records : records[q] = messages[i].of
<1>1. Tables /\ at \in [Requests -> Nat] /\ Times
  BY DEF Inductive, Deep, Types
<1>2. /\ i \in DOMAIN messages /\ messages[i].of \in committed
      /\ \E q \in reload[l].records : records[q] = messages[i].of
  BY DEF Deep, Rereads, Visible
<1>3. messages[i] \in MessageRows /\ messages[i].role \in RowsOf(messages[i].of) /\ i \in Nat
  BY <1>1, <1>2, RowsListed, VisiblePlaces
<1>4. RowsOf(messages[i].of) = Whole /\ step[messages[i].of] = "over" /\ messages[i].of \in Requests
  BY <1>2, <1>3, VisibleWhole
<1>5. messages[i].of \in Begun
  BY <1>1, <1>4 DEF Times, Begun
<1>6. QED
  BY <1>2, <1>3, <1>4, <1>5 DEF MessageTimes

\* Rows of one time are the question and the answer of one request.
LEMMA OneTime ==
    ASSUME Inductive, Deep, NEW l \in Reloads, reload[l].step = "done",
           NEW i \in reload[l].messages, NEW j \in reload[l].messages,
           MessageTimes[i] = MessageTimes[j]
    PROVE  /\ messages[i].of = messages[j].of
           /\ messages[i].role = messages[j].role => i = j
<1>1. messages[i].of = messages[j].of
  BY RereadRows DEF Deep, Times
<1>2. messages[i] \in MessageRows /\ messages[j] \in MessageRows
      /\ i \in DOMAIN messages /\ j \in DOMAIN messages
  BY RereadRows
<1>3. messages[i].role = messages[j].role => messages[i] = messages[j]
  BY <1>1, <1>2 DEF MessageRows
<1>4. QED
  BY <1>1, <1>2, <1>3 DEF Deep, RowsOnce

\* The message after a question is its answer.
LEMMA AnsweredByOwn ==
    ASSUME Inductive, Deep, NEW l \in Reloads, reload[l].step = "done", NEW i \in Asked(l)
    PROVE  Answered(l, i) = {messages[i].of}
<1> DEFINE found == reload[l].messages
           r == messages[i].of
           Between(a, b) == \E k \in found : Before(MessageTimes, a, k) /\ Before(MessageTimes, k, b)
<1>1. i \in found /\ messages[i].role = "user"
  BY DEF Asked
<1>2. \A k \in found : k \in Nat /\ k \in DOMAIN messages /\ MessageTimes[k] \in Nat
                       /\ messages[k].role \in Roles /\ messages[k] \in MessageRows
  <2>1. at \in [Requests -> Nat]
    BY DEF Deep, Types
  <2>2. QED
    BY <2>1, RereadRows DEF MessageRows, Begun
<1>3. PICK j \in found : messages[j].of = r /\ messages[j].role = "assistant"
  <2>1. RowsOf(r) = Whole
    BY <1>1, RereadRows
  <2>2. "assistant" \in RowsOf(r) /\ Tables
    BY <2>1 DEF Whole, Roles, Inductive
  <2>3. PICK j \in DOMAIN messages : messages[j].of = r /\ messages[j].role = "assistant"
    BY <2>2, RowsListed
  <2>4. j \in found
    BY <1>1, <2>3 DEF Deep, Rereads
  <2>5. QED
    BY <2>3, <2>4
<1>4. i < j
  BY <1>1, <1>2, <1>3 DEF Deep, RowsOnce
<1>5. MessageTimes[i] = MessageTimes[j]
  BY <1>1, <1>3, RereadRows
<1>6. Before(MessageTimes, i, j)
  BY <1>4, <1>5 DEF Before
<1>7. ~Between(i, j)
  <2> SUFFICES ASSUME NEW k \in found, Before(MessageTimes, i, k), Before(MessageTimes, k, j)
               PROVE  FALSE
    OBVIOUS
  <2>1. MessageTimes[k] = MessageTimes[i]
    BY <1>1, <1>2, <1>5 DEF Before
  <2>2. k # i /\ k # j
    BY <1>1, <1>2 DEF Before
  <2>3. QED
    BY <1>1, <1>2, <1>3, <1>5, <2>1, <2>2, OneTime DEF Roles
<1>8. ASSUME NEW k \in found, Before(MessageTimes, i, k), ~Between(i, k) PROVE k = j
  <2>1. ~Before(MessageTimes, j, k) /\ ~Before(MessageTimes, k, j)
    BY <1>6, <1>7, <1>8
  <2>2. QED
    BY <1>2, <2>1 DEF Before
<1>9. Answered(l, i) = {messages[k].of : k \in {k \in found :
        Before(MessageTimes, i, k) /\ messages[k].role = "assistant" /\ ~Between(i, k)}}
  BY DEF Answered
<1> HIDE DEF Between
<1>10. {k \in found : Before(MessageTimes, i, k) /\ messages[k].role = "assistant"
                      /\ ~Between(i, k)} = {j}
  BY <1>3, <1>6, <1>7, <1>8
<1>11. QED
  BY <1>3, <1>9, <1>10

\* A question takes a record of its wording: there are as many as questions of it.
LEMMA RanSameWording ==
    ASSUME Inductive, Deep, NEW l \in Reloads, reload[l].step = "done", NEW i \in Asked(l)
    PROVE  \E q \in Requests : Ran(l, i) = {q} /\ Question[q] = Wording(i)
<1> DEFINE nth == Cardinality({j \in SameAsked(l, i) : ~Before(MessageTimes, i, j)})
<1>1. Tables /\ at \in [Requests -> Nat]
  BY DEF Inductive, Deep, Types
<1>2. /\ reload[l].messages \subseteq DOMAIN messages /\ reload[l].records \subseteq DOMAIN records
      /\ DOMAIN records \subseteq Nat
  BY <1>1, VisiblePlaces DEF Deep, Rereads
<1>3. IsFiniteSet(DOMAIN messages) /\ IsFiniteSet(DOMAIN records)
  <2>1. /\ DOMAIN messages = 1 .. Len(messages) /\ Len(messages) \in Nat
        /\ DOMAIN records = 1 .. Len(records) /\ Len(records) \in Nat
    BY <1>1 DEF Tables
  <2>2. QED
    BY <2>1, FS_Interval
<1>4. /\ SameAsked(l, i) \subseteq DOMAIN messages /\ SameRecords(l, i) \subseteq DOMAIN records
      /\ i \in SameAsked(l, i) /\ SameAsked(l, i) \subseteq Asked(l)
      /\ Asked(l) \subseteq reload[l].messages
  BY <1>2 DEF SameAsked, Asked, SameRecords
<1>5. IsFiniteSet(SameAsked(l, i)) /\ IsFiniteSet(SameRecords(l, i))
  BY <1>3, <1>4, FS_Subset
<1>6. \A j \in SameAsked(l, i) : \E q \in SameRecords(l, i) : records[q] = messages[j].of
  <2> SUFFICES ASSUME NEW j \in SameAsked(l, i)
               PROVE  \E q \in SameRecords(l, i) : records[q] = messages[j].of
    OBVIOUS
  <2>1. PICK q \in reload[l].records : records[q] = messages[j].of
    BY <1>4, RereadRows
  <2>2. Question[records[q]] = Wording(i)
    BY <2>1 DEF SameAsked, Wording
  <2>3. QED
    BY <2>1, <2>2 DEF SameRecords
<1>7. \A j, k \in SameAsked(l, i) : messages[j].of = messages[k].of => j = k
  <2> SUFFICES ASSUME NEW j \in SameAsked(l, i), NEW k \in SameAsked(l, i),
                      messages[j].of = messages[k].of
               PROVE  j = k
    OBVIOUS
  <2>1. messages[j].role = "user" /\ messages[k].role = "user"
        /\ j \in reload[l].messages /\ k \in reload[l].messages
    BY DEF SameAsked, Asked
  <2>2. MessageTimes[j] = MessageTimes[k]
    BY <2>1, RereadRows
  <2>3. QED
    BY <2>1, <2>2, OneTime
<1>8. Cardinality(SameAsked(l, i)) <= Cardinality(SameRecords(l, i))
  <2> DEFINE own == [j \in SameAsked(l, i) |->
                       CHOOSE q \in SameRecords(l, i) : records[q] = messages[j].of]
  <2>1. \A j \in SameAsked(l, i) : own[j] \in SameRecords(l, i) /\ records[own[j]] = messages[j].of
    BY <1>6
  <2>2. own \in [SameAsked(l, i) -> SameRecords(l, i)]
    BY <2>1
  <2>3. \A j, k \in SameAsked(l, i) : own[j] = own[k] => j = k
    BY <1>7, <2>1
  <2> HIDE DEF own
  <2>4. own \in Injection(SameAsked(l, i), SameRecords(l, i))
    BY <2>2, <2>3 DEF Injection, IsInjective
  <2>5. QED
    BY <1>5, <2>4, FS_Injection
<1>9. nth \in 1 .. Cardinality(SameRecords(l, i))
  <2> DEFINE upto == {j \in SameAsked(l, i) : ~Before(MessageTimes, i, j)}
  <2>1. i \in Nat /\ MessageTimes[i] \in Nat
    BY <1>1, <1>4, RereadRows DEF Begun
  <2>2. i \in upto /\ upto \in SUBSET SameAsked(l, i)
    BY <1>4, <2>1 DEF Before
  <2>3. IsFiniteSet(upto) /\ Cardinality(upto) <= Cardinality(SameAsked(l, i))
    BY <1>5, <2>2, FS_Subset
  <2>4. Cardinality(upto) \in Nat /\ Cardinality(upto) # 0
    BY <2>2, <2>3, FS_CardinalityType, FS_EmptySet
  <2>5. Cardinality(SameAsked(l, i)) \in Nat /\ Cardinality(SameRecords(l, i)) \in Nat
    BY <1>5, FS_CardinalityType
  <2> HIDE DEF upto
  <2>6. Cardinality(upto) \in 1 .. Cardinality(SameRecords(l, i))
    BY <1>8, <2>3, <2>4, <2>5
  <2>7. QED
    BY <2>6 DEF upto
<1> HIDE DEF nth
<1>10. RecordTimes \in [DOMAIN records -> Nat]
  <2>1. \A q \in DOMAIN records : records[q] \in Requests
    BY <1>1, RowsListed
  <2>2. QED
    BY <1>1, <2>1 DEF RecordTimes
<1>11. PICK q \in SameRecords(l, i) :
         {p \in SameRecords(l, i) :
            Cardinality({o \in SameRecords(l, i) : ~Before(RecordTimes, p, o)}) = nth} = {q}
  BY <1>2, <1>4, <1>5, <1>9, <1>10, NthRow
<1>12. Ran(l, i) = {records[q]}
  BY <1>11 DEF Ran, nth
<1>13. records[q] \in Requests /\ Question[records[q]] = Wording(i)
  BY <1>1, <1>4, RowsListed DEF SameRecords
<1>14. QED
  BY <1>12, <1>13

\* get_session_detail and _build_turns: however transactions overlap, a reloaded
\* conversation shows every question with its own answer, in the order they were asked,
\* and with the SQL of a question of the same wording.
THEOREM TurnsPairedHolds == Spec => []TurnsPaired
<1>1. ASSUME Inductive, Deep PROVE TurnsPaired
  <2> SUFFICES ASSUME NEW l \in Reloads, reload[l].step = "done"
               PROVE  /\ \A i \in Asked(l) :
                           /\ Answered(l, i) = {messages[i].of}
                           /\ \E q \in Requests : Ran(l, i) = {q} /\ Question[q] = Wording(i)
                      /\ \A i, j \in Asked(l) :
                           Before(MessageTimes, i, j) => MessageTimes[i] < MessageTimes[j]
    BY DEF TurnsPaired
  <2>1. ASSUME NEW i \in Asked(l), NEW j \in Asked(l), Before(MessageTimes, i, j)
        PROVE  MessageTimes[i] < MessageTimes[j]
    <3>1. /\ i \in reload[l].messages /\ messages[i].role = "user"
          /\ j \in reload[l].messages /\ messages[j].role = "user"
      BY DEF Asked
    <3>2. i \in Nat /\ j \in Nat
      BY <1>1, <3>1, RereadRows
    <3>3. MessageTimes[i] = MessageTimes[j] => i = j
      BY <1>1, <3>1, OneTime
    <3>4. QED
      BY <2>1, <3>2, <3>3 DEF Before
  <2>2. QED
    BY <1>1, <2>1, AnsweredByOwn, RanSameWording
<1>2. Inductive /\ Deep => TurnsPaired
  BY <1>1
<1>3. QED
  BY <1>2, DeepHolds, PTL

\* The types of every variable, as the runs check them.
THEOREM TypesHold == Spec => []TypeOK
<1>1. ASSUME Inductive, Deep PROVE TypeOK
  <2>1. /\ Tables /\ Types /\ Times
    BY <1>1 DEF Inductive, Deep
  <2>2. Begun \in SUBSET Requests
    BY DEF Begun
  <2>3. Cardinality(Begun) \in Nat /\ Cardinality(Requests) \in Nat
        /\ Cardinality(Begun) <= Cardinality(Requests)
    BY <2>2, RequestsAssumption, FS_Subset, FS_CardinalityType
  <2>4. \A q \in Requests : at[q] \in Nat /\ at[q] <= Cardinality(Begun)
    BY <2>1 DEF Types, Times
  <2>5. at \in [Requests -> 0 .. Cardinality(Requests)]
    BY <2>1, <2>3, <2>4 DEF Types
  <2>6. \A l \in Reloads : reload[l].step \in {"new", "records", "not_found", "done"}
    BY <2>1 DEF Types, Reread
  <2>7. QED
    BY <2>1, <2>5, <2>6 DEF Tables, Types, TypeOK
<1>2. Inductive /\ Deep => TypeOK
  BY <1>1
<1>3. QED
  BY <1>2, DeepHolds, PTL
=============================================================================
