------------------------ MODULE BrowserSessionProofs ------------------------
(***************************************************************************)
(* Theorems about BrowserSession, for any number of tabs, calls, expiries, *)
(* logins, logouts and lost answers.                                       *)
(***************************************************************************)
EXTENDS BrowserSession, TLAPS

Answers == {"none", "sent", "refused", "received", "lost"}
Pending == {"none", "sent", "refused"}
ExchangeStates ==
    [kind : Kinds, tab : Tabs, shown : Nat, granted : BOOLEAN, step : Steps,
     revokes : SUBSET Nat, answer : Answers, known : SUBSET Nat]

Typed ==
    /\ exchanges \in Seq(ExchangeStates)
    /\ jar \in [access : BOOLEAN, refresh : Nat]
    /\ page \in [Tabs -> Pages] /\ refreshing \in [Tabs -> Nat]
    /\ call \in [Calls -> CallSteps] /\ madeIn \in [Calls -> Tabs] /\ again \in [Calls -> BOOLEAN]
    /\ expiries \in 0..MaxExpiries

\* The browser holds, and shows, tokens whose answer has reached it.
Held(k) == k # 0 =>
    /\ k \in Sent /\ exchanges[k].kind # "logout"
    /\ exchanges[k].step \in {"open", "over"} /\ exchanges[k].answer = "received"

\* What an exchange says of others.
Linked ==
    /\ Held(jar.refresh)
    /\ \A t \in Tabs : refreshing[t] \in {0} \cup Sent
    /\ \A e \in Sent : /\ exchanges[e].shown < e /\ Held(exchanges[e].shown)
                       /\ exchanges[e].revokes \subseteq Sent
                       /\ \A k \in exchanges[e].known : Issued(k)

\* How far an exchange has come, and what its answer can be by then.
Answered == \A e \in Sent :
    /\ exchanges[e].step \in {"received", "checked"} => exchanges[e].answer = "none"
    /\ exchanges[e].step \in {"open", "over"} => exchanges[e].answer \in {"sent", "received", "lost"}
    /\ exchanges[e].step = "void" => exchanges[e].answer \in {"refused", "received", "lost"}
    /\ exchanges[e].kind = "login" => exchanges[e].revokes = {}
    /\ exchanges[e].kind = "refresh" /\ exchanges[e].step \in {"checked", "open", "over"} =>
         exchanges[e].shown # 0 /\ exchanges[e].revokes = {exchanges[e].shown}

\* A token is not held any more once the answer that replaced it came.
Replaced == \A e \in Sent :
    exchanges[e].kind = "refresh" /\ exchanges[e].step \in {"open", "over"}
    /\ exchanges[e].answer = "received" => jar.refresh # exchanges[e].shown

\* Only a logout takes the browser's token away.
Holds == jar.refresh = 0 => Disturbed

Revoked(k) == \E e \in Sent : exchanges[e].step = "over" /\ k \in exchanges[e].revokes

\* A logout that has looked has found what it must revoke, or it was revoked already.
Found == \A l \in Sent :
    exchanges[l].kind = "logout" /\ exchanges[l].step \in {"checked", "open", "over"} =>
        \A k \in exchanges[l].known : k \in exchanges[l].revokes \/ Revoked(k)

\* The refresh under way in a tab is the one its calls wait for.
OneRefresh ==
    /\ \A t \in Tabs : refreshing[t] # 0 =>
         exchanges[refreshing[t]].kind = "refresh" /\ exchanges[refreshing[t]].tab = t
    /\ \A e \in Sent : exchanges[e].kind = "refresh" /\ exchanges[e].answer \in Pending =>
         refreshing[exchanges[e].tab] = e

Untroubled == ~Disturbed /\ expiries <= 1

\* With one expiry and nothing lost a call is denied once at most.
DeniedOnce ==
    /\ Untroubled /\ expiries = 0 =>
         /\ jar.access
         /\ \A c \in Calls : call[c] \notin {"denied", "waiting", "retry"} /\ ~again[c]
    /\ Untroubled => \A c \in Calls :
         /\ call[c] = "retry" \/ again[c] => jar.access
         /\ call[c] = "denied" => ~again[c]
    /\ \A c \in Calls : call[c] = "idle" => ~again[c]

Inductive ==
    /\ Typed /\ Linked /\ Answered /\ Replaced /\ Holds /\ Found
    /\ OneRefresh /\ WaitersHaveRefresh /\ DeniedOnce /\ ExpiryIsHidden

-----------------------------------------------------------------------------
(* What a step does to the exchanges                                       *)

\* The exchange e moves on; nothing else does.
Moves(e, step, revokes, answer) ==
    /\ exchanges' \in Seq(ExchangeStates) /\ Sent' = Sent
    /\ \A f \in Sent : /\ f # e => exchanges'[f] = exchanges[f]
                       /\ exchanges'[f].kind = exchanges[f].kind
                       /\ exchanges'[f].tab = exchanges[f].tab
                       /\ exchanges'[f].shown = exchanges[f].shown
                       /\ exchanges'[f].known = exchanges[f].known
    /\ exchanges'[e].step = step /\ exchanges'[e].revokes = revokes
    /\ exchanges'[e].answer = answer

\* The exchanges are numbered from 1.
LEMMA SentIsNat ==
    ASSUME Typed
    PROVE  /\ Sent = 1..Len(exchanges) /\ Len(exchanges) \in Nat /\ 0 \notin Sent
           /\ \A e \in Sent : exchanges[e] \in ExchangeStates
<1>1. exchanges \in Seq(ExchangeStates)
  BY DEF Typed
<1>2. QED
  BY <1>1 DEF Sent

\* An exchange that moves on stays an exchange.
LEMMA Update ==
    ASSUME NEW x \in ExchangeStates, NEW s \in Steps, NEW r \in SUBSET Nat, NEW a \in Answers
    PROVE  [x EXCEPT !.step = s, !.revokes = r, !.answer = a] \in ExchangeStates
BY DEF ExchangeStates

\* Three fields of one exchange change.
LEMMA Replace ==
    ASSUME Typed, NEW e \in Sent, NEW s \in Steps, NEW r \in SUBSET Nat, NEW a \in Answers,
           exchanges' = [exchanges EXCEPT
               ![e] = [exchanges[e] EXCEPT !.step = s, !.revokes = r, !.answer = a]]
    PROVE  Moves(e, s, r, a)
<1> DEFINE x == exchanges[e]
           y == [x EXCEPT !.step = s, !.revokes = r, !.answer = a]
<1>1. x \in ExchangeStates /\ Sent = 1..Len(exchanges) /\ exchanges \in Seq(ExchangeStates)
  BY SentIsNat DEF Typed
<1>2. y \in ExchangeStates
  BY <1>1, Update
<1>3. /\ y.kind = x.kind /\ y.tab = x.tab /\ y.shown = x.shown /\ y.known = x.known
      /\ y.step = s /\ y.revokes = r /\ y.answer = a
  BY <1>1 DEF ExchangeStates
<1> HIDE DEF y
<1>4. exchanges' = [exchanges EXCEPT ![e] = y]
  BY DEF y
<1>5. exchanges' \in Seq(ExchangeStates) /\ Len(exchanges') = Len(exchanges)
  BY <1>1, <1>2, <1>4
<1>6. Sent' = Sent /\ exchanges'[e] = y /\ \A f \in Sent : f # e => exchanges'[f] = exchanges[f]
  BY <1>1, <1>4, <1>5 DEF Sent
<1>7. QED
  BY <1>3, <1>5, <1>6 DEF Moves

\* What Serve does.
LEMMA Serves ==
    ASSUME Typed, NEW e \in Sent, NEW s \in Steps, NEW r \in SUBSET Nat, NEW a \in Answers,
           Serve(e, s, r, a)
    PROVE  Moves(e, s, r, a)
<1>1. exchanges[e] \in ExchangeStates /\ exchanges \in Seq(ExchangeStates)
  BY SentIsNat DEF Typed
<1>2. exchanges' = [exchanges EXCEPT
          ![e] = [exchanges[e] EXCEPT !.step = s, !.revokes = r, !.answer = a]]
  BY <1>1 DEF Serve, ExchangeStates, Sent
<1>3. QED
  BY <1>2, Replace

\* What the commit of a transaction does.
LEMMA Commits ==
    ASSUME Typed, NEW e \in Sent, exchanges' = [exchanges EXCEPT ![e].step = "over"]
    PROVE  Moves(e, "over", exchanges[e].revokes, exchanges[e].answer)
<1>1. exchanges[e] \in ExchangeStates /\ exchanges \in Seq(ExchangeStates) /\ "over" \in Steps
  BY SentIsNat DEF Typed, Steps
<1>2. exchanges[e].revokes \in SUBSET Nat /\ exchanges[e].answer \in Answers
  BY <1>1 DEF ExchangeStates
<1>3. exchanges' = [exchanges EXCEPT ![e] = [exchanges[e] EXCEPT !.step = "over",
          !.revokes = exchanges[e].revokes, !.answer = exchanges[e].answer]]
  BY <1>1 DEF ExchangeStates, Sent
<1>4. QED
  BY <1>1, <1>2, <1>3, Replace

\* What Hear does.
LEMMA Hears ==
    ASSUME Typed, NEW e \in Sent, NEW from, NEW to \in Answers, Hear(e, from, to)
    PROVE  /\ Moves(e, exchanges[e].step, exchanges[e].revokes, to)
           /\ exchanges[e].answer = from
<1>1. exchanges[e] \in ExchangeStates /\ exchanges \in Seq(ExchangeStates)
  BY SentIsNat DEF Typed
<1>2. exchanges[e].revokes \in SUBSET Nat /\ exchanges[e].step \in Steps
  BY <1>1 DEF ExchangeStates
<1>3. exchanges' = [exchanges EXCEPT ![e] = [exchanges[e] EXCEPT !.step = exchanges[e].step,
          !.revokes = exchanges[e].revokes, !.answer = to]]
  BY <1>1 DEF Hear, ExchangeStates, Sent
<1>4. QED
  BY <1>2, <1>3, Replace DEF Hear

\* A request joins the exchanges.
Joins(kind, t) ==
    /\ exchanges' \in Seq(ExchangeStates) /\ Len(exchanges') = Len(exchanges) + 1
    /\ \A f \in Sent : exchanges'[f] = exchanges[f]
    /\ LET n == Len(exchanges) + 1 IN
         /\ exchanges'[n].kind = kind /\ exchanges'[n].tab = t
         /\ exchanges'[n].shown = jar.refresh /\ exchanges'[n].step = "received"
         /\ exchanges'[n].revokes = {} /\ exchanges'[n].answer = "none"
         /\ exchanges'[n].known = {k \in Sent : Issued(k)}

\* What sending a request does.
LEMMA Sends ==
    ASSUME Typed, NEW kind \in Kinds, NEW t \in Tabs,
           exchanges' = Append(exchanges, Exchange(kind, t))
    PROVE  Joins(kind, t)
<1>1. exchanges \in Seq(ExchangeStates) /\ Sent = 1..Len(exchanges) /\ Len(exchanges) \in Nat
  BY SentIsNat DEF Typed
<1>2. jar.access \in BOOLEAN /\ jar.refresh \in Nat
  BY DEF Typed
<1>3. {k \in Sent : Issued(k)} \in SUBSET Nat
  BY <1>1
<1>4. Exchange(kind, t) \in ExchangeStates
  BY <1>2, <1>3 DEF Exchange, ExchangeStates, Steps, Answers
<1>5. /\ Exchange(kind, t).kind = kind /\ Exchange(kind, t).tab = t
      /\ Exchange(kind, t).shown = jar.refresh /\ Exchange(kind, t).step = "received"
      /\ Exchange(kind, t).revokes = {} /\ Exchange(kind, t).answer = "none"
      /\ Exchange(kind, t).known = {k \in Sent : Issued(k)}
  BY DEF Exchange
<1>6. /\ exchanges' \in Seq(ExchangeStates) /\ Len(exchanges') = Len(exchanges) + 1
      /\ exchanges'[Len(exchanges) + 1] = Exchange(kind, t)
      /\ \A f \in 1..Len(exchanges) : exchanges'[f] = exchanges[f]
  BY <1>1, <1>4
<1>7. QED
  BY <1>1, <1>5, <1>6 DEF Joins

-----------------------------------------------------------------------------
(* The server                                                              *)

\* A step of the server that may be taken, and what it answers.
Served(e, s, r, a) ==
    /\ exchanges[e].step \in {"received", "checked", "open"} /\ r \subseteq Sent
    /\ IF s = "over"
       THEN exchanges[e].step = "open" /\ r = exchanges[e].revokes /\ a = exchanges[e].answer
       ELSE /\ exchanges[e].answer = "none" /\ exchanges[e].step # "open"
            /\ \/ s = "checked" /\ a = "none"
               \/ s = "open" /\ a = "sent"
               \/ s = "void" /\ a = "refused"
    /\ exchanges[e].kind = "login" => r = {}
    /\ exchanges[e].kind = "refresh" /\ s \in {"checked", "open", "over"} =>
         exchanges[e].shown # 0 /\ r = {exchanges[e].shown}
    /\ exchanges[e].kind = "logout" /\ s \in {"checked", "open", "over"} =>
         \A k \in exchanges[e].known : k \in r \/ Revoked(k)

\* A step of the server that may be taken keeps the invariant.
LEMMA ServedKeeps ==
    ASSUME Inductive, NEW e \in Sent, NEW s \in Steps, NEW r \in SUBSET Nat, NEW a \in Answers,
           Served(e, s, r, a), Moves(e, s, r, a), UNCHANGED Browser
    PROVE  Inductive'
<1>1. /\ UNCHANGED <<jar, page, refreshing, call, madeIn, again, expiries>> /\ Sent' = Sent
      /\ Sent = 1..Len(exchanges) /\ Len(exchanges) \in Nat
  BY SentIsNat DEF Browser, Moves, Inductive
<1>2. Typed'
  BY <1>1 DEF Inductive, Typed, Moves
<1>3. \A k \in Sent : Issued(k) => Issued(k)'
  BY <1>1 DEF Issued, Moves, Served
<1>4. \A k : Revoked(k) => Revoked(k)'
  BY <1>1 DEF Revoked, Moves, Served
<1>5. \A k : Held(k) => Held(k)'
  BY <1>1 DEF Held, Moves, Served
<1>6. Linked'
  <2>1. /\ Held(jar.refresh)' /\ \A t \in Tabs : refreshing'[t] \in {0} \cup Sent'
    BY <1>1, <1>5 DEF Inductive, Linked
  <2>2. ASSUME NEW f \in Sent
        PROVE  /\ exchanges'[f].shown < f /\ Held(exchanges[f].shown)'
               /\ exchanges'[f].revokes \subseteq Sent'
               /\ \A k \in exchanges'[f].known : Issued(k)'
    <3>1. /\ exchanges[f].shown < f /\ Held(exchanges[f].shown)
          /\ exchanges[f].revokes \subseteq Sent /\ \A k \in exchanges[f].known : Issued(k)
      BY DEF Inductive, Linked
    <3>2. exchanges'[f].shown = exchanges[f].shown /\ exchanges'[f].known = exchanges[f].known
      BY DEF Moves
    <3>3. exchanges'[f].revokes \subseteq Sent
      BY <3>1 DEF Moves, Served
    <3>4. \A k \in exchanges[f].known : k \in Sent
      BY <3>1 DEF Issued
    <3>5. Held(exchanges[f].shown)'
      BY <1>1, <1>5, <3>1, <3>2 DEF Held
    <3>6. QED
      BY <1>1, <1>3, <3>1, <3>2, <3>3, <3>4, <3>5
  <2>3. QED
    BY <1>1, <2>1, <2>2 DEF Linked
<1>7. Answered'
  <2> SUFFICES ASSUME NEW f \in Sent
               PROVE  /\ exchanges'[f].step \in {"received", "checked"} => exchanges'[f].answer = "none"
                      /\ exchanges'[f].step \in {"open", "over"} =>
                           exchanges'[f].answer \in {"sent", "received", "lost"}
                      /\ exchanges'[f].step = "void" =>
                           exchanges'[f].answer \in {"refused", "received", "lost"}
                      /\ exchanges'[f].kind = "login" => exchanges'[f].revokes = {}
                      /\ exchanges'[f].kind = "refresh"
                         /\ exchanges'[f].step \in {"checked", "open", "over"} =>
                           exchanges'[f].shown # 0 /\ exchanges'[f].revokes = {exchanges'[f].shown}
    BY <1>1 DEF Answered
  <2>1. CASE f # e
    BY <2>1 DEF Inductive, Answered, Moves
  <2>2. CASE f = e
    BY <2>2 DEF Inductive, Answered, Moves, Served
  <2>3. QED
    BY <2>1, <2>2
<1>8. Replaced'
  <2> SUFFICES ASSUME NEW f \in Sent, exchanges'[f].kind = "refresh",
                      exchanges'[f].step \in {"open", "over"}, exchanges'[f].answer = "received"
               PROVE  jar.refresh # exchanges'[f].shown
    BY <1>1 DEF Replaced
  <2>1. exchanges[f].step \in {"open", "over"} /\ exchanges[f].answer = "received"
    BY DEF Moves, Served
  <2>2. QED
    BY <2>1 DEF Inductive, Replaced, Moves
<1>9. Disturbed' <=> Disturbed
  <2>1. a = "lost" <=> exchanges[e].answer = "lost"
    BY DEF Served
  <2>2. \A f \in Sent : /\ exchanges'[f].kind = exchanges[f].kind
                        /\ exchanges'[f].answer = "lost" <=> exchanges[f].answer = "lost"
    BY <2>1 DEF Moves
  <2>3. QED
    BY <1>1, <2>2 DEF Disturbed
<1>10. Holds'
  BY <1>1, <1>9 DEF Inductive, Holds
<1>11. Found'
  <2> SUFFICES ASSUME NEW l \in Sent, exchanges'[l].kind = "logout",
                      exchanges'[l].step \in {"checked", "open", "over"},
                      NEW k \in exchanges'[l].known
               PROVE  k \in exchanges'[l].revokes \/ Revoked(k)'
    BY <1>1 DEF Found
  <2>1. CASE l # e
    BY <1>4, <2>1 DEF Inductive, Found, Moves
  <2>2. CASE l = e
    BY <1>4, <2>2 DEF Moves, Served
  <2>3. QED
    BY <2>1, <2>2
<1>12. OneRefresh'
  <2>1. \A f \in Sent : exchanges'[f].answer \in Pending => exchanges[f].answer \in Pending
    BY DEF Moves, Served, Pending
  <2>2. \A f \in Sent : exchanges'[f].kind = exchanges[f].kind /\ exchanges'[f].tab = exchanges[f].tab
    BY DEF Moves
  <2>3. QED
    BY <1>1, <2>1, <2>2 DEF Inductive, OneRefresh, Linked
<1>13. WaitersHaveRefresh'
  <2>1. \A f \in Sent : exchanges[f].answer \in {"none", "sent", "refused"} =>
                           exchanges'[f].answer \in {"none", "sent", "refused"}
    BY DEF Moves, Served
  <2>2. \A t \in Tabs : Waiting(t)' = Waiting(t)
    BY <1>1 DEF Waiting
  <2>3. QED
    BY <1>1, <2>1, <2>2 DEF Inductive, WaitersHaveRefresh, Linked
<1>14. DeniedOnce'
  BY <1>1, <1>9 DEF Inductive, DeniedOnce, Untroubled
<1>15. ExpiryIsHidden'
  <2>1. \A f \in Sent : /\ exchanges'[f].kind = exchanges[f].kind
                        /\ exchanges[f].step = "void" => exchanges'[f].step = "void"
    BY DEF Moves, Served
  <2>2. QED
    BY <1>1, <1>9, <2>1 DEF Inductive, ExpiryIsHidden
<1>16. QED
  BY <1>2, <1>6, <1>7, <1>8, <1>10, <1>11, <1>12, <1>13, <1>14, <1>15 DEF Inductive

\* Every step of the server is one that may be taken.
LEMMA ServerKeeps ==
    ASSUME Inductive, NEW e \in Sent, ServerStep(e)
    PROVE  Inductive'
<1>1. /\ Typed /\ exchanges[e] \in ExchangeStates /\ Sent = 1..Len(exchanges)
      /\ Len(exchanges) \in Nat
  BY SentIsNat DEF Inductive
<1>2. /\ exchanges[e].revokes \in SUBSET Nat /\ exchanges[e].answer \in Answers
      /\ exchanges[e].shown \in Nat /\ exchanges[e].kind \in Kinds
  BY <1>1 DEF ExchangeStates
<1>3. /\ exchanges[e].revokes \subseteq Sent
      /\ exchanges[e].step \in {"received", "checked"} => exchanges[e].answer = "none"
      /\ exchanges[e].kind = "login" => exchanges[e].revokes = {}
      /\ exchanges[e].kind = "refresh" /\ exchanges[e].step \in {"checked", "open", "over"} =>
           exchanges[e].shown # 0 /\ exchanges[e].revokes = {exchanges[e].shown}
      /\ exchanges[e].kind = "logout" /\ exchanges[e].step \in {"checked", "open", "over"} =>
           \A k \in exchanges[e].known : k \in exchanges[e].revokes \/ Revoked(k)
      /\ \A k \in exchanges[e].known : Issued(k)
  BY DEF Inductive, Linked, Answered, Found
<1>4. {"received", "checked", "open", "over", "void"} \subseteq Steps
      /\ {"none", "sent", "refused"} \subseteq Answers /\ {} \in SUBSET Nat
  BY DEF Steps, Answers
<1>5. SUFFICES \E s \in Steps, r \in SUBSET Nat, a \in Answers :
                  Served(e, s, r, a) /\ Moves(e, s, r, a) /\ UNCHANGED Browser
  BY ServedKeeps
<1>6. CASE IssueForLogin(e)
  <2>1. Served(e, "open", {}, "sent")
    BY <1>3, <1>6 DEF IssueForLogin, Served
  <2>2. Moves(e, "open", {}, "sent") /\ UNCHANGED Browser
    BY <1>1, <1>4, <1>6, Serves DEF IssueForLogin
  <2>3. QED
    BY <1>4, <2>1, <2>2
<1>7. CASE CheckToken(e) /\ Live(exchanges[e].shown)
  <2> DEFINE r == {exchanges[e].shown}
  <2>1. exchanges[e].shown \in Sent /\ exchanges[e].shown # 0 /\ r \in SUBSET Nat
    BY <1>1, <1>2, <1>7 DEF Live, Issued
  <2>2. Served(e, "checked", r, "none")
    BY <1>3, <1>7, <2>1 DEF CheckToken, Served
  <2>3. Moves(e, "checked", r, "none") /\ UNCHANGED Browser
    BY <1>1, <1>4, <1>7, <2>1, Serves DEF CheckToken
  <2>4. QED
    BY <1>4, <2>1, <2>2, <2>3
<1>8. CASE CheckToken(e) /\ ~Live(exchanges[e].shown)
  <2>1. Served(e, "void", {}, "refused")
    BY <1>3, <1>8 DEF CheckToken, Served
  <2>2. Moves(e, "void", {}, "refused") /\ UNCHANGED Browser
    BY <1>1, <1>4, <1>8, Serves DEF CheckToken
  <2>3. QED
    BY <1>4, <2>1, <2>2
<1>9. CASE Rotate(e) \/ RevokeAll(e)
  <2>1. Served(e, "open", exchanges[e].revokes, "sent")
    BY <1>3, <1>9 DEF Rotate, RevokeAll, Served
  <2>2. Moves(e, "open", exchanges[e].revokes, "sent") /\ UNCHANGED Browser
    BY <1>1, <1>2, <1>4, <1>9, Serves DEF Rotate, RevokeAll
  <2>3. QED
    BY <1>2, <1>4, <2>1, <2>2
<1>10. CASE StartLogout(e) /\ exchanges[e].granted
  <2>1. LogoutFinds(e) \in SUBSET Nat /\ LogoutFinds(e) \subseteq Sent
    BY <1>1 DEF LogoutFinds
  <2>2. \A k \in exchanges[e].known : k \in LogoutFinds(e) \/ Revoked(k)
    BY <1>3 DEF LogoutFinds, Live, Issued, Revoked
  <2>3. Served(e, "checked", LogoutFinds(e), "none")
    BY <1>3, <1>10, <2>1, <2>2 DEF StartLogout, Served
  <2>4. Moves(e, "checked", LogoutFinds(e), "none") /\ UNCHANGED Browser
    BY <1>1, <1>4, <1>10, <2>1, Serves DEF StartLogout
  <2>5. QED
    BY <1>4, <2>1, <2>3, <2>4
<1>11. CASE StartLogout(e) /\ ~exchanges[e].granted
  <2>1. Served(e, "void", {}, "refused")
    BY <1>3, <1>11 DEF StartLogout, Served
  <2>2. Moves(e, "void", {}, "refused") /\ UNCHANGED Browser
    BY <1>1, <1>4, <1>11, Serves DEF StartLogout
  <2>3. QED
    BY <1>4, <2>1, <2>2
<1>12. CASE Commit(e)
  <2>1. Served(e, "over", exchanges[e].revokes, exchanges[e].answer)
    BY <1>3, <1>12 DEF Commit, Served
  <2>2. Moves(e, "over", exchanges[e].revokes, exchanges[e].answer) /\ UNCHANGED Browser
    BY <1>1, <1>12, Commits DEF Commit
  <2>3. QED
    BY <1>2, <1>4, <2>1, <2>2
<1>13. QED
  BY <1>6, <1>7, <1>8, <1>9, <1>10, <1>11, <1>12 DEF ServerStep

-----------------------------------------------------------------------------
(* Pages and calls                                                         *)

\* A request that joins the exchanges leaves what holds of the others.
LEMMA JoinKeeps ==
    ASSUME Inductive, NEW kind \in Kinds, NEW t \in Tabs, Joins(kind, t), UNCHANGED jar,
           \A u \in Tabs : refreshing'[u] \in {0} \cup Sent'
    PROVE  /\ Linked' /\ Answered' /\ Replaced' /\ Holds' /\ Found'
           /\ Disturbed => Disturbed'
           /\ Sent' = Sent \cup {Len(exchanges) + 1}
<1> DEFINE n == Len(exchanges) + 1
<1>1. /\ Sent = 1..Len(exchanges) /\ Len(exchanges) \in Nat /\ n \notin Sent
      /\ Sent' = Sent \cup {n} /\ jar.refresh \in Nat /\ jar' = jar
      /\ \A f \in Sent : exchanges'[f] = exchanges[f]
  BY SentIsNat DEF Inductive, Typed, Joins, Sent
<1>2. /\ exchanges'[n].kind = kind /\ exchanges'[n].tab = t
      /\ exchanges'[n].shown = jar.refresh /\ exchanges'[n].step = "received"
      /\ exchanges'[n].revokes = {} /\ exchanges'[n].answer = "none"
      /\ exchanges'[n].known = {k \in Sent : Issued(k)}
  BY DEF Joins
<1> HIDE DEF n
<1>3. \A k \in Sent : Issued(k) => Issued(k)'
  BY <1>1 DEF Issued
<1>4. \A k : Revoked(k) => Revoked(k)'
  BY <1>1 DEF Revoked
<1>5. ASSUME NEW k \in Nat, Held(k)
      PROVE  k \in {0} \cup Sent /\ (k # 0 => /\ k \in Sent' /\ exchanges'[k].kind # "logout"
                                              /\ exchanges'[k].step \in {"open", "over"}
                                              /\ exchanges'[k].answer = "received")
  BY <1>1, <1>5 DEF Held
<1>6. Linked'
  <2>1. Held(jar.refresh)'
    BY <1>1, <1>5 DEF Inductive, Linked, Held
  <2>2. ASSUME NEW f \in Sent
        PROVE  /\ exchanges'[f].shown < f /\ Held(exchanges[f].shown)'
               /\ exchanges'[f].revokes \subseteq Sent'
               /\ \A k \in exchanges'[f].known : Issued(k)'
    <3>1. /\ exchanges[f].shown < f /\ Held(exchanges[f].shown)
          /\ exchanges[f].revokes \subseteq Sent /\ \A k \in exchanges[f].known : Issued(k)
      BY DEF Inductive, Linked
    <3>2. exchanges[f].shown \in Nat
      BY SentIsNat DEF Inductive, ExchangeStates
    <3>3. \A k \in exchanges[f].known : k \in Sent
      BY <3>1 DEF Issued
    <3>4. Held(exchanges[f].shown)'
      BY <1>1, <1>5, <3>1, <3>2 DEF Held
    <3>5. QED
      BY <1>1, <1>3, <3>1, <3>3, <3>4
  <2>3. /\ exchanges'[n].shown < n /\ \A k : k = exchanges'[n].shown => Held(k)'
        /\ exchanges'[n].revokes \subseteq Sent'
        /\ \A k \in exchanges'[n].known : Issued(k)'
    <3>1. Held(jar.refresh) /\ jar.refresh \in {0} \cup Sent
      BY <1>1, <1>5 DEF Inductive, Linked
    <3>2. jar.refresh < n
      BY <1>1, <3>1 DEF n
    <3>3. \A k : k = exchanges'[n].shown => Held(k)'
      BY <1>1, <1>2, <1>5, <3>1 DEF Held
    <3>4. QED
      BY <1>1, <1>2, <1>3, <3>2, <3>3
  <2>4. QED
    BY <1>1, <2>1, <2>2, <2>3 DEF Linked
<1>7. Answered'
  BY <1>1, <1>2 DEF Inductive, Answered
<1>8. Replaced'
  BY <1>1, <1>2 DEF Inductive, Replaced
<1>9. Disturbed => Disturbed'
  BY <1>1 DEF Disturbed
<1>11. Holds'
  BY <1>1, <1>9 DEF Inductive, Holds
<1>12. Found'
  BY <1>1, <1>2, <1>4 DEF Inductive, Found
<1>13. QED
  BY <1>1, <1>6, <1>7, <1>8, <1>9, <1>11, <1>12 DEF n

\* A login or a logout is sent.
LEMMA SigningKeeps ==
    ASSUME Inductive, NEW t \in Tabs, Login(t) \/ Logout(t)
    PROVE  Inductive'
<1>1. PICK kind \in {"login", "logout"} : exchanges' = Append(exchanges, Exchange(kind, t))
  BY DEF Login, Logout
<1>2. UNCHANGED <<jar, refreshing, call, madeIn, again, expiries>>
  BY DEF Login, Logout
<1>3. kind \in Kinds /\ Typed
  BY DEF Kinds, Inductive
<1>4. Joins(kind, t)
  BY <1>1, <1>3, Sends
<1>5. /\ Sent = 1..Len(exchanges) /\ Len(exchanges) \in Nat
      /\ Sent' = Sent \cup {Len(exchanges) + 1}
  BY <1>3, <1>4, SentIsNat DEF Joins, Sent
<1>6. \A u \in Tabs : refreshing'[u] \in {0} \cup Sent'
  BY <1>2, <1>5 DEF Inductive, Linked
<1>7. /\ Linked' /\ Answered' /\ Replaced' /\ Holds' /\ Found' /\ (Disturbed => Disturbed')
  BY <1>2, <1>3, <1>4, <1>6, JoinKeeps
<1>8. page' \in [Tabs -> Pages]
  BY DEF Login, Logout, Inductive, Typed, Pages
<1>9. Typed'
  BY <1>2, <1>4, <1>8 DEF Inductive, Typed, Joins
<1>10. /\ \A f \in Sent : exchanges'[f] = exchanges[f]
       /\ exchanges'[Len(exchanges) + 1].kind # "refresh"
  BY <1>4 DEF Joins
<1>11. OneRefresh'
  BY <1>2, <1>5, <1>10 DEF Inductive, OneRefresh, Linked
<1>12. WaitersHaveRefresh'
  <2>1. \A u \in Tabs : Waiting(u)' = Waiting(u)
    BY <1>2 DEF Waiting
  <2>2. QED
    BY <1>2, <1>5, <1>10, <2>1 DEF Inductive, WaitersHaveRefresh, Linked
<1>13. DeniedOnce'
  BY <1>2, <1>7 DEF Inductive, DeniedOnce, Untroubled
<1>14. ExpiryIsHidden'
  BY <1>2, <1>5, <1>7, <1>10 DEF Inductive, ExpiryIsHidden
<1>15. QED
  BY <1>7, <1>9, <1>11, <1>12, <1>13, <1>14 DEF Inductive

\* A call is denied: it gives up, joins the refresh of its tab, or starts it.
LEMMA DeniedKeeps ==
    ASSUME Inductive, NEW c \in Calls, Denied(c)
    PROVE  Inductive'
<1> DEFINE t == madeIn[c]
           n == Len(exchanges) + 1
<1>1. /\ t \in Tabs /\ call[c] = "denied" /\ UNCHANGED <<jar, page, madeIn, again, expiries>>
      /\ Sent = 1..Len(exchanges) /\ Len(exchanges) \in Nat /\ n \notin Sent /\ n # 0
  BY SentIsNat DEF Denied, Inductive, Typed
<1>2. /\ call \in [Calls -> CallSteps] /\ again \in [Calls -> BOOLEAN] /\ Typed
      /\ {"failed", "waiting"} \subseteq CallSteps
  BY DEF Inductive, Typed, CallSteps
<1>3. CASE again[c] /\ c \notin Insistent
  <2>1. call' = [call EXCEPT ![c] = "failed"] /\ UNCHANGED <<exchanges, refreshing>>
    BY <1>3 DEF Denied
  <2>2. Sent' = Sent /\ Typed' /\ UNCHANGED <<jar, exchanges, refreshing, madeIn, again, expiries>>
    BY <1>1, <1>2, <2>1 DEF Typed, Sent
  <2>3. Linked' /\ Answered' /\ Replaced' /\ Holds' /\ Found' /\ OneRefresh'
        /\ (Disturbed' <=> Disturbed)
    BY <2>2 DEF Inductive, Linked, Held, Issued, Answered, Replaced, Holds, Disturbed, Found,
       Revoked, OneRefresh
  <2>4. \A u \in Tabs : Waiting(u)' = Waiting(u)
    BY <1>1, <1>2, <2>1 DEF Waiting
  <2>5. WaitersHaveRefresh'
    BY <2>2, <2>4 DEF Inductive, WaitersHaveRefresh
  <2>6. DeniedOnce'
    BY <1>1, <1>2, <2>1, <2>2, <2>3 DEF Inductive, DeniedOnce, Untroubled
  <2>7. ~Untroubled
    BY <1>1, <1>3 DEF Inductive, DeniedOnce
  <2>8. ExpiryIsHidden'
    BY <1>1, <1>2, <2>1, <2>2, <2>3, <2>7 DEF Inductive, ExpiryIsHidden, Untroubled, Typed
  <2>9. QED
    BY <2>2, <2>3, <2>5, <2>6, <2>8 DEF Inductive
<1>4. CASE ~(again[c] /\ c \notin Insistent)
  <2>1. call' = [call EXCEPT ![c] = "waiting"]
    BY <1>4 DEF Denied
  <2>2. call' \in [Calls -> CallSteps] /\ Waiting(t)' = Waiting(t) \cup {c}
        /\ \A u \in Tabs : u # t => Waiting(u)' = Waiting(u)
    BY <1>1, <1>2, <2>1 DEF Waiting
  <2>3. Untroubled => expiries # 0 /\ ~again[c]
    BY <1>1 DEF Inductive, DeniedOnce, Typed
  <2>4. CASE refreshing[t] # 0
    <3>1. UNCHANGED <<jar, exchanges, refreshing, madeIn, again, expiries>>
      BY <1>1, <1>4, <2>4 DEF Denied
    <3>2. Sent' = Sent /\ Typed'
      BY <1>1, <1>2, <2>2, <3>1 DEF Typed, Sent
    <3>3. Linked' /\ Answered' /\ Replaced' /\ Holds' /\ Found' /\ OneRefresh'
          /\ (Disturbed' <=> Disturbed)
      BY <3>1, <3>2 DEF Inductive, Linked, Held, Issued, Answered, Replaced, Holds, Disturbed, Found,
         Revoked, OneRefresh
    <3>4. WaitersHaveRefresh'
      BY <1>1, <2>2, <2>4, <3>1 DEF Inductive, WaitersHaveRefresh
    <3>5. DeniedOnce'
      BY <1>2, <2>1, <2>3, <3>1, <3>3 DEF Inductive, DeniedOnce, Untroubled
    <3>6. ExpiryIsHidden'
      BY <1>2, <2>1, <3>1, <3>2, <3>3 DEF Inductive, ExpiryIsHidden
    <3>7. QED
      BY <3>2, <3>3, <3>4, <3>5, <3>6 DEF Inductive
  <2>5. CASE refreshing[t] = 0
    <3>1. /\ exchanges' = Append(exchanges, Exchange("refresh", t))
          /\ refreshing' = [refreshing EXCEPT ![t] = Len(exchanges')]
      BY <1>4, <2>5 DEF Denied
    <3>2. Joins("refresh", t)
      BY <1>1, <1>2, <3>1, Sends DEF Kinds
    <3>3. /\ Len(exchanges') = n /\ Sent' = Sent \cup {n}
          /\ \A f \in Sent : exchanges'[f] = exchanges[f]
          /\ exchanges'[n].kind = "refresh" /\ exchanges'[n].tab = t
          /\ exchanges'[n].answer = "none" /\ exchanges'[n].step = "received"
      BY <1>1, <3>2 DEF Joins, Sent
    <3>4. /\ refreshing'[t] = n /\ \A u \in Tabs : u # t => refreshing'[u] = refreshing[u]
          /\ refreshing' \in [Tabs -> Nat]
      BY <1>1, <3>1, <3>3 DEF Inductive, Typed
    <3>5. \A u \in Tabs : refreshing'[u] \in {0} \cup Sent'
      BY <3>3, <3>4 DEF Inductive, Linked
    <3>6. /\ Linked' /\ Answered' /\ Replaced' /\ Holds' /\ Found' /\ (Disturbed => Disturbed')
      BY <1>1, <3>2, <3>5, JoinKeeps DEF Kinds
    <3>7. Typed'
      BY <1>1, <2>2, <3>2, <3>4 DEF Inductive, Typed, Joins
    <3> HIDE DEF n
    <3>8. OneRefresh'
      <4>1. ASSUME NEW u \in Tabs, refreshing'[u] # 0
            PROVE  exchanges'[refreshing'[u]].kind = "refresh" /\ exchanges'[refreshing'[u]].tab = u
        BY <3>3, <3>4, <4>1 DEF Inductive, OneRefresh, Linked
      <4>2. ASSUME NEW e \in Sent', exchanges'[e].kind = "refresh", exchanges'[e].answer \in Pending
            PROVE  refreshing'[exchanges'[e].tab] = e
        <5>1. CASE e = n
          BY <3>3, <3>4, <5>1
        <5>2. CASE e # n
          <6>1. e \in Sent /\ exchanges'[e] = exchanges[e] /\ exchanges[e].tab \in Tabs
            BY <1>2, <3>3, <5>2, SentIsNat DEF ExchangeStates
          <6>2. refreshing[exchanges[e].tab] = e /\ e # 0
            BY <1>1, <4>2, <6>1 DEF Inductive, OneRefresh
          <6>3. QED
            BY <2>5, <3>4, <6>1, <6>2
        <5>3. QED
          BY <5>1, <5>2
      <4>3. QED
        BY <4>1, <4>2 DEF OneRefresh
    <3>9. WaitersHaveRefresh'
      <4> SUFFICES ASSUME NEW u \in Tabs
                   PROVE  /\ Waiting(u)' # {} <=> refreshing'[u] # 0
                          /\ refreshing'[u] # 0 =>
                               exchanges'[refreshing'[u]].answer \in {"none", "sent", "refused"}
        BY DEF WaitersHaveRefresh
      <4>1. CASE u = t
        <5>1. c \in Waiting(u)'
          BY <1>1, <1>2, <2>1, <4>1 DEF Waiting
        <5>2. n # 0
          BY <1>1 DEF n
        <5>3. QED
          BY <3>3, <3>4, <4>1, <5>1, <5>2
      <4>2. CASE u # t
        <5>1. Waiting(u)' = Waiting(u) /\ refreshing'[u] = refreshing[u]
          BY <2>2, <3>4, <4>2
        <5>2. refreshing[u] # 0 => refreshing[u] \in Sent
          BY DEF Inductive, Linked
        <5>3. QED
          BY <3>3, <5>1, <5>2 DEF Inductive, WaitersHaveRefresh
      <4>3. QED
        BY <4>1, <4>2
    <3>10. DeniedOnce'
      BY <1>1, <1>2, <2>1, <2>3, <3>6 DEF Inductive, DeniedOnce, Untroubled
    <3>11. ExpiryIsHidden'
      BY <1>1, <1>2, <2>1, <3>3, <3>6 DEF Inductive, ExpiryIsHidden
    <3>12. QED
      BY <3>6, <3>7, <3>8, <3>9, <3>10, <3>11 DEF Inductive
  <2>6. QED
    BY <2>4, <2>5
<1>5. QED
  BY <1>3, <1>4

\* A call is sent, a page opens, a token expires: no exchange moves.
LEMMA OthersKeep ==
    ASSUME Inductive,
           \/ \E t \in Tabs : Open(t) \/ Boot(t)
           \/ \E c \in Calls : Resend(c) \/ \E t \in Tabs : Send(c, t)
           \/ AccessExpires \/ UNCHANGED vars
    PROVE  Inductive'
<1>1. UNCHANGED <<exchanges, refreshing>> /\ Sent' = Sent /\ jar'.refresh = jar.refresh
      /\ (Disturbed' <=> Disturbed)
  BY DEF Open, Boot, Resend, Send, AccessExpires, vars, Sent, Disturbed, Inductive, Typed
<1>2. Linked' /\ Answered' /\ Replaced' /\ Holds' /\ Found' /\ OneRefresh'
  BY <1>1 DEF Inductive, Linked, Held, Issued, Answered, Replaced, Holds, Found, Revoked,
     OneRefresh
<1>3. ASSUME NEW t \in Tabs, Open(t) \/ Boot(t)
      PROVE  Inductive'
  <2>1. UNCHANGED <<jar, exchanges, refreshing, call, madeIn, again, expiries>>
        /\ page' \in [Tabs -> Pages]
    BY <1>3 DEF Open, Boot, Inductive, Typed, Pages
  <2>2. Typed'
    BY <2>1 DEF Inductive, Typed
  <2>3. WaitersHaveRefresh' /\ DeniedOnce' /\ ExpiryIsHidden'
    BY <1>1, <2>1 DEF Inductive, WaitersHaveRefresh, Waiting, DeniedOnce, Untroubled, ExpiryIsHidden
  <2>4. QED
    BY <1>2, <2>2, <2>3 DEF Inductive
<1>4. ASSUME NEW c \in Calls, NEW t \in Tabs, Send(c, t)
      PROVE  Inductive'
  <2>1. /\ call[c] = "idle" /\ call' = [call EXCEPT ![c] = Sending(c)]
        /\ madeIn' = [madeIn EXCEPT ![c] = t]
        /\ UNCHANGED <<jar, exchanges, page, refreshing, again, expiries>>
    BY <1>4 DEF Send
  <2>2. call'[c] \in {"done", "denied"} /\ (call'[c] = "denied" => ~jar.access)
    BY <2>1 DEF Sending, Inductive, Typed
  <2>3. Typed'
    BY <2>1 DEF Inductive, Typed, CallSteps, Sending
  <2>4. \A u \in Tabs : Waiting(u)' = Waiting(u)
    BY <2>1, <2>2 DEF Waiting, Inductive, Typed
  <2>5. WaitersHaveRefresh'
    BY <1>1, <2>1, <2>4 DEF Inductive, WaitersHaveRefresh
  <2>6. \A d \in Calls : d # c => call'[d] = call[d]
    BY <2>1 DEF Inductive, Typed
  <2>7. DeniedOnce'
    BY <1>1, <2>1, <2>2, <2>6 DEF Inductive, DeniedOnce, Untroubled
  <2>8. ExpiryIsHidden'
    BY <1>1, <2>1, <2>2, <2>6 DEF Inductive, ExpiryIsHidden
  <2>9. QED
    BY <1>2, <2>3, <2>5, <2>7, <2>8 DEF Inductive
<1>5. ASSUME NEW c \in Calls, Resend(c)
      PROVE  Inductive'
  <2>1. /\ call[c] = "retry" /\ call' = [call EXCEPT ![c] = Sending(c)]
        /\ again' = [again EXCEPT ![c] = TRUE]
        /\ UNCHANGED <<jar, exchanges, page, refreshing, madeIn, expiries>>
    BY <1>5 DEF Resend
  <2>2. /\ call'[c] \in {"done", "denied"} /\ (call'[c] = "denied" => ~jar.access)
        /\ Untroubled => jar.access /\ expiries # 0
    BY <2>1 DEF Sending, Inductive, Typed, DeniedOnce
  <2>3. Typed'
    BY <2>1 DEF Inductive, Typed, CallSteps, Sending
  <2>4. \A u \in Tabs : Waiting(u)' = Waiting(u)
    BY <2>1, <2>2 DEF Waiting, Inductive, Typed
  <2>5. WaitersHaveRefresh'
    BY <1>1, <2>1, <2>4 DEF Inductive, WaitersHaveRefresh
  <2>6. \A d \in Calls : d # c => call'[d] = call[d] /\ again'[d] = again[d]
    BY <2>1 DEF Inductive, Typed
  <2>7. DeniedOnce'
    BY <1>1, <2>1, <2>2, <2>6 DEF Inductive, DeniedOnce, Untroubled
  <2>8. ExpiryIsHidden'
    BY <1>1, <2>1, <2>2, <2>6 DEF Inductive, ExpiryIsHidden
  <2>9. QED
    BY <1>2, <2>3, <2>5, <2>7, <2>8 DEF Inductive
<1>6. ASSUME AccessExpires
      PROVE  Inductive'
  <2>1. /\ jar' = [jar EXCEPT !.access = FALSE] /\ expiries' = expiries + 1
        /\ expiries < MaxExpiries
        /\ UNCHANGED <<exchanges, page, refreshing, call, madeIn, again>>
    BY <1>6 DEF AccessExpires
  <2>2. Typed'
    <3>1. jar \in [access : BOOLEAN, refresh : Nat] /\ FALSE \in BOOLEAN
      BY DEF Inductive, Typed
    <3>2. jar' \in [access : BOOLEAN, refresh : Nat]
      BY <2>1, <3>1
    <3>3. expiries' \in 0..MaxExpiries
      BY <2>1, BoundsAssumption DEF Inductive, Typed
    <3>4. QED
      BY <2>1, <3>2, <3>3 DEF Inductive, Typed
  <2>3. WaitersHaveRefresh'
    BY <1>1, <2>1 DEF Inductive, WaitersHaveRefresh, Waiting
  <2>4. expiries' # 0 /\ (Untroubled' => Untroubled /\ expiries = 0)
    BY <1>1, <2>1, BoundsAssumption DEF Inductive, Typed, Untroubled
  <2>5. DeniedOnce'
    BY <2>1, <2>4 DEF Inductive, DeniedOnce
  <2>6. ExpiryIsHidden'
    BY <1>1, <2>1, BoundsAssumption DEF Inductive, ExpiryIsHidden, Typed
  <2>7. QED
    BY <1>2, <2>2, <2>3, <2>5, <2>6 DEF Inductive
<1>7. CASE UNCHANGED vars
  BY <1>1, <1>2, <1>7 DEF vars, Inductive, Typed, WaitersHaveRefresh, Waiting, DeniedOnce,
     Untroubled, ExpiryIsHidden
<1>8. QED
  BY <1>3, <1>4, <1>5, <1>6, <1>7
-----------------------------------------------------------------------------
(* Answers                                                                 *)

\* An answer that comes, or is lost, leaves what holds of the exchanges, and the
\* browser with a token it was given.
LEMMA HeardKeeps ==
    ASSUME Inductive, NEW e \in Sent, NEW from \in {"sent", "refused"},
           NEW to \in {"received", "lost"}, Hear(e, from, to),
           jar'.refresh \in {0, e, jar.refresh},
           jar'.refresh = 0 => Disturbed,
           jar'.refresh = e => exchanges[e].kind # "logout" /\ from = "sent" /\ to = "received",
           exchanges[e].kind = "refresh" /\ from = "sent" /\ to = "received" => jar'.refresh = e,
           \A u \in Tabs : refreshing'[u] \in {0} \cup Sent
    PROVE  /\ Linked' /\ Answered' /\ Replaced' /\ Holds' /\ Found' /\ (Disturbed => Disturbed')
           /\ Moves(e, exchanges[e].step, exchanges[e].revokes, to) /\ exchanges[e].answer = from
<1>1. Moves(e, exchanges[e].step, exchanges[e].revokes, to) /\ exchanges[e].answer = from
  BY Hears DEF Inductive, Answers
<1>2. /\ Sent' = Sent /\ 0 \notin Sent /\ e \in Nat
      /\ \A f \in Sent : /\ f # e => exchanges'[f] = exchanges[f]
                         /\ exchanges'[f].kind = exchanges[f].kind
                         /\ exchanges'[f].tab = exchanges[f].tab
                         /\ exchanges'[f].shown = exchanges[f].shown
                         /\ exchanges'[f].known = exchanges[f].known
                         /\ exchanges'[f].step = exchanges[f].step
                         /\ exchanges'[f].revokes = exchanges[f].revokes
      /\ exchanges'[e].answer = to
  BY <1>1, SentIsNat DEF Moves, Inductive
<1>3. \A f \in Sent : /\ exchanges[f].shown \in Nat /\ exchanges[f].shown < f
                     /\ Held(exchanges[f].shown)
                     /\ exchanges[f].revokes \subseteq Sent
                     /\ \A k \in exchanges[f].known : Issued(k)
  BY SentIsNat DEF Inductive, Linked, ExchangeStates
<1>4. \A k \in Nat : Held(k) => k # e /\ Held(k)'
  BY <1>1, <1>2 DEF Held
<1>5. exchanges[e].step \in {"open", "over"} <=> from = "sent"
  <2>1. exchanges[e].step \in Steps
    BY SentIsNat DEF Inductive, ExchangeStates
  <2>2. QED
    BY <1>1, <2>1 DEF Inductive, Answered, Steps
<1>6. Linked'
  <2>1. \A k : k = jar'.refresh => Held(k)'
    <3>1. CASE jar'.refresh = e
      BY <1>2, <1>5, <3>1 DEF Held
    <3>2. CASE jar'.refresh = jar.refresh
      BY <1>4, <3>2 DEF Inductive, Linked, Typed
    <3>3. CASE jar'.refresh = 0
      BY <3>3 DEF Held
    <3>4. QED
      BY <3>1, <3>2, <3>3
  <2>2. \A k \in Sent : Issued(k) => Issued(k)'
    BY <1>2 DEF Issued
  <2>3. ASSUME NEW f \in Sent
        PROVE  /\ exchanges'[f].shown < f /\ (\A k : k = exchanges'[f].shown => Held(k)')
               /\ exchanges'[f].revokes \subseteq Sent'
               /\ \A k \in exchanges'[f].known : Issued(k)'
    <3>1. \A k \in exchanges[f].known : k \in Sent
      BY <1>3 DEF Issued
    <3>2. QED
      BY <1>2, <1>3, <1>4, <2>2, <3>1
  <2>4. QED
    BY <1>2, <2>1, <2>3 DEF Linked
<1>7. Answered'
  <2> SUFFICES ASSUME NEW f \in Sent
               PROVE  /\ exchanges'[f].step \in {"received", "checked"} => exchanges'[f].answer = "none"
                      /\ exchanges'[f].step \in {"open", "over"} =>
                           exchanges'[f].answer \in {"sent", "received", "lost"}
                      /\ exchanges'[f].step = "void" =>
                           exchanges'[f].answer \in {"refused", "received", "lost"}
                      /\ exchanges'[f].kind = "login" => exchanges'[f].revokes = {}
                      /\ exchanges'[f].kind = "refresh"
                         /\ exchanges'[f].step \in {"checked", "open", "over"} =>
                           exchanges'[f].shown # 0 /\ exchanges'[f].revokes = {exchanges'[f].shown}
    BY <1>2 DEF Answered
  <2>1. CASE f # e
    BY <1>2, <2>1 DEF Inductive, Answered
  <2>2. CASE f = e
    BY <1>1, <1>2, <2>2 DEF Inductive, Answered
  <2>3. QED
    BY <2>1, <2>2
<1>8. Replaced'
  <2> SUFFICES ASSUME NEW f \in Sent, exchanges[f].kind = "refresh",
                      exchanges[f].step \in {"open", "over"}, exchanges'[f].answer = "received"
               PROVE  jar'.refresh # exchanges[f].shown
    BY <1>2 DEF Replaced
  <2>1. exchanges[f].shown # 0 /\ exchanges[f].shown # e /\ exchanges[f].shown < f
    <3>1. exchanges[f].shown # 0
      BY DEF Inductive, Answered
    <3>2. QED
      BY <1>3, <1>4, <3>1
  <2>2. CASE jar'.refresh = jar.refresh /\ jar'.refresh # e
    <3>1. f # e
      BY <1>1, <1>2, <1>5, <2>2
    <3>2. QED
      BY <1>2, <2>2, <3>1 DEF Inductive, Replaced
  <2>3. QED
    BY <2>1, <2>2
<1>9. Disturbed => Disturbed'
  <2>1. \A f \in Sent : exchanges[f].answer = "lost" => exchanges'[f].answer = "lost"
    BY <1>1, <1>2
  <2>2. QED
    BY <1>2, <2>1 DEF Disturbed
<1>10. Holds'
  BY <1>9 DEF Holds
<1>11. Found'
  <2>1. \A k : Revoked(k) => Revoked(k)'
    BY <1>2 DEF Revoked
  <2>2. QED
    BY <1>2, <2>1 DEF Inductive, Found
<1>12. QED
  BY <1>1, <1>6, <1>7, <1>8, <1>9, <1>10, <1>11

\* The refresh of a tab is settled with its answer, and with it the calls of the tab
\* and of no other.
LEMMA SettledKeeps ==
    ASSUME Inductive, NEW e \in Sent, NEW to \in {"received", "lost"},
           exchanges[e].kind = "refresh", exchanges[e].answer \in {"sent", "refused"},
           Moves(e, exchanges[e].step, exchanges[e].revokes, to), UNCHANGED madeIn,
           NEW verdict \in {"retry", "failed"}, Settle(exchanges[e].tab, verdict)
    PROVE  /\ OneRefresh' /\ WaitersHaveRefresh'
           /\ refreshing' \in [Tabs -> Nat] /\ (\A u \in Tabs : refreshing'[u] \in {0} \cup Sent)
           /\ call' \in [Calls -> CallSteps]
           /\ \A c \in Calls : call'[c] = call[c] \/ (call[c] = "waiting" /\ call'[c] = verdict)
<1>1. PICK t \in Tabs : t = exchanges[e].tab
  BY SentIsNat DEF Inductive, ExchangeStates
<1>2. /\ refreshing' = [refreshing EXCEPT ![t] = 0]
      /\ call' = [c \in Calls |-> IF c \in Waiting(t) THEN verdict ELSE call[c]]
      /\ Sent' = Sent /\ 0 \notin Sent /\ madeIn' = madeIn
      /\ refreshing \in [Tabs -> Nat] /\ call \in [Calls -> CallSteps]
  BY <1>1, SentIsNat DEF Settle, Moves, Inductive, Typed
<1>3. \A f \in Sent : /\ f # e => exchanges'[f] = exchanges[f]
                     /\ exchanges'[f].kind = exchanges[f].kind /\ exchanges'[f].tab = exchanges[f].tab
                     /\ exchanges[f].tab \in Tabs
  BY SentIsNat DEF Moves, Inductive, ExchangeStates
<1>4. exchanges'[e].answer \notin Pending /\ refreshing[t] = e
  BY <1>1 DEF Moves, Pending, Inductive, OneRefresh
<1>5. /\ refreshing'[t] = 0 /\ \A u \in Tabs : u # t => refreshing'[u] = refreshing[u]
      /\ refreshing' \in [Tabs -> Nat] /\ \A u \in Tabs : refreshing'[u] \in {0} \cup Sent
  BY <1>2 DEF Inductive, Linked
<1>6. \A c \in Calls : call'[c] = call[c] \/ (call[c] = "waiting" /\ call'[c] = verdict)
  BY <1>2 DEF Waiting
<1>7. call' \in [Calls -> CallSteps]
  BY <1>2 DEF CallSteps
<1>8. OneRefresh'
  <2>1. ASSUME NEW u \in Tabs, refreshing'[u] # 0
        PROVE  exchanges'[refreshing'[u]].kind = "refresh" /\ exchanges'[refreshing'[u]].tab = u
    <3>1. u # t /\ refreshing'[u] = refreshing[u] /\ refreshing[u] \in Sent
      BY <1>5, <2>1
    <3>2. QED
      BY <1>3, <2>1, <3>1 DEF Inductive, OneRefresh
  <2>2. ASSUME NEW f \in Sent, exchanges'[f].kind = "refresh", exchanges'[f].answer \in Pending
        PROVE  refreshing'[exchanges'[f].tab] = f
    <3>1. f # e /\ exchanges'[f] = exchanges[f]
      BY <1>3, <1>4, <2>2
    <3>2. refreshing[exchanges[f].tab] = f
      BY <2>2, <3>1 DEF Inductive, OneRefresh
    <3>3. QED
      BY <1>3, <1>4, <1>5, <3>1, <3>2
  <2>3. QED
    BY <1>2, <2>1, <2>2 DEF OneRefresh
<1>9. WaitersHaveRefresh'
  <2> SUFFICES ASSUME NEW u \in Tabs
               PROVE  /\ Waiting(u)' # {} <=> refreshing'[u] # 0
                      /\ refreshing'[u] # 0 =>
                           exchanges'[refreshing'[u]].answer \in {"none", "sent", "refused"}
    BY DEF WaitersHaveRefresh
  <2>1. CASE u = t
    <3>1. \A c \in Calls : ~(madeIn'[c] = t /\ call'[c] = "waiting")
      BY <1>2 DEF Waiting
    <3>2. Waiting(u)' = {}
      BY <2>1, <3>1 DEF Waiting
    <3>3. QED
      BY <1>5, <2>1, <3>2
  <2>2. CASE u # t
    <3>1. Waiting(u)' = Waiting(u)
      BY <1>2, <2>2 DEF Waiting
    <3>2. refreshing'[u] = refreshing[u]
      BY <1>5, <2>2
    <3>3. refreshing[u] # 0 => refreshing[u] \in Sent /\ refreshing[u] # e
      BY <1>1, <2>2 DEF Inductive, Linked, OneRefresh
    <3>4. QED
      BY <1>3, <3>1, <3>2, <3>3 DEF Inductive, WaitersHaveRefresh
  <2>3. QED
    BY <2>1, <2>2
<1>10. QED
  BY <1>5, <1>6, <1>7, <1>8, <1>9

\* The answer of a login or a logout is no call's concern.
LEMMA UnsettledKeeps ==
    ASSUME Inductive, NEW e \in Sent, NEW to \in {"received", "lost"},
           exchanges[e].kind # "refresh",
           Moves(e, exchanges[e].step, exchanges[e].revokes, to),
           UNCHANGED <<refreshing, call, madeIn>>
    PROVE  OneRefresh' /\ WaitersHaveRefresh' /\ (\A u \in Tabs : refreshing'[u] \in {0} \cup Sent)
<1>1. \A f \in Sent : /\ f # e => exchanges'[f] = exchanges[f]
                     /\ exchanges'[f].kind = exchanges[f].kind /\ exchanges'[f].tab = exchanges[f].tab
  BY DEF Moves
<1>2. /\ Sent' = Sent /\ \A u \in Tabs : refreshing'[u] = refreshing[u]
      /\ \A u \in Tabs : refreshing[u] # 0 => refreshing[u] \in Sent \ {e}
  BY DEF Moves, Inductive, Linked, OneRefresh
<1>3. OneRefresh'
  <2>1. ASSUME NEW f \in Sent, exchanges'[f].kind = "refresh", exchanges'[f].answer \in Pending
        PROVE  refreshing'[exchanges'[f].tab] = f
    BY <1>1, <2>1 DEF Inductive, OneRefresh
  <2>2. QED
    BY <1>1, <1>2, <2>1 DEF Inductive, OneRefresh
<1>4. WaitersHaveRefresh'
  <2>1. \A u \in Tabs : Waiting(u)' = Waiting(u)
    BY DEF Waiting
  <2>2. QED
    BY <1>1, <1>2, <2>1 DEF Inductive, WaitersHaveRefresh
<1>5. QED
  BY <1>2, <1>3, <1>4 DEF Inductive, Linked

\* What an answer may do to the calls that waited for it.
LEMMA VerdictKeeps ==
    ASSUME Inductive, UNCHANGED <<again, expiries>>, Disturbed => Disturbed',
           NEW verdict \in {"retry", "failed"},
           \A c \in Calls : call'[c] = call[c] \/ (call[c] = "waiting" /\ call'[c] = verdict),
           Untroubled' => (jar.access \/ verdict = "retry" => jar'.access),
           (\E f \in Sent : exchanges[f].kind = "refresh" /\ exchanges[f].step = "void")
             => (\E f \in Sent : exchanges[f].kind = "refresh" /\ exchanges[f].step = "void")',
           (\E c \in Calls : call'[c] # call[c]) /\ verdict = "failed" =>
             \/ Disturbed'
             \/ (\E f \in Sent : exchanges[f].kind = "refresh" /\ exchanges[f].step = "void")'
    PROVE  DeniedOnce' /\ ExpiryIsHidden'
<1>1. Untroubled' => Untroubled
  BY DEF Untroubled
<1>2. DeniedOnce'
  BY <1>1 DEF Inductive, DeniedOnce
<1>3. ExpiryIsHidden'
  BY DEF Inductive, ExpiryIsHidden
<1>4. QED
  BY <1>2, <1>3
\* Every answer that a browser can hear, or never hear.
LEMMA HearingKeeps ==
    ASSUME Inductive, NEW e \in Sent, Hearing(e) \/ Lose(e)
    PROVE  Inductive'
<1> DEFINE Voids == \E f \in Sent : exchanges[f].kind = "refresh" /\ exchanges[f].step = "void"
<1>1. /\ UNCHANGED <<madeIn, again, expiries>> /\ jar \in [access : BOOLEAN, refresh : Nat]
      /\ page \in [Tabs -> Pages] /\ refreshing \in [Tabs -> Nat] /\ call \in [Calls -> CallSteps]
      /\ (\A u \in Tabs : refreshing[u] \in {0} \cup Sent) /\ (jar.refresh = 0 => Disturbed)
  BY DEF Hearing, Signed, Refreshed, LoggedOut, Refused, Lose, Hear, Inductive, Typed, Linked, Holds
<1>2. e \in Nat \ {0} /\ exchanges[e].kind \in Kinds /\ exchanges[e].tab \in Tabs
  BY SentIsNat DEF Inductive, ExchangeStates
<1>3. ASSUME Moves(e, exchanges[e].step, exchanges[e].revokes, exchanges'[e].answer)
      PROVE  Voids => Voids'
  <2>1. /\ Sent' = Sent /\ \A f \in Sent : exchanges'[f].kind = exchanges[f].kind
                                       /\ exchanges'[f].step = exchanges[f].step
    BY <1>3 DEF Moves
  <2>2. QED
    BY <2>1
<1>4. ASSUME NEW from \in {"sent", "refused"}, NEW to \in {"received", "lost"},
             Moves(e, exchanges[e].step, exchanges[e].revokes, to),
             Linked', Answered', Replaced', Holds', Found', OneRefresh', WaitersHaveRefresh',
             DeniedOnce', ExpiryIsHidden',
             jar' \in [access : BOOLEAN, refresh : Nat], page' \in [Tabs -> Pages],
             refreshing' \in [Tabs -> Nat], call' \in [Calls -> CallSteps]
      PROVE  Inductive'
  <2>1. Typed'
    BY <1>1, <1>4 DEF Moves, Inductive, Typed
  <2>2. QED
    BY <1>4, <2>1 DEF Inductive
<1> HIDE DEF Voids
<1>5. CASE Signed(e)
  <2>1. /\ exchanges[e].kind = "login" /\ Hear(e, "sent", "received")
        /\ jar' = [access |-> TRUE, refresh |-> e]
        /\ page' = [page EXCEPT ![exchanges[e].tab] = "in"] /\ UNCHANGED <<refreshing, call>>
    BY <1>5 DEF Signed, SetCookies
  <2>2. jar'.refresh = e /\ jar'.access /\ jar' \in [access : BOOLEAN, refresh : Nat]
        /\ page' \in [Tabs -> Pages]
    BY <1>1, <1>2, <2>1 DEF Pages
  <2>3. /\ Linked' /\ Answered' /\ Replaced' /\ Holds' /\ Found' /\ (Disturbed => Disturbed')
        /\ Moves(e, exchanges[e].step, exchanges[e].revokes, "received")
    BY <1>1, <1>2, <2>1, <2>2, HeardKeeps
  <2>4. OneRefresh' /\ WaitersHaveRefresh'
    BY <1>1, <2>1, <2>3, UnsettledKeeps
  <2>5. Voids => Voids'
    BY <1>3, <2>3 DEF Moves
  <2>6. DeniedOnce' /\ ExpiryIsHidden'
    BY <1>1, <2>1, <2>2, <2>3, <2>5, VerdictKeeps DEF Voids
  <2>7. QED
    BY <1>1, <1>4, <2>1, <2>2, <2>3, <2>4, <2>6
<1>6. CASE Refreshed(e)
  <2>1. /\ exchanges[e].kind = "refresh" /\ Hear(e, "sent", "received")
        /\ jar' = [access |-> TRUE, refresh |-> e] /\ Settle(exchanges[e].tab, "retry")
        /\ page' = page
    BY <1>6 DEF Refreshed, SetCookies
  <2>2. jar'.refresh = e /\ jar'.access /\ jar' \in [access : BOOLEAN, refresh : Nat]
        /\ page' \in [Tabs -> Pages]
    BY <1>1, <1>2, <2>1
  <2>3. /\ exchanges[e].answer = "sent"
        /\ Moves(e, exchanges[e].step, exchanges[e].revokes, "received")
    BY <2>1, Hears DEF Inductive, Answers
  <2>4. /\ OneRefresh' /\ WaitersHaveRefresh'
        /\ refreshing' \in [Tabs -> Nat] /\ (\A u \in Tabs : refreshing'[u] \in {0} \cup Sent)
        /\ call' \in [Calls -> CallSteps]
        /\ \A c \in Calls : call'[c] = call[c] \/ (call[c] = "waiting" /\ call'[c] = "retry")
    BY <1>1, <2>1, <2>3, SettledKeeps
  <2>5. /\ Linked' /\ Answered' /\ Replaced' /\ Holds' /\ Found' /\ (Disturbed => Disturbed')
    BY <1>2, <2>1, <2>2, <2>4, HeardKeeps
  <2>6. Voids => Voids'
    BY <1>3, <2>3 DEF Moves
  <2>7. DeniedOnce' /\ ExpiryIsHidden'
    BY <1>1, <2>2, <2>4, <2>5, <2>6, VerdictKeeps DEF Voids
  <2>8. QED
    BY <1>4, <2>2, <2>3, <2>4, <2>5, <2>7
<1>7. CASE LoggedOut(e)
  <2>1. /\ exchanges[e].kind = "logout" /\ Hear(e, "sent", "received")
        /\ jar' = [access |-> FALSE, refresh |-> 0]
        /\ page' = [page EXCEPT ![exchanges[e].tab] = "out"] /\ UNCHANGED <<refreshing, call>>
    BY <1>7 DEF LoggedOut, SignOut
  <2>2. jar'.refresh = 0 /\ Disturbed /\ jar' \in [access : BOOLEAN, refresh : Nat]
        /\ page' \in [Tabs -> Pages]
    BY <1>1, <2>1 DEF Pages, Disturbed
  <2>3. /\ Linked' /\ Answered' /\ Replaced' /\ Holds' /\ Found' /\ (Disturbed => Disturbed')
        /\ Moves(e, exchanges[e].step, exchanges[e].revokes, "received")
    BY <1>1, <1>2, <2>1, <2>2, HeardKeeps
  <2>4. OneRefresh' /\ WaitersHaveRefresh'
    BY <1>1, <2>1, <2>3, UnsettledKeeps
  <2>5. Voids => Voids'
    BY <1>3, <2>3 DEF Moves
  <2>6. ~Untroubled'
    BY <2>2, <2>3 DEF Untroubled
  <2>7. DeniedOnce' /\ ExpiryIsHidden'
    BY <1>1, <2>1, <2>3, <2>5, <2>6, VerdictKeeps DEF Voids
  <2>8. QED
    BY <1>1, <1>4, <2>1, <2>2, <2>3, <2>4, <2>7
<1>8. CASE Refused(e) \/ Lose(e)
  <2>1. PICK from \in {"sent", "refused"}, to \in {"received", "lost"} :
          /\ Hear(e, from, to) /\ (to = "received" => from = "refused")
    BY <1>8 DEF Refused, Lose
  <2>2. jar' = jar /\ SignOut(e)
    BY <1>8 DEF Refused, Lose
  <2>3. /\ exchanges[e].answer = from
        /\ Moves(e, exchanges[e].step, exchanges[e].revokes, to) /\ exchanges'[e].answer = to
    BY <2>1, Hears DEF Inductive, Answers, Moves
  <2>4. /\ OneRefresh' /\ WaitersHaveRefresh'
        /\ refreshing' \in [Tabs -> Nat] /\ (\A u \in Tabs : refreshing'[u] \in {0} \cup Sent)
        /\ call' \in [Calls -> CallSteps]
        /\ \A c \in Calls : call'[c] = call[c] \/ (call[c] = "waiting" /\ call'[c] = "failed")
        /\ (\E c \in Calls : call'[c] # call[c]) => exchanges[e].kind = "refresh"
    <3>1. CASE exchanges[e].kind = "refresh"
      <4>1. Settle(exchanges[e].tab, "failed")
        BY <2>2, <3>1 DEF SignOut
      <4>2. QED
        BY <1>1, <2>3, <3>1, <4>1, SettledKeeps
    <3>2. CASE exchanges[e].kind # "refresh"
      <4>1. UNCHANGED <<refreshing, call>>
        BY <2>2, <3>2 DEF SignOut
      <4>2. QED
        BY <1>1, <2>3, <3>2, <4>1, UnsettledKeeps
    <3>3. QED
      BY <3>1, <3>2
  <2>5. /\ Linked' /\ Answered' /\ Replaced' /\ Holds' /\ Found' /\ (Disturbed => Disturbed')
    <3>1. jar.refresh # e
      BY <1>2, <2>3 DEF Inductive, Linked, Held
    <3>2. QED
      BY <1>1, <2>1, <2>2, <2>4, <3>1, HeardKeeps
  <2>6. Voids => Voids'
    BY <1>3, <2>3
  <2>7. exchanges[e].kind = "refresh" => Disturbed' \/ Voids'
    <3>1. CASE to = "lost"
      BY <2>3, <3>1 DEF Disturbed, Moves
    <3>2. CASE to = "received"
      <4>1. exchanges[e].answer = "refused" /\ exchanges[e].step \in Steps
        BY <2>1, <2>3, <3>2, SentIsNat DEF Inductive, ExchangeStates
      <4>2. exchanges[e].step = "void"
        BY <4>1 DEF Inductive, Answered, Steps
      <4>3. QED
        BY <2>6, <4>2 DEF Voids
    <3>3. QED
      BY <3>1, <3>2
  <2>8. DeniedOnce' /\ ExpiryIsHidden'
    BY <1>1, <2>2, <2>4, <2>5, <2>6, <2>7, VerdictKeeps DEF Voids
  <2>9. page' \in [Tabs -> Pages]
    BY <1>1, <2>2 DEF SignOut, Pages
  <2>10. QED
    BY <1>1, <1>4, <2>2, <2>3, <2>4, <2>5, <2>8, <2>9
<1>9. QED
  BY <1>5, <1>6, <1>7, <1>8 DEF Hearing

-----------------------------------------------------------------------------
(* Theorems                                                                *)

\* The first state, a tab signed in, satisfies the invariant.
LEMMA InitHolds == Init => Inductive
<1> SUFFICES ASSUME Init PROVE Inductive
  OBVIOUS
<1>1. FirstTab \in Tabs
  BY CallsAssumption DEF FirstTab
<1> DEFINE first == [kind |-> "login", tab |-> FirstTab, shown |-> 0, granted |-> FALSE,
                     step |-> "over", revokes |-> {}, answer |-> "received", known |-> {}]
<1>2. first \in ExchangeStates
  BY <1>1 DEF ExchangeStates, Kinds, Steps, Answers
<1>3. /\ first.kind = "login" /\ first.shown = 0 /\ first.step = "over"
      /\ first.revokes = {} /\ first.answer = "received" /\ first.known = {}
  OBVIOUS
<1>4. exchanges = <<first>>
  BY DEF Init
<1> HIDE DEF first
<1>5. exchanges \in Seq(ExchangeStates) /\ Sent = {1} /\ exchanges[1] = first
  BY <1>2, <1>4 DEF Sent
<1>6. /\ jar.access = TRUE /\ jar.refresh = 1 /\ jar \in [access : BOOLEAN, refresh : Nat]
      /\ refreshing = [u \in Tabs |-> 0] /\ call = [c \in Calls |-> "idle"]
      /\ madeIn = [c \in Calls |-> FirstTab] /\ again = [c \in Calls |-> FALSE] /\ expiries = 0
      /\ page \in [Tabs -> Pages]
  BY DEF Init, Pages
<1>7. Typed
  BY <1>1, <1>5, <1>6, BoundsAssumption DEF Typed, CallSteps
<1>8. Linked /\ Answered /\ Replaced /\ Holds /\ Found
  BY <1>3, <1>5, <1>6 DEF Linked, Held, Answered, Replaced, Holds, Found
<1>9. OneRefresh /\ WaitersHaveRefresh /\ DeniedOnce /\ ExpiryIsHidden
  BY <1>3, <1>5, <1>6 DEF OneRefresh, Pending, WaitersHaveRefresh, Waiting, DeniedOnce, ExpiryIsHidden
<1>10. QED
  BY <1>7, <1>8, <1>9 DEF Inductive

\* Every step keeps the invariant.
LEMMA StepKeeps == Inductive /\ [Next]_vars => Inductive'
<1> SUFFICES ASSUME Inductive, [Next]_vars PROVE Inductive'
  OBVIOUS
<1>1. ASSUME NEW t \in Tabs, Open(t) \/ Boot(t) \/ Login(t) \/ Logout(t) PROVE Inductive'
  BY <1>1, SigningKeeps, OthersKeep
<1>2. ASSUME NEW c \in Calls, CallStep(c) \/ \E t \in Tabs : Send(c, t) PROVE Inductive'
  BY <1>2, DeniedKeeps, OthersKeep DEF CallStep
<1>3. ASSUME NEW e \in Sent, ServerStep(e) \/ Hearing(e) \/ Lose(e) PROVE Inductive'
  BY <1>3, ServerKeeps, HearingKeeps
<1>4. ASSUME AccessExpires \/ UNCHANGED vars PROVE Inductive'
  BY <1>4, OthersKeep
<1>5. QED
  BY <1>1, <1>2, <1>3, <1>4 DEF Next

\* The strengthening of the properties below holds in every state.
THEOREM InductiveHolds == Spec => []Inductive
<1>1. QED
  BY InitHolds, StepKeeps, PTL DEF Spec

\* Every cookie, exchange, page and call keeps to its range, and the tokens that an
\* exchange names were sent before it.
THEOREM TypesHold == Spec => []TypeOK
<1>1. Inductive => TypeOK
  <2> SUFFICES ASSUME Inductive PROVE TypeOK
    OBVIOUS
  <2>1. jar \in [access : BOOLEAN, refresh : {0} \cup Sent]
    <3>1. jar.refresh \in {0} \cup Sent /\ jar \in [access : BOOLEAN, refresh : Nat]
      BY DEF Inductive, Linked, Held, Typed
    <3>2. QED
      BY <3>1
  <2>2. ASSUME NEW e \in Sent
        PROVE  exchanges[e] \in
                 [kind : Kinds, tab : Tabs, shown : {0} \cup Sent, granted : BOOLEAN, step : Steps,
                  revokes : SUBSET Sent,
                  answer : {"none", "sent", "refused", "received", "lost"}, known : SUBSET Sent]
    <3>1. exchanges[e] \in ExchangeStates
      BY SentIsNat DEF Inductive
    <3>2. /\ exchanges[e].shown \in {0} \cup Sent /\ exchanges[e].revokes \in SUBSET Sent
          /\ exchanges[e].known \in SUBSET Sent
      BY DEF Inductive, Linked, Held, Issued
    <3>3. QED
      BY <3>1, <3>2 DEF ExchangeStates, Answers
  <2>3. refreshing \in [Tabs -> {0} \cup Sent]
    BY DEF Inductive, Typed, Linked
  <2>4. QED
    BY <2>1, <2>2, <2>3 DEF Inductive, Typed, TypeOK
<1>2. QED
  BY <1>1, InductiveHolds, PTL

\* refreshAccessToken (lib/api.ts): a call waits exactly while a refresh of its tab is
\* under way.
THEOREM WaitersHaveRefreshHolds == Spec => []WaitersHaveRefresh
<1>1. Inductive => WaitersHaveRefresh
  BY DEF Inductive
<1>2. QED
  BY <1>1, InductiveHolds, PTL

\* refresh (auth_service.py) and the cookies: with no logout and nothing lost, the token
\* the browser holds is live, about to be, or replaced by an answer on its way.
THEOREM JarLiveHolds == Spec => []JarLive
<1>1. Inductive => JarLive
  <2> DEFINE k == jar.refresh
  <2> SUFFICES ASSUME Inductive, ~Disturbed
               PROVE  \/ Live(k) \/ exchanges[k].step = "open"
                      \/ \E e \in Sent : exchanges[e].answer = "sent" /\ k \in exchanges[e].revokes
    BY DEF JarLive
  <2>1. /\ k \in Sent /\ exchanges[k].kind # "logout" /\ exchanges[k].step \in {"open", "over"}
    BY DEF Inductive, Linked, Held, Holds
  <2>2. CASE exchanges[k].step = "over" /\ ~Live(k)
    <3>1. PICK e \in Sent : exchanges[e].step = "over" /\ k \in exchanges[e].revokes
      BY <2>1, <2>2 DEF Live, Issued
    <3>2. exchanges[e].kind \in Kinds /\ exchanges[e].kind # "logout" /\ exchanges[e].answer # "lost"
      BY SentIsNat DEF Inductive, ExchangeStates, Disturbed
    <3>3. exchanges[e].kind = "refresh" /\ exchanges[e].shown = k
      BY <3>1, <3>2 DEF Inductive, Answered, Kinds
    <3>4. exchanges[e].answer \in {"sent", "received"}
      BY <3>1, <3>2 DEF Inductive, Answered
    <3>5. exchanges[e].answer # "received"
      BY <3>1, <3>3 DEF Inductive, Replaced
    <3>6. QED
      BY <3>1, <3>4, <3>5
  <2>3. QED
    BY <2>1, <2>2
<1>2. QED
  BY <1>1, InductiveHolds, PTL

\* logout (auth_service.py): once it is committed, no token on the register when it was
\* sent is live.
THEOREM LogoutRevokesHolds == Spec => []LogoutRevokes
<1>1. Inductive => LogoutRevokes
  BY DEF Inductive, Found, LogoutRevokes, Live, Revoked
<1>2. QED
  BY <1>1, InductiveHolds, PTL

\* apiFetch (lib/api.ts): one expiry of the access token fails no call.
THEOREM ExpiryIsHiddenHolds == Spec => []ExpiryIsHidden
<1>1. Inductive => ExpiryIsHidden
  BY DEF Inductive
<1>2. QED
  BY <1>1, InductiveHolds, PTL
=============================================================================
