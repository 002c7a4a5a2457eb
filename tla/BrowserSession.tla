---------------------------- MODULE BrowserSession ----------------------------
(***************************************************************************)
(* One user's session: the cookies that the tabs of a browser share, the   *)
(* register of refresh tokens that the server keeps (auth_service.py), and *)
(* the API client of each tab (lib/api.ts), whose calls share one refresh  *)
(* when the access token has expired.                                      *)
(*                                                                         *)
(* An exchange is a request to /api/auth: login, refresh or logout.  It is *)
(* a transaction of its own on the server, committed after its answer has  *)
(* been sent; the answer may reach the browser before or after that, after *)
(* other answers, or not at all.  A refresh token is named by the exchange *)
(* that issued it.  Access tokens need no register: they expire.           *)
(***************************************************************************)
EXTENDS Naturals, Sequences, FiniteSets

CONSTANTS
    Tabs,
    Calls,          \* API calls outside /api/auth
    Insistent,      \* the calls that start over after every refresh (chat, speech, delete)
    MaxExpiries,    \* bound: expiries of an access token
    MaxSignings,    \* bound: logins and logouts after the first login
    MaxLost         \* bound: answers that the network loses

ASSUME CallsAssumption == Insistent \subseteq Calls /\ Tabs # {}
ASSUME BoundsAssumption == MaxExpiries \in Nat /\ MaxSignings \in Nat /\ MaxLost \in Nat

VARIABLES
    jar,          \* cookies: is the access token good, and which refresh token (0: none)
    exchanges,    \* the requests to /api/auth, in the order they were sent
    page,         \* what a tab shows
    refreshing,   \* refreshInFlight: the exchange, or 0
    call, madeIn, \* where a call stands, and the tab it was made in
    again,        \* whether it has been sent a second time
    expiries

vars == <<jar, exchanges, page, refreshing, call, madeIn, again, expiries>>

Kinds == {"login", "refresh", "logout"}
Pages == {"closed", "welcome", "unwelcome", "in", "out", "signing", "leaving"}
CallSteps == {"idle", "denied", "waiting", "retry", "done", "failed"}

Sent == DOMAIN exchanges

\* Rows a statement sees, and those of them that are not revoked.
Issued(k) == k \in Sent /\ exchanges[k].kind # "logout" /\ exchanges[k].step = "over"
Live(k) == Issued(k) /\ \A e \in Sent : exchanges[e].step = "over" => k \notin exchanges[e].revokes

\* granted: it carries a good access token; known: tokens on the register when it was
\* sent (history, not in the code).
Exchange(kind, t) ==
    [kind |-> kind, tab |-> t, shown |-> jar.refresh, granted |-> jar.access,
     step |-> "received", revokes |-> {}, answer |-> "none", known |-> {k \in Sent : Issued(k)}]

FirstTab == CHOOSE t \in Tabs : TRUE

\* A tab has signed in and its first answer was received and committed.
Init ==
    /\ jar = [access |-> TRUE, refresh |-> 1]
    /\ exchanges = <<[kind |-> "login", tab |-> FirstTab, shown |-> 0,
                      granted |-> FALSE, step |-> "over", revokes |-> {}, answer |-> "received", known |-> {}]>>
    /\ page = [u \in Tabs |-> IF u = FirstTab THEN "in" ELSE "closed"]
    /\ refreshing = [u \in Tabs |-> 0]
    /\ call = [c \in Calls |-> "idle"]
    /\ madeIn = [c \in Calls |-> FirstTab]
    /\ again = [c \in Calls |-> FALSE]
    /\ expiries = 0

-----------------------------------------------------------------------------
(* The server: auth_service.py under get_db                                *)
(*                                                                         *)
(* A definition named ..._M... is a plausible slip in the definition that  *)
(* follows it, by which the properties are tested; nothing else uses it.   *)

Serve(e, step, revokes, answer) ==
    exchanges' = [exchanges EXCEPT ![e].step = step, ![e].revokes = revokes, ![e].answer = answer]

Browser == <<jar, page, refreshing, call, madeIn, again, expiries>>

IssueForLogin(e) ==
    /\ exchanges[e].kind = "login" /\ exchanges[e].step = "received"
    /\ Serve(e, "open", {}, "sent")
    /\ UNCHANGED Browser

\* refresh reads the row of the token: unknown or revoked is a 401.
CheckToken(e) ==
    /\ exchanges[e].kind = "refresh" /\ exchanges[e].step = "received"
    /\ IF Live(exchanges[e].shown)
       THEN Serve(e, "checked", {exchanges[e].shown}, "none")
       ELSE Serve(e, "void", {}, "refused")
    /\ UNCHANGED Browser

RowsLocked_Mfor_good(e) ==
    \E o \in Sent \ {e} : exchanges[o].step \in {"open", "over"}
                          /\ exchanges[o].revokes \cap exchanges[e].revokes # {}

\* An UPDATE waits for the open transaction that has changed a row before it.
RowsLocked(e) ==
    \E o \in Sent \ {e} : exchanges[o].step = "open"
                          /\ exchanges[o].revokes \cap exchanges[e].revokes # {}

Rotate_Mevery_token(e) ==
    /\ exchanges[e].kind = "refresh" /\ exchanges[e].step = "checked" /\ ~RowsLocked(e)
    /\ Serve(e, "open", {k \in Sent : Live(k)}, "sent")
    /\ UNCHANGED Browser

\* The row is updated by its key, whatever became of it meanwhile; a new token.
Rotate(e) ==
    /\ exchanges[e].kind = "refresh" /\ exchanges[e].step = "checked" /\ ~RowsLocked(e)
    /\ Serve(e, "open", exchanges[e].revokes, "sent")
    /\ UNCHANGED Browser

LogoutFinds_Mown_token(e) == {exchanges[e].shown}

\* The rows the UPDATE of a logout finds: every token of the user not yet revoked.
LogoutFinds(e) == {k \in Sent : Live(k)}

\* logout asks for a good access token before it does anything.
StartLogout(e) ==
    /\ exchanges[e].kind = "logout" /\ exchanges[e].step = "received"
    /\ IF exchanges[e].granted THEN Serve(e, "checked", LogoutFinds(e), "none")
       ELSE Serve(e, "void", {}, "refused")
    /\ UNCHANGED Browser

RevokeAll(e) ==
    /\ exchanges[e].kind = "logout" /\ exchanges[e].step = "checked" /\ ~RowsLocked(e)
    /\ Serve(e, "open", exchanges[e].revokes, "sent")
    /\ UNCHANGED Browser

Commit(e) ==
    /\ exchanges[e].step = "open"
    /\ exchanges' = [exchanges EXCEPT ![e].step = "over"]
    /\ UNCHANGED Browser

ServerStep(e) ==
    IssueForLogin(e) \/ CheckToken(e) \/ Rotate(e) \/ StartLogout(e) \/ RevokeAll(e) \/ Commit(e)

-----------------------------------------------------------------------------
(* The pages: analyst-app.tsx                                              *)

\* boot asks /api/auth/me, which never refreshes.
Open(t) ==
    /\ page[t] = "closed"
    /\ page' = [page EXCEPT ![t] = IF jar.access THEN "welcome" ELSE "unwelcome"]
    /\ UNCHANGED <<jar, exchanges, refreshing, call, madeIn, again, expiries>>

Boot(t) ==
    /\ page[t] \in {"welcome", "unwelcome"}
    /\ page' = [page EXCEPT ![t] = IF page[t] = "welcome" THEN "in" ELSE "out"]
    /\ UNCHANGED <<jar, exchanges, refreshing, call, madeIn, again, expiries>>

Signings == Cardinality({e \in Sent : exchanges[e].kind # "refresh"}) - 1

Login(t) ==
    /\ page[t] = "out" /\ Signings < MaxSignings
    /\ exchanges' = Append(exchanges, Exchange("login", t))
    /\ page' = [page EXCEPT ![t] = "signing"]
    /\ UNCHANGED <<jar, refreshing, call, madeIn, again, expiries>>

Logout(t) ==
    /\ page[t] = "in" /\ Signings < MaxSignings
    /\ exchanges' = Append(exchanges, Exchange("logout", t))
    /\ page' = [page EXCEPT ![t] = "leaving"]
    /\ UNCHANGED <<jar, refreshing, call, madeIn, again, expiries>>

AccessExpires ==
    /\ jar.access /\ expiries < MaxExpiries
    /\ jar' = [jar EXCEPT !.access = FALSE] /\ expiries' = expiries + 1
    /\ UNCHANGED <<exchanges, page, refreshing, call, madeIn, again>>

-----------------------------------------------------------------------------
(* The API client                                                          *)

\* With a good access token the answer has no further part here.
Sending(c) == IF jar.access THEN "done" ELSE "denied"
Waiting(t) == {c \in Calls : madeIn[c] = t /\ call[c] = "waiting"}

Send(c, t) ==
    /\ call[c] = "idle" /\ page[t] = "in"
    /\ call' = [call EXCEPT ![c] = Sending(c)] /\ madeIn' = [madeIn EXCEPT ![c] = t]
    /\ UNCHANGED <<jar, exchanges, page, refreshing, again, expiries>>

\* A 401.  The first one joins the refresh of the tab, or starts it; a second one
\* is the caller's to handle, unless the call starts over.
Denied(c) ==
    LET t == madeIn[c] IN
    /\ call[c] = "denied"
    /\ IF again[c] /\ c \notin Insistent
       THEN call' = [call EXCEPT ![c] = "failed"] /\ UNCHANGED <<exchanges, refreshing>>
       ELSE /\ call' = [call EXCEPT ![c] = "waiting"]
            /\ IF refreshing[t] # 0 THEN UNCHANGED <<exchanges, refreshing>>
               ELSE /\ exchanges' = Append(exchanges, Exchange("refresh", t))
                    /\ refreshing' = [refreshing EXCEPT ![t] = Len(exchanges')]
    /\ UNCHANGED <<jar, page, madeIn, again, expiries>>

Resend(c) ==
    /\ call[c] = "retry"
    /\ call' = [call EXCEPT ![c] = Sending(c)] /\ again' = [again EXCEPT ![c] = TRUE]
    /\ UNCHANGED <<jar, exchanges, page, refreshing, madeIn, expiries>>

Settle_Mstarter_only(t, verdict) ==
    /\ refreshing' = [refreshing EXCEPT ![t] = 0]
    /\ \E s \in Waiting(t) : call' = [call EXCEPT ![s] = verdict]

\* The refresh of a tab is settled: refreshInFlight is cleared, its calls go on.
Settle(t, verdict) ==
    /\ refreshing' = [refreshing EXCEPT ![t] = 0]
    /\ call' = [c \in Calls |-> IF c \in Waiting(t) THEN verdict ELSE call[c]]

SetCookies_Mrefresh_only(e) == jar' = [jar EXCEPT !.refresh = e]

SetCookies(e) == jar' = [access |-> TRUE, refresh |-> e]

Hear(e, from, to) ==
    /\ exchanges[e].answer = from /\ exchanges' = [exchanges EXCEPT ![e].answer = to]
    /\ UNCHANGED <<madeIn, again, expiries>>

\* The browser sets the cookies as the answers come in.
Signed(e) ==
    /\ exchanges[e].kind = "login" /\ Hear(e, "sent", "received")
    /\ SetCookies(e) /\ page' = [page EXCEPT ![exchanges[e].tab] = "in"]
    /\ UNCHANGED <<refreshing, call>>

Refreshed(e) ==
    /\ exchanges[e].kind = "refresh" /\ Hear(e, "sent", "received")
    /\ SetCookies(e) /\ Settle(exchanges[e].tab, "retry")
    /\ UNCHANGED page

\* clearAuthSession of a tab, after a logout or a refresh that failed.
SignOut(e) ==
    /\ page' = [page EXCEPT ![exchanges[e].tab] = "out"]
    /\ IF exchanges[e].kind = "refresh" THEN Settle(exchanges[e].tab, "failed")
       ELSE UNCHANGED <<refreshing, call>>

LoggedOut(e) ==
    /\ exchanges[e].kind = "logout" /\ Hear(e, "sent", "received")
    /\ jar' = [access |-> FALSE, refresh |-> 0] /\ SignOut(e)

\* A 401.  The route clears the cookies on a response that its exception discards.
Refused(e) == Hear(e, "refused", "received") /\ SignOut(e) /\ UNCHANGED jar

Lost == Cardinality({e \in Sent : exchanges[e].answer = "lost"})

\* fetch rejects: the cookies never come; the client does as after a refusal.
Lose(e) ==
    /\ Lost < MaxLost
    /\ Hear(e, "sent", "lost") \/ Hear(e, "refused", "lost")
    /\ SignOut(e) /\ UNCHANGED jar

-----------------------------------------------------------------------------
Hearing(e) == Signed(e) \/ Refreshed(e) \/ LoggedOut(e) \/ Refused(e)
CallStep(c) == Denied(c) \/ Resend(c)

Next ==
    \/ \E t \in Tabs : Open(t) \/ Boot(t) \/ Login(t) \/ Logout(t)
    \/ \E c \in Calls : CallStep(c) \/ \E t \in Tabs : Send(c, t)
    \/ \E e \in Sent : ServerStep(e) \/ Hearing(e) \/ Lose(e)
    \/ AccessExpires

Spec == Init /\ [][Next]_vars

\* The server serves and commits what it receives, answers arrive or are lost, and
\* callbacks run; users, expiries and losses are free.
FairSpec ==
    /\ Spec
    /\ WF_vars(\E e \in Sent : ServerStep(e)) /\ WF_vars(\E e \in Sent : Hearing(e))
    /\ WF_vars(\E c \in Calls : CallStep(c))

-----------------------------------------------------------------------------
(* Correctness                                                             *)

Steps == {"received", "checked", "open", "over", "void"}
TypeOK ==
    /\ jar \in [access : BOOLEAN, refresh : {0} \cup Sent]
    /\ \A e \in Sent : exchanges[e] \in
         [kind : Kinds, tab : Tabs, shown : {0} \cup Sent, granted : BOOLEAN, step : Steps,
          revokes : SUBSET Sent, answer : {"none", "sent", "refused", "received", "lost"},
          known : SUBSET Sent]
    /\ page \in [Tabs -> Pages] /\ refreshing \in [Tabs -> {0} \cup Sent]
    /\ call \in [Calls -> CallSteps] /\ madeIn \in [Calls -> Tabs] /\ again \in [Calls -> BOOLEAN]
    /\ expiries \in 0..MaxExpiries

\* Calls wait exactly while a refresh of their tab is under way: none is forgotten
\* when it settles, and none joins one that has.
WaitersHaveRefresh == \A t \in Tabs :
    /\ Waiting(t) # {} <=> refreshing[t] # 0
    /\ refreshing[t] # 0 => exchanges[refreshing[t]].answer \in {"none", "sent", "refused"}

Disturbed == \E e \in Sent : exchanges[e].kind = "logout" \/ exchanges[e].answer = "lost"

\* As long as nobody logs out and no answer is lost, the browser is not left with a
\* dead refresh token: the one it holds is live, or about to be committed, or has
\* been rotated by an exchange whose answer is on its way.  Tabs that rotate one
\* token at the same time, and answers that overtake each other, included.
JarLive ==
    LET k == jar.refresh IN
    ~Disturbed =>
      \/ Live(k) \/ exchanges[k].step = "open"
      \/ \E e \in Sent : exchanges[e].answer = "sent" /\ k \in exchanges[e].revokes

\* "Logout revokes refresh tokens server-side": once a logout is committed, no token
\* that was on the register when it was sent is live, the ones of other tabs and those
\* a concurrent refresh was about to rotate included.
LogoutRevokes == \A l \in Sent :
    exchanges[l].kind = "logout" /\ exchanges[l].step = "over" =>
        \A k \in exchanges[l].known : ~Live(k)

\* An access token that expires under any number of calls fails none of them: a call
\* fails only after a second expiry, a refused refresh, a logout or a lost answer.
ExpiryIsHidden == \A c \in Calls : call[c] = "failed" =>
    \/ Disturbed \/ expiries > 1
    \/ \E e \in Sent : exchanges[e].kind = "refresh" /\ exchanges[e].step = "void"

\* Every call comes to an end, whatever refreshes it shared or waited for.
CallsEnd == \A c \in Calls : call[c] # "idle" ~> call[c] \in {"done", "failed"}

-----------------------------------------------------------------------------
(* A statement of the repository that the code does not keep               *)

\* "drop React "logged in" state when cookies die": a tab is not signed out by a
\* refresh while the cookies hold a live session.
SignedOutWhenCookiesDie == [][
    \A t \in Tabs : page[t] = "in" /\ page'[t] = "out" => ~Live(jar.refresh)]_vars
=============================================================================
