--------------------------- MODULE WorkspaceChat ---------------------------
(***************************************************************************)
(* The page of one signed-in user in one browser tab: the picker of data   *)
(* sources, the workspace opened on one of them, and the conversation it   *)
(* shows.  A question goes out with the source and the session that were   *)
(* on the page when it was asked; nothing aborts it, so its answer comes   *)
(* back to whatever page is open by then.                                  *)
(*                                                                         *)
(* A session is named by the question that created it.  What the server    *)
(* does with a question is one step here; ChatTurns has the steps.         *)
(***************************************************************************)
EXTENDS Naturals, Sequences

CONSTANTS
    Sources,        \* data sources
    Listed,         \* those saved before the page was first opened
    Waits,          \* the user leaves nothing behind: no other source is opened and
                    \* nobody signs out while an answer or an opening is awaited
    MaxAsks,        \* bound: questions
    MaxMounts,      \* bound: times a workspace comes on screen
    None

ASSUME SourcesAssumption == Listed \subseteq Sources /\ None \notin Sources
ASSUME WaitsAssumption == Waits \in BOOLEAN
ASSUME BoundsAssumption == MaxAsks \in Nat \ {0} /\ MaxMounts \in Nat /\ None \notin Nat

VARIABLES
    signed,      \* auth is set
    workspace,   \* the open source and its session; source None: the picker
    saved,       \* sessionStorage: the workspace a reload restores
    known,       \* sources the picker lists
    opening,     \* what the list and the two forms are opening
    mount,       \* how often a workspace came on screen; the last is the current one
    turns,       \* the turns it shows, each the question that made it
    hydrated,    \* hydratedSessionRef
    hydrate,     \* the load its effect awaits, or NoLoad
    picking,     \* the load a click on a past session awaits
    loading,     \* loadingSession
    ask,         \* every question's journey
    stored,      \* table messages: the turns of every session
    strayed      \* sessions that arrived after the source had changed (history variable)

vars == <<signed, workspace, saved, known, opening, mount, turns, hydrated, hydrate,
          picking, loading, ask, stored, strayed>>
page == <<signed, workspace, saved, known, opening, mount>>
chat == <<turns, hydrated, hydrate, loading>>

Asks == 1 .. MaxAsks
Openers == {"list", "connect", "upload"}
NoWorkspace == [source |-> None, session |-> None]
NoLoad == [session |-> None, from |-> 0, mount |-> 0, source |-> None]
Unasked == [step |-> "unasked", mount |-> 0, source |-> None, session |-> None,
            reply |-> None]

Mounted == signed /\ workspace.source # None
Here(m) == Mounted /\ m = mount
InFlight(a) == ask[a].step \in {"sent", "served", "refused"}
pendingQuestion == \E a \in Asks : InFlight(a) /\ Here(ask[a].mount)
busy == pendingQuestion \/ loading

Init ==
    /\ signed = TRUE /\ workspace = NoWorkspace /\ saved = NoWorkspace /\ known = Listed
    /\ opening = [o \in Openers |-> None] /\ mount = 0
    /\ turns = <<>> /\ hydrated = None /\ hydrate = NoLoad /\ picking = NoLoad
    /\ loading = FALSE
    /\ ask = [a \in Asks |-> Unasked] /\ stored = [a \in Asks |-> <<>>] /\ strayed = {}

-----------------------------------------------------------------------------
(* The server, as far as the page can tell.                                *)

\* A slip a run rejects: the list of past sessions is the user's, not the source's.
listSessions_Mof_user(source) == {s \in Asks : stored[s] # <<>>}

\* GET /api/chat/sessions?data_source_id=...
listSessions(source) == {s \in Asks : stored[s] # <<>> /\ ask[s].source = source}

\* GET /api/chat/sessions/{id}: what was stored at some moment since it was asked for.
getSession(load) ==
    {SubSeq(stored[load.session], 1, n) : n \in load.from .. Len(stored[load.session])}

Load(s) == [session |-> s, from |-> Len(stored[s]), mount |-> mount,
            source |-> workspace.source]

\* The session named by the question, whatever its source, or a new one.
get_or_create_session(a) == IF ask[a].session = None THEN a ELSE ask[a].session

Serve(a) ==
    /\ ask[a].step = "sent"
    /\ LET s == get_or_create_session(a)
       IN /\ stored' = [stored EXCEPT ![s] = Append(@, a)]
          /\ ask' = [ask EXCEPT ![a].step = "served", ![a].reply = s]
    /\ UNCHANGED <<page, chat, picking, strayed>>

\* An error, a rolled back request, a stream that breaks off.
Refuse(a) ==
    /\ ask[a].step = "sent"
    /\ ask' = [ask EXCEPT ![a].step = "refused"]
    /\ UNCHANGED <<page, chat, picking, stored, strayed>>

-----------------------------------------------------------------------------
(* The workspace: useWorkspaceChat.                                        *)

\* The render after the session became new: the effect on [sessionId].
Rendered(new, shown, ref, load) ==
    LET changed == new # workspace.session
        hydrates == changed /\ new # None /\ ~(ref = new /\ shown # <<>>)
    IN /\ turns' = shown
       /\ hydrated' = IF changed /\ new = None THEN None ELSE ref
       /\ hydrate' = IF hydrates THEN Load(new) ELSE IF changed THEN NoLoad ELSE hydrate
       /\ loading' = IF hydrates THEN TRUE ELSE load

\* onSessionChange: keeps whatever workspace there is and gives it the session.
handleSessionChange(s) ==
    /\ workspace' = IF workspace.source = None THEN workspace
                    ELSE [workspace EXCEPT !.session = s]
    /\ saved' = IF workspace.source = None THEN saved ELSE workspace'
    /\ UNCHANGED <<signed, known, opening, mount>>

\* For the properties: s arrives, which was asked for while source was open; unless that
\* is still so, or the picker is open and ignores it, it strays into another source.
Arrives(s, source) ==
    strayed' = IF workspace.source \in {None, source} THEN strayed ELSE strayed \cup {s}

Ask(a) ==
    /\ Mounted /\ ~busy
    /\ ask[a] = Unasked /\ \A b \in Asks : b < a => ask[b] # Unasked
    /\ ask' = [ask EXCEPT ![a] = [step |-> "sent", mount |-> mount,
                                  source |-> workspace.source,
                                  session |-> workspace.session, reply |-> None]]
    /\ UNCHANGED <<page, chat, picking, stored, strayed>>

\* The answer of this workspace's question joins its turns; the answer of one that is
\* gone still names the session of the workspace that is open now.
AnswerArrives(a) ==
    /\ ask[a].step = "served" /\ ask[a].mount # 0
    /\ ask' = [ask EXCEPT ![a].step = "over"]
    /\ handleSessionChange(ask[a].reply)
    /\ Arrives(ask[a].reply, ask[a].source)
    /\ IF Here(ask[a].mount)
       THEN Rendered(ask[a].reply, Append(turns, a), ask[a].reply, loading)
       ELSE IF Mounted THEN Rendered(ask[a].reply, turns, hydrated, loading)
       ELSE UNCHANGED chat
    /\ UNCHANGED <<picking, stored>>

\* Also an answer that was stored but never reached the page.
AnswerFails(a) ==
    /\ ask[a].step \in {"served", "refused"} /\ ask[a].mount # 0
    /\ ask' = [ask EXCEPT ![a].step = "over"]
    /\ UNCHANGED <<page, chat, picking, stored, strayed>>

\* A slip a run rejects: a past session can be opened while a question is awaited.
handleSelectSession_Mwhile_pending(s) ==
    /\ Mounted /\ ~loading /\ s # workspace.session /\ s \in listSessions(workspace.source)
    /\ picking' = Load(s) /\ loading' = TRUE
    /\ UNCHANGED <<page, turns, hydrated, hydrate, ask, stored, strayed>>

handleSelectSession(s) ==
    /\ Mounted /\ ~busy /\ s # workspace.session /\ s \in listSessions(workspace.source)
    /\ picking' = Load(s) /\ loading' = TRUE
    /\ UNCHANGED <<page, turns, hydrated, hydrate, ask, stored, strayed>>

SelectedArrives ==
    /\ picking # NoLoad
    /\ picking' = NoLoad
    /\ handleSessionChange(picking.session)
    /\ Arrives(picking.session, picking.source)
    /\ IF Here(picking.mount)
       THEN \E shown \in getSession(picking) :
                Rendered(picking.session, shown, picking.session, FALSE)
       ELSE IF Mounted THEN Rendered(picking.session, turns, hydrated, loading)
       ELSE UNCHANGED chat
    /\ UNCHANGED <<ask, stored>>

SelectedFails ==
    /\ picking # NoLoad
    /\ picking' = NoLoad
    /\ loading' = (loading /\ ~Here(picking.mount))
    /\ UNCHANGED <<page, turns, hydrated, hydrate, ask, stored, strayed>>

\* A load whose session is no longer the open one was cancelled: hydrate is the live one.
HydrateArrives ==
    /\ Mounted /\ hydrate # NoLoad
    /\ turns' \in getSession(hydrate)
    /\ hydrated' = hydrate.session /\ hydrate' = NoLoad /\ loading' = FALSE
    /\ UNCHANGED <<page, picking, ask, stored, strayed>>

\* A slip a run rejects: loading is reset only when the session was loaded.
HydrateFails_Mstays_loading ==
    /\ Mounted /\ hydrate # NoLoad
    /\ hydrate' = NoLoad
    /\ UNCHANGED <<page, turns, hydrated, loading, picking, ask, stored, strayed>>

HydrateFails ==
    /\ Mounted /\ hydrate # NoLoad
    /\ hydrate' = NoLoad /\ loading' = FALSE
    /\ UNCHANGED <<page, turns, hydrated, picking, ask, stored, strayed>>

handleNewChat ==
    /\ Mounted /\ ~busy
    /\ handleSessionChange(None)
    /\ Rendered(None, <<>>, None, loading)
    /\ UNCHANGED <<picking, ask, stored, strayed>>

-----------------------------------------------------------------------------
(* The page around it: AnalystApp, the list of sources and the two forms.  *)

LeftAlone ==
    /\ picking = NoLoad
    /\ \A a \in Asks : InFlight(a) => ask[a].mount = 0
    /\ \A o \in Openers : opening[o] = None

\* A workspace comes on screen with nothing but the session it restores.
Mounts(session) ==
    /\ mount < MaxMounts
    /\ mount' = mount + 1
    /\ turns' = <<>> /\ hydrated' = None
    /\ hydrate' = IF session = None THEN NoLoad ELSE [Load(session) EXCEPT !.mount = mount']
    /\ loading' = (session # None)

\* One already on screen stays there, with its turns, and is given the other source.
openWorkspace(source) ==
    /\ workspace' = [source |-> source, session |-> None] /\ saved' = workspace'
    /\ known' = known \cup {source}
    /\ IF ~signed THEN UNCHANGED <<mount, chat>>
       ELSE IF Mounted THEN Rendered(None, turns, hydrated, loading) /\ UNCHANGED mount
       ELSE Mounts(None)
    /\ UNCHANGED <<signed, picking, ask, stored, strayed>>

AtPicker == signed /\ workspace.source = None

\* A saved source with an index opens at once.
handleSelectSaved(source) ==
    /\ AtPicker /\ source \in known /\ opening["list"] = None
    /\ Waits => LeftAlone
    /\ openWorkspace(source)
    /\ UNCHANGED opening

\* One without an index, or one that a form creates, is indexed first.
Opens(o, source) ==
    /\ AtPicker /\ opening[o] = None
    /\ \A p \in Openers : opening[p] # source
    /\ (o = "list") = (source \in known)
    /\ Waits => LeftAlone
    /\ opening' = [opening EXCEPT ![o] = source]
    /\ UNCHANGED <<signed, workspace, saved, known, mount, chat, picking, ask, stored, strayed>>

Opened(o) ==
    /\ opening[o] # None
    /\ opening' = [opening EXCEPT ![o] = None]
    /\ openWorkspace(opening[o])

OpeningFails(o) ==
    /\ opening[o] # None
    /\ opening' = [opening EXCEPT ![o] = None]
    /\ UNCHANGED <<signed, workspace, saved, known, mount, chat, picking, ask, stored, strayed>>

Unmounts ==
    /\ workspace' = NoWorkspace /\ saved' = NoWorkspace
    /\ turns' = <<>> /\ hydrated' = None /\ hydrate' = NoLoad /\ loading' = FALSE

handleSwitchWarehouse ==
    /\ Mounted
    /\ Waits => LeftAlone
    /\ Unmounts
    /\ UNCHANGED <<signed, known, opening, mount, picking, ask, stored, strayed>>

\* A logout, or a refresh that was refused: onAuthCleared.
resetToSignedOut ==
    /\ signed
    /\ Waits => LeftAlone
    /\ signed' = FALSE
    /\ Unmounts
    /\ UNCHANGED <<known, opening, mount, picking, ask, stored, strayed>>

handleAuthenticated ==
    /\ ~signed
    /\ signed' = TRUE
    /\ Unmounts
    /\ UNCHANGED <<known, opening, mount, picking, ask, stored, strayed>>

\* A reload forgets what the page awaited and restores the saved workspace; questions
\* the server has not answered yet stay with it.
Reload ==
    /\ signed
    /\ workspace' = saved
    /\ opening' = [o \in Openers |-> None] /\ picking' = NoLoad
    /\ ask' = [a \in Asks |-> IF InFlight(a) THEN [ask[a] EXCEPT !.mount = 0] ELSE ask[a]]
    /\ IF saved.source = None THEN UNCHANGED <<mount, chat>>
       ELSE Mounts(saved.session)
    /\ UNCHANGED <<signed, saved, known, stored, strayed>>

-----------------------------------------------------------------------------
Next ==
    \/ \E a \in Asks : Ask(a) \/ Serve(a) \/ Refuse(a) \/ AnswerArrives(a) \/ AnswerFails(a)
    \/ \E s \in Asks : handleSelectSession(s)
    \/ SelectedArrives \/ SelectedFails
    \/ HydrateArrives \/ HydrateFails
    \/ handleNewChat
    \/ \E source \in Sources : handleSelectSaved(source)
    \/ \E o \in Openers, source \in Sources : Opens(o, source)
    \/ \E o \in Openers : Opened(o) \/ OpeningFails(o)
    \/ handleSwitchWarehouse \/ resetToSignedOut \/ handleAuthenticated \/ Reload

Spec == Init /\ [][Next]_vars

\* A request is answered or fails in the end; the user need not do anything.
Fairness ==
    /\ \A a \in Asks : /\ WF_vars(Serve(a) \/ Refuse(a))
                       /\ WF_vars(AnswerArrives(a) \/ AnswerFails(a))
    /\ WF_vars(SelectedArrives \/ SelectedFails)
    /\ WF_vars(HydrateArrives \/ HydrateFails)

FairSpec == Spec /\ Fairness

-----------------------------------------------------------------------------
(* Properties.                                                             *)

TypeOK ==
    /\ signed \in BOOLEAN /\ loading \in BOOLEAN
    /\ {workspace, saved} \subseteq [source : Sources \cup {None}, session : Asks \cup {None}]
    /\ known \subseteq Sources /\ opening \in [Openers -> Sources \cup {None}]
    /\ mount \in 0 .. MaxMounts
    /\ turns \in Seq(Asks) /\ hydrated \in Asks \cup {None}
    /\ {hydrate, picking} \subseteq
           [session : Asks \cup {None}, from : 0 .. MaxAsks, mount : 0 .. MaxMounts,
            source : Sources \cup {None}]
    /\ ask \in [Asks -> [step : {"unasked", "sent", "served", "refused", "over"},
                         mount : 0 .. MaxMounts, source : Sources \cup {None},
                         session : Asks \cup {None}, reply : Asks \cup {None}]]
    /\ stored \in [Asks -> Seq(Asks)] /\ strayed \subseteq Asks

\* part is whole with some turns left out, the order kept.
PartOf(part, whole) ==
    \E place \in [DOMAIN part -> DOMAIN whole] :
        /\ \A i, j \in DOMAIN part : i < j => place[i] < place[j]
        /\ \A i \in DOMAIN part : part[i] = whole[place[i]]

\* The turns on screen are turns of the open session, in its order and none of them
\* twice; a new chat shows none.  (A turn may be missing: its answer was lost, or came
\* after a reload.)  The answers, past sessions and restored workspaces that arrive
\* while the user goes on clicking must not mix two conversations (ask,
\* handleSelectSession and the effect of useWorkspaceChat).
OneConversation ==
    Mounted => IF workspace.session = None THEN turns = <<>>
               ELSE PartOf(turns, stored[workspace.session])

\* Every turn of a stored session was asked of the source the session belongs to: the
\* history that is listed per source, and the SQL a follow-up builds on, are that
\* source's own (handleSessionChange, ask; get_or_create_session takes the session of
\* the request whatever its source).
SessionsKeepSource ==
    \A s \in Asks : \A i \in DOMAIN stored[s] : ask[stored[s][i]].source = ask[s].source

\* Whatever the user does, a session holds turns of another source only if an answer or
\* a past session named it that was asked for while one source was open and arrived when
\* another was: no reload, opening, new chat, pick or sign-out mixes sources by itself.
\* (handleSessionChange gives what arrives to whatever workspace is open.)
OnlyLateArrivalsMix ==
    \A s \in Asks \ strayed : \A i \in DOMAIN stored[s] :
        ask[stored[s][i]].source = ask[s].source

\* A reload restores what is open: sessionStorage follows every change of the
\* workspace, late answers and openings included (openWorkspace, handleSessionChange,
\* handleSwitchWarehouse, resetToSignedOut).
SavedIsOpen == saved = workspace

\* The workspace never stays busy: every control of it that is disabled while a
\* question or a session is awaited becomes usable again, or the workspace is gone.
BusyEnds == (Mounted /\ busy) ~> ~(Mounted /\ busy)

=============================================================================
