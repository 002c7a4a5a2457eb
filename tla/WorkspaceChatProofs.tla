------------------------- MODULE WorkspaceChatProofs -------------------------
(***************************************************************************)
(* Theorems about WorkspaceChat, for any number of sources, questions and  *)
(* workspaces.                                                             *)
(***************************************************************************)
EXTENDS WorkspaceChat, TLAPS

AskSteps == {"unasked", "sent", "served", "refused", "over"}
Journeys == [step : AskSteps, mount : Nat, source : Sources \cup {None},
             session : Asks \cup {None}, reply : Asks \cup {None}]
Workspaces == [source : Sources \cup {None}, session : Asks \cup {None}]
Loads == [session : Asks \cup {None}, from : Nat, mount : Nat, source : Sources \cup {None}]

Typed ==
    /\ signed \in BOOLEAN /\ workspace \in Workspaces /\ saved \in Workspaces
    /\ known \subseteq Sources /\ opening \in [Openers -> Sources \cup {None}]
    /\ mount \in Nat
    /\ picking \in Loads
    /\ ask \in [Asks -> Journeys] /\ stored \in [Asks -> Seq(Asks)]

\* The question s was asked of the source: it names a session of that source.
Of(s, source) == s \in Asks /\ ask[s].step # "unasked" /\ ask[s].source = source

\* A question that was asked kept the session of its workspace's source.
Kept == \A a \in Asks :
    /\ ask[a].step = "unasked" => ask[a] = Unasked
    /\ ask[a].step # "unasked" => ask[a].source \in Sources
    /\ ask[a].session # None => Of(ask[a].session, ask[a].source)
    /\ ask[a].step = "served" => Of(ask[a].reply, ask[a].source)

\* The open workspace, and what the page awaits for it, are of one source.
OneSource ==
    /\ workspace.source = None => workspace.session = None
    /\ workspace.session # None => Of(workspace.session, workspace.source)
    /\ picking # NoLoad => Mounted /\ Of(picking.session, workspace.source)
    /\ \A a \in Asks : InFlight(a) /\ ask[a].mount # 0 => Mounted /\ ask[a].source = workspace.source

\* Nothing is opened but from the picker, and one source at a time.
Alone ==
    /\ workspace.source # None => signed
    /\ \A o \in Openers : opening[o] # None => AtPicker
    /\ \A o, p \in Openers : opening[o] # None /\ opening[p] # None => o = p

\* The turns of a session were asked, of the source of the question that made it.
Filed == \A s \in Asks : \A i \in DOMAIN stored[s] :
    ask[s].step # "unasked" /\ Of(stored[s][i], ask[s].source)

Inductive == Typed /\ SavedIsOpen /\ Kept /\ Filed /\ OneSource /\ Alone

-----------------------------------------------------------------------------
\* The first state satisfies the invariant.
LEMMA InitHolds == Init => Inductive
<1> SUFFICES ASSUME Init PROVE Inductive
  OBVIOUS
<1>1. Unasked \in Journeys /\ NoWorkspace \in Workspaces /\ NoLoad \in Loads
  BY DEF Unasked, Journeys, AskSteps, NoWorkspace, Workspaces, NoLoad, Loads
<1>2. Typed
  BY <1>1, SourcesAssumption DEF Init, Typed
<1>3. \A a \in Asks : ask[a] = Unasked /\ stored[a] = <<>>
  BY DEF Init
<1>4. Unasked.step = "unasked" /\ Unasked.session = None /\ Unasked.source = None
  BY DEF Unasked
<1>5. Kept /\ Filed
  BY <1>3, <1>4 DEF Kept, Filed
<1>6. OneSource /\ Alone /\ SavedIsOpen
  <2>1. workspace.source = None /\ workspace.session = None /\ picking = NoLoad
    BY DEF Init, NoWorkspace
  <2>2. \A a \in Asks : ~InFlight(a)
    BY <1>3, <1>4 DEF InFlight
  <2>3. \A o \in Openers : opening[o] = None
    BY DEF Init
  <2>4. QED
    BY <2>1, <2>2, <2>3 DEF OneSource, Alone, SavedIsOpen, Init
<1>7. QED
  BY <1>2, <1>5, <1>6 DEF Inductive

-----------------------------------------------------------------------------
(* A step that moves no question                                           *)

\* A step that leaves questions and sessions alone has the page to account for.
LEMMA PageKeeps ==
    ASSUME Inductive, UNCHANGED <<ask, stored>>, workspace' \in Workspaces, saved' = workspace',
           signed' \in BOOLEAN, known' \subseteq Sources,
           opening' \in [Openers -> Sources \cup {None}], mount' \in Nat, picking' \in Loads,
           OneSource', Alone'
    PROVE  Inductive'
<1>1. Typed'
  BY DEF Inductive, Typed
<1>2. Kept' /\ Filed'
  BY DEF Inductive, Kept, Filed, Of
<1>3. QED
  BY <1>1, <1>2 DEF Inductive, SavedIsOpen

\* A load names its session.
LEMMA LoadsTyped ==
    ASSUME Typed, NEW s \in Asks
    PROVE  Load(s) \in Loads /\ Load(s).session = s
<1>1. stored[s] \in Seq(Asks) /\ mount \in Nat /\ workspace.source \in Sources \cup {None}
  BY DEF Typed, Workspaces
<1>2. Len(stored[s]) \in Nat
  BY <1>1
<1>3. QED
  BY <1>1, <1>2 DEF Load, Loads

\* The session of the open workspace changes, to one of its source or to none.
LEMMA SessionKeeps ==
    ASSUME Inductive, NEW s \in Asks \cup {None}, Mounted, handleSessionChange(s),
           s # None => Of(s, workspace.source)
    PROVE  /\ workspace' = [workspace EXCEPT !.session = s] /\ workspace' \in Workspaces
           /\ saved' = workspace' /\ workspace'.source = workspace.source
           /\ workspace'.session = s /\ Mounted'
<1>1. workspace.source # None /\ workspace \in Workspaces /\ signed /\ signed' = signed
  BY DEF Mounted, handleSessionChange, Inductive, Typed
<1>2. workspace' = [workspace EXCEPT !.session = s] /\ saved' = workspace'
  BY <1>1 DEF handleSessionChange
<1>3. workspace' \in Workspaces /\ workspace'.source = workspace.source /\ workspace'.session = s
  BY <1>1, <1>2 DEF Workspaces
<1>4. QED
  BY <1>1, <1>2, <1>3 DEF Mounted

\* No load is a load.
LEMMA NoLoadTyped == NoLoad \in Loads
BY DEF NoLoad, Loads

\* A past session is opened, or a new chat: of the workspace's source.
LEMMA PickingKeeps ==
    ASSUME Inductive, \/ \E s \in Asks : handleSelectSession(s)
                      \/ SelectedArrives \/ SelectedFails \/ handleNewChat
    PROVE  Inductive'
<1>1. CASE \E s \in Asks : handleSelectSession(s)
  <2>1. PICK s \in Asks : handleSelectSession(s)
    BY <1>1
  <2>2. /\ Mounted /\ s \in listSessions(workspace.source) /\ picking' = Load(s)
        /\ UNCHANGED <<signed, workspace, saved, known, opening, mount, ask, stored>>
    BY <2>1 DEF handleSelectSession, page
  <2>3. workspace.source # None /\ ask[s].source = workspace.source
    BY <2>2 DEF Mounted, listSessions
  <2>4. Of(s, workspace.source)
    BY <2>3 DEF Of, Inductive, Kept, Unasked
  <2>5. picking' \in Loads /\ picking'.session = s
    BY <2>2, LoadsTyped DEF Inductive
  <2>6. OneSource' /\ Alone'
    BY <2>2, <2>4, <2>5 DEF Inductive, OneSource, Alone, Mounted, AtPicker, InFlight, Of
  <2>7. QED
    BY <2>2, <2>5, <2>6, PageKeeps DEF Inductive, Typed, SavedIsOpen
<1>2. CASE SelectedArrives
  <2>1. /\ picking # NoLoad /\ picking' = NoLoad /\ handleSessionChange(picking.session)
        /\ UNCHANGED <<signed, known, opening, mount, ask, stored>>
    BY <1>2 DEF SelectedArrives, handleSessionChange
  <2>2. Mounted /\ Of(picking.session, workspace.source) /\ picking.session \in Asks
    BY <2>1 DEF Inductive, OneSource, Of
  <2>3. /\ workspace' \in Workspaces /\ saved' = workspace' /\ workspace'.source = workspace.source
        /\ workspace'.session = picking.session /\ Mounted'
    BY <2>1, <2>2, SessionKeeps
  <2>4. OneSource' /\ Alone'
    BY <2>1, <2>2, <2>3 DEF Inductive, OneSource, Alone, Mounted, AtPicker, InFlight, Of
  <2>5. QED
    BY <2>1, <2>3, <2>4, NoLoadTyped, PageKeeps DEF Inductive, Typed
<1>3. CASE SelectedFails
  <2>1. picking' = NoLoad /\ UNCHANGED <<signed, workspace, saved, known, opening, mount, ask, stored>>
    BY <1>3 DEF SelectedFails, page
  <2>2. OneSource' /\ Alone'
    BY <2>1 DEF Inductive, OneSource, Alone, Mounted, AtPicker, InFlight, Of
  <2>3. QED
    BY <2>1, <2>2, NoLoadTyped, PageKeeps DEF Inductive, Typed, SavedIsOpen
<1>4. CASE handleNewChat
  <2>1. /\ Mounted /\ handleSessionChange(None)
        /\ UNCHANGED <<signed, known, opening, mount, picking, ask, stored>>
    BY <1>4 DEF handleNewChat, handleSessionChange
  <2>2. /\ workspace' \in Workspaces /\ saved' = workspace' /\ workspace'.source = workspace.source
        /\ workspace'.session = None /\ Mounted'
    BY <2>1, SessionKeeps
  <2>3. OneSource' /\ Alone'
    BY <2>1, <2>2 DEF Inductive, OneSource, Alone, Mounted, AtPicker, InFlight, Of
  <2>4. QED
    BY <2>1, <2>2, <2>3, PageKeeps DEF Inductive, Typed
<1>5. QED
  BY <1>1, <1>2, <1>3, <1>4

-----------------------------------------------------------------------------
(* The page around the workspace, for a user who leaves nothing behind      *)

\* A source is opened from the picker, where nothing is awaited.
LEMMA PickerKeeps ==
    ASSUME Inductive, Waits,
           \/ \E source \in Sources : handleSelectSaved(source)
           \/ \E o \in Openers, source \in Sources : Opens(o, source)
           \/ \E o \in Openers : Opened(o) \/ OpeningFails(o)
    PROVE  Inductive'
<1>1. /\ opening \in [Openers -> Sources \cup {None}] /\ mount \in Nat /\ known \subseteq Sources
      /\ signed \in BOOLEAN
  BY DEF Inductive, Typed
<1>2. ASSUME AtPicker
      PROVE  picking = NoLoad /\ \A a \in Asks : InFlight(a) => ask[a].mount = 0
  BY <1>2 DEF AtPicker, Inductive, OneSource, Mounted
<1>3. ASSUME NEW source \in Sources, AtPicker, openWorkspace(source),
             opening' \in [Openers -> Sources \cup {None}], \A o \in Openers : opening'[o] = None
      PROVE  Inductive'
  <2>1. /\ workspace' = [source |-> source, session |-> None] /\ saved' = workspace'
        /\ known' \subseteq Sources /\ UNCHANGED <<signed, picking, ask, stored>> /\ signed
    BY <1>1, <1>3 DEF openWorkspace, AtPicker
  <2>2. workspace' \in Workspaces /\ workspace'.session = None /\ workspace'.source = source
        /\ source # None
    BY <2>1, SourcesAssumption DEF Workspaces
  <2>3. mount' \in Nat
    BY <1>1, <1>3 DEF openWorkspace, Mounts
  <2>4. picking' = NoLoad /\ \A a \in Asks : InFlight(a)' => ask'[a].mount = 0
    BY <1>2, <1>3, <2>1 DEF InFlight
  <2>5. OneSource' /\ Alone'
    BY <1>3, <2>1, <2>2, <2>4 DEF OneSource, Alone, AtPicker
  <2>6. QED
    BY <1>3, <2>1, <2>2, <2>3, <2>4, <2>5, NoLoadTyped, PageKeeps
<1>4. ASSUME NEW source \in Sources, handleSelectSaved(source) PROVE Inductive'
  <2>1. AtPicker /\ LeftAlone /\ openWorkspace(source) /\ opening' = opening
    BY <1>4 DEF handleSelectSaved
  <2>2. QED
    BY <1>1, <1>3, <2>1 DEF LeftAlone
<1>5. ASSUME NEW o \in Openers, NEW source \in Sources, Opens(o, source) PROVE Inductive'
  <2>1. /\ AtPicker /\ LeftAlone /\ opening' = [opening EXCEPT ![o] = source]
        /\ UNCHANGED <<signed, workspace, saved, known, mount, picking, ask, stored>>
    BY <1>5 DEF Opens
  <2>2. /\ opening' \in [Openers -> Sources \cup {None}]
        /\ \A p \in Openers : opening'[p] # None => p = o
    BY <1>1, <2>1 DEF LeftAlone
  <2>3. OneSource' /\ Alone'
    BY <2>1, <2>2 DEF Inductive, OneSource, Alone, AtPicker, Mounted, InFlight, Of
  <2>4. QED
    BY <2>1, <2>2, <2>3, PageKeeps DEF Inductive, Typed, SavedIsOpen
<1>6. ASSUME NEW o \in Openers, Opened(o) PROVE Inductive'
  <2>1. /\ opening[o] # None /\ opening' = [opening EXCEPT ![o] = None]
        /\ openWorkspace(opening[o])
    BY <1>6 DEF Opened
  <2>2. AtPicker /\ opening[o] \in Sources /\ \A p \in Openers : p # o => opening[p] = None
    BY <1>1, <2>1 DEF Inductive, Alone
  <2>3. opening' \in [Openers -> Sources \cup {None}] /\ \A p \in Openers : opening'[p] = None
    BY <1>1, <2>1, <2>2
  <2>4. QED
    BY <1>3, <2>1, <2>2, <2>3
<1>7. ASSUME NEW o \in Openers, OpeningFails(o) PROVE Inductive'
  <2>1. /\ opening' = [opening EXCEPT ![o] = None]
        /\ UNCHANGED <<signed, workspace, saved, known, mount, picking, ask, stored>>
    BY <1>7 DEF OpeningFails
  <2>2. /\ opening' \in [Openers -> Sources \cup {None}]
        /\ \A p \in Openers : opening'[p] # None => opening'[p] = opening[p]
    BY <1>1, <2>1
  <2>3. OneSource' /\ Alone'
    BY <2>1, <2>2 DEF Inductive, OneSource, Alone, AtPicker, Mounted, InFlight, Of
  <2>4. QED
    BY <2>1, <2>2, <2>3, PageKeeps DEF Inductive, Typed, SavedIsOpen
<1>8. QED
  BY <1>4, <1>5, <1>6, <1>7

\* The workspace is left, with nothing awaited.
LEMMA LeavingKeeps ==
    ASSUME Inductive, Waits, handleSwitchWarehouse \/ resetToSignedOut \/ handleAuthenticated
    PROVE  Inductive'
<1>1. picking = NoLoad /\ (\A a \in Asks : InFlight(a) => ask[a].mount = 0)
      /\ \A o \in Openers : opening[o] = None
  <2>1. CASE ~signed
    BY <2>1 DEF Inductive, OneSource, Alone, Mounted, AtPicker
  <2>2. CASE signed
    BY <2>2 DEF handleSwitchWarehouse, resetToSignedOut, handleAuthenticated, LeftAlone
  <2>3. QED
    BY <2>1, <2>2
<1>2. /\ workspace' = NoWorkspace /\ saved' = NoWorkspace
      /\ UNCHANGED <<known, opening, mount, picking, ask, stored>>
  BY DEF handleSwitchWarehouse, resetToSignedOut, handleAuthenticated, Unmounts
<1>3. signed' \in BOOLEAN
  BY DEF handleSwitchWarehouse, resetToSignedOut, handleAuthenticated, Inductive, Typed
<1>4. workspace' \in Workspaces /\ workspace'.source = None /\ workspace'.session = None
  BY <1>2 DEF NoWorkspace, Workspaces
<1>5. OneSource' /\ Alone'
  BY <1>1, <1>2, <1>4 DEF OneSource, Alone, InFlight
<1>6. QED
  BY <1>2, <1>3, <1>4, <1>5, PageKeeps DEF Inductive, Typed

-----------------------------------------------------------------------------
(* Questions                                                               *)

\* A question goes on; it keeps the source it was asked of.
LEMMA JourneyKeeps ==
    ASSUME Inductive, NEW a \in Asks, NEW j \in Journeys, ask' = [ask EXCEPT ![a] = j],
           j.step # "unasked", j.source \in Sources,
           ask[a].step # "unasked" => j.source = ask[a].source,
           j.session # None => Of(j.session, j.source),
           j.step = "served" => j.reply = a \/ Of(j.reply, j.source)
    PROVE  /\ ask' \in [Asks -> Journeys] /\ ask'[a] = j
           /\ \A b \in Asks : b # a => ask'[b] = ask[b]
           /\ \A s, source : Of(s, source) => Of(s, source)'
           /\ Kept'
<1>1. /\ ask \in [Asks -> Journeys] /\ ask' \in [Asks -> Journeys] /\ ask'[a] = j
      /\ \A b \in Asks : b # a => ask'[b] = ask[b]
  BY DEF Inductive, Typed
<1>2. \A s, source : Of(s, source) => Of(s, source)'
  BY <1>1 DEF Of
<1>3. Of(a, j.source)'
  BY <1>1 DEF Of
<1>4. Kept'
  <2> SUFFICES ASSUME NEW b \in Asks
               PROVE  /\ ask'[b].step = "unasked" => ask'[b] = Unasked
                      /\ ask'[b].step # "unasked" => ask'[b].source \in Sources
                      /\ ask'[b].session # None =>
                           \A source : source = ask'[b].source =>
                             \A s : s = ask'[b].session => Of(s, source)'
                      /\ ask'[b].step = "served" =>
                           \A source : source = ask'[b].source =>
                             \A s : s = ask'[b].reply => Of(s, source)'
    BY DEF Kept
  <2>1. CASE b = a
    BY <1>1, <1>2, <1>3, <2>1
  <2>2. CASE b # a
    BY <1>1, <1>2, <2>2 DEF Inductive, Kept
  <2>3. QED
    BY <2>1, <2>2
<1>5. QED
  BY <1>1, <1>2, <1>4

\* What the turns of the sessions say survives a question that goes on.
LEMMA FiledKeeps ==
    ASSUME Inductive, UNCHANGED stored, \A s, source : Of(s, source) => Of(s, source)'
    PROVE  Filed'
<1> SUFFICES ASSUME NEW s \in Asks, NEW i \in DOMAIN stored[s]
             PROVE  /\ ask'[s].step # "unasked"
                    /\ \A source : source = ask'[s].source => Of(stored[s][i], source)'
  BY DEF Filed
<1>1. Of(s, ask[s].source) /\ Of(stored[s][i], ask[s].source)
  BY DEF Inductive, Filed, Of
<1>2. \A source : source = ask[s].source => Of(s, source)' /\ Of(stored[s][i], source)'
  BY <1>1
<1>3. ask'[s].step # "unasked" /\ ask'[s].source = ask[s].source
  BY <1>2 DEF Of
<1>4. QED
  BY <1>2, <1>3

\* A question is asked, of the workspace's source and in its session.
LEMMA AskKeeps ==
    ASSUME Inductive, NEW a \in Asks, Ask(a)
    PROVE  Inductive'
<1> DEFINE j == [step |-> "sent", mount |-> mount, source |-> workspace.source,
                 session |-> workspace.session, reply |-> None]
<1>1. /\ Mounted /\ ask[a] = Unasked /\ ask' = [ask EXCEPT ![a] = j]
      /\ UNCHANGED <<signed, workspace, saved, known, opening, mount, picking, stored>>
  BY DEF Ask, page
<1>2. /\ workspace.source \in Sources /\ workspace.session \in Asks \cup {None} /\ mount \in Nat
  BY <1>1 DEF Mounted, Inductive, Typed, Workspaces
<1>3. j \in Journeys
  BY <1>2 DEF Journeys, AskSteps
<1>4. /\ j.step = "sent" /\ j.source = workspace.source /\ j.session = workspace.session
      /\ ask[a].step = "unasked"
  BY <1>1 DEF Unasked
<1> HIDE DEF j
<1>5. j.session # None => Of(j.session, j.source)
  BY <1>4 DEF Inductive, OneSource
<1>6. /\ ask' \in [Asks -> Journeys] /\ ask'[a] = j /\ (\A b \in Asks : b # a => ask'[b] = ask[b])
      /\ (\A s, source : Of(s, source) => Of(s, source)') /\ Kept'
  BY <1>1, <1>2, <1>3, <1>4, <1>5, JourneyKeeps
<1>7. Filed'
  BY <1>1, <1>6, FiledKeeps
<1>8. OneSource'
  <2>1. \A b \in Asks : InFlight(b)' /\ ask'[b].mount # 0 =>
           Mounted' /\ ask'[b].source = workspace'.source
    <3>1. Mounted' /\ workspace' = workspace
      BY <1>1 DEF Mounted
    <3>2. QED
      BY <1>4, <1>6, <3>1 DEF Inductive, OneSource, InFlight
  <2>2. workspace.session # None => \A source, s : source = workspace.source /\ s = workspace.session
                                                     => Of(s, source)'
    BY <1>6 DEF Inductive, OneSource
  <2>3. picking # NoLoad => Mounted' /\ \A source, s : source = workspace.source
                                            /\ s = picking.session => Of(s, source)'
    BY <1>1, <1>6 DEF Inductive, OneSource, Mounted
  <2>4. QED
    BY <1>1, <2>1, <2>2, <2>3 DEF Inductive, OneSource
<1>9. Alone' /\ SavedIsOpen' /\ Typed'
  BY <1>1, <1>6 DEF Inductive, Alone, AtPicker, SavedIsOpen, Typed
<1>10. QED
  BY <1>6, <1>7, <1>8, <1>9 DEF Inductive

\* A question that is answered or refused, on the server or on the page.
LEMMA AnswerKeeps ==
    ASSUME Inductive, NEW a \in Asks, Serve(a) \/ Refuse(a) \/ AnswerArrives(a) \/ AnswerFails(a)
    PROVE  Inductive'
<1>1. PICK to \in {"served", "refused", "over"}, s \in Asks \cup {None} :
        /\ ask' = [ask EXCEPT ![a] = [ask[a] EXCEPT !.step = to, !.reply = s]]
        /\ (to = "served" => Serve(a) /\ s = get_or_create_session(a)) /\ InFlight(a)
        /\ (to # "served" => UNCHANGED stored)
  <2>1. ask \in [Asks -> Journeys] /\ ask[a] \in Journeys
    BY DEF Inductive, Typed
  <2>2. CASE Serve(a)
    <3>1. get_or_create_session(a) \in Asks
      BY <2>1 DEF get_or_create_session, Journeys
    <3>2. ask' = [ask EXCEPT ![a] = [ask[a] EXCEPT !.step = "served", !.reply = get_or_create_session(a)]]
          /\ InFlight(a)
      BY <2>1, <2>2 DEF Serve, Journeys, InFlight
    <3>3. QED
      BY <2>2, <3>1, <3>2
  <2>3. CASE Refuse(a)
    <3>1. ask' = [ask EXCEPT ![a] = [ask[a] EXCEPT !.step = "refused", !.reply = ask[a].reply]]
      BY <2>1, <2>3 DEF Refuse, Journeys
    <3>2. ask[a].reply \in Asks \cup {None} /\ InFlight(a) /\ UNCHANGED stored
      BY <2>1, <2>3 DEF Refuse, Journeys, InFlight
    <3>3. QED
      BY <3>1, <3>2
  <2>4. CASE AnswerArrives(a) \/ AnswerFails(a)
    <3>1. ask' = [ask EXCEPT ![a] = [ask[a] EXCEPT !.step = "over", !.reply = ask[a].reply]]
      BY <2>1, <2>4 DEF AnswerArrives, AnswerFails, Journeys
    <3>2. ask[a].reply \in Asks \cup {None} /\ InFlight(a) /\ UNCHANGED stored
      BY <2>1, <2>4 DEF AnswerArrives, AnswerFails, Journeys, InFlight
    <3>3. QED
      BY <3>1, <3>2
  <2>5. QED
    BY <2>2, <2>3, <2>4
<1> DEFINE j == [ask[a] EXCEPT !.step = to, !.reply = s]
<1>2. ask[a] \in Journeys /\ ask[a].step # "unasked" /\ ask[a].source \in Sources
      /\ (ask[a].session # None => Of(ask[a].session, ask[a].source))
  <2>1. ask[a].step # "unasked"
    BY <1>1 DEF InFlight
  <2>2. QED
    BY <2>1 DEF Inductive, Typed, Kept
<1>3. /\ j \in Journeys /\ j.step = to /\ j.reply = s
      /\ j.mount = ask[a].mount /\ j.source = ask[a].source /\ j.session = ask[a].session
  BY <1>2 DEF Journeys, AskSteps
<1> HIDE DEF j
<1>4. to = "served" => s = a \/ Of(s, ask[a].source)
  BY <1>1, <1>2 DEF get_or_create_session
<1>5. /\ ask' \in [Asks -> Journeys] /\ ask'[a] = j /\ (\A b \in Asks : b # a => ask'[b] = ask[b])
      /\ (\A t, source : Of(t, source) => Of(t, source)') /\ Kept'
  <2>1. ask' = [ask EXCEPT ![a] = j]
    BY <1>1 DEF j
  <2>2. QED
    BY <1>2, <1>3, <1>4, <2>1, JourneyKeeps
<1>6. Filed' /\ stored' \in [Asks -> Seq(Asks)]
  <2>1. CASE to # "served"
    BY <1>1, <1>5, <2>1, FiledKeeps DEF Inductive, Typed
  <2>2. CASE to = "served"
    <3>1. s \in Asks /\ stored' = [stored EXCEPT ![s] = Append(stored[s], a)]
          /\ stored \in [Asks -> Seq(Asks)]
      <4>1. s \in Asks
        BY <1>2, <1>4, <2>2 DEF Of
      <4>2. QED
        BY <1>1, <2>2, <4>1 DEF Serve, Inductive, Typed
    <3>2. stored' \in [Asks -> Seq(Asks)]
      BY <3>1
    <3>3. \A b \in Asks : ask[b].step # "unasked" =>
            ask'[b].step # "unasked" /\ ask'[b].source = ask[b].source
      BY <1>2, <1>3, <1>5
    <3>4. ask[s].step # "unasked" /\ ask[s].source = ask[a].source
      BY <1>2, <1>4, <2>2 DEF Of
    <3>5. ASSUME NEW t \in Asks, NEW i \in DOMAIN stored'[t]
          PROVE  /\ ask'[t].step # "unasked" /\ stored'[t][i] \in Asks
                 /\ ask'[stored'[t][i]].step # "unasked" /\ ask'[stored'[t][i]].source = ask'[t].source
      <4>1. CASE t = s /\ i \notin DOMAIN stored[t]
        <5>1. stored'[t] = Append(stored[t], a) /\ stored[t] \in Seq(Asks)
          BY <3>1, <4>1
        <5>2. stored'[t][i] = a
          BY <3>5, <4>1, <5>1
        <5>3. QED
          BY <1>2, <3>3, <3>4, <4>1, <5>2
      <4>2. CASE i \in DOMAIN stored[t]
        <5>1. stored'[t][i] = stored[t][i]
          <6>1. CASE t = s
            <7>1. stored'[t] = Append(stored[t], a) /\ stored[t] \in Seq(Asks)
              BY <3>1, <6>1
            <7>2. QED
              BY <4>2, <7>1
          <6>2. CASE t # s
            BY <3>1, <6>2
          <6>3. QED
            BY <6>1, <6>2
        <5>2. ask[t].step # "unasked" /\ Of(stored[t][i], ask[t].source)
          BY <4>2 DEF Inductive, Filed
        <5>3. QED
          BY <3>3, <5>1, <5>2 DEF Of
      <4>3. CASE t # s
        BY <3>1, <3>5, <4>2, <4>3
      <4>4. QED
        BY <4>1, <4>2, <4>3
    <3>6. Filed'
      BY <3>5 DEF Filed, Of
    <3>7. QED
      BY <3>2, <3>6
  <2>3. QED
    BY <2>1, <2>2
<1>7. /\ workspace' \in Workspaces /\ saved' = workspace' /\ workspace'.source = workspace.source
      /\ (workspace'.session # None => Of(workspace'.session, workspace.source))
      /\ (workspace.source = None => workspace'.session = None)
      /\ UNCHANGED <<signed, known, opening, mount, picking>>
  <2>1. CASE AnswerArrives(a)
    <3>1. /\ ask[a].step = "served" /\ ask[a].mount # 0 /\ handleSessionChange(ask[a].reply)
          /\ UNCHANGED <<signed, known, opening, mount, picking>>
      BY <2>1 DEF AnswerArrives, handleSessionChange
    <3>2. Of(ask[a].reply, ask[a].source) /\ Mounted /\ ask[a].source = workspace.source
          /\ ask[a].reply \in Asks
      BY <3>1 DEF Inductive, Kept, OneSource, InFlight, Of
    <3>3. /\ workspace' \in Workspaces /\ saved' = workspace' /\ workspace'.source = workspace.source
          /\ workspace'.session = ask[a].reply
      BY <3>1, <3>2, SessionKeeps
    <3>4. QED
      BY <3>1, <3>2, <3>3 DEF Mounted
  <2>2. CASE Serve(a) \/ Refuse(a) \/ AnswerFails(a)
    BY <2>2 DEF Serve, Refuse, AnswerFails, page, Inductive, Typed, OneSource, SavedIsOpen
  <2>3. QED
    BY <2>1, <2>2
<1>8. OneSource'
  <2>1. Mounted' <=> Mounted
    BY <1>7 DEF Mounted
  <2>2. \A b \in Asks : InFlight(b)' /\ ask'[b].mount # 0 =>
           Mounted' /\ ask'[b].source = workspace'.source
    <3>1. \A b \in Asks : InFlight(b)' => InFlight(b) /\ ask'[b].source = ask[b].source
                                          /\ ask'[b].mount = ask[b].mount
      BY <1>1, <1>3, <1>5 DEF InFlight
    <3>2. QED
      BY <1>7, <2>1, <3>1 DEF Inductive, OneSource
  <2>3. \A source, t : source = workspace'.source /\ t = workspace'.session /\ t # None
                         => Of(t, source)'
    BY <1>5, <1>7
  <2>4. picking # NoLoad => \A source, t : source = workspace.source /\ t = picking.session
                                             => Of(t, source)'
    BY <1>5 DEF Inductive, OneSource
  <2>5. picking' # NoLoad => Mounted' /\ \A source, t : source = workspace'.source
                                                 /\ t = picking'.session => Of(t, source)'
    BY <1>7, <2>1, <2>4 DEF Inductive, OneSource
  <2>6. QED
    BY <1>7, <2>2, <2>3, <2>5 DEF OneSource
<1>9. Alone' /\ SavedIsOpen' /\ Typed'
  BY <1>5, <1>6, <1>7 DEF Inductive, Alone, AtPicker, SavedIsOpen, Typed
<1>10. QED
  BY <1>5, <1>6, <1>8, <1>9 DEF Inductive

\* A reload forgets what was awaited and restores what was open.
LEMMA ReloadKeeps == ASSUME Inductive, Reload PROVE Inductive'
<1>1. /\ signed /\ workspace' = workspace /\ picking' = NoLoad
      /\ opening' = [o \in Openers |-> None]
      /\ ask' = [a \in Asks |-> IF InFlight(a) THEN [ask[a] EXCEPT !.mount = 0] ELSE ask[a]]
      /\ UNCHANGED <<signed, saved, known, stored>>
  BY DEF Reload, Inductive, SavedIsOpen
<1>2. /\ ask \in [Asks -> Journeys] /\ mount' \in Nat
  BY DEF Reload, Mounts, Inductive, Typed
<1>3. ASSUME NEW a \in Asks
      PROVE  /\ ask'[a] \in Journeys /\ ask'[a].step = ask[a].step /\ ask'[a].source = ask[a].source
             /\ ask'[a].session = ask[a].session /\ ask'[a].reply = ask[a].reply
             /\ (InFlight(a) => ask'[a].mount = 0) /\ (~InFlight(a) => ask'[a] = ask[a])
  <2>1. ask[a] \in Journeys
    BY <1>2
  <2>2. [ask[a] EXCEPT !.mount = 0] \in Journeys
    BY <2>1 DEF Journeys
  <2>3. QED
    BY <1>1, <2>1, <2>2 DEF Journeys
<1>4. \A s, source : Of(s, source) => Of(s, source)'
  BY <1>3 DEF Of
<1>5. Kept'
  <2> SUFFICES ASSUME NEW b \in Asks
               PROVE  /\ ask'[b].step = "unasked" => ask'[b] = Unasked
                      /\ ask'[b].step # "unasked" => ask'[b].source \in Sources
                      /\ ask'[b].session # None =>
                           \A source : source = ask'[b].source =>
                             \A s : s = ask'[b].session => Of(s, source)'
                      /\ ask'[b].step = "served" =>
                           \A source : source = ask'[b].source =>
                             \A s : s = ask'[b].reply => Of(s, source)'
    BY DEF Kept
  <2>1. ask[b].step = "unasked" => ask'[b] = ask[b]
    BY <1>3 DEF InFlight
  <2>2. QED
    BY <1>3, <1>4, <2>1 DEF Inductive, Kept
<1>6. Filed'
  BY <1>1, <1>4, FiledKeeps
<1>7. OneSource'
  <2>1. \A a \in Asks : InFlight(a)' => ask'[a].mount = 0
    BY <1>3 DEF InFlight
  <2>2. \A source, t : source = workspace.source /\ t = workspace.session /\ t # None => Of(t, source)'
    BY <1>4 DEF Inductive, OneSource
  <2>3. QED
    BY <1>1, <2>1, <2>2 DEF Inductive, OneSource
<1>8. Alone' /\ SavedIsOpen'
  BY <1>1 DEF Inductive, Alone, SavedIsOpen
<1>9. Typed'
  <2>1. ask' \in [Asks -> Journeys]
    BY <1>1, <1>3
  <2>2. QED
    BY <1>1, <1>2, <2>1, NoLoadTyped DEF Inductive, Typed
<1>10. QED
  BY <1>5, <1>6, <1>7, <1>8, <1>9 DEF Inductive

-----------------------------------------------------------------------------
(* Theorems                                                                *)

\* Every step keeps the invariant.
LEMMA StepKeeps == ASSUME Waits PROVE Inductive /\ [Next]_vars => Inductive'
<1> SUFFICES ASSUME Inductive, [Next]_vars PROVE Inductive'
  OBVIOUS
<1>1. CASE HydrateArrives \/ HydrateFails \/ UNCHANGED vars
  <2>1. UNCHANGED <<signed, workspace, saved, known, opening, mount, picking, ask, stored>>
    BY <1>1 DEF HydrateArrives, HydrateFails, page, vars
  <2>2. QED
    BY <2>1 DEF Inductive, Typed, SavedIsOpen, Kept, Filed, OneSource, Alone, Of, InFlight, Mounted,
       AtPicker
<1>2. QED
  BY <1>1, AskKeeps, AnswerKeeps, PickingKeeps, PickerKeeps, LeavingKeeps, ReloadKeeps DEF Next

\* The invariant holds in every state.
LEMMA InductiveHolds == ASSUME Waits PROVE Spec => []Inductive
<1>1. Inductive /\ [Next]_vars => Inductive'
  BY StepKeeps
<1>2. QED
  BY <1>1, InitHolds, PTL DEF Spec

-----------------------------------------------------------------------------
(* The conversation on screen.  For a user who waits there is one thing    *)
(* awaited at a time: a question of the open session, a past session that  *)
(* was picked, or the load of the session a reload restored.               *)

ShownTyped == turns \in Seq(Asks) /\ hydrate \in Loads /\ loading \in BOOLEAN

\* A picked session has turns; the page waits for it and for nothing else.
PickingShown == picking # NoLoad =>
    loading /\ picking.mount = mount /\ picking.from # 0 /\ hydrate = NoLoad

\* A load by the effect is of the open session.
HydrateShown == hydrate # NoLoad =>
    Mounted /\ loading /\ hydrate.session = workspace.session /\ workspace.session # None

\* The question that is awaited belongs to the open session, and what the server has
\* stored of it follows the turns on screen.
Awaited(a) == InFlight(a) /\ ask[a].mount # 0
AwaitedShown == \A a \in Asks : Awaited(a) =>
    /\ ask[a].mount = mount /\ ask[a].session = workspace.session /\ ~loading
    /\ ask[a].step = "served" =>
          PartOf(Append(turns, a), stored[ask[a].reply])
OneAwaited == \A a, b \in Asks : Awaited(a) /\ Awaited(b) => a = b

Screen == ShownTyped /\ PickingShown /\ HydrateShown /\ AwaitedShown /\ OneAwaited
          /\ OneConversation

\* No turns are part of any turns, and so are the first of them.
LEMMA PartPrefix ==
    ASSUME NEW whole \in Seq(Asks), NEW n \in 0 .. Len(whole)
    PROVE  PartOf(SubSeq(whole, 1, n), whole)
<1> DEFINE part == SubSeq(whole, 1, n)
           place == [i \in DOMAIN part |-> i]
<1>1. DOMAIN part = 1 .. n /\ DOMAIN whole = 1 .. Len(whole) /\ 1 .. n \subseteq 1 .. Len(whole)
  OBVIOUS
<1>2. \A i \in 1 .. n : part[i] = whole[i]
  OBVIOUS
<1>3. place \in [DOMAIN part -> DOMAIN whole]
  BY <1>1
<1>4. \A i \in DOMAIN part : place[i] = i
  OBVIOUS
<1> HIDE DEF part, place
<1>5. PartOf(part, whole)
  BY <1>1, <1>2, <1>3, <1>4 DEF PartOf
<1>6. QED
  BY <1>5 DEF part

LEMMA PartEmpty == ASSUME NEW whole PROVE PartOf(<< >>, whole)
<1>1. DOMAIN << >> = {}
  OBVIOUS
<1>2. [i \in DOMAIN << >> |-> i] \in [DOMAIN << >> -> DOMAIN whole]
  BY <1>1
<1>3. QED
  BY <1>1, <1>2 DEF PartOf

\* A turn that is stored at the end leaves part of the turns part of them ...
LEMMA PartLonger ==
    ASSUME NEW part \in Seq(Asks), NEW whole \in Seq(Asks), NEW a, PartOf(part, whole)
    PROVE  PartOf(part, Append(whole, a))
<1>1. PICK place \in [DOMAIN part -> DOMAIN whole] :
        /\ \A i, j \in DOMAIN part : i < j => place[i] < place[j]
        /\ \A i \in DOMAIN part : part[i] = whole[place[i]]
  BY DEF PartOf
<1>2. DOMAIN whole \subseteq DOMAIN Append(whole, a)
      /\ \A i \in DOMAIN whole : Append(whole, a)[i] = whole[i]
  OBVIOUS
<1>3. place \in [DOMAIN part -> DOMAIN Append(whole, a)]
  BY <1>2
<1>4. \A i \in DOMAIN part : part[i] = Append(whole, a)[place[i]]
  BY <1>1, <1>2
<1>5. QED
  BY <1>1, <1>3, <1>4 DEF PartOf

\* ... also when the turn is shown as well.
LEMMA PartBoth ==
    ASSUME NEW part \in Seq(Asks), NEW whole \in Seq(Asks), NEW a \in Asks, PartOf(part, whole)
    PROVE  PartOf(Append(part, a), Append(whole, a))
<1> DEFINE longer == Append(part, a)
           stock == Append(whole, a)
           last == Len(part) + 1
           end == Len(whole) + 1
<1>1. PICK place \in [DOMAIN part -> DOMAIN whole] :
        /\ \A i, j \in DOMAIN part : i < j => place[i] < place[j]
        /\ \A i \in DOMAIN part : part[i] = whole[place[i]]
  BY DEF PartOf
<1>2. /\ DOMAIN longer = DOMAIN part \cup {last} /\ last \notin DOMAIN part /\ longer[last] = a
      /\ \A i \in DOMAIN part : longer[i] = part[i]
      /\ DOMAIN stock = DOMAIN whole \cup {end} /\ end \notin DOMAIN whole /\ stock[end] = a
      /\ \A i \in DOMAIN whole : stock[i] = whole[i]
  OBVIOUS
<1>3. \A i \in DOMAIN part : i \in Nat /\ i < last
  OBVIOUS
<1>4. \A i \in DOMAIN whole : i \in Nat /\ i < end
  OBVIOUS
<1>5. last \in Nat /\ end \in Nat
  OBVIOUS
<1> HIDE DEF longer, stock, last, end
<1> DEFINE there == [i \in DOMAIN longer |-> IF i = last THEN end ELSE place[i]]
<1>6. there \in [DOMAIN longer -> DOMAIN stock]
  BY <1>2
<1>7. ASSUME NEW i \in DOMAIN longer, NEW j \in DOMAIN longer, i < j
      PROVE  there[i] < there[j]
  <2>1. i \in DOMAIN part
    BY <1>2, <1>3, <1>5, <1>7
  <2>2. i # last /\ there[i] = place[i] /\ place[i] \in DOMAIN whole
    BY <1>2, <2>1
  <2>3. CASE j = last
    BY <1>4, <2>2, <2>3
  <2>4. CASE j # last
    BY <1>1, <1>2, <1>7, <2>1, <2>2, <2>4
  <2>5. QED
    BY <2>3, <2>4
<1>8. ASSUME NEW i \in DOMAIN longer PROVE longer[i] = stock[there[i]]
  <2>1. CASE i = last
    BY <1>2, <2>1
  <2>2. CASE i # last
    BY <1>1, <1>2, <2>2
  <2>3. QED
    BY <2>1, <2>2
<1>9. PartOf(longer, stock)
  BY <1>6, <1>7, <1>8 DEF PartOf
<1>10. QED
  BY <1>9 DEF longer, stock

\* What was stored at some moment is part of what is stored.
LEMMA LoadedShown ==
    ASSUME Inductive, NEW load \in Loads, load.session \in Asks, NEW shown \in getSession(load)
    PROVE  /\ shown \in Seq(Asks) /\ PartOf(shown, stored[load.session])
           /\ load.from # 0 => shown # << >>
<1>1. stored[load.session] \in Seq(Asks) /\ load.from \in Nat
  BY DEF Inductive, Typed, Loads
<1>2. PICK n \in load.from .. Len(stored[load.session]) : shown = SubSeq(stored[load.session], 1, n)
  BY DEF getSession
<1>3. n \in 0 .. Len(stored[load.session])
  BY <1>1, <1>2
<1>4. shown \in Seq(Asks) /\ Len(shown) = n
  BY <1>1, <1>2, <1>3
<1>5. load.from # 0 => Len(shown) # 0
  BY <1>1, <1>2, <1>4
<1>6. QED
  BY <1>1, <1>2, <1>3, <1>4, <1>5, PartPrefix

\* A conversation with no turns is one.
LEMMA NoTurnsTyped == << >> \in Seq(Asks)
OBVIOUS

\* The first state shows nothing.
LEMMA InitShown == Init => Screen
<1> SUFFICES ASSUME Init PROVE Screen
  OBVIOUS
<1>1. NoLoad \in Loads /\ Unasked.step = "unasked"
  BY NoLoadTyped DEF Unasked
<1>2. \A a \in Asks : ~Awaited(a)
  BY <1>1 DEF Init, Awaited, InFlight
<1>3. ~Mounted
  BY DEF Init, Mounted, NoWorkspace
<1>4. ShownTyped /\ PickingShown /\ HydrateShown
  BY <1>1, NoTurnsTyped DEF Init, ShownTyped, PickingShown, HydrateShown
<1>5. QED
  BY <1>2, <1>3, <1>4 DEF Screen, AwaitedShown, OneAwaited, OneConversation

\* A workspace is not left, or comes on screen, without the page forgetting its turns.
LEMMA PickerShows ==
    ASSUME Inductive, Screen, Waits,
           \/ \E source \in Sources : handleSelectSaved(source)
           \/ \E o \in Openers, source \in Sources : Opens(o, source)
           \/ \E o \in Openers : Opened(o) \/ OpeningFails(o)
    PROVE  Screen'
<1>1. ASSUME AtPicker
      PROVE  picking = NoLoad /\ ~Mounted /\ signed /\ hydrate = NoLoad /\ \A a \in Asks : ~Awaited(a)
  BY <1>1 DEF AtPicker, Inductive, OneSource, Mounted, Screen, HydrateShown, Awaited
<1>2. ASSUME NEW source, AtPicker, openWorkspace(source) PROVE Screen'
  <2>1. /\ workspace' = [source |-> source, session |-> None]
        /\ Mounts(None) /\ UNCHANGED <<signed, picking, ask, stored>>
    BY <1>1, <1>2 DEF openWorkspace
  <2>2. turns' = << >> /\ hydrate' = NoLoad /\ loading' = FALSE /\ workspace'.session = None
    BY <2>1 DEF Mounts
  <2>3. \A a \in Asks : ~Awaited(a)'
    BY <1>1, <1>2, <2>1 DEF Awaited, InFlight
  <2>4. picking' = NoLoad
    BY <1>1, <1>2, <2>1
  <2>5. ShownTyped' /\ PickingShown' /\ HydrateShown'
    BY <2>2, <2>4, NoLoadTyped, NoTurnsTyped DEF ShownTyped, PickingShown, HydrateShown
  <2>6. QED
    BY <2>2, <2>3, <2>5 DEF Screen, AwaitedShown, OneAwaited, OneConversation
<1>3. ASSUME NEW o \in Openers, opening[o] # None PROVE AtPicker
  BY <1>3 DEF Inductive, Alone
<1>4. CASE \E o \in Openers, source \in Sources : Opens(o, source) \/ OpeningFails(o)
  <2>1. UNCHANGED <<signed, workspace, mount, turns, hydrate, loading, picking, ask, stored>>
    BY <1>4 DEF Opens, OpeningFails, chat
  <2>2. QED
    BY <2>1 DEF Screen, ShownTyped, PickingShown, HydrateShown, AwaitedShown, OneAwaited,
       OneConversation, Awaited, InFlight, Mounted
<1>5. CASE \E o \in Openers : OpeningFails(o)
  <2>1. UNCHANGED <<signed, workspace, mount, turns, hydrate, loading, picking, ask, stored>>
    BY <1>5 DEF OpeningFails, chat
  <2>2. QED
    BY <2>1 DEF Screen, ShownTyped, PickingShown, HydrateShown, AwaitedShown, OneAwaited,
       OneConversation, Awaited, InFlight, Mounted
<1>6. CASE \E source \in Sources : handleSelectSaved(source)
  BY <1>2, <1>6 DEF handleSelectSaved
<1>7. CASE \E o \in Openers : Opened(o)
  BY <1>2, <1>3, <1>7 DEF Opened
<1>8. QED
  BY <1>4, <1>5, <1>6, <1>7

\* A workspace is left with nothing awaited and no turns on screen.
LEMMA LeavingShows ==
    ASSUME Inductive, Screen, Waits, handleSwitchWarehouse \/ resetToSignedOut \/ handleAuthenticated
    PROVE  Screen'
<1>1. picking = NoLoad /\ \A a \in Asks : ~Awaited(a)
  <2>1. CASE ~signed
    BY <2>1 DEF Inductive, OneSource, Mounted, Awaited
  <2>2. CASE signed
    BY <2>2 DEF handleSwitchWarehouse, resetToSignedOut, handleAuthenticated, LeftAlone, Awaited
  <2>3. QED
    BY <2>1, <2>2
<1>2. /\ workspace' = NoWorkspace /\ turns' = << >> /\ hydrate' = NoLoad /\ loading' = FALSE
      /\ UNCHANGED <<picking, ask>>
  BY DEF handleSwitchWarehouse, resetToSignedOut, handleAuthenticated, Unmounts
<1>3. ~Mounted' /\ \A a \in Asks : ~Awaited(a)'
  BY <1>1, <1>2 DEF Mounted, NoWorkspace, Awaited, InFlight
<1>4. ShownTyped' /\ PickingShown' /\ HydrateShown'
  BY <1>1, <1>2, NoLoadTyped, NoTurnsTyped DEF ShownTyped, PickingShown, HydrateShown
<1>5. QED
  BY <1>3, <1>4 DEF Screen, AwaitedShown, OneAwaited, OneConversation

\* A reload shows no turns until the restored session is loaded.
LEMMA ReloadShows == ASSUME Inductive, Screen, Reload PROVE Screen'
<1>1. /\ signed /\ workspace' = workspace /\ picking' = NoLoad
      /\ ask' = [a \in Asks |-> IF InFlight(a) THEN [ask[a] EXCEPT !.mount = 0] ELSE ask[a]]
      /\ UNCHANGED <<signed, saved, stored>>
  BY DEF Reload, Inductive, SavedIsOpen
<1>2. \A a \in Asks : ~Awaited(a)'
  <2> SUFFICES ASSUME NEW a \in Asks, InFlight(a)' PROVE ask'[a].mount = 0
    BY DEF Awaited
  <2>1. ask[a] \in Journeys
    BY DEF Inductive, Typed
  <2>2. InFlight(a)
    BY <1>1, <2>1 DEF InFlight, Journeys
  <2>3. QED
    BY <1>1, <2>1, <2>2 DEF Journeys
<1>3. AwaitedShown' /\ OneAwaited' /\ PickingShown'
  BY <1>1, <1>2 DEF AwaitedShown, OneAwaited, PickingShown
<1>4. CASE saved.source = None
  <2>1. ~Mounted /\ UNCHANGED <<turns, hydrate, loading>>
    BY <1>4 DEF Reload, chat, Mounted, Inductive, SavedIsOpen
  <2>2. hydrate' = NoLoad /\ ~Mounted'
    BY <1>1, <2>1 DEF Screen, HydrateShown, Mounted
  <2>3. QED
    BY <1>3, <2>1, <2>2 DEF Screen, ShownTyped, HydrateShown, OneConversation
<1>5. CASE saved.source # None
  <2>1. Mounts(workspace.session) /\ Mounted'
    BY <1>1, <1>5 DEF Reload, Inductive, SavedIsOpen, Mounted
  <2>2. turns' = << >> /\ loading' = (workspace.session # None) /\ loading' \in BOOLEAN
    BY <2>1 DEF Mounts
  <2>3. /\ hydrate' \in Loads
        /\ hydrate' # NoLoad => loading' /\ hydrate'.session = workspace'.session
                                         /\ workspace'.session # None
    <3>1. CASE workspace.session = None
      BY <2>1, <3>1, NoLoadTyped DEF Mounts
    <3>2. CASE workspace.session # None
      <4>1. workspace.session \in Asks /\ mount \in Nat
        BY <3>2 DEF Inductive, Typed, Workspaces
      <4>2. hydrate' = [Load(workspace.session) EXCEPT !.mount = mount'] /\ mount' \in Nat
        BY <2>1, <3>2, <4>1 DEF Mounts
      <4>3. Load(workspace.session) \in Loads /\ Load(workspace.session).session = workspace.session
        BY <4>1, LoadsTyped DEF Inductive
      <4>4. hydrate' \in Loads /\ hydrate'.session = workspace.session
        BY <4>2, <4>3 DEF Loads
      <4>5. QED
        BY <1>1, <2>2, <3>2, <4>4
    <3>3. QED
      BY <3>1, <3>2
  <2>4. OneConversation'
    BY <2>2, PartEmpty DEF OneConversation
  <2>5. ShownTyped'
    BY <2>2, <2>3, NoTurnsTyped DEF ShownTyped
  <2>6. QED
    BY <1>3, <2>1, <2>3, <2>4, <2>5 DEF Screen, HydrateShown
<1>6. QED
  BY <1>4, <1>5

\* A question is asked when nothing else is awaited.
LEMMA AskShows ==
    ASSUME Inductive, Screen, NEW a \in Asks, Ask(a)
    PROVE  Screen'
<1> DEFINE j == [step |-> "sent", mount |-> mount, source |-> workspace.source,
                 session |-> workspace.session, reply |-> None]
<1>1. /\ Mounted /\ ~loading /\ ~pendingQuestion /\ ask' = [ask EXCEPT ![a] = j]
      /\ UNCHANGED <<signed, workspace, mount, turns, hydrate, loading, picking, stored>>
  BY DEF Ask, busy, page, chat
<1>2. /\ \A b \in Asks : b # a => ask'[b] = ask[b]
      /\ ask'[a].step = "sent" /\ ask'[a].mount = mount /\ ask'[a].session = workspace.session
  BY <1>1 DEF Inductive, Typed
<1>3. \A b \in Asks : ~Awaited(b)
  BY <1>1 DEF pendingQuestion, Here, Awaited, Screen, AwaitedShown
<1>4. \A b \in Asks : Awaited(b)' => b = a
  BY <1>2, <1>3 DEF Awaited, InFlight
<1>5. AwaitedShown' /\ OneAwaited'
  <2>1. ~loading' /\ workspace'.session = workspace.session /\ mount' = mount
    BY <1>1
  <2>2. QED
    BY <1>2, <1>4, <2>1 DEF AwaitedShown, OneAwaited
<1>6. ShownTyped' /\ PickingShown' /\ HydrateShown' /\ OneConversation'
  BY <1>1 DEF Screen, ShownTyped, PickingShown, HydrateShown, OneConversation, Mounted
<1>7. QED
  BY <1>5, <1>6 DEF Screen

\* The server stores the question as the last turn of its session: when it is awaited,
\* after the turns on screen.
LEMMA ServeShows ==
    ASSUME Inductive, Screen, NEW a \in Asks, Serve(a)
    PROVE  Screen'
<1> DEFINE s == get_or_create_session(a)
<1>1. /\ ask[a].step = "sent" /\ stored' = [stored EXCEPT ![s] = Append(stored[s], a)]
      /\ ask' = [ask EXCEPT ![a] = [ask[a] EXCEPT !.step = "served", !.reply = s]]
      /\ UNCHANGED <<signed, workspace, mount, turns, hydrate, loading, picking>>
  BY DEF Serve, page, chat, Inductive, Typed, Journeys
<1>2. ask \in [Asks -> Journeys] /\ ask[a] \in Journeys /\ stored \in [Asks -> Seq(Asks)]
  BY DEF Inductive, Typed
<1>3. s \in Asks /\ (ask[a].session # None => s = ask[a].session)
  BY <1>2 DEF get_or_create_session, Journeys
<1> HIDE DEF s
<1>4. /\ \A b \in Asks : b # a => ask'[b] = ask[b]
      /\ ask'[a].step = "served" /\ ask'[a].reply = s
      /\ ask'[a].mount = ask[a].mount /\ ask'[a].session = ask[a].session
  BY <1>1, <1>2 DEF Journeys
<1>5. \A b \in Asks : Awaited(b)' => Awaited(b)
  BY <1>1, <1>4 DEF Awaited, InFlight
<1>6. /\ stored'[s] = Append(stored[s], a) /\ \A t \in Asks : t # s => stored'[t] = stored[t]
      /\ \A t \in Asks : stored[t] \in Seq(Asks)
  BY <1>1, <1>2, <1>3
<1>7. ASSUME NEW t \in Asks, NEW part \in Seq(Asks), PartOf(part, stored[t])
      PROVE  PartOf(part, stored'[t])
  <2>1. CASE t = s
    BY <1>6, <1>7, <2>1, PartLonger
  <2>2. CASE t # s
    BY <1>6, <1>7, <2>2
  <2>3. QED
    BY <2>1, <2>2
<1>8. turns \in Seq(Asks) /\ workspace.session \in Asks \cup {None}
  BY DEF Screen, ShownTyped, Inductive, Typed, Workspaces
<1>9. OneConversation'
  BY <1>1, <1>7, <1>8 DEF Screen, OneConversation, Mounted
<1>10. ASSUME NEW b \in Asks, Awaited(b)', ask'[b].step = "served"
       PROVE  PartOf(Append(turns, b), stored'[ask'[b].reply])
  <2>1. CASE b = a
    <3>1. Mounted /\ ask[a].session = workspace.session
      BY <1>5, <1>10, <2>1 DEF Inductive, OneSource, Screen, AwaitedShown, Awaited
    <3>2. PartOf(turns, stored[s])
      <4>1. CASE workspace.session = None
        BY <1>6, <3>1, <4>1, PartEmpty DEF Screen, OneConversation
      <4>2. CASE workspace.session # None
        BY <1>3, <3>1, <4>2 DEF Screen, OneConversation
      <4>3. QED
        BY <4>1, <4>2
    <3>3. QED
      BY <1>3, <1>4, <1>6, <1>8, <2>1, <3>2, PartBoth
  <2>2. CASE b # a
    <3>1. ask'[b] = ask[b] /\ ask[b].step = "served" /\ Awaited(b)
      BY <1>4, <1>5, <1>10, <2>2
    <3>2. ask[b].reply \in Asks /\ Append(turns, b) \in Seq(Asks)
      BY <1>8, <3>1 DEF Inductive, Kept, Of
    <3>3. PartOf(Append(turns, b), stored[ask[b].reply])
      BY <3>1 DEF Screen, AwaitedShown
    <3>4. QED
      BY <1>7, <3>1, <3>2, <3>3
  <2>3. QED
    BY <2>1, <2>2
<1>11. \A b \in Asks : Awaited(b)' =>
         /\ ask'[b].mount = mount' /\ ask'[b].session = workspace'.session /\ ~loading'
  BY <1>1, <1>4, <1>5 DEF Screen, AwaitedShown
<1>12. AwaitedShown' /\ OneAwaited'
  <2>1. turns' = turns
    BY <1>1
  <2>2. AwaitedShown'
    BY <1>10, <1>11, <2>1 DEF AwaitedShown
  <2>3. QED
    BY <1>5, <2>2 DEF Screen, OneAwaited
<1>13. ShownTyped' /\ PickingShown' /\ HydrateShown'
  BY <1>1 DEF Screen, ShownTyped, PickingShown, HydrateShown, Mounted
<1>14. QED
  BY <1>9, <1>12, <1>13 DEF Screen

\* A question that is over on the page, or refused by the server.
LEMMA OverShows ==
    ASSUME Inductive, Screen, NEW a \in Asks, Refuse(a) \/ AnswerFails(a)
    PROVE  Screen'
<1>1. PICK to \in {"refused", "over"} :
        /\ InFlight(a) /\ ask' = [ask EXCEPT ![a].step = to]
        /\ UNCHANGED <<signed, workspace, mount, turns, hydrate, loading, picking, stored>>
  BY DEF Refuse, AnswerFails, InFlight, page, chat
<1>2. ask \in [Asks -> Journeys] /\ ask[a] \in Journeys
  BY DEF Inductive, Typed
<1>3. /\ \A b \in Asks : b # a => ask'[b] = ask[b]
      /\ ask'[a].step = to /\ ask'[a].mount = ask[a].mount /\ ask'[a].session = ask[a].session
  BY <1>1, <1>2 DEF Journeys
<1>4. \A b \in Asks : Awaited(b)' =>
        /\ Awaited(b) /\ ask'[b].mount = ask[b].mount /\ ask'[b].session = ask[b].session
        /\ ask'[b].step = "served" => ask'[b] = ask[b]
  BY <1>1, <1>3 DEF Awaited, InFlight
<1>5. AwaitedShown' /\ OneAwaited'
  <2>1. OneAwaited'
    BY <1>4 DEF Screen, OneAwaited
  <2>2. AwaitedShown'
    BY <1>1, <1>4 DEF Screen, AwaitedShown
  <2>3. QED
    BY <2>1, <2>2
<1>6. ShownTyped' /\ PickingShown' /\ HydrateShown' /\ OneConversation'
  BY <1>1 DEF Screen, ShownTyped, PickingShown, HydrateShown, OneConversation, Mounted
<1>7. QED
  BY <1>5, <1>6 DEF Screen

\* An answer joins the turns of the page that awaits it.
LEMMA AnswerShows ==
    ASSUME Inductive, Screen, NEW a \in Asks, AnswerArrives(a)
    PROVE  Screen'
<1> DEFINE s == ask[a].reply
<1>1. /\ ask[a].step = "served" /\ Awaited(a) /\ ask' = [ask EXCEPT ![a].step = "over"]
      /\ handleSessionChange(s) /\ UNCHANGED <<signed, mount, picking, stored>>
  BY DEF AnswerArrives, handleSessionChange, Awaited, InFlight
<1>2. /\ Mounted /\ ask[a].mount = mount /\ ~loading /\ ask[a].source = workspace.source
      /\ Of(s, workspace.source) /\ s \in Asks /\ PartOf(Append(turns, a), stored[s])
  BY <1>1 DEF Inductive, OneSource, Kept, Awaited, Of, Screen, AwaitedShown
<1>3. Mounted' /\ workspace'.session = s
  BY <1>1, <1>2, SessionKeeps
<1>4. Rendered(s, Append(turns, a), s, loading)
  BY <1>2 DEF AnswerArrives, Here
<1>5. turns \in Seq(Asks) /\ Append(turns, a) \in Seq(Asks) /\ Append(turns, a) # << >>
  BY DEF Screen, ShownTyped
<1>6. s # None
  BY <1>2, BoundsAssumption DEF Asks
<1>7. picking = NoLoad /\ hydrate = NoLoad
  BY <1>2 DEF Screen, PickingShown, HydrateShown
<1>8. turns' = Append(turns, a) /\ hydrate' = NoLoad /\ ~loading' /\ loading' \in BOOLEAN
  BY <1>2, <1>4, <1>5, <1>6, <1>7 DEF Rendered, Screen, ShownTyped
<1>9. \A b \in Asks : ~Awaited(b)'
  <2>1. \A b \in Asks : Awaited(b) => b = a
    BY <1>1 DEF Screen, OneAwaited
  <2>2. ask \in [Asks -> Journeys] /\ ask[a] \in Journeys
    BY DEF Inductive, Typed
  <2>3. ask'[a].step = "over" /\ \A b \in Asks : b # a => ask'[b] = ask[b]
    BY <1>1, <2>2 DEF Journeys
  <2>4. QED
    BY <2>1, <2>3 DEF Awaited, InFlight
<1>10. OneConversation'
  BY <1>1, <1>2, <1>3, <1>6, <1>8 DEF OneConversation
<1>11. ShownTyped' /\ PickingShown' /\ HydrateShown'
  BY <1>1, <1>5, <1>7, <1>8, NoLoadTyped DEF ShownTyped, PickingShown, HydrateShown
<1>12. QED
  BY <1>9, <1>10, <1>11 DEF Screen, AwaitedShown, OneAwaited

\* A past session is picked while nothing is awaited, and loaded; or a new chat is begun.
LEMMA PickingShows ==
    ASSUME Inductive, Screen,
           \/ \E s \in Asks : handleSelectSession(s)
           \/ SelectedArrives \/ SelectedFails \/ handleNewChat
    PROVE  Screen'
<1>1. ASSUME Mounted, ~busy
      PROVE  ~loading /\ picking = NoLoad /\ hydrate = NoLoad /\ \A a \in Asks : ~Awaited(a)
  BY <1>1 DEF busy, pendingQuestion, Here, Awaited, Screen, PickingShown, HydrateShown, AwaitedShown
<1>2. ASSUME picking # NoLoad PROVE loading /\ hydrate = NoLoad /\ \A a \in Asks : ~Awaited(a)
  BY <1>2 DEF Screen, PickingShown, AwaitedShown
<1>3. ASSUME UNCHANGED ask, \A a \in Asks : ~Awaited(a) PROVE AwaitedShown' /\ OneAwaited'
  BY <1>3 DEF AwaitedShown, OneAwaited, Awaited, InFlight
<1>4. CASE \E s \in Asks : handleSelectSession(s)
  <2>1. PICK s \in Asks : handleSelectSession(s)
    BY <1>4
  <2>2. /\ Mounted /\ ~busy /\ s \in listSessions(workspace.source)
        /\ picking' = Load(s) /\ loading' = TRUE
        /\ UNCHANGED <<signed, workspace, mount, turns, hydrate, ask, stored>>
    BY <2>1 DEF handleSelectSession, page
  <2>3. stored[s] # << >> /\ stored[s] \in Seq(Asks)
    BY <2>2 DEF listSessions, Inductive, Typed
  <2>4. picking'.from # 0 /\ picking'.mount = mount
    BY <2>2, <2>3 DEF Load
  <2>5. ShownTyped' /\ PickingShown' /\ HydrateShown' /\ OneConversation'
    BY <1>1, <2>2, <2>4 DEF Screen, ShownTyped, PickingShown, HydrateShown, OneConversation, Mounted
  <2>6. QED
    BY <1>1, <1>3, <2>2, <2>5 DEF Screen
<1>5. CASE SelectedArrives
  <2> DEFINE s == picking.session
  <2>1. /\ picking # NoLoad /\ picking' = NoLoad /\ handleSessionChange(s)
        /\ UNCHANGED <<signed, mount, ask, stored>>
    BY <1>5 DEF SelectedArrives, handleSessionChange
  <2>2. /\ Mounted /\ Of(s, workspace.source) /\ s \in Asks /\ s # None
        /\ picking.mount = mount /\ picking.from # 0 /\ picking \in Loads
    BY <2>1, BoundsAssumption DEF Inductive, Typed, OneSource, Of, Screen, PickingShown, Asks
  <2>3. Mounted' /\ workspace'.session = s
    BY <2>1, <2>2, SessionKeeps
  <2>4. PICK shown \in getSession(picking) : Rendered(s, shown, s, FALSE)
    BY <1>5, <2>2 DEF SelectedArrives, Here
  <2>5. shown \in Seq(Asks) /\ PartOf(shown, stored[s]) /\ shown # << >>
    BY <2>2, LoadedShown
  <2>6. turns' = shown /\ hydrate' = NoLoad /\ loading' = FALSE
    BY <1>2, <2>1, <2>2, <2>4, <2>5 DEF Rendered
  <2>7. ShownTyped' /\ PickingShown' /\ HydrateShown'
    BY <2>1, <2>5, <2>6, NoLoadTyped DEF ShownTyped, PickingShown, HydrateShown
  <2>8. OneConversation'
    BY <2>1, <2>2, <2>3, <2>5, <2>6 DEF OneConversation
  <2>9. QED
    BY <1>2, <1>3, <2>1, <2>7, <2>8 DEF Screen
<1>6. CASE SelectedFails
  <2>1. /\ picking # NoLoad /\ picking' = NoLoad /\ loading' \in BOOLEAN
        /\ UNCHANGED <<signed, workspace, mount, turns, hydrate, ask, stored>>
    BY <1>6 DEF SelectedFails, page
  <2>2. ShownTyped' /\ PickingShown' /\ HydrateShown' /\ OneConversation'
    BY <1>2, <2>1 DEF Screen, ShownTyped, PickingShown, HydrateShown, OneConversation, Mounted
  <2>3. QED
    BY <1>2, <1>3, <2>1, <2>2 DEF Screen
<1>7. CASE handleNewChat
  <2>1. /\ Mounted /\ ~busy /\ handleSessionChange(None) /\ Rendered(None, << >>, None, loading)
        /\ UNCHANGED <<signed, mount, picking, ask, stored>>
    BY <1>7 DEF handleNewChat, handleSessionChange
  <2>2. Mounted' /\ workspace'.session = None
    BY <2>1, SessionKeeps
  <2>3. turns' = << >> /\ hydrate' = NoLoad /\ loading' \in BOOLEAN
    BY <1>1, <2>1 DEF Rendered, Screen, ShownTyped
  <2>4. ShownTyped' /\ PickingShown' /\ HydrateShown'
    BY <1>1, <2>1, <2>3, NoLoadTyped, NoTurnsTyped DEF ShownTyped, PickingShown, HydrateShown
  <2>5. OneConversation'
    BY <2>2, <2>3 DEF OneConversation
  <2>6. QED
    BY <1>1, <1>3, <2>1, <2>4, <2>5 DEF Screen
<1>8. QED
  BY <1>4, <1>5, <1>6, <1>7

\* The session a reload restored is loaded, or not.
LEMMA HydrateShows ==
    ASSUME Inductive, Screen, HydrateArrives \/ HydrateFails
    PROVE  Screen'
<1>1. /\ Mounted /\ hydrate # NoLoad /\ hydrate' = NoLoad /\ loading' = FALSE
      /\ UNCHANGED <<signed, workspace, mount, picking, ask, stored>>
  BY DEF HydrateArrives, HydrateFails, page
<1>2. loading /\ hydrate.session = workspace.session /\ picking = NoLoad /\ workspace.session # None
  BY <1>1 DEF Screen, HydrateShown, PickingShown
<1>3. \A a \in Asks : ~Awaited(a)
  BY <1>2 DEF Screen, AwaitedShown
<1>4. turns' \in Seq(Asks) /\ OneConversation'
  <2>1. CASE HydrateFails
    BY <1>1, <2>1 DEF HydrateFails, Screen, ShownTyped, OneConversation, Mounted
  <2>2. CASE HydrateArrives
    <3>1. turns' \in getSession(hydrate) /\ hydrate \in Loads
      BY <2>2 DEF HydrateArrives, Screen, ShownTyped
    <3>2. hydrate.session \in Asks
      BY <1>2 DEF Inductive, Typed, Workspaces
    <3>3. turns' \in Seq(Asks) /\ PartOf(turns', stored[workspace.session])
      BY <1>2, <3>1, <3>2, LoadedShown
    <3>4. QED
      BY <1>1, <1>2, <3>3 DEF OneConversation
  <2>3. QED
    BY <2>1, <2>2
<1>5. ShownTyped' /\ PickingShown' /\ HydrateShown'
  BY <1>1, <1>2, <1>4, NoLoadTyped DEF ShownTyped, PickingShown, HydrateShown
<1>6. AwaitedShown' /\ OneAwaited'
  BY <1>1, <1>3 DEF AwaitedShown, OneAwaited, Awaited, InFlight
<1>7. QED
  BY <1>4, <1>5, <1>6 DEF Screen

\* Every step of a user who waits keeps the conversation on screen one.
LEMMA StepShows == ASSUME Waits PROVE Inductive /\ Screen /\ [Next]_vars => Screen'
<1> SUFFICES ASSUME Inductive, Screen, [Next]_vars PROVE Screen'
  OBVIOUS
<1>1. CASE UNCHANGED vars
  BY <1>1 DEF vars, Screen, ShownTyped, PickingShown, HydrateShown, AwaitedShown, OneAwaited,
     OneConversation, Awaited, InFlight, Mounted
<1>2. QED
  BY <1>1, AskShows, ServeShows, OverShows, AnswerShows, PickingShows, HydrateShows, PickerShows,
     LeavingShows, ReloadShows DEF Next

\* useWorkspaceChat: for a user who waits for what is under way, the turns on screen are
\* turns of the open session, in its order, and a new chat shows none - whatever answers,
\* past sessions and restored workspaces arrive, fail or are lost in between.
THEOREM OneConversationHolds == ASSUME Waits PROVE Spec => []OneConversation
<1>1. Inductive /\ Screen /\ [Next]_vars => Screen'
  BY StepShows
<1>2. Screen => OneConversation
  BY DEF Screen
<1>3. QED
  BY <1>1, <1>2, InitShown, InductiveHolds, PTL DEF Spec
-----------------------------------------------------------------------------
(* Every user, also one who leaves things behind: what is awaited for one  *)
(* source arrives where another is open, and the session it names strays.  *)

\* The question s was asked: of the source, unless its session strayed.
Home(s, source) == s \in Asks /\ ask[s].step # "unasked" /\ (s \in strayed \/ ask[s].source = source)

AsksHome == \A a \in Asks :
    /\ ask[a].step = "unasked" => ask[a] = Unasked
    /\ ask[a].step # "unasked" => ask[a].source \in Sources
    /\ ask[a].session # None => Home(ask[a].session, ask[a].source)
    /\ ask[a].step = "served" => Home(ask[a].reply, ask[a].source)

PageHome ==
    /\ workspace.session # None => Home(workspace.session, workspace.source)
    /\ picking # NoLoad => Home(picking.session, picking.source)

FiledHome == \A s \in Asks : \A i \in DOMAIN stored[s] :
    \E a \in Asks : stored[s][i] = a /\ ask[a].step # "unasked" /\ Home(s, ask[a].source)

Roaming == Typed /\ SavedIsOpen /\ AsksHome /\ FiledHome /\ PageHome

\* The first state: nothing was asked and nothing is open.
LEMMA InitRoams == Init => Roaming
<1> SUFFICES ASSUME Init PROVE Roaming
  OBVIOUS
<1>1. Typed /\ SavedIsOpen
  BY InitHolds DEF Inductive
<1>2. \A a \in Asks : ask[a] = Unasked /\ stored[a] = <<>>
  BY DEF Init
<1>3. AsksHome /\ FiledHome
  BY <1>2 DEF AsksHome, FiledHome, Unasked
<1>4. PageHome
  BY DEF PageHome, Init, NoWorkspace
<1>5. QED
  BY <1>1, <1>3, <1>4 DEF Roaming

\* A question keeps its source and a session that strayed stays so: home remains home.
LEMMA HomeKeeps ==
    ASSUME strayed \subseteq strayed',
           \A b \in Asks : ask[b].step # "unasked" =>
               ask'[b].step # "unasked" /\ ask'[b].source = ask[b].source
    PROVE  \A s, source : Home(s, source) => Home(s, source)'
BY DEF Home

\* A step that leaves questions and sessions alone has the page to account for.
LEMMA PageRoams ==
    ASSUME Roaming, UNCHANGED <<ask, stored>>, strayed \subseteq strayed',
           workspace' \in Workspaces, saved' = workspace', signed' \in BOOLEAN,
           known' \subseteq Sources, opening' \in [Openers -> Sources \cup {None}], mount' \in Nat,
           picking' \in Loads,
           workspace'.session # None =>
               \A s, source : s = workspace'.session /\ source = workspace'.source => Home(s, source)',
           picking' \in {NoLoad, picking} \/
               \A s, source : s = picking'.session /\ source = picking'.source => Home(s, source)'
    PROVE  Roaming'
<1>1. \A s, source : Home(s, source) => Home(s, source)'
  BY HomeKeeps
<1>2. Typed' /\ SavedIsOpen'
  BY DEF Roaming, Typed, SavedIsOpen
<1>3. AsksHome'
  <2> SUFFICES ASSUME NEW b \in Asks
               PROVE  /\ ask[b].step = "unasked" => ask[b] = Unasked
                      /\ ask[b].step # "unasked" => ask[b].source \in Sources
                      /\ ask[b].session # None => Home(ask[b].session, ask[b].source)'
                      /\ ask[b].step = "served" => Home(ask[b].reply, ask[b].source)'
    BY DEF AsksHome
  <2>1. QED
    BY <1>1 DEF Roaming, AsksHome, Home
<1>4. FiledHome'
  BY <1>1 DEF Roaming, FiledHome, Home
<1>5. PageHome'
  <2>1. picking' # NoLoad =>
          \A s, source : s = picking'.session /\ source = picking'.source => Home(s, source)'
    BY <1>1 DEF Roaming, PageHome
  <2>2. QED
    BY <2>1 DEF PageHome
<1>6. QED
  BY <1>2, <1>3, <1>4, <1>5 DEF Roaming

\* What arrives is home where it was asked for, and strays where another source is open.
LEMMA ArrivesHome ==
    ASSUME Roaming, NEW s, NEW source, Home(s, source), handleSessionChange(s), Arrives(s, source),
           \A b \in Asks : ask[b].step # "unasked" =>
               ask'[b].step # "unasked" /\ ask'[b].source = ask[b].source
    PROVE  /\ strayed \subseteq strayed' /\ workspace' \in Workspaces /\ saved' = workspace'
           /\ workspace'.session # None =>
                \A t, open : t = workspace'.session /\ open = workspace'.source => Home(t, open)'
<1>1. workspace \in Workspaces /\ saved = workspace /\ s \in Asks
  BY DEF Roaming, Typed, SavedIsOpen, Home
<1>2. strayed \subseteq strayed'
  BY DEF Arrives
<1>3. \A t, open : Home(t, open) => Home(t, open)'
  BY <1>2, HomeKeeps
<1>4. CASE workspace.source = None
  BY <1>1, <1>2, <1>3, <1>4 DEF handleSessionChange, Roaming, PageHome
<1>5. CASE workspace.source # None
  <2>1. workspace' = [workspace EXCEPT !.session = s] /\ saved' = workspace'
    BY <1>5 DEF handleSessionChange
  <2>2. /\ workspace' \in Workspaces
        /\ workspace'.source = workspace.source /\ workspace'.session = s
    BY <1>1, <2>1 DEF Workspaces
  <2>3. \A open : open = workspace.source => Home(s, open)'
    BY <1>1, <1>3, <1>5 DEF Arrives, Home
  <2>4. QED
    BY <1>2, <2>1, <2>2, <2>3
<1>6. QED
  BY <1>4, <1>5

\* The page by itself: picks, new chats, openings and sign-outs give no workspace a
\* session that is not its source's.
LEMMA ClicksRoam ==
    ASSUME Roaming,
           \/ \E s \in Asks : handleSelectSession(s)
           \/ SelectedFails \/ HydrateArrives \/ HydrateFails \/ handleNewChat
           \/ handleSwitchWarehouse \/ resetToSignedOut \/ handleAuthenticated
    PROVE  Roaming'
<1>1. Typed /\ saved = workspace /\ PageHome
  BY DEF Roaming, SavedIsOpen
<1>2. CASE \E s \in Asks : handleSelectSession(s)
  <2>1. PICK s \in Asks : handleSelectSession(s)
    BY <1>2
  <2>2. /\ Mounted /\ s \in listSessions(workspace.source) /\ picking' = Load(s)
        /\ UNCHANGED <<signed, workspace, saved, known, opening, mount, ask, stored, strayed>>
    BY <2>1 DEF handleSelectSession, page
  <2>3. picking' \in Loads /\ picking'.session = s /\ picking'.source = workspace.source
    BY <1>1, <2>2, LoadsTyped DEF Load
  <2>4. Home(s, workspace.source)
    BY <2>2 DEF Mounted, listSessions, Home, Roaming, AsksHome, Unasked
  <2>5. \A t, source : Home(t, source) => Home(t, source)'
    BY <2>2, HomeKeeps
  <2>6. QED
    BY <1>1, <2>2, <2>3, <2>4, <2>5, PageRoams DEF Typed, PageHome
<1>3. CASE SelectedFails \/ HydrateArrives \/ HydrateFails
  <2>1. /\ picking' \in {NoLoad, picking}
        /\ UNCHANGED <<signed, workspace, saved, known, opening, mount, ask, stored, strayed>>
    BY <1>3 DEF SelectedFails, HydrateArrives, HydrateFails, page
  <2>2. \A t, source : Home(t, source) => Home(t, source)'
    BY <2>1, HomeKeeps
  <2>3. QED
    BY <1>1, <2>1, <2>2, NoLoadTyped, PageRoams DEF Typed, PageHome
<1>4. ASSUME workspace' \in Workspaces, workspace'.session = None, saved' = workspace',
             signed' \in BOOLEAN, UNCHANGED <<known, opening, mount, picking, ask, stored, strayed>>
      PROVE  Roaming'
  BY <1>1, <1>4, PageRoams DEF Typed
<1>5. CASE handleNewChat
  <2>1. /\ workspace' = [workspace EXCEPT !.session = None] /\ saved' = workspace'
        /\ UNCHANGED <<signed, known, opening, mount, picking, ask, stored, strayed>>
    BY <1>5 DEF handleNewChat, handleSessionChange, Mounted
  <2>2. workspace' \in Workspaces /\ workspace'.session = None
    BY <1>1, <2>1 DEF Typed, Workspaces
  <2>3. QED
    BY <1>1, <1>4, <2>1, <2>2 DEF Typed
<1>6. CASE handleSwitchWarehouse \/ resetToSignedOut \/ handleAuthenticated
  <2>1. /\ workspace' = NoWorkspace /\ saved' = NoWorkspace
        /\ UNCHANGED <<known, opening, mount, picking, ask, stored, strayed>>
    BY <1>6 DEF handleSwitchWarehouse, resetToSignedOut, handleAuthenticated, Unmounts
  <2>2. signed' \in BOOLEAN
    BY <1>1, <1>6 DEF handleSwitchWarehouse, resetToSignedOut, handleAuthenticated, Typed
  <2>3. workspace' \in Workspaces /\ workspace'.session = None
    BY <2>1 DEF NoWorkspace, Workspaces
  <2>4. QED
    BY <1>4, <2>1, <2>2, <2>3
<1>7. QED
  BY <1>2, <1>3, <1>5, <1>6

\* A workspace is opened without a session, wherever the user is by then.
LEMMA OpeningsRoam ==
    ASSUME Roaming,
           \/ \E source \in Sources : handleSelectSaved(source)
           \/ \E o \in Openers, source \in Sources : Opens(o, source)
           \/ \E o \in Openers : Opened(o) \/ OpeningFails(o)
    PROVE  Roaming'
<1>1. Typed /\ saved = workspace /\ PageHome
  BY DEF Roaming, SavedIsOpen
<1>2. ASSUME NEW source \in Sources, openWorkspace(source),
             opening' \in [Openers -> Sources \cup {None}]
      PROVE  Roaming'
  <2>1. /\ workspace' = [source |-> source, session |-> None] /\ saved' = workspace'
        /\ known' \subseteq Sources /\ UNCHANGED <<signed, picking, ask, stored, strayed>>
        /\ mount' \in Nat
    BY <1>1, <1>2 DEF openWorkspace, Mounts, Typed
  <2>2. workspace' \in Workspaces /\ workspace'.session = None
    BY <2>1 DEF Workspaces
  <2>3. QED
    BY <1>1, <1>2, <2>1, <2>2, PageRoams DEF Typed
<1>3. ASSUME NEW o \in Openers, Opened(o) PROVE Roaming'
  <2>1. /\ opening[o] # None /\ opening' = [opening EXCEPT ![o] = None]
        /\ openWorkspace(opening[o])
    BY <1>3 DEF Opened
  <2>2. opening[o] \in Sources /\ opening' \in [Openers -> Sources \cup {None}]
    BY <1>1, <2>1 DEF Typed
  <2>3. QED
    BY <1>2, <2>1, <2>2
<1>4. ASSUME NEW source \in Sources, handleSelectSaved(source) PROVE Roaming'
  BY <1>1, <1>2, <1>4 DEF handleSelectSaved, Typed
<1>5. ASSUME \/ \E o \in Openers, source \in Sources : Opens(o, source)
             \/ \E o \in Openers : OpeningFails(o)
      PROVE  Roaming'
  <2>1. /\ opening' \in [Openers -> Sources \cup {None}]
        /\ UNCHANGED <<signed, workspace, saved, known, mount, picking, ask, stored, strayed>>
    BY <1>1, <1>5 DEF Opens, OpeningFails, Typed
  <2>2. \A t, source : Home(t, source) => Home(t, source)'
    BY <2>1, HomeKeeps
  <2>3. QED
    BY <1>1, <2>1, <2>2, PageRoams DEF Typed, PageHome
<1>6. QED
  BY <1>3, <1>4, <1>5

\* Questions that change, but not in source, session or reply, and the page with them.
LEMMA AsksRoam ==
    ASSUME AsksHome, strayed \subseteq strayed',
           \A b \in Asks : \/ ask'[b] = ask[b]
                           \/ /\ ask[b].step # "unasked" /\ ask'[b].step # "unasked"
                              /\ ask'[b].step = "served" => ask[b].step = "served"
                              /\ ask'[b].source = ask[b].source /\ ask'[b].reply = ask[b].reply
                              /\ ask'[b].session = ask[b].session
    PROVE  AsksHome' /\ \A s, source : Home(s, source) => Home(s, source)'
<1>1. \A s, source : Home(s, source) => Home(s, source)'
  BY HomeKeeps
<1>2. ASSUME NEW b \in Asks
      PROVE  /\ ask'[b].step = "unasked" => ask'[b] = Unasked
             /\ ask'[b].step # "unasked" => ask'[b].source \in Sources
             /\ ask'[b].session # None => \A s, source :
                    s = ask'[b].session /\ source = ask'[b].source => Home(s, source)'
             /\ ask'[b].step = "served" => \A s, source :
                    s = ask'[b].reply /\ source = ask'[b].source => Home(s, source)'
  <2>1. CASE ask'[b] = ask[b]
    BY <1>1, <2>1 DEF AsksHome
  <2>2. CASE ask'[b] # ask[b]
    BY <1>1, <2>2 DEF AsksHome
  <2>3. QED
    BY <2>1, <2>2
<1>3. AsksHome'
  BY <1>2 DEF AsksHome
<1>4. QED
  BY <1>1, <1>3

\* What is on the page and in the sessions stays home when questions only gain.
LEMMA RestRoams ==
    ASSUME Roaming, \A s, source : Home(s, source) => Home(s, source)',
           \A b \in Asks : ask[b].step # "unasked" =>
               ask'[b].step # "unasked" /\ ask'[b].source = ask[b].source
    PROVE  /\ stored' = stored => FiledHome'
           /\ workspace' = workspace /\ picking' \in {NoLoad, picking} => PageHome'
<1>1. ASSUME stored' = stored, NEW s \in Asks, NEW i \in DOMAIN stored[s]
      PROVE  \E a \in Asks : /\ stored[s][i] = a /\ ask'[a].step # "unasked"
                             /\ \A source : source = ask'[a].source => Home(s, source)'
  <2>1. PICK a \in Asks : stored[s][i] = a /\ ask[a].step # "unasked" /\ Home(s, ask[a].source)
    BY <1>1 DEF Roaming, FiledHome
  <2>2. QED
    BY <2>1
<1>2. stored' = stored => FiledHome'
  BY <1>1 DEF FiledHome
<1>3. ASSUME workspace' = workspace, picking' \in {NoLoad, picking} PROVE PageHome'
  <2>1. workspace.session # None => \A s, source :
            s = workspace.session /\ source = workspace.source => Home(s, source)'
    BY DEF Roaming, PageHome
  <2>2. picking # NoLoad => \A s, source :
            s = picking.session /\ source = picking.source => Home(s, source)'
    BY DEF Roaming, PageHome
  <2>3. QED
    BY <1>3, <2>1, <2>2 DEF PageHome
<1>4. QED
  BY <1>2, <1>3

\* A question is asked, of the workspace's source and in its session.
LEMMA AskRoams ==
    ASSUME Roaming, NEW a \in Asks, Ask(a)
    PROVE  Roaming'
<1> DEFINE j == [step |-> "sent", mount |-> mount, source |-> workspace.source,
                 session |-> workspace.session, reply |-> None]
<1>1. /\ Mounted /\ ask[a] = Unasked /\ ask' = [ask EXCEPT ![a] = j]
      /\ UNCHANGED <<signed, workspace, saved, known, opening, mount, picking, stored, strayed>>
  BY DEF Ask, page
<1>2. /\ workspace.source \in Sources /\ workspace.session \in Asks \cup {None} /\ mount \in Nat
  BY <1>1 DEF Mounted, Roaming, Typed, Workspaces
<1>3. j \in Journeys /\ ask \in [Asks -> Journeys]
  BY <1>2 DEF Journeys, AskSteps, Roaming, Typed
<1>4. /\ j.step = "sent" /\ j.source = workspace.source /\ j.session = workspace.session
      /\ ask[a].step = "unasked"
  BY <1>1 DEF Unasked
<1> HIDE DEF j
<1>5. ask' \in [Asks -> Journeys] /\ ask'[a] = j /\ \A b \in Asks : b # a => ask'[b] = ask[b]
  BY <1>1, <1>3
<1>6. \A b \in Asks : ask[b].step # "unasked" =>
         ask'[b].step # "unasked" /\ ask'[b].source = ask[b].source
  BY <1>4, <1>5
<1>7. \A s, source : Home(s, source) => Home(s, source)'
  BY <1>1, <1>6, HomeKeeps
<1>8. ASSUME NEW b \in Asks
      PROVE  /\ ask'[b].step = "unasked" => ask'[b] = Unasked
             /\ ask'[b].step # "unasked" => ask'[b].source \in Sources
             /\ ask'[b].session # None => \A s, source :
                    s = ask'[b].session /\ source = ask'[b].source => Home(s, source)'
             /\ ask'[b].step = "served" => \A s, source :
                    s = ask'[b].reply /\ source = ask'[b].source => Home(s, source)'
  <2>1. CASE b = a
    BY <1>2, <1>4, <1>5, <1>7, <2>1 DEF Roaming, PageHome
  <2>2. CASE b # a
    BY <1>5, <1>7, <2>2 DEF Roaming, AsksHome
  <2>3. QED
    BY <2>1, <2>2
<1>9. AsksHome'
  BY <1>8 DEF AsksHome
<1>10. FiledHome' /\ PageHome'
  BY <1>1, <1>6, <1>7, RestRoams
<1>11. Typed' /\ SavedIsOpen'
  BY <1>1, <1>5 DEF Roaming, Typed, SavedIsOpen
<1>12. QED
  BY <1>9, <1>10, <1>11 DEF Roaming

\* The server files a question under the session it names, or under a new one.
LEMMA ServeRoams ==
    ASSUME Roaming, NEW a \in Asks, Serve(a)
    PROVE  Roaming'
<1> DEFINE s == get_or_create_session(a)
           j == [ask[a] EXCEPT !.step = "served", !.reply = s]
<1>1. /\ ask[a].step = "sent" /\ stored' = [stored EXCEPT ![s] = Append(stored[s], a)]
      /\ UNCHANGED <<signed, workspace, saved, known, opening, mount, picking, strayed>>
      /\ ask' = [ask EXCEPT ![a] = j]
  BY DEF Serve, page, Roaming, Typed, Journeys
<1>2. /\ ask \in [Asks -> Journeys] /\ ask[a] \in Journeys /\ stored \in [Asks -> Seq(Asks)]
      /\ ask[a].source \in Sources
  BY <1>1 DEF Roaming, Typed, AsksHome
<1>3. s \in Asks /\ Home(s, ask[a].source)
  BY <1>1 DEF get_or_create_session, Roaming, AsksHome, Home
<1> HIDE DEF s
<1>4. /\ j \in Journeys /\ j.step = "served" /\ j.reply = s
      /\ j.source = ask[a].source /\ j.session = ask[a].session
  BY <1>2, <1>3 DEF Journeys, AskSteps
<1> HIDE DEF j
<1>5. ask' \in [Asks -> Journeys] /\ ask'[a] = j /\ \A b \in Asks : b # a => ask'[b] = ask[b]
  BY <1>1, <1>2, <1>4
<1>6. \A b \in Asks : ask[b].step # "unasked" =>
         ask'[b].step # "unasked" /\ ask'[b].source = ask[b].source
  BY <1>4, <1>5
<1>7. \A t, source : Home(t, source) => Home(t, source)'
  BY <1>1, <1>6, HomeKeeps
<1>8. ASSUME NEW b \in Asks
      PROVE  /\ ask'[b].step = "unasked" => ask'[b] = Unasked
             /\ ask'[b].step # "unasked" => ask'[b].source \in Sources
             /\ ask'[b].session # None => \A t, source :
                    t = ask'[b].session /\ source = ask'[b].source => Home(t, source)'
             /\ ask'[b].step = "served" => \A t, source :
                    t = ask'[b].reply /\ source = ask'[b].source => Home(t, source)'
  <2>1. CASE b = a
    BY <1>2, <1>3, <1>4, <1>5, <1>7, <2>1 DEF Roaming, AsksHome
  <2>2. CASE b # a
    BY <1>5, <1>7, <2>2 DEF Roaming, AsksHome
  <2>3. QED
    BY <2>1, <2>2
<1>9. AsksHome'
  BY <1>8 DEF AsksHome
<1>10. stored' \in [Asks -> Seq(Asks)]
  BY <1>1, <1>2, <1>3
<1>11. ASSUME NEW t \in Asks, NEW i \in DOMAIN stored'[t]
       PROVE  \E b \in Asks : stored'[t][i] = b /\ ask[b].step # "unasked" /\ Home(t, ask[b].source)
  <2>1. CASE t = s /\ i \notin DOMAIN stored[t]
    <3>1. stored'[t] = Append(stored[t], a) /\ stored[t] \in Seq(Asks)
      BY <1>1, <1>2, <2>1
    <3>2. stored'[t][i] = a
      BY <1>11, <2>1, <3>1
    <3>3. QED
      BY <1>1, <1>3, <2>1, <3>2
  <2>2. CASE i \in DOMAIN stored[t]
    <3>1. stored'[t][i] = stored[t][i]
      <4>1. CASE t = s
        <5>1. stored'[t] = Append(stored[t], a) /\ stored[t] \in Seq(Asks)
          BY <1>1, <1>2, <4>1
        <5>2. QED
          BY <2>2, <5>1
      <4>2. CASE t # s
        BY <1>1, <1>2, <1>3, <4>2
      <4>3. QED
        BY <4>1, <4>2
    <3>2. QED
      BY <2>2, <3>1 DEF Roaming, FiledHome
  <2>3. CASE t # s
    BY <1>1, <1>2, <1>3, <1>11, <2>2, <2>3
  <2>4. QED
    BY <2>1, <2>2, <2>3
<1>12. ASSUME NEW t \in Asks, NEW i \in DOMAIN stored'[t]
       PROVE  \E b \in Asks : /\ stored'[t][i] = b /\ ask'[b].step # "unasked"
                              /\ \A source : source = ask'[b].source => Home(t, source)'
  <2>1. PICK b \in Asks : stored'[t][i] = b /\ ask[b].step # "unasked" /\ Home(t, ask[b].source)
    BY <1>11, <1>12
  <2>2. QED
    BY <1>6, <1>7, <2>1
<1>13. FiledHome'
  BY <1>12 DEF FiledHome
<1>14. PageHome'
  BY <1>1, <1>6, <1>7, RestRoams
<1>15. Typed' /\ SavedIsOpen'
  BY <1>1, <1>5, <1>10 DEF Roaming, Typed, SavedIsOpen
<1>16. QED
  BY <1>9, <1>13, <1>14, <1>15 DEF Roaming

\* A question is refused, over on the page, or its answer arrives wherever the user is.
LEMMA AnswerRoams ==
    ASSUME Roaming, NEW a \in Asks, Refuse(a) \/ AnswerArrives(a) \/ AnswerFails(a)
    PROVE  Roaming'
<1>1. PICK to \in {"refused", "over"} :
        /\ InFlight(a) /\ ask' = [ask EXCEPT ![a] = [ask[a] EXCEPT !.step = to]]
        /\ UNCHANGED <<signed, known, opening, mount, picking, stored>>
  BY DEF Refuse, AnswerArrives, AnswerFails, InFlight, page, handleSessionChange
<1>2. ask \in [Asks -> Journeys] /\ ask[a] \in Journeys
  BY DEF Roaming, Typed
<1>3. /\ ask' \in [Asks -> Journeys] /\ \A b \in Asks : b # a => ask'[b] = ask[b]
      /\ ask'[a].step = to /\ ask'[a].source = ask[a].source /\ ask'[a].session = ask[a].session
      /\ ask'[a].reply = ask[a].reply
  <2>1. [ask[a] EXCEPT !.step = to] \in Journeys
    BY <1>2 DEF Journeys, AskSteps
  <2>2. QED
    BY <1>1, <1>2, <2>1 DEF Journeys
<1>4. strayed \subseteq strayed'
  BY DEF Refuse, AnswerArrives, AnswerFails, Arrives
<1>5. AsksHome' /\ \A s, source : Home(s, source) => Home(s, source)'
  BY <1>1, <1>3, <1>4, AsksRoam DEF Roaming, InFlight
<1>6. \A b \in Asks : ask[b].step # "unasked" =>
         ask'[b].step # "unasked" /\ ask'[b].source = ask[b].source
  BY <1>3
<1>7. FiledHome' /\ PageHome' /\ workspace' \in Workspaces /\ saved' = workspace'
  <2>1. CASE Refuse(a) \/ AnswerFails(a)
    <3>1. workspace' = workspace /\ saved' = saved
      BY <2>1 DEF Refuse, AnswerFails, page
    <3>2. QED
      BY <1>1, <1>5, <1>6, <3>1, RestRoams DEF Roaming, Typed, SavedIsOpen
  <2>2. CASE AnswerArrives(a)
    <3>1. /\ ask[a].step = "served" /\ handleSessionChange(ask[a].reply)
          /\ Arrives(ask[a].reply, ask[a].source)
      BY <2>2 DEF AnswerArrives
    <3>2. Home(ask[a].reply, ask[a].source)
      BY <3>1 DEF Roaming, AsksHome
    <3>3. FiledHome'
      BY <1>1, <1>5, <1>6, RestRoams
    <3>4. /\ workspace' \in Workspaces /\ saved' = workspace'
          /\ workspace'.session # None => \A s, source :
                 s = workspace'.session /\ source = workspace'.source => Home(s, source)'
      BY <1>6, <3>1, <3>2, ArrivesHome
    <3>5. picking # NoLoad => \A s, source :
              s = picking.session /\ source = picking.source => Home(s, source)'
      BY <1>5 DEF Roaming, PageHome
    <3>6. PageHome'
      <4>1. picking' = picking
        BY <1>1
      <4>2. QED
        BY <3>4, <3>5, <4>1 DEF PageHome
    <3>7. QED
      BY <3>3, <3>4, <3>6
  <2>3. QED
    BY <2>1, <2>2
<1>8. Typed' /\ SavedIsOpen'
  BY <1>1, <1>3, <1>7 DEF Roaming, Typed, SavedIsOpen
<1>9. QED
  BY <1>5, <1>7, <1>8 DEF Roaming

\* A past session arrives, wherever the user is by then.
LEMMA SelectedRoams == ASSUME Roaming, SelectedArrives PROVE Roaming'
<1>1. /\ picking # NoLoad /\ picking' = NoLoad /\ handleSessionChange(picking.session)
      /\ Arrives(picking.session, picking.source)
      /\ UNCHANGED <<signed, known, opening, mount, ask, stored>>
  BY DEF SelectedArrives, handleSessionChange
<1>2. Home(picking.session, picking.source)
  BY <1>1 DEF Roaming, PageHome
<1>3. /\ strayed \subseteq strayed' /\ workspace' \in Workspaces /\ saved' = workspace'
      /\ workspace'.session # None =>
           \A t, open : t = workspace'.session /\ open = workspace'.source => Home(t, open)'
  BY <1>1, <1>2, ArrivesHome
<1>4. QED
  BY <1>1, <1>3, NoLoadTyped, PageRoams DEF Roaming, Typed

\* A reload forgets what was awaited and restores what was open.
LEMMA ReloadRoams == ASSUME Roaming, Reload PROVE Roaming'
<1>1. /\ workspace' = workspace /\ picking' = NoLoad
      /\ opening' = [o \in Openers |-> None]
      /\ ask' = [a \in Asks |-> IF InFlight(a) THEN [ask[a] EXCEPT !.mount = 0] ELSE ask[a]]
      /\ UNCHANGED <<signed, saved, known, stored, strayed>>
  BY DEF Reload, Roaming, SavedIsOpen
<1>2. ask \in [Asks -> Journeys] /\ mount' \in Nat
  BY DEF Reload, Mounts, Roaming, Typed
<1>3. ASSUME NEW a \in Asks
      PROVE  /\ ask'[a] \in Journeys /\ ask'[a].step = ask[a].step /\ ask'[a].source = ask[a].source
             /\ ask'[a].session = ask[a].session /\ ask'[a].reply = ask[a].reply
             /\ (ask'[a] = ask[a] \/ ask[a].step # "unasked")
  <2>1. ask[a] \in Journeys
    BY <1>2
  <2>2. [ask[a] EXCEPT !.mount = 0] \in Journeys
    BY <2>1 DEF Journeys
  <2>3. QED
    BY <1>1, <2>1, <2>2 DEF Journeys, InFlight
<1>4. AsksHome' /\ \A s, source : Home(s, source) => Home(s, source)'
  BY <1>1, <1>3, AsksRoam DEF Roaming
<1>5. FiledHome' /\ PageHome'
  BY <1>1, <1>3, <1>4, RestRoams
<1>6. Typed' /\ SavedIsOpen'
  <2>1. ask' \in [Asks -> Journeys]
    BY <1>1, <1>3
  <2>2. QED
    BY <1>1, <1>2, <2>1, NoLoadTyped DEF Roaming, Typed, SavedIsOpen
<1>7. QED
  BY <1>4, <1>5, <1>6 DEF Roaming

-----------------------------------------------------------------------------
(* Theorems about every user                                               *)

\* Every step keeps the invariant.
LEMMA StepRoams == Roaming /\ [Next]_vars => Roaming'
<1> SUFFICES ASSUME Roaming, [Next]_vars PROVE Roaming'
  OBVIOUS
<1>1. CASE UNCHANGED vars
  <2>1. UNCHANGED <<signed, workspace, saved, known, opening, mount, picking, ask, stored, strayed>>
    BY <1>1 DEF vars
  <2>2. QED
    BY <2>1 DEF Roaming, Typed, SavedIsOpen, AsksHome, FiledHome, PageHome, Home
<1>2. QED
  BY <1>1, AskRoams, ServeRoams, AnswerRoams, ClicksRoam, SelectedRoams, OpeningsRoam, ReloadRoams
  DEF Next

\* The invariant holds in every state.
LEMMA RoamingHolds == Spec => []Roaming
BY InitRoams, StepRoams, PTL DEF Spec

\* handleSessionChange, ask and get_or_create_session: a session gets turns of another
\* source only once it arrived, late, where another source was open, whatever the user
\* does: nothing else in the page or the server mixes sources.
THEOREM OnlyLateArrivalsMixHolds == Spec => []OnlyLateArrivalsMix
<1>1. Roaming => OnlyLateArrivalsMix
  BY DEF Roaming, FiledHome, OnlyLateArrivalsMix, Home
<1>2. QED
  BY <1>1, RoamingHolds, PTL

\* sessionStorage: a reload restores the workspace that is open, whatever arrived late.
THEOREM SavedIsOpenHolds == Spec => []SavedIsOpen
<1>1. Roaming => SavedIsOpen
  BY DEF Roaming
<1>2. QED
  BY <1>1, RoamingHolds, PTL
=============================================================================
