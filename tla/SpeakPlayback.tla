---------------------------- MODULE SpeakPlayback ----------------------------
(***************************************************************************)
(* frontend/src/lib/speak-playback.ts: reading answers aloud in a browser. *)
(*                                                                         *)
(* JavaScript runs one task at a time; what can interleave are the         *)
(* continuations of the module's async functions: the drains of the queue, *)
(* each suspended in the promise of one audio element, the polling plays,  *)
(* the streams that deliver sentences, and the intervals that watch the    *)
(* browser's own voice.  Whatever is stopped is told apart by a number,    *)
(* playGeneration.  Releasing an audio element removes its handlers: its   *)
(* promise then settles only if audio.play() had not, by being rejected.   *)
(***************************************************************************)
EXTENDS Naturals, Sequences

CONSTANTS
    Buttons,        \* the speak buttons on the page, each with its id
    TextOf,         \* the answer a button reads
    N,              \* sentences of an answer
    MaxPresses,     \* bound: presses of a button
    MaxAnswers,     \* bound: answers that arrive and are prefetched
    Failures,       \* what may fail here: subset of {"audio", "stream"}
    None

ASSUME SizesAssumption ==
    N \in Nat \ {0} /\ MaxPresses \in Nat /\ MaxAnswers \in Nat
ASSUME ButtonsAssumption ==
    DOMAIN TextOf = Buttons /\ None \notin Buttons /\ Failures \subseteq {"audio", "stream"}

Texts == {TextOf[b] : b \in Buttons}
Plays == 1..MaxPresses
Sentences == [play : Plays, n : 1..N]
Audios == [play : Plays, n : 1..N, state : {"loading", "playing", "refused"}]

VARIABLES
    generation,   \* playGeneration
    plays,        \* per generation the call of playSpeakText, if it began with one
    shown,        \* currentId: the button that shows itself as playing
    pending,      \* pendingBlobs
    draining,     \* drainRunning
    audio,        \* currentAudio, or None
    aborted,      \* sentences whose released element has its play() still to be rejected
    voice,        \* the play that the browser's own voice speaks for, or 0
    watched,      \* buttons an interval of playBrowserFallback watches
    prefetches    \* every PrefetchState; the last one is prefetch

vars == <<generation, plays, shown, pending, draining, audio, aborted, voice, watched,
          prefetches>>

\* source is the prefetch a play reads, or 0 for a stream of its own; taken counts the
\* sentences it got, begun lists those that have been asked to play.
NoPlay == [button |-> None, source |-> 0, taken |-> 0, step |-> "none", begun |-> <<>>]

Init ==
    /\ generation = 0 /\ plays = [g \in Plays |-> NoPlay]
    /\ shown = None /\ pending = <<>> /\ draining = FALSE
    /\ audio = None /\ aborted = {} /\ voice = 0 /\ watched = {} /\ prefetches = <<>>

Current(g) == g = generation
Prefetch == Len(prefetches)

-----------------------------------------------------------------------------
(* Pieces of a task                                                        *)

Loading == IF audio # None /\ audio.state = "loading"
           THEN {[play |-> audio.play, n |-> audio.n]} ELSE {}

ReleaseAudio == audio' = None /\ aborted' = aborted \cup Loading

\* playBlob: whatever plays is released, the next element is asked to play.
PlayBlob(blob) ==
    /\ audio' = [play |-> blob.play, n |-> blob.n, state |-> "loading"]
    /\ shown' = plays'[blob.play].button

Began(s, blobs) ==
    IF blobs = <<>> THEN s
    ELSE [s EXCEPT ![Head(blobs).play].begun = Append(@, Head(blobs).n)]

\* enqueueBlob for each of blobs: pushed, and drained unless a drain is running.
\* now is plays with what the task itself has changed.
Enqueue(blobs, now) ==
    IF draining \/ blobs = <<>>
    THEN /\ pending' = pending \o blobs /\ plays' = now
         /\ UNCHANGED <<shown, draining, audio, aborted>>
    ELSE LET all == pending \o blobs IN
         /\ draining' = TRUE /\ pending' = Tail(all)
         /\ aborted' = aborted \cup Loading
         /\ plays' = Began(now, all) /\ PlayBlob(Head(all))

\* Sentences from + 1 to to, as they are queued.
Blobs(g, from, to) == [i \in 1..(to - from) |-> [play |-> g, n |-> from + i]]

-----------------------------------------------------------------------------
(* The user, and answers that arrive                                       *)

\* stopSpeakPlayback, also when the playing button leaves the page.
Stop(b) ==
    /\ shown = b /\ generation < MaxPresses
    /\ generation' = generation + 1
    /\ voice' = 0 /\ pending' = <<>> /\ draining' = FALSE /\ shown' = None
    /\ ReleaseAudio
    /\ UNCHANGED <<plays, watched, prefetches>>

\* playSpeakText: everything is stopped, then the sentences at hand are queued.
Play(b) ==
    /\ shown # b /\ generation < MaxPresses
    /\ generation' = generation + 1 /\ voice' = 0
    /\ LET source == IF Prefetch > 0 /\ prefetches[Prefetch].text = TextOf[b]
                     THEN Prefetch ELSE 0
           got == IF source > 0 THEN prefetches[source].got ELSE 0
           blobs == Blobs(generation', 0, got)
       IN /\ plays' = Began([plays EXCEPT ![generation'] =
               [NoPlay EXCEPT !.button = b, !.source = source, !.taken = got,
                              !.step = "streaming"]], blobs)
          /\ shown' = b /\ aborted' = aborted \cup Loading
          /\ IF got > 0
             THEN draining' = TRUE /\ pending' = Tail(blobs) /\ PlayBlob(Head(blobs))
             ELSE draining' = FALSE /\ pending' = <<>> /\ audio' = None
    /\ UNCHANGED <<watched, prefetches>>

\* prefetchSpeakText: a new answer takes the place of the last one and its blobs.
AnswerArrives(t) ==
    /\ Prefetch < MaxAnswers
    /\ Prefetch > 0 => prefetches[Prefetch].text # t
    /\ prefetches' = Append([k \in 1..Prefetch |-> [prefetches[k] EXCEPT !.got = 0]],
                            [text |-> t, got |-> 0, done |-> FALSE])
    /\ UNCHANGED <<generation, plays, shown, pending, draining, audio, aborted, voice, watched>>

\* The stream of a prefetch that has been replaced is ignored.
PrefetchStream ==
    /\ Prefetch > 0 /\ ~prefetches[Prefetch].done
    /\ LET p == prefetches[Prefetch] IN
         \/ p.got < N /\ prefetches' = [prefetches EXCEPT ![Prefetch].got = @ + 1]
         \/ /\ p.got = N \/ "stream" \in Failures
            /\ prefetches' = [prefetches EXCEPT ![Prefetch].done = TRUE]
    /\ UNCHANGED <<generation, plays, shown, pending, draining, audio, aborted, voice, watched>>

-----------------------------------------------------------------------------
(* playSpeakText after its first await                                     *)

Streams(g) == plays[g].step = "streaming" /\ plays[g].source = 0

Receive_Mstale_too(g) ==
    /\ Streams(g) /\ plays[g].taken < N
    /\ Enqueue(Blobs(g, plays[g].taken, plays[g].taken + 1),
               [plays EXCEPT ![g].taken = @ + 1])
    /\ UNCHANGED <<generation, voice, watched, prefetches>>

\* A sentence of the play's own stream; enqueueBlob drops it after a stop.
Receive(g) ==
    /\ Streams(g) /\ plays[g].taken < N
    /\ LET next == IF Current(g) THEN Blobs(g, plays[g].taken, plays[g].taken + 1) ELSE <<>>
       IN Enqueue(next, [plays EXCEPT ![g].taken = @ + 1])
    /\ UNCHANGED <<generation, voice, watched, prefetches>>

TakePrefetched_Mfrom_start(g) ==
    /\ Current(g) /\ plays[g].step = "streaming" /\ plays[g].source > 0
    /\ LET got == prefetches[plays[g].source].got IN
         /\ plays[g].taken < got
         /\ Enqueue(Blobs(g, 0, got), [plays EXCEPT ![g].taken = got])
    /\ UNCHANGED <<generation, voice, watched, prefetches>>

\* playFromPrefetch: the blobs that came since the last look.
TakePrefetched(g) ==
    /\ Current(g) /\ plays[g].step = "streaming" /\ plays[g].source > 0
    /\ LET got == prefetches[plays[g].source].got IN
         /\ plays[g].taken < got
         /\ Enqueue(Blobs(g, plays[g].taken, got), [plays EXCEPT ![g].taken = got])
    /\ UNCHANGED <<generation, voice, watched, prefetches>>

Goto(g, to) == plays' = [plays EXCEPT ![g].step = to]

\* All sentences are in; a stale play just returns.
StreamEnds(g) ==
    /\ \/ Streams(g) /\ plays[g].taken = N
       \/ /\ Current(g) /\ plays[g].step = "streaming" /\ plays[g].source > 0
          /\ plays[g].taken > 0 /\ prefetches[plays[g].source].done
          /\ prefetches[plays[g].source].got <= plays[g].taken
    /\ Goto(g, IF Current(g) THEN "waiting" ELSE "over")
    /\ UNCHANGED <<generation, shown, pending, draining, audio, aborted, voice, watched, prefetches>>

Failed(g) ==
    /\ plays[g].step = "streaming"
    /\ IF plays[g].source = 0 THEN "stream" \in Failures
       ELSE Current(g) /\ plays[g].taken = 0 /\ prefetches[plays[g].source].done
            /\ prefetches[plays[g].source].got = 0

StreamFails_Mkeeps_audio(g) ==
    /\ Failed(g) /\ Goto(g, "over")
    /\ IF ~Current(g) THEN UNCHANGED <<shown, pending, draining, audio, aborted, voice, watched>>
       ELSE /\ pending' = <<>> /\ draining' = FALSE /\ UNCHANGED <<audio, aborted>>
            /\ voice' = g /\ shown' = plays[g].button
            /\ watched' = watched \cup {plays[g].button}
    /\ UNCHANGED <<generation, prefetches>>

\* The catch block: the browser's voice reads the whole text, unless the session is
\* gone or the browser has none.
StreamFails(g) ==
    /\ Failed(g) /\ Goto(g, "over")
    /\ IF ~Current(g) THEN UNCHANGED <<shown, pending, draining, audio, aborted, voice, watched>>
       ELSE /\ pending' = <<>> /\ draining' = FALSE /\ ReleaseAudio
            /\ \/ /\ voice' = g /\ shown' = plays[g].button
                  /\ watched' = watched \cup {plays[g].button}
               \/ shown' = None /\ UNCHANGED <<voice, watched>>
    /\ UNCHANGED <<generation, prefetches>>

\* waitForPlaybackDrain finds nothing left, or the play stale.
Drained(g) ==
    /\ plays[g].step = "waiting"
    /\ Current(g) => ~draining /\ pending = <<>> /\ audio = None
    /\ Goto(g, "over")
    /\ UNCHANGED <<generation, shown, pending, draining, audio, aborted, voice, watched, prefetches>>

-----------------------------------------------------------------------------
(* The audio element and the drain that waits for it                       *)

AudioIs(state) == audio # None /\ audio.state = state

EndDrain_Mflag_kept(g) ==
    /\ draining' = draining
    /\ shown' = IF Current(g) /\ pending = <<>> /\ audio' = None THEN None ELSE shown

\* The finally block of a drain of generation g.
EndDrain(g) ==
    /\ draining' = FALSE
    /\ shown' = IF Current(g) /\ pending = <<>> /\ audio' = None THEN None ELSE shown

AudioStarts ==
    /\ AudioIs("loading") /\ audio' = [audio EXCEPT !.state = "playing"]
    /\ UNCHANGED <<generation, plays, shown, pending, draining, aborted, voice, watched, prefetches>>

\* onended: the drain goes on with the next sentence, in the same task.
AudioEnds ==
    /\ AudioIs("playing")
    /\ IF Current(audio.play) /\ pending # <<>>
       THEN /\ pending' = Tail(pending) /\ UNCHANGED draining
            /\ plays' = Began(plays, pending) /\ PlayBlob(Head(pending))
       ELSE audio' = None /\ EndDrain(audio.play) /\ UNCHANGED <<plays, pending>>
    /\ UNCHANGED <<generation, aborted, voice, watched, prefetches>>

\* onerror, or play() refused by the browser, which leaves the element in place.
AudioFails ==
    /\ "audio" \in Failures /\ audio # None /\ audio.state # "refused"
    /\ \/ audio' = None
       \/ audio.state = "loading" /\ audio' = [audio EXCEPT !.state = "refused"]
    /\ EndDrain(audio.play)
    /\ UNCHANGED <<generation, plays, pending, aborted, voice, watched, prefetches>>

\* play() of a released element is rejected: the drain that waited for it ends.
Aborts(s) ==
    /\ s \in aborted /\ aborted' = aborted \ {s}
    /\ UNCHANGED audio /\ EndDrain(s.play)
    /\ UNCHANGED <<generation, plays, pending, voice, watched, prefetches>>

VoiceEnds ==
    /\ voice # 0 /\ voice' = 0
    /\ UNCHANGED <<generation, plays, shown, pending, draining, audio, aborted, watched, prefetches>>

\* An interval finds the voice silent.
Tick(b) ==
    /\ b \in watched /\ voice = 0
    /\ watched' = watched \ {b} /\ shown' = IF shown = b THEN None ELSE shown
    /\ UNCHANGED <<generation, plays, pending, draining, audio, aborted, voice, prefetches>>

-----------------------------------------------------------------------------
PlayStep(g) == Receive(g) \/ TakePrefetched(g) \/ StreamEnds(g) \/ StreamFails(g) \/ Drained(g)
AudioStep == AudioStarts \/ AudioEnds \/ AudioFails

Next ==
    \/ \E b \in Buttons : Stop(b) \/ Play(b) \/ Tick(b)
    \/ \E t \in Texts : AnswerArrives(t)
    \/ \E g \in Plays : PlayStep(g)
    \/ \E s \in aborted : Aborts(s)
    \/ PrefetchStream \/ AudioStep \/ VoiceEnds

Spec == Init /\ [][Next]_vars

\* Streams end, elements play to their end or fail, timers fire; users and answers
\* are free.
FairSpec ==
    /\ Spec
    /\ WF_vars(PrefetchStream) /\ WF_vars(AudioStep) /\ WF_vars(VoiceEnds)
    /\ WF_vars(\E s \in aborted : Aborts(s))
    /\ \A g \in Plays : WF_vars(PlayStep(g))
    /\ \A b \in Buttons : WF_vars(Tick(b))
-----------------------------------------------------------------------------
(* Correctness                                                             *)

Steps == {"none", "streaming", "waiting", "over"}
TypeOK ==
    /\ generation \in 0..MaxPresses
    /\ plays \in [Plays -> [button : Buttons \cup {None}, source : 0..MaxAnswers,
         taken : 0..N, step : Steps, begun : Seq(1..N)]]
    /\ shown \in Buttons \cup {None} /\ pending \in Seq(Sentences)
    /\ draining \in BOOLEAN /\ audio \in Audios \cup {None}
    /\ aborted \subseteq Sentences /\ voice \in Plays \cup {0} /\ watched \subseteq Buttons
    /\ prefetches \in Seq([text : Texts, got : 0..N, done : BOOLEAN])

\* An answer is read by Piper or by the browser, never by both: a fallback silences
\* the sentences that were queued or playing, and none comes after it.
OneVoice == audio # None => voice = 0

\* What is heard or queued belongs to the last press: a stop or another play silences
\* the streams, drains and polls of the ones before, which all go on running.
StoppedStaysSilent ==
    /\ audio # None => audio.play = generation
    /\ voice # 0 => voice = generation
    /\ \A i \in DOMAIN pending : pending[i].play = generation

\* The sentences of an answer begin in their order, none twice and none left out,
\* whichever of stream, prefetch and overlapping drains brings them.
SpokenInOrder == \A g \in Plays :
    \A i \in DOMAIN plays[g].begun : plays[g].begun[i] = i

\* A play that is not stopped comes to its end, and with it the wait of the button,
\* unless it was left waiting: for a prefetch that another answer's has replaced, or
\* for a queue or an element that no drain is at.
LeftWaiting(g) ==
    \/ plays[g].source \notin {0, Prefetch}
    \/ ~draining /\ (pending # <<>> \/ audio # None)
PlaybackEnds == \A g \in Plays :
    plays[g].step = "streaming" ~>
        plays[g].step = "over" \/ ~Current(g) \/ LeftWaiting(g)

-----------------------------------------------------------------------------
(* Statements of the repository that the code does not keep                *)

\* "so the full paragraph is spoken progressively. Results are cached so Play after
\* prefetch is free": an answer that is played and not stopped begins every sentence.
WholeAnswerSpoken == \A g \in Plays :
    plays[g].step = "streaming" ~> Len(plays[g].begun) = N \/ generation # g

\* "next chunk or stop handles recovery": sentences queued behind one that failed
\* are played, or the answer is stopped.
QueueIsDrained == pending # <<>> ~> pending = <<>>

\* "the full paragraph is spoken": without a failure, only a press ends a sentence early.
SentenceNotCutOff ==
    [][AudioIs("playing") /\ audio' # audio /\ generation' = generation => AudioEnds]_vars
=============================================================================
