------------------------- MODULE SpeakPlaybackProofs -------------------------
(***************************************************************************)
(* Theorems about SpeakPlayback, for any number of buttons, sentences,     *)
(* presses and answers, and whatever fails.                                *)
(***************************************************************************)
EXTENDS SpeakPlayback, SequenceTheorems, TLAPS

\* Sentences of play g that follow the first k of its answer, in their order.
Run(q, g, k) == \A i \in 1..Len(q) : q[i] = [play |-> g, n |-> k + i]

\* Plays are numbered as they begin, by a button, and read answers that have arrived.
Numbered ==
    /\ \A g \in Plays : g > generation => plays[g].step = "none"
    /\ \A g \in Plays : plays[g].step # "none" => plays[g].button \in Buttons
    /\ \A g \in Plays : plays[g].source <= Prefetch
    /\ Prefetch <= MaxAnswers

\* What is queued goes on where the play has begun, and the play has nothing else.
Queued ==
    /\ pending # <<>> => generation \in Plays
    /\ generation \in Plays => Run(pending, generation, Len(plays[generation].begun))
    /\ \A g \in Plays : Current(g) /\ plays[g].step = "streaming" =>
         plays[g].taken = Len(plays[g].begun) + Len(pending)

\* The browser's voice has nobody beside it, and its play is over.
VoiceAlone == voice # 0 =>
    /\ voice = generation /\ plays[voice].step = "over"
    /\ pending = <<>> /\ audio = None

AudioOfNow == audio # None => audio.play = generation

Inductive ==
    TypeOK /\ Numbered /\ Queued /\ VoiceAlone /\ AudioOfNow /\ SpokenInOrder

-----------------------------------------------------------------------------
(* Runs of sentences                                                       *)

\* Two adjoining runs of numbers make one.
LEMMA RunConcat ==
    ASSUME NEW g, NEW k \in Nat, NEW q \in Seq(Sentences), NEW b \in Seq(Sentences),
           Run(q, g, k), Run(b, g, k + Len(q))
    PROVE  /\ q \o b \in Seq(Sentences) /\ Len(q \o b) = Len(q) + Len(b)
           /\ Run(q \o b, g, k)
<1>1. /\ q \o b \in Seq(Sentences) /\ Len(q \o b) = Len(q) + Len(b)
      /\ \A i \in 1..Len(q) + Len(b) : (q \o b)[i] = IF i <= Len(q) THEN q[i] ELSE b[i - Len(q)]
      /\ Len(q) \in Nat /\ Len(b) \in Nat
  BY ConcatProperties
<1>2. ASSUME NEW i \in 1..Len(q) + Len(b)
      PROVE  (q \o b)[i] = [play |-> g, n |-> k + i]
  <2>1. CASE i <= Len(q)
    BY <1>1, <2>1 DEF Run
  <2>2. CASE i > Len(q)
    <3>1. i - Len(q) \in 1..Len(b) /\ k + Len(q) + (i - Len(q)) = k + i
      BY <1>1, <2>2
    <3>2. QED
      BY <1>1, <2>2, <3>1 DEF Run
  <2>3. QED
    BY <1>1, <2>1, <2>2
<1>3. QED
  BY <1>1, <1>2 DEF Run

\* The rest of a run of numbers is a run.
LEMMA RunTail ==
    ASSUME NEW g, NEW k \in Nat, NEW q \in Seq(Sentences), q # <<>>, Run(q, g, k)
    PROVE  /\ Head(q) = [play |-> g, n |-> k + 1] /\ Head(q) \in Sentences
           /\ Tail(q) \in Seq(Sentences) /\ Len(Tail(q)) = Len(q) - 1
           /\ Run(Tail(q), g, k + 1)
<1>1. /\ Len(q) \in Nat \ {0} /\ Head(q) = q[1] /\ q[1] \in Sentences
      /\ Tail(q) \in Seq(Sentences) /\ Len(Tail(q)) = Len(q) - 1
      /\ \A i \in 1..Len(q) - 1 : Tail(q)[i] = q[i + 1]
  OBVIOUS
<1>2. ASSUME NEW i \in 1..Len(q) - 1
      PROVE  Tail(q)[i] = [play |-> g, n |-> k + 1 + i]
  <2>1. i + 1 \in 1..Len(q) /\ k + (i + 1) = k + 1 + i
    BY <1>1
  <2>2. QED
    BY <1>1, <2>1 DEF Run
<1>3. QED
  BY <1>1, <1>2 DEF Run

\* The sentences that Blobs lists follow each other.
LEMMA BlobsRun ==
    ASSUME NEW g \in Plays, NEW from \in 0..N, NEW to \in 0..N, from <= to
    PROVE  /\ Blobs(g, from, to) \in Seq(Sentences) /\ Len(Blobs(g, from, to)) = to - from
           /\ Run(Blobs(g, from, to), g, from)
<1>1. to - from \in Nat /\ from + (to - from) <= N
  BY SizesAssumption
<1>2. \A i \in 1..(to - from) : [play |-> g, n |-> from + i] \in Sentences
  BY <1>1, SizesAssumption DEF Sentences
<1>3. QED
  BY <1>1, <1>2 DEF Blobs, Run

-----------------------------------------------------------------------------
(* The queue                                                               *)

\* What a task that queues sentences of the play of now leaves behind.
LEMMA EnqueueKeeps ==
    ASSUME Inductive, NEW g \in Plays, Current(g), plays[g].step = "streaming",
           NEW to \in 0..N, plays[g].taken < to,
           Enqueue(Blobs(g, plays[g].taken, to), [plays EXCEPT ![g].taken = to]),
           UNCHANGED <<generation, voice, watched, prefetches>>
    PROVE  Inductive'
<1> DEFINE k == Len(plays[g].begun)
           more == Blobs(g, plays[g].taken, to)
           all == pending \o more
<1>1. /\ plays[g].taken \in 0..N /\ plays[g].begun \in Seq(1..N)
      /\ k \in Nat /\ k = Len(plays[g].begun)
      /\ pending \in Seq(Sentences) /\ generation = g
      /\ plays[g].taken = k + Len(pending) /\ Run(pending, g, k)
  BY DEF Inductive, TypeOK, Queued, Current
<1>2. /\ more \in Seq(Sentences) /\ Len(more) = to - plays[g].taken /\ more # <<>>
      /\ Run(more, g, k + Len(pending))
  <2>1. more \in Seq(Sentences) /\ Len(more) = to - plays[g].taken
        /\ Run(more, g, plays[g].taken)
    <3>1. plays[g].taken \in 0..N /\ plays[g].taken <= to
      BY <1>1, SizesAssumption
    <3>2. QED
      BY <3>1, BlobsRun
  <2>2. Len(more) # 0
    BY <1>1, <2>1, SizesAssumption
  <2>3. QED
    BY <1>1, <2>1, <2>2
<1>3. /\ all \in Seq(Sentences) /\ Len(all) = Len(pending) + Len(more)
      /\ Run(all, g, k) /\ all # <<>> /\ k + Len(all) = to
  <2>1. all \in Seq(Sentences) /\ Len(all) = Len(pending) + Len(more) /\ Run(all, g, k)
    BY <1>1, <1>2, RunConcat
  <2>2. Len(all) # 0 /\ k + Len(all) = to
    <3> HIDE DEF all, k, more
    <3>1. /\ k \in Nat /\ Len(pending) \in Nat /\ to \in Nat
          /\ plays[g].taken = k + Len(pending) /\ plays[g].taken < to
      BY <1>1, SizesAssumption
    <3>3. Len(all) = Len(pending) + (to - plays[g].taken)
      BY <1>2, <2>1
    <3>4. QED
      BY <3>1, <3>3
  <2>3. all # <<>>
    BY <2>2
  <2>4. QED
    BY <2>1, <2>2, <2>3
<1>4. voice = 0
  BY <1>1 DEF Inductive, VoiceAlone
<1>5. CASE draining
  <2>1. /\ pending' = all /\ plays' = [plays EXCEPT ![g].taken = to]
        /\ UNCHANGED <<shown, draining, audio, aborted>>
    BY <1>2, <1>5 DEF Enqueue
  <2>2. TypeOK'
    BY <1>3, <2>1 DEF Inductive, TypeOK
  <2>3. Queued'
    BY <1>1, <1>3, <2>1 DEF Inductive, TypeOK, Queued, Current, Plays
  <2>4. Numbered' /\ SpokenInOrder'
    BY <2>1 DEF Inductive, TypeOK, Numbered, SpokenInOrder, Prefetch
  <2>5. VoiceAlone' /\ AudioOfNow'
    BY <1>4, <2>1 DEF Inductive, VoiceAlone, AudioOfNow
  <2>6. QED
    BY <2>2, <2>3, <2>4, <2>5 DEF Inductive
<1>6. CASE ~draining
  <2>1. /\ draining' = TRUE /\ pending' = Tail(all) /\ aborted' = aborted \cup Loading
        /\ plays' = Began([plays EXCEPT ![g].taken = to], all) /\ PlayBlob(Head(all))
    BY <1>2, <1>6 DEF Enqueue
  <2> HIDE DEF k, more, all
  <2>2. /\ Head(all) = [play |-> g, n |-> k + 1] /\ Head(all) \in Sentences
        /\ Tail(all) \in Seq(Sentences) /\ Len(Tail(all)) = Len(all) - 1
        /\ Run(Tail(all), g, k + 1)
    BY <1>1, <1>3, RunTail
  <2>3. k + 1 \in 1..N
    BY <2>2 DEF Sentences
  <2>4. plays' = [[plays EXCEPT ![g].taken = to] EXCEPT ![g].begun = Append(@, k + 1)]
    <3>1. Head(all).play = g /\ Head(all).n = k + 1 /\ all # <<>>
      BY <1>3, <2>2
    <3> DEFINE s == [plays EXCEPT ![g].taken = to]
    <3>2. Began(s, all) = [s EXCEPT ![g].begun = Append(@, k + 1)]
      BY <3>1 DEF Began
    <3>3. QED
      BY <2>1, <3>2
  <2>5. /\ plays'[g].begun = Append(plays[g].begun, k + 1) /\ plays'[g].taken = to
        /\ plays'[g].step = plays[g].step /\ plays'[g].button = plays[g].button
        /\ plays'[g].source = plays[g].source
        /\ plays'[g] = [plays[g] EXCEPT !.taken = to, !.begun = Append(plays[g].begun, k + 1)]
        /\ plays' = [plays EXCEPT ![g] = plays'[g]]
        /\ \A h \in Plays : h # g => plays'[h] = plays[h]
    <3>1. plays \in [Plays -> [button : Buttons \cup {None}, source : 0..MaxAnswers,
                               taken : 0..N, step : Steps, begun : Seq(1..N)]]
      BY DEF Inductive, TypeOK
    <3> HIDE DEF k
    <3>2. QED
      BY <2>4, <3>1
  <2>6. /\ plays'[g].begun \in Seq(1..N) /\ Len(plays'[g].begun) = k + 1
        /\ \A i \in 1..k : plays'[g].begun[i] = plays[g].begun[i]
        /\ plays'[g].begun[k + 1] = k + 1
    BY <1>1, <2>3, <2>5
  <2>7. TypeOK'
    <3>1. plays' \in [Plays -> [button : Buttons \cup {None}, source : 0..MaxAnswers,
                                taken : 0..N, step : Steps, begun : Seq(1..N)]]
      <4>1. plays[g].begun \in Seq(1..N) /\ Append(plays[g].begun, k + 1) \in Seq(1..N)
        BY <1>1, <2>3
      <4>2. plays \in [Plays -> [button : Buttons \cup {None}, source : 0..MaxAnswers,
                                 taken : 0..N, step : Steps, begun : Seq(1..N)]]
        BY DEF Inductive, TypeOK
      <4>3. [plays[g] EXCEPT !.taken = to, !.begun = Append(plays[g].begun, k + 1)]
              \in [button : Buttons \cup {None}, source : 0..MaxAnswers,
                   taken : 0..N, step : Steps, begun : Seq(1..N)]
        BY <4>1, <4>2
      <4>4. QED
        BY <2>5, <4>2, <4>3
    <3>2. audio' = [play |-> g, n |-> k + 1, state |-> "loading"] /\ shown' = plays[g].button
      <4>1. Head(all).play = g /\ Head(all).n = k + 1
        BY <2>2
      <4>2. QED
        BY <2>1, <2>5, <4>1 DEF PlayBlob
    <3>3. audio' \in Audios /\ shown' \in Buttons \cup {None} /\ aborted' \subseteq Sentences
      <4>1. audio' \in Audios
        BY <2>3, <3>2 DEF Audios
      <4>2. shown' \in Buttons \cup {None}
        BY <3>2 DEF Inductive, TypeOK
      <4>3. Loading \subseteq Sentences
        BY SMTT(30) DEF Inductive, TypeOK, Loading, Sentences, Audios
      <4>4. QED
        BY <2>1, <4>1, <4>2, <4>3 DEF Inductive, TypeOK
    <3>4. draining' \in BOOLEAN
      BY <2>1
    <3>5. QED
      BY <2>1, <2>2, <3>1, <3>3, <3>4 DEF Inductive, TypeOK
  <2>8. Queued'
    <3>1. generation' = g /\ Run(pending', g, k + 1) /\ Len(pending') = Len(all) - 1
      BY <1>1, <2>1, <2>2
    <3>2. to = k + 1 + Len(pending')
      <4>1. k \in Nat /\ Len(all) \in Nat /\ to = k + Len(all) /\ Len(pending') = Len(all) - 1
        <5>1. Len(all) \in Nat
          BY <1>3
        <5>2. QED
          BY <1>1, <1>3, <3>1, <5>1
      <4>2. QED
        BY <4>1
    <3>3. QED
      <4>1. Run(pending', generation', Len(plays'[generation'].begun))
        BY <2>6, <3>1
      <4>2. plays'[g].taken = Len(plays'[g].begun) + Len(pending')
        BY <2>5, <2>6, <3>2
      <4>3. QED
        BY <3>1, <4>1, <4>2 DEF Queued, Current
  <2>9. Numbered'
    BY <1>1, <2>5 DEF Inductive, Numbered, Prefetch, Plays
  <2>10. SpokenInOrder'
    <3> SUFFICES ASSUME NEW h \in Plays, NEW i \in DOMAIN plays'[h].begun
                 PROVE  plays'[h].begun[i] = i
      BY DEF SpokenInOrder
    <3>1. CASE h # g
      BY <2>5, <3>1 DEF Inductive, SpokenInOrder
    <3>2. CASE h = g
      <4>1. i \in 1..k \/ i = k + 1
        <5>1. i \in 1..(k + 1) /\ k \in Nat
          BY <1>1, <2>6, <3>2
        <5> HIDE DEF k
        <5>2. QED
          BY <5>1
      <4>2. i \in 1..k => plays[g].begun[i] = i
        BY <1>1 DEF Inductive, SpokenInOrder
      <4>3. CASE i \in 1..k
        BY <2>6, <3>2, <4>2, <4>3
      <4>4. CASE i = k + 1
        BY <2>6, <3>2, <4>4
      <4>5. QED
        BY <4>1, <4>3, <4>4
    <3>3. QED
      BY <3>1, <3>2
  <2>11. VoiceAlone' /\ AudioOfNow'
    BY <1>1, <1>4, <2>1, <2>2 DEF VoiceAlone, AudioOfNow, PlayBlob
  <2>12. QED
    BY <2>7, <2>8, <2>9, <2>10, <2>11 DEF Inductive
<1>7. QED
  BY <1>5, <1>6

PrefetchStates == [text : Texts, got : 0..N, done : BOOLEAN]

\* An update of a prefetch keeps its type.
LEMMA PrefetchUpdates ==
    ASSUME NEW p \in PrefetchStates
    PROVE  /\ [p EXCEPT !.got = 0] \in PrefetchStates
           /\ [p EXCEPT !.done = TRUE] \in PrefetchStates
           /\ p.got < N => [p EXCEPT !.got = @ + 1] \in PrefetchStates
<1>1. p.got \in 0..N /\ 0 \in 0..N /\ (p.got < N => p.got + 1 \in 0..N)
  BY SizesAssumption DEF PrefetchStates
<1>2. QED
  BY <1>1 DEF PrefetchStates

\* The queue is not touched, and nothing new is heard.
LEMMA QuietStep ==
    ASSUME Inductive,
           \/ \E b \in Buttons : Tick(b)
           \/ \E x \in Texts : AnswerArrives(x)
           \/ \E g \in Plays : StreamEnds(g) \/ Drained(g)
           \/ \E s \in aborted : Aborts(s)
           \/ PrefetchStream \/ AudioStarts \/ AudioFails \/ VoiceEnds \/ UNCHANGED vars
    PROVE  Inductive'
<1> USE SizesAssumption DEF Inductive, Prefetch
<1>1. ASSUME NEW b \in Buttons, Tick(b)
      PROVE  Inductive'
  BY <1>1 DEF Tick, TypeOK, Numbered, Queued, VoiceAlone, AudioOfNow, SpokenInOrder, Current
<1>2. ASSUME NEW x \in Texts, AnswerArrives(x)
      PROVE  Inductive'
  <2> DEFINE kept == [i \in 1..Len(prefetches) |-> [prefetches[i] EXCEPT !.got = 0]]
             new == [text |-> x, got |-> 0, done |-> FALSE]
  <2>1. kept \in Seq(PrefetchStates) /\ Len(kept) = Len(prefetches)
        /\ Len(prefetches) \in Nat
    <3>1. prefetches \in Seq(PrefetchStates) /\ Len(prefetches) \in Nat
      BY DEF TypeOK, PrefetchStates
    <3>2. \A i \in 1..Len(prefetches) : prefetches[i] \in PrefetchStates
      BY <3>1
    <3>3. \A i \in 1..Len(prefetches) : [prefetches[i] EXCEPT !.got = 0] \in PrefetchStates
      BY <3>2, PrefetchUpdates
    <3>4. QED
      BY <3>1, <3>3
  <2>2. new \in PrefetchStates
    BY DEF PrefetchStates
  <2>3. prefetches' = Append(kept, new)
    BY <1>2 DEF AnswerArrives
  <2>4. prefetches' \in Seq(PrefetchStates) /\ Len(prefetches') = Len(prefetches) + 1
    BY <2>1, <2>2, <2>3
  <2>5. Len(prefetches') <= MaxAnswers /\ \A g \in Plays : plays'[g].source <= Len(prefetches')
    BY <1>2, <2>1, <2>4 DEF AnswerArrives, TypeOK, Numbered
  <2>6. QED
    BY <1>2, <2>4, <2>5 DEF PrefetchStates, AnswerArrives, TypeOK, Numbered, Queued, VoiceAlone, AudioOfNow,
       SpokenInOrder, Current
<1>3. ASSUME NEW g \in Plays, StreamEnds(g) \/ Drained(g)
      PROVE  Inductive'
  <2>1. PICK to \in {"waiting", "over"} : /\ plays' = [plays EXCEPT ![g].step = to]
                                          /\ plays[g].step = "waiting" => to = "over"
    BY <1>3 DEF StreamEnds, Drained, Goto, Streams
  <2>2. UNCHANGED <<generation, shown, pending, draining, audio, aborted, voice, watched,
                    prefetches>> /\ plays[g].step \in {"streaming", "waiting"}
    BY <1>3 DEF StreamEnds, Drained, Streams
  <2>3. TypeOK' /\ Numbered'
    BY <2>1, <2>2 DEF TypeOK, Numbered, Steps
  <2>4. Queued' /\ VoiceAlone' /\ AudioOfNow' /\ SpokenInOrder'
    BY <2>1, <2>2 DEF TypeOK, Queued, VoiceAlone, AudioOfNow, SpokenInOrder, Current
  <2>5. QED
    BY <2>3, <2>4
<1>4. ASSUME NEW s \in aborted, Aborts(s)
      PROVE  Inductive'
  BY <1>4 DEF Aborts, EndDrain, TypeOK, Numbered, Queued, VoiceAlone, AudioOfNow,
     SpokenInOrder, Current
<1>5. ASSUME PrefetchStream
      PROVE  Inductive'
  <2> DEFINE last == Len(prefetches)
  <2>1. prefetches' \in Seq(PrefetchStates) /\ Len(prefetches') = Len(prefetches)
    <3>1. prefetches \in Seq(PrefetchStates) /\ last \in 1..Len(prefetches)
      BY <1>5 DEF PrefetchStream, TypeOK, PrefetchStates
    <3>2. \/ /\ prefetches[last].got < N
             /\ prefetches' = [prefetches EXCEPT ![last].got = prefetches[last].got + 1]
          \/ prefetches' = [prefetches EXCEPT ![last].done = TRUE]
      BY <1>5 DEF PrefetchStream
    <3>3. prefetches[last] \in PrefetchStates
      BY <3>1
    <3>4. PICK new \in PrefetchStates : prefetches' = [prefetches EXCEPT ![last] = new]
      <4>1. CASE /\ prefetches[last].got < N
                 /\ prefetches' = [prefetches EXCEPT ![last].got = prefetches[last].got + 1]
        <5> DEFINE new == [prefetches[last] EXCEPT !.got = @ + 1]
        <5>1. new \in PrefetchStates
          BY <3>3, <4>1, PrefetchUpdates
        <5>2. prefetches' = [prefetches EXCEPT ![last] = new]
          BY <3>1, <4>1
        <5>3. QED
          BY <5>1, <5>2
      <4>2. CASE prefetches' = [prefetches EXCEPT ![last].done = TRUE]
        <5> DEFINE new == [prefetches[last] EXCEPT !.done = TRUE]
        <5>1. new \in PrefetchStates
          BY <3>3, PrefetchUpdates
        <5>2. prefetches' = [prefetches EXCEPT ![last] = new]
          BY <3>1, <4>2
        <5>3. QED
          BY <5>1, <5>2
      <4>3. QED
        BY <3>2, <4>1, <4>2
    <3>5. QED
      BY <3>1, <3>4
  <2>2. QED
    BY <1>5, <2>1 DEF PrefetchStates, PrefetchStream, TypeOK, Numbered, Queued, VoiceAlone, AudioOfNow,
       SpokenInOrder, Current
<1>6. ASSUME AudioStarts \/ AudioFails
      PROVE  Inductive'
  <2>1. /\ UNCHANGED <<generation, plays, pending, aborted, voice, watched, prefetches>>
        /\ audio # None /\ shown' \in {None, shown} /\ draining' \in {draining, FALSE}
        /\ \/ audio' = None
           \/ \E state \in {"playing", "refused"} : audio' = [audio EXCEPT !.state = state]
    BY <1>6 DEF AudioStarts, AudioFails, AudioIs, EndDrain
  <2>2. audio' \in Audios \cup {None} /\ (audio' # None => audio'.play = generation)
    BY <2>1 DEF TypeOK, Audios, AudioOfNow
  <2>3. voice = 0
    BY <2>1 DEF VoiceAlone
  <2>4. TypeOK'
    BY <2>1, <2>2 DEF TypeOK
  <2>5. QED
    BY <2>1, <2>2, <2>3, <2>4 DEF Numbered, Queued, VoiceAlone, AudioOfNow, SpokenInOrder,
       Current
<1>7. ASSUME VoiceEnds \/ UNCHANGED vars
      PROVE  Inductive'
  BY <1>7 DEF VoiceEnds, vars, TypeOK, Numbered, Queued, VoiceAlone, AudioOfNow,
     SpokenInOrder, Current
<1>8. QED
  BY <1>1, <1>2, <1>3, <1>4, <1>5, <1>6, <1>7


-----------------------------------------------------------------------------
(* The steps that make or end a sound                                      *)

\* A stop leaves nothing of the play before it.
LEMMA StopStep ==
    ASSUME Inductive, NEW b \in Buttons, Stop(b)
    PROVE  Inductive'
<1>1. /\ generation' = generation + 1 /\ generation' \in Plays
      /\ voice' = 0 /\ pending' = <<>> /\ draining' = FALSE /\ shown' = None /\ audio' = None
      /\ aborted' = aborted \cup Loading /\ UNCHANGED <<plays, watched, prefetches>>
  BY SizesAssumption DEF Stop, ReleaseAudio, Inductive, TypeOK, Plays
<1>2. Loading \subseteq Sentences
  BY DEF Inductive, TypeOK, Loading, Sentences, Audios
<1>3. TypeOK'
  <2>1. draining' \in BOOLEAN
    BY <1>1
  <2>2. pending' \in Seq(Sentences)
    BY <1>1
  <2>3. generation' \in 0..MaxPresses
    BY <1>1, SizesAssumption DEF Plays
  <2>4. QED
    BY <1>1, <1>2, <2>1, <2>2, <2>3 DEF Inductive, TypeOK
<1>4. Numbered' /\ SpokenInOrder'
  <2>1. generation' > generation /\ \A g \in Plays : g > generation' => g > generation
    BY <1>1 DEF Inductive, TypeOK, Plays
  <2>2. QED
    BY <1>1, <2>1 DEF Inductive, Numbered, SpokenInOrder, Prefetch
<1>5. Queued'
  BY <1>1 DEF Inductive, TypeOK, Numbered, Queued, Run, Current, Plays
<1>6. QED
  BY <1>1, <1>3, <1>4, <1>5 DEF Inductive, VoiceAlone, AudioOfNow

\* A press begins with the sentences that have been prefetched.
LEMMA PlayStarts ==
    ASSUME Inductive, NEW b \in Buttons, Play(b)
    PROVE  Inductive'
<1> DEFINE g == generation + 1
           source == IF Prefetch > 0 /\ prefetches[Prefetch].text = TextOf[b]
                     THEN Prefetch ELSE 0
           got == IF source > 0 THEN prefetches[source].got ELSE 0
           blobs == Blobs(g, 0, got)
           start == [NoPlay EXCEPT !.button = b, !.source = source, !.taken = got,
                                   !.step = "streaming"]
<1>1. /\ g \in Plays /\ generation' = g /\ voice' = 0 /\ UNCHANGED <<watched, prefetches>>
      /\ plays' = Began([plays EXCEPT ![g] = start], blobs)
      /\ shown' = b /\ aborted' = aborted \cup Loading
      /\ IF got > 0 THEN draining' = TRUE /\ pending' = Tail(blobs) /\ PlayBlob(Head(blobs))
         ELSE draining' = FALSE /\ pending' = <<>> /\ audio' = None
  <2>1. g \in Plays /\ generation' = g /\ voice' = 0 /\ UNCHANGED <<watched, prefetches>>
    <3>1. /\ generation < MaxPresses /\ generation' = generation + 1 /\ voice' = 0
          /\ UNCHANGED <<watched, prefetches>>
      BY Zenon DEF Play
    <3>2. generation \in 0..MaxPresses
      BY Zenon DEF Inductive, TypeOK
    <3>3. g \in Plays
      BY <3>1, <3>2, SizesAssumption DEF Plays
    <3>4. QED
      BY <3>1, <3>3
  <2>2. plays' = Began([plays EXCEPT ![g] = start], blobs)
    BY <2>1, Zenon DEF Play
  <2>3. shown' = b /\ aborted' = aborted \cup Loading
    BY DEF Play
  <2>4. IF got > 0 THEN draining' = TRUE /\ pending' = Tail(blobs) /\ PlayBlob(Head(blobs))
        ELSE draining' = FALSE /\ pending' = <<>> /\ audio' = None
    <3>1. LET B == Blobs(generation', 0, got) IN
            IF got > 0 THEN draining' = TRUE /\ pending' = Tail(B) /\ PlayBlob(Head(B))
            ELSE draining' = FALSE /\ pending' = <<>> /\ audio' = None
      BY Zenon DEF Play
    <3>2. QED
      BY <2>1, <3>1, Zenon
  <2>5. QED
    BY <2>1, <2>2, <2>3, <2>4
<1>2. source \in 0..MaxAnswers /\ source <= Prefetch /\ got \in 0..N
  <2>1. prefetches \in Seq(PrefetchStates) /\ Prefetch \in 0..MaxAnswers
    BY SizesAssumption DEF Inductive, TypeOK, Numbered, Prefetch, PrefetchStates
  <2>2. \A i \in 1..Prefetch : prefetches[i].got \in 0..N
    <3>1. \A i \in 1..Prefetch : prefetches[i] \in PrefetchStates
      BY <2>1 DEF Prefetch
    <3>2. QED
      BY <3>1 DEF PrefetchStates
  <2>3. QED
    BY <2>1, <2>2, SizesAssumption
<1> HIDE DEF source, got
<1>3. /\ start.button = b /\ start.source = source /\ start.taken = got
      /\ start.step = "streaming" /\ start.begun = <<>>
      /\ start \in [button : Buttons \cup {None}, source : 0..MaxAnswers, taken : 0..N,
                    step : Steps, begun : Seq(1..N)]
  <2> DEFINE PlayStates == [button : Buttons \cup {None}, source : 0..MaxAnswers,
                            taken : 0..N, step : Steps, begun : Seq(1..N)]
  <2>1. NoPlay \in PlayStates /\ NoPlay.begun = <<>>
    <3>1. <<>> \in Seq(1..N)
      OBVIOUS
    <3>2. "none" \in Steps /\ 0 \in 0..N /\ 0 \in 0..MaxAnswers
      BY SizesAssumption DEF Steps
    <3>3. QED
      BY <3>1, <3>2 DEF NoPlay
  <2>2. "streaming" \in Steps
    BY DEF Steps
  <2>3. QED
    BY <1>2, <2>1, <2>2
<1>4. Loading \subseteq Sentences
  BY DEF Inductive, TypeOK, Loading, Sentences, Audios
<1>5. plays \in [Plays -> [button : Buttons \cup {None}, source : 0..MaxAnswers,
                           taken : 0..N, step : Steps, begun : Seq(1..N)]]
  BY DEF Inductive, TypeOK
<1>6. blobs \in Seq(Sentences) /\ Len(blobs) = got /\ Run(blobs, g, 0)
  BY <1>1, <1>2, BlobsRun, SizesAssumption
<1> HIDE DEF start, blobs, g
<1>7. CASE got = 0
  <2>1. blobs = <<>> /\ pending' = <<>> /\ audio' = None /\ draining' = FALSE
    <3>1. ~(got > 0)
      BY <1>7
    <3>2. blobs = <<>>
      BY <1>6, <1>7
    <3>3. QED
      BY <1>1, <3>1, <3>2
  <2>2. plays' = [plays EXCEPT ![g] = start]
    BY <1>1, <2>1 DEF Began
  <2>3. TypeOK'
    <3>1. plays' \in [Plays -> [button : Buttons \cup {None}, source : 0..MaxAnswers,
                                taken : 0..N, step : Steps, begun : Seq(1..N)]]
      BY <1>3, <1>5, <2>2
    <3>2. draining' \in BOOLEAN
      BY <2>1
    <3>3. pending' \in Seq(Sentences)
      BY <2>1
    <3>4. generation' \in 0..MaxPresses
      BY <1>1, SizesAssumption DEF Plays
    <3>5. QED
      BY <1>1, <1>4, <2>1, <3>1, <3>2, <3>3, <3>4 DEF Inductive, TypeOK
  <2>4. Numbered'
    <3>1. plays'[g] = start /\ \A h \in Plays : h # g => plays'[h] = plays[h]
      BY <1>1, <1>5, <2>2
    <3>2. \A h \in Plays : h > generation' => h # g /\ h > generation
      BY <1>1 DEF Inductive, TypeOK, Plays, g
    <3>3. QED
      BY <1>1, <1>2, <1>3, <3>1, <3>2 DEF Inductive, Numbered, Prefetch
  <2>5. Queued'
    BY <1>1, <1>3, <1>5, <1>7, <2>1, <2>2 DEF Queued, Run, Current
  <2>6. SpokenInOrder'
    <3>1. plays'[g] = start /\ \A h \in Plays : h # g => plays'[h] = plays[h]
      BY <1>1, <1>5, <2>2
    <3>2. DOMAIN start.begun = {}
      BY <1>3
    <3>3. QED
      BY <3>1, <3>2 DEF Inductive, SpokenInOrder
  <2>7. QED
    BY <1>1, <2>1, <2>3, <2>4, <2>5, <2>6 DEF Inductive, VoiceAlone, AudioOfNow
<1>8. CASE got # 0
  <2>1. /\ blobs # <<>> /\ pending' = Tail(blobs) /\ PlayBlob(Head(blobs))
        /\ draining' = TRUE
    <3>1. got > 0
      BY <1>2, <1>8, SizesAssumption
    <3>2. blobs # <<>>
      BY <1>6, <1>8
    <3>3. QED
      BY <1>1, <3>1, <3>2
  <2>2. /\ Head(blobs) = [play |-> g, n |-> 1] /\ Head(blobs) \in Sentences
        /\ Tail(blobs) \in Seq(Sentences) /\ Len(Tail(blobs)) = got - 1
        /\ Run(Tail(blobs), g, 1)
    <3>1. /\ Head(blobs) = [play |-> g, n |-> 0 + 1] /\ Head(blobs) \in Sentences
          /\ Tail(blobs) \in Seq(Sentences) /\ Len(Tail(blobs)) = Len(blobs) - 1
          /\ Run(Tail(blobs), g, 0 + 1)
      <4>1. 0 \in Nat
        OBVIOUS
      <4>2. QED
        BY <1>6, <2>1, <4>1, RunTail
    <3>2. 0 + 1 = 1
      OBVIOUS
    <3>3. QED
      BY <1>6, <3>1, <3>2
  <2>3. Head(blobs).play = g /\ Head(blobs).n = 1 /\ 1 \in 1..N
    BY <2>2, SizesAssumption
  <2> DEFINE begun == [start EXCEPT !.begun = <<1>>]
  <2>4. plays' = [plays EXCEPT ![g] = begun]
    <3> DEFINE s == [plays EXCEPT ![g] = start]
    <3>1. Began(s, blobs) = [s EXCEPT ![g].begun = Append(@, 1)]
      BY <2>1, <2>3 DEF Began
    <3>2. [s EXCEPT ![g].begun = Append(@, 1)] = [plays EXCEPT ![g] = begun]
      BY <1>1, <1>3, <1>5
    <3>3. QED
      BY <1>1, <3>1, <3>2
  <2>5. /\ begun.button = b /\ begun.source = source /\ begun.taken = got
        /\ begun.step = "streaming" /\ begun.begun = <<1>>
        /\ begun \in [button : Buttons \cup {None}, source : 0..MaxAnswers, taken : 0..N,
                      step : Steps, begun : Seq(1..N)]
    <3>1. <<1>> \in Seq(1..N)
      BY <2>3
    <3>2. QED
      BY <1>3, <3>1
  <2> HIDE DEF begun
  <2>6. audio' = [play |-> g, n |-> 1, state |-> "loading"]
    BY <2>1, <2>3 DEF PlayBlob
  <2>7. audio' \in Audios
    BY <1>1, <2>3, <2>6 DEF Audios
  <2>8. plays'[g] = begun /\ \A h \in Plays : h # g => plays'[h] = plays[h]
    BY <1>1, <1>5, <2>4
  <2>9. TypeOK'
    <3>1. plays' \in [Plays -> [button : Buttons \cup {None}, source : 0..MaxAnswers,
                                taken : 0..N, step : Steps, begun : Seq(1..N)]]
      BY <1>5, <2>4, <2>5
    <3>2. draining' \in BOOLEAN /\ generation' \in 0..MaxPresses
      BY <1>1, <2>1, SizesAssumption DEF Plays
    <3>3. QED
      BY <1>1, <1>4, <2>1, <2>2, <2>7, <3>1, <3>2 DEF Inductive, TypeOK
  <2>10. Numbered'
    <3>1. \A h \in Plays : h > generation' => h # g /\ h > generation
      BY <1>1 DEF Inductive, TypeOK, Plays, g
    <3>2. QED
      BY <1>1, <1>2, <2>5, <2>8, <3>1 DEF Inductive, Numbered, Prefetch
  <2>11. Queued'
    <3>1. Len(begun.begun) = 1 /\ got = 1 + Len(pending')
      BY <1>2, <2>1, <2>2, <2>5, SizesAssumption
    <3>2. Run(pending', g, Len(plays'[g].begun))
      BY <2>1, <2>2, <2>8, <3>1
    <3>3. QED
      BY <1>1, <2>5, <2>8, <3>1, <3>2 DEF Queued, Current
  <2>12. SpokenInOrder'
    BY <2>5, <2>8 DEF Inductive, SpokenInOrder
  <2>13. QED
    BY <1>1, <2>6, <2>9, <2>10, <2>11, <2>12 DEF Inductive, VoiceAlone, AudioOfNow
<1>9. QED
  BY <1>7, <1>8


\* The fallback takes the place of whatever its play had queued.
LEMMA FallbackStep ==
    ASSUME Inductive, NEW g \in Plays, StreamFails(g)
    PROVE  Inductive'
<1>1. /\ plays' = [plays EXCEPT ![g].step = "over"] /\ plays[g].step = "streaming"
      /\ UNCHANGED <<generation, prefetches>>
  BY DEF StreamFails, Failed, Goto
<1>2. TypeOK' \/ ~Current(g)
  <2> SUFFICES ASSUME Current(g) PROVE TypeOK'
    OBVIOUS
  <2>1. /\ pending' = <<>> /\ draining' = FALSE /\ audio' = None
        /\ aborted' = aborted \cup Loading /\ shown' \in Buttons \cup {None}
        /\ voice' \in {voice, g} /\ watched' \subseteq watched \cup Buttons
    <3>1. plays[g].button \in Buttons
      BY <1>1 DEF Inductive, Numbered
    <3>2. /\ pending' = <<>> /\ draining' = FALSE /\ audio' = None
          /\ aborted' = aborted \cup Loading
      BY DEF StreamFails, ReleaseAudio
    <3>3. \/ /\ voice' = g /\ shown' = plays[g].button
             /\ watched' = watched \cup {plays[g].button}
          \/ shown' = None /\ UNCHANGED <<voice, watched>>
      BY DEF StreamFails
    <3>4. QED
      BY <3>1, <3>2, <3>3
  <2>2. Loading \subseteq Sentences
    BY DEF Inductive, TypeOK, Loading, Sentences, Audios
  <2>3. draining' \in BOOLEAN
    BY <2>1
  <2>4. pending' \in Seq(Sentences)
    BY <2>1
  <2>5. plays' \in [Plays -> [button : Buttons \cup {None}, source : 0..MaxAnswers,
                              taken : 0..N, step : Steps, begun : Seq(1..N)]]
    BY <1>1 DEF Inductive, TypeOK, Steps
  <2>6. QED
    BY <1>1, <2>1, <2>2, <2>3, <2>4, <2>5 DEF Inductive, TypeOK
<1>3. CASE Current(g)
  <2>1. /\ pending' = <<>> /\ audio' = None /\ voice' \in {voice, g} /\ generation = g
    BY <1>3 DEF StreamFails, ReleaseAudio, Current
  <2>2. /\ plays'[g].step = "over" /\ \A h \in Plays : plays'[h].begun = plays[h].begun
        /\ \A h \in Plays : plays'[h].source = plays[h].source /\ plays'[h].taken = plays[h].taken
        /\ \A h \in Plays : h # g => plays'[h] = plays[h]
    BY <1>1 DEF Inductive, TypeOK
  <2>3. voice = 0
    BY <1>1, <2>1 DEF Inductive, VoiceAlone
  <2>4. Numbered' /\ SpokenInOrder'
    BY <1>1, <2>1, <2>2 DEF Inductive, Numbered, SpokenInOrder, Prefetch, Plays
  <2>5. Queued'
    <3>1. Run(pending', generation', Len(plays'[g].begun))
      BY <2>1 DEF Run
    <3>2. QED
      BY <1>1, <2>1, <2>2, <3>1 DEF Queued, Current
  <2>6. VoiceAlone' /\ AudioOfNow'
    BY <1>1, <2>1, <2>2, <2>3 DEF VoiceAlone, AudioOfNow
  <2>7. QED
    BY <1>2, <1>3, <2>4, <2>5, <2>6 DEF Inductive
<1>4. CASE ~Current(g)
  <2>1. UNCHANGED <<shown, pending, draining, audio, aborted, voice, watched>>
    BY <1>4 DEF StreamFails
  <2>2. TypeOK' /\ Numbered'
    BY <1>1, <2>1 DEF Inductive, TypeOK, Numbered, Steps, Prefetch
  <2>3. QED
    BY <1>1, <1>4, <2>1, <2>2 DEF Inductive, TypeOK, Queued, VoiceAlone, AudioOfNow,
       SpokenInOrder, Current
<1>5. QED
  BY <1>3, <1>4

\* The next sentence is the one after the last that began.
LEMMA NextSentence ==
    ASSUME Inductive, AudioEnds
    PROVE  Inductive'
<1>1. /\ audio # None /\ UNCHANGED <<generation, aborted, voice, watched, prefetches>>
  BY DEF AudioEnds, AudioIs
<1>2. /\ voice = 0 /\ audio.play = generation /\ audio \in Audios /\ generation \in Plays
  BY <1>1 DEF Inductive, TypeOK, VoiceAlone, AudioOfNow, Audios
<1>3. CASE pending = <<>>
  <2>1. /\ audio' = None /\ draining' = FALSE /\ shown' \in {None, shown}
        /\ UNCHANGED <<plays, pending>>
    BY <1>3 DEF AudioEnds, EndDrain
  <2>2. draining' \in BOOLEAN
    BY <2>1
  <2>3. TypeOK'
    BY <1>1, <2>1, <2>2 DEF Inductive, TypeOK
  <2>4. QED
    BY <1>1, <2>1, <2>3 DEF Inductive, Numbered, Queued, VoiceAlone, AudioOfNow, SpokenInOrder,
       Current, Prefetch
<1>4. CASE pending # <<>>
  <2> DEFINE g == generation
             k == Len(plays[g].begun)
  <2>1. /\ pending' = Tail(pending) /\ UNCHANGED draining /\ plays' = Began(plays, pending)
        /\ PlayBlob(Head(pending))
    BY <1>2, <1>4 DEF AudioEnds, Current
  <2>2. /\ plays[g].begun \in Seq(1..N) /\ k \in Nat /\ pending \in Seq(Sentences)
        /\ Run(pending, g, k) /\ k = Len(plays[g].begun)
        /\ plays \in [Plays -> [button : Buttons \cup {None}, source : 0..MaxAnswers,
                                taken : 0..N, step : Steps, begun : Seq(1..N)]]
    BY <1>2 DEF Inductive, TypeOK, Queued
  <2>3. plays[g].step = "streaming" => plays[g].taken = k + Len(pending)
    BY <1>2 DEF Inductive, Queued, Current
  <2> HIDE DEF k
  <2>4. /\ Head(pending) = [play |-> g, n |-> k + 1] /\ Head(pending) \in Sentences
        /\ Tail(pending) \in Seq(Sentences) /\ Len(Tail(pending)) = Len(pending) - 1
        /\ Run(Tail(pending), g, k + 1) /\ Len(pending) \in Nat
    <3> HIDE DEF g
    <3>1. Len(pending) \in Nat
      BY <2>2
    <3>2. QED
      BY <1>4, <2>2, <3>1, RunTail
  <2>5. Head(pending).play = g /\ Head(pending).n = k + 1 /\ k + 1 \in 1..N
    BY <2>4 DEF Sentences
  <2>6. plays' = [plays EXCEPT ![g].begun = Append(@, k + 1)]
    BY <1>4, <2>1, <2>5 DEF Began
  <2>7. Append(plays[g].begun, k + 1) \in Seq(1..N)
    BY <2>2, <2>5
  <2>8. /\ plays'[g].begun = Append(plays[g].begun, k + 1) /\ plays'[g].taken = plays[g].taken
        /\ plays'[g].step = plays[g].step /\ plays'[g].button = plays[g].button
        /\ plays'[g].source = plays[g].source
        /\ \A h \in Plays : h # g => plays'[h] = plays[h]
        /\ plays' \in [Plays -> [button : Buttons \cup {None}, source : 0..MaxAnswers,
                                 taken : 0..N, step : Steps, begun : Seq(1..N)]]
    <3>1. g \in Plays
      BY <1>2
    <3> HIDE DEF g
    <3>2. QED
      BY <2>2, <2>6, <2>7, <3>1
  <2>9. /\ Len(plays'[g].begun) = k + 1
        /\ \A i \in 1..k : plays'[g].begun[i] = plays[g].begun[i]
        /\ plays'[g].begun[k + 1] = k + 1
        /\ DOMAIN plays'[g].begun = 1..(k + 1) /\ DOMAIN plays[g].begun = 1..k
    BY <2>2, <2>5, <2>8
  <2>10. audio' = [play |-> g, n |-> k + 1, state |-> "loading"] /\ shown' = plays[g].button
    BY <2>1, <2>5, <2>8 DEF PlayBlob
  <2>11. audio' \in Audios /\ shown' \in Buttons \cup {None}
    BY <1>2, <2>2, <2>5, <2>10 DEF Audios
  <2>12. TypeOK'
    BY <1>1, <2>1, <2>4, <2>8, <2>11 DEF Inductive, TypeOK
  <2>13. Numbered'
    BY <1>1, <1>2, <2>8 DEF Inductive, Numbered, Prefetch, Plays
  <2>14. Queued'
    <3>1. Run(pending', generation', Len(plays'[g].begun))
      BY <1>1, <2>1, <2>4, <2>9
    <3>2. k + Len(pending) = (k + 1) + Len(pending')
      BY <2>1, <2>2, <2>4
    <3>3. plays'[g].step = "streaming" =>
            plays'[g].taken = Len(plays'[g].begun) + Len(pending')
      BY <2>3, <2>8, <2>9, <3>2
    <3>4. QED
      BY <1>1, <1>2, <3>1, <3>3 DEF Queued, Current
  <2>15. SpokenInOrder'
    <3> SUFFICES ASSUME NEW h \in Plays, NEW i \in DOMAIN plays'[h].begun
                 PROVE  plays'[h].begun[i] = i
      BY DEF SpokenInOrder
    <3>1. CASE h # g
      BY <2>8, <3>1 DEF Inductive, SpokenInOrder
    <3>2. CASE h = g /\ i = k + 1
      BY <2>9, <3>2
    <3>3. CASE h = g /\ i # k + 1
      <4>1. i \in 1..k
        BY <2>2, <2>9, <3>3
      <4>2. plays[g].begun[i] = i
        BY <1>2, <2>9, <4>1 DEF Inductive, SpokenInOrder
      <4>3. QED
        BY <2>9, <3>3, <4>1, <4>2
    <3>4. QED
      BY <3>1, <3>2, <3>3
  <2>16. VoiceAlone' /\ AudioOfNow'
    BY <1>1, <1>2, <2>10 DEF VoiceAlone, AudioOfNow
  <2>17. QED
    BY <2>12, <2>13, <2>14, <2>15, <2>16 DEF Inductive
<1>5. QED
  BY <1>3, <1>4

\* Sentences of a stream or a prefetch; a stopped play only counts them.
LEMMA TakeStep ==
    ASSUME Inductive, NEW g \in Plays, Receive(g) \/ TakePrefetched(g)
    PROVE  Inductive'
<1>1. CASE Receive(g) /\ Current(g)
  <2>1. plays[g].taken + 1 \in 0..N /\ plays[g].taken < plays[g].taken + 1
    BY <1>1, SizesAssumption, SMTT(30) DEF Receive, Inductive, TypeOK
  <2>2. /\ Enqueue(Blobs(g, plays[g].taken, plays[g].taken + 1),
                   [plays EXCEPT ![g].taken = plays[g].taken + 1])
        /\ plays[g].step = "streaming" /\ UNCHANGED <<generation, voice, watched, prefetches>>
    BY <1>1 DEF Receive, Streams
  <2>3. QED
    BY <1>1, <2>1, <2>2, EnqueueKeeps
<1>2. CASE Receive(g) /\ ~Current(g)
  <2>1. /\ Enqueue(<<>>, [plays EXCEPT ![g].taken = plays[g].taken + 1])
        /\ plays[g].taken < N /\ UNCHANGED <<generation, voice, watched, prefetches>>
    BY <1>2 DEF Receive
  <2>2. /\ pending' = pending \o <<>> /\ plays' = [plays EXCEPT ![g].taken = plays[g].taken + 1]
        /\ UNCHANGED <<shown, draining, audio, aborted>>
    BY <2>1 DEF Enqueue
  <2>3. pending' = pending
    BY <2>2 DEF Inductive, TypeOK
  <2>4. plays[g].taken + 1 \in 0..N
    BY <2>1, SizesAssumption DEF Inductive, TypeOK
  <2>5. TypeOK' /\ Numbered'
    BY <2>1, <2>2, <2>3, <2>4 DEF Inductive, TypeOK, Numbered, Prefetch
  <2>6. QED
    BY <1>2, <2>1, <2>2, <2>3, <2>5, SMTT(30) DEF Inductive, TypeOK, Queued, VoiceAlone, AudioOfNow,
       SpokenInOrder, Current
<1>3. CASE TakePrefetched(g)
  <2> DEFINE got == prefetches[plays[g].source].got
  <2>1. /\ Current(g) /\ plays[g].step = "streaming" /\ plays[g].source > 0
        /\ plays[g].taken < got /\ Enqueue(Blobs(g, plays[g].taken, got),
                                           [plays EXCEPT ![g].taken = got])
        /\ UNCHANGED <<generation, voice, watched, prefetches>>
    BY <1>3 DEF TakePrefetched
  <2>2. got \in 0..N
    <3>1. prefetches \in Seq(PrefetchStates) /\ plays[g].source \in 1..Len(prefetches)
      BY <2>1 DEF Inductive, TypeOK, Numbered, Prefetch, PrefetchStates
    <3>2. prefetches[plays[g].source] \in PrefetchStates
      BY <3>1
    <3>3. QED
      BY <3>2 DEF PrefetchStates
  <2> HIDE DEF got
  <2>3. QED
    BY <2>1, <2>2, EnqueueKeeps
<1>4. QED
  BY <1>1, <1>2, <1>3

-----------------------------------------------------------------------------
(* The results                                                             *)

\* The first state satisfies the invariant.
LEMMA InitHolds == Init => Inductive
<1> SUFFICES ASSUME Init PROVE Inductive
  OBVIOUS
<1>1. NoPlay \in [button : Buttons \cup {None}, source : 0..MaxAnswers, taken : 0..N,
                  step : Steps, begun : Seq(1..N)]
  <2>1. <<>> \in Seq(1..N)
    OBVIOUS
  <2>2. "none" \in Steps /\ 0 \in 0..N /\ 0 \in 0..MaxAnswers
    BY SizesAssumption DEF Steps
  <2>3. QED
    BY <2>1, <2>2 DEF NoPlay
<1>2. draining \in BOOLEAN
  BY DEF Init
<1>3. pending \in Seq(Sentences)
  BY DEF Init
<1>4. prefetches \in Seq([text : Texts, got : 0..N, done : BOOLEAN])
  BY DEF Init
<1>5. TypeOK
  BY <1>1, <1>2, <1>3, <1>4, SizesAssumption DEF Init, TypeOK
<1>6. Numbered
  BY SizesAssumption DEF Init, Numbered, Prefetch, NoPlay
<1>7. Queued
  BY DEF Init, Queued, Plays, Current
<1>8. SpokenInOrder
  BY DEF Init, SpokenInOrder, NoPlay
<1>9. QED
  BY <1>5, <1>6, <1>7, <1>8 DEF Inductive, Init, VoiceAlone, AudioOfNow

\* The invariant holds in every state.
LEMMA InductiveHolds == Spec => []Inductive
<1>1. Inductive /\ [Next]_vars => Inductive'
  BY QuietStep, StopStep, PlayStarts, FallbackStep, NextSentence, TakeStep
     DEF Next, PlayStep, AudioStep
<1>2. QED
  BY InitHolds, <1>1, PTL DEF Spec

\* The module's variables keep their types, whatever is pressed and whatever fails.
THEOREM TypesHold == Spec => []TypeOK
<1>1. Inductive => TypeOK
  BY DEF Inductive
<1>2. QED
  BY InductiveHolds, <1>1, PTL

\* Piper and the browser's voice never read at the same time: playBrowserFallback has
\* cleared the queue, and its play does not queue another sentence.
THEOREM OneVoiceHolds == Spec => []OneVoice
<1>1. Inductive => OneVoice
  BY DEF Inductive, VoiceAlone, OneVoice
<1>2. QED
  BY InductiveHolds, <1>1, PTL

\* playGeneration does its work: however many streams, polls and drains of stopped
\* plays go on, what is heard or queued is of the last press.
THEOREM StoppedStaysSilentHolds == Spec => []StoppedStaysSilent
<1>1. Inductive => StoppedStaysSilent
  <2> SUFFICES ASSUME Inductive PROVE StoppedStaysSilent
    OBVIOUS
  <2>1. ASSUME NEW i \in DOMAIN pending
        PROVE  pending[i].play = generation
    <3>1. i \in 1..Len(pending) /\ pending # <<>>
      BY DEF Inductive, TypeOK
    <3>2. PICK k \in Nat : pending[i] = [play |-> generation, n |-> k]
      <4>1. generation \in Plays /\ Run(pending, generation, Len(plays[generation].begun))
        BY <3>1 DEF Inductive, Queued
      <4>2. plays[generation].begun \in Seq(1..N)
        BY <4>1 DEF Inductive, TypeOK
      <4>3. Len(plays[generation].begun) + i \in Nat
        BY <3>1, <4>2
      <4>4. QED
        BY <3>1, <4>1, <4>3 DEF Run
    <3>3. QED
      BY <3>2
  <2>2. QED
    BY <2>1 DEF Inductive, VoiceAlone, AudioOfNow, StoppedStaysSilent
<1>2. QED
  BY InductiveHolds, <1>1, PTL

\* Sentences begin in the order of the answer, none twice and none left out, for an
\* answer of any length and whichever of stream, prefetch and drains brings them.
THEOREM SpokenInOrderHolds == Spec => []SpokenInOrder
<1>1. Inductive => SpokenInOrder
  BY DEF Inductive
<1>2. QED
  BY InductiveHolds, <1>1, PTL
=============================================================================
