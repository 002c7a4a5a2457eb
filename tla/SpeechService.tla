--------------------------- MODULE SpeechService ---------------------------
(***************************************************************************)
(* Speech on the server: the two routes of /api/voice with their rate      *)
(* limit, and TtsService with its voice and its cache of synthesized       *)
(* answers.  A route runs on the event loop; the synthesis runs in a       *)
(* worker thread, which goes on to its end whether or not the client still *)
(* listens.  The heavy lock makes the loading of the voice, a chunk, and a *)
(* whole synthesis of /speak one step each (HeavyLock models the lock).    *)
(***************************************************************************)
EXTENDS RateLimit, SpeechText

CONSTANTS
    Requests,      \* POST /api/voice/speak and /api/voice/speak-stream
    Piecewise,     \* those of speak-stream
    Of,            \* [Requests -> [ip, user, text]]
    Content,       \* what is left to speak of a text, see IsText
    Sizes,         \* bytes a synthesis of a text can have (Piper's timing varies)
    MaxEntries,    \* tts_wav_cache_max
    MaxBytes,      \* tts_wav_cache_max_bytes
    RateLimit,     \* tts_rate_limit_per_minute
    MaxTime,       \* bound: time
    MaxMoves       \* bound: times the voice's file appears or disappears

Texts == {Of[r].text : r \in Requests}
Chunks == [t \in Texts |-> split_sentences(Content[t])]

\* The keys of addresses and of users differ ("scope:ip:...", "scope:id:...").
ASSUME SpeechAssumption ==
    /\ Piecewise \subseteq Requests
    /\ \A q, r \in Requests : Of[q].ip # Of[r].user
    /\ \A t \in Texts : IsText(Content[t]) /\ Sizes[t] \subseteq Nat
    /\ MaxEntries \in Nat /\ MaxBytes \in Nat /\ RateLimit \in Nat \ {0}
    /\ MaxTime \in Nat /\ MaxMoves \in Nat

VARIABLES
    file,         \* whether the voice's model file is there
    voice,        \* _voice is loaded
    load_error,   \* _load_error is set
    step,         \* where a request stands
    sent,         \* chunks its worker has handed over
    cache,        \* _wav_cache, oldest first: [text, wavs, size]
    bytes,        \* _wav_cache_bytes
    moves

tts == <<file, voice, load_error, step, sent, cache, bytes, moves>>
speechVars == <<limiter, tts>>

Steps == {"new", "refused", "unavailable", "queued", "missed", "speaking", "failed", "over"}

\* The startup may have tried to load the voice (preload).
InitSpeech ==
    /\ InitLimiter
    /\ file \in BOOLEAN /\ voice \in BOOLEAN /\ load_error = (~voice /\ ~file)
    /\ step = [r \in Requests |-> "new"] /\ sent = [r \in Requests |-> 0]
    /\ cache = <<>> /\ bytes = 0 /\ moves = 0

To(r, s) == step' = [step EXCEPT ![r] = s]
Text(r) == Of[r].text

is_available == ~load_error /\ (voice \/ file)

\* speak and speak_stream, up to the hand-over to a worker thread.
Route(r) ==
    /\ step[r] = "new"
    /\ \E admitted \in BOOLEAN :
        /\ enforce_rate_limit(Of[r].ip, Of[r].user, RateLimit, admitted)
        /\ To(r, IF ~admitted THEN "refused"
                 ELSE IF ~is_available THEN "unavailable"
                 ELSE IF Len(Chunks[Text(r)]) = 0 THEN "refused" ELSE "queued")
    /\ UNCHANGED <<file, voice, load_error, sent, cache, bytes, moves>>

-----------------------------------------------------------------------------
(* The cache: every operation runs under the class's lock.                 *)

Entries(t) == {i \in DOMAIN cache : cache[i].text = t}
Without(i) == SubSeq(cache, 1, i - 1) \o SubSeq(cache, i + 1, Len(cache))

\* The bytes of the first entries.
Sums(c) ==
    LET sum[n \in 0 .. Len(c)] == IF n = 0 THEN 0 ELSE sum[n - 1] + c[n].size
    IN  sum
Minus(b, n) == IF b >= n THEN b - n ELSE 0

\* _cache_evict_locked: the oldest entries go until both budgets are met.
Evict(c, b) ==
    LET left(n) == Minus(b, Sums(c)[n])
        gone == Min({n \in 0 .. Len(c) :
                        n = Len(c) \/ (Len(c) - n <= MaxEntries /\ left(n) <= MaxBytes)})
    IN  cache' = SubSeq(c, gone + 1, Len(c)) /\ bytes' = left(gone)

\* A slip a run rejects: an entry that is replaced keeps its bytes on the account.
CachePut_Mcounts_twice(t, n, size) ==
    LET entry == [text |-> t, wavs |-> n, size |-> size]
    IN  IF MaxEntries = 0 \/ MaxBytes = 0 \/ size > MaxBytes THEN UNCHANGED <<cache, bytes>>
        ELSE IF Entries(t) = {} THEN Evict(Append(cache, entry), bytes + size)
        ELSE \E i \in Entries(t) : Evict(Append(Without(i), entry), bytes + size)

\* _cache_put: an answer beyond the whole budget is not kept, an older one is replaced.
CachePut(t, n, size) ==
    LET entry == [text |-> t, wavs |-> n, size |-> size]
    IN  IF MaxEntries = 0 \/ MaxBytes = 0 \/ size > MaxBytes THEN UNCHANGED <<cache, bytes>>
        ELSE IF Entries(t) = {} THEN Evict(Append(cache, entry), bytes + size)
        ELSE \E i \in Entries(t) :
               Evict(Append(Without(i), entry), Minus(bytes, cache[i].size) + size)

\* _cache_get and the replay of what it found.
Lookup(r) ==
    /\ step[r] = "queued" /\ r \in Piecewise
    /\ \/ /\ Entries(Text(r)) = {}
          /\ To(r, "missed") /\ UNCHANGED <<sent, cache>>
       \/ \E i \in Entries(Text(r)) :
            /\ cache' = Append(Without(i), cache[i])
            /\ sent' = [sent EXCEPT ![r] = cache[i].wavs]
            /\ To(r, "over")
    /\ UNCHANGED <<limiter, file, voice, load_error, bytes, moves>>

-----------------------------------------------------------------------------
(* The voice and the synthesis, in the worker thread.                      *)

\* _ensure_voice gives the voice: it is there, or it is loaded now.
HasVoice ==
    /\ voice \/ (~load_error /\ file)
    /\ voice' = TRUE /\ UNCHANGED load_error

\* It does not: an earlier failure is remembered, the file has gone, or loading raises,
\* before the voice is set or after it (_build_syn_config).
NoVoice ==
    /\ ~voice /\ load_error' = TRUE
    /\ IF load_error \/ ~file THEN UNCHANGED voice ELSE voice' \in BOOLEAN

Voiced(r) ==
    /\ step[r] = "missed"
    /\ \/ HasVoice /\ To(r, "speaking")
       \/ NoVoice /\ To(r, "unavailable")
    /\ UNCHANGED <<limiter, file, sent, cache, bytes, moves>>

Chunk(r) ==
    /\ step[r] = "speaking" /\ sent[r] < Len(Chunks[Text(r)])
    /\ sent' = [sent EXCEPT ![r] = @ + 1]
    /\ UNCHANGED <<limiter, file, voice, load_error, step, cache, bytes, moves>>

\* A slip a run rejects: what was synthesized before the failure is cached.
ChunkFails_Mcached(r) ==
    /\ step[r] = "speaking" /\ sent[r] < Len(Chunks[Text(r)])
    /\ To(r, "failed")
    /\ \E size \in Sizes[Text(r)] : CachePut(Text(r), sent[r], size)
    /\ UNCHANGED <<limiter, file, voice, load_error, sent, moves>>

ChunkFails(r) ==
    /\ step[r] = "speaking" /\ sent[r] < Len(Chunks[Text(r)])
    /\ To(r, "failed")
    /\ UNCHANGED <<limiter, file, voice, load_error, sent, cache, bytes, moves>>

\* Behind the last chunk the answer is cached.
Spoken(r) ==
    /\ step[r] = "speaking" /\ sent[r] = Len(Chunks[Text(r)])
    /\ \E size \in Sizes[Text(r)] : CachePut(Text(r), sent[r], size)
    /\ To(r, "over")
    /\ UNCHANGED <<limiter, file, voice, load_error, sent, moves>>

\* synthesize: everything in one section, nothing cached.
SpeakWhole(r) ==
    /\ step[r] = "queued" /\ r \notin Piecewise
    /\ \/ HasVoice /\ To(r, "over") /\ sent' = [sent EXCEPT ![r] = Len(Chunks[Text(r)])]
       \/ HasVoice /\ To(r, "failed") /\ UNCHANGED sent
       \/ NoVoice /\ To(r, "unavailable") /\ UNCHANGED sent
    /\ UNCHANGED <<limiter, file, cache, bytes, moves>>

\* The file of the voice is put there, or removed.
MoveFile ==
    /\ moves < MaxMoves /\ moves' = moves + 1
    /\ file' = ~file
    /\ UNCHANGED <<limiter, voice, load_error, step, sent, cache, bytes>>

TimePasses == now < MaxTime /\ Tick /\ UNCHANGED tts

NextSpeech ==
    \/ \E r \in Requests : \/ Route(r) \/ Lookup(r) \/ Voiced(r) \/ Chunk(r)
                           \/ ChunkFails(r) \/ Spoken(r) \/ SpeakWhole(r)
    \/ MoveFile \/ TimePasses

SpeechSpec == InitSpeech /\ [][NextSpeech]_speechVars

-----------------------------------------------------------------------------
(* Properties.                                                             *)

\* The byte account is exactly what the entries hold, no text is held twice, and both
\* budgets are kept, although two requests for one text can both miss and both store it
\* with different sizes (_cache_put, _cache_evict_locked).
AccountExact ==
    /\ bytes = Sums(cache)[Len(cache)] /\ bytes <= MaxBytes
    /\ Len(cache) <= MaxEntries
    /\ \A t \in Texts : Cardinality(Entries(t)) <= 1

\* A request that ends well has had chunks that say its whole text, every bit of it
\* once and in order, whether they were synthesized for it or replayed: no cut loses a
\* word, and a synthesis that failed half way leaves nothing to replay
\* (split_sentences, synthesize_sentences).
PlaysWhole ==
    \A r \in Requests : step[r] = "over" =>
        Says(SubSeq(Chunks[Text(r)], 1, sent[r]), Content[Text(r)])

\* The dictionary never outgrows its cap, and as long as no more keys were seen than the
\* cap, the limits of every address and every user hold in every window; beyond it a key
\* may be dropped with its hits (enforce_rate_limit, _prune_locked).
RateKept ==
    /\ KeysBounded
    /\ \A r \in Requests : /\ Kept(Of[r].ip, RateLimit)
                           /\ Kept(Of[r].user, identity_limit(RateLimit))
=============================================================================
