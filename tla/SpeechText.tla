----------------------------- MODULE SpeechText -----------------------------
(***************************************************************************)
(* How TtsService cuts an answer into chunks a voice can speak.  Of a text *)
(* only its length matters, where its blanks are (its markup is gone and   *)
(* its white space is single blanks) and what stands before them.  A piece *)
(* of the text is the characters from one position up to another.          *)
(***************************************************************************)
EXTENDS Naturals, FiniteSets, Sequences, FiniteSetsExt

CONSTANTS
    MaxChars,      \* tts_max_chars
    FirstChars,    \* tts_first_chunk_chars
    MinFragment    \* a shorter rest without a full stop joins the sentence before it; 12

ASSUME CharsAssumption ==
    MaxChars \in Nat \ {0} /\ FirstChars \in Nat \ {0} /\ MinFragment \in Nat

\* blanks: the positions of the blanks; stops and commas: those behind a full stop and
\* behind a comma; closed: the text ends with a full stop.
IsText(t) ==
    /\ t.len \in Nat /\ t.stops \in SUBSET t.blanks /\ t.commas \in SUBSET t.blanks
    /\ \A b \in t.blanks : b \in Nat /\ 0 < b /\ b + 1 < t.len /\ b + 1 \notin t.blanks

\* Where the piece ends that has only the last of some breaks behind it.
FirstBreak(breaks, from, to) == Min({b \in breaks : from < b /\ b < to} \cup {to})

\* Sentences end at full stops; a short rest behind the last one belongs to its sentence.
SentenceBreaks(t) ==
    {b \in t.stops : \/ t.closed \/ t.len - b - 1 >= MinFragment
                     \/ \E c \in t.stops : b < c}

\* Where the chunk ends that begins at from: at the last clause of its sentence that fits,
\* or if not even the first fits, at the last word of that clause that fits, or if that
\* word fits in no chunk, inside of it; the parts of such a word are chunks of their own.
ChunkEnd(t, from, to, limit) ==
    LET sentence == FirstBreak(SentenceBreaks(t), from, to)
        clause == FirstBreak(t.commas, from, sentence)
        word == FirstBreak(t.blanks, from, clause)
        behind(breaks) == from = 0 \/ from - 1 \in breaks
        last(breaks, end) ==
            Max({b \in breaks \cup {end} : from < b /\ b <= end /\ b - from <= limit})
    IN  IF clause - from <= limit /\ behind(t.commas \cup SentenceBreaks(t))
        THEN last(t.commas, sentence)
        ELSE IF word - from <= limit
        THEN IF behind(t.blanks) THEN last(t.blanks, clause) ELSE word
        ELSE from + limit

\* Where the text goes on behind a piece.
Resume(t, to) == IF to \in t.blanks THEN to + 1 ELSE to

\* The chunks of the text from every position up to an end (_split_oversized, _split_by_words).
Cut(t, to, limit) ==
    LET chunks[from \in 0 .. to + 1] ==
          IF from >= to THEN <<>>
          ELSE LET end == ChunkEnd(t, from, to, limit)
               IN  <<[from |-> from, to |-> end]>> \o chunks[Resume(t, end)]
    IN  chunks

first_cap == IF FirstChars <= MaxChars THEN FirstChars ELSE MaxChars

\* Sentences, oversized ones cut further, and a short first chunk.
split_sentences(t) ==
    LET chunks == Cut(t, t.len, MaxChars)[0]
    IN  IF chunks = <<>> \/ Head(chunks).to <= first_cap THEN chunks
        ELSE Cut(t, Head(chunks).to, first_cap)[0] \o Tail(chunks)

-----------------------------------------------------------------------------
\* The chunks say the text: each goes on where the one before it ended, none is empty,
\* and nothing comes behind the last.
Says(chunks, t) ==
    LET begin(i) == IF i = 1 THEN 0 ELSE Resume(t, chunks[i - 1].to)
    IN  /\ \A i \in DOMAIN chunks : chunks[i].from = begin(i) /\ begin(i) < chunks[i].to
        /\ begin(Len(chunks) + 1) = t.len
=============================================================================
