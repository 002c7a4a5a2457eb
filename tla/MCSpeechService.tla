--------------------------- MODULE MCSpeechService ---------------------------
(* Four requests: one user asks twice for one text, another user shares the
   address, and a fourth comes from elsewhere. *)
EXTENDS SpeechService, TLC

CONSTANTS r1, r2, r3, r4, i1, i2, u1, u2, t1, t2

Callers == [r \in {r1, r2, r3, r4} |->
    CASE r = r1 -> [ip |-> i1, user |-> u1, text |-> t1]
      [] r = r2 -> [ip |-> i1, user |-> u1, text |-> t1]
      [] r = r3 -> [ip |-> i1, user |-> u2, text |-> t2]
      [] r = r4 -> [ip |-> i2, user |-> u1, text |-> t1]]

\* r1 and r2 ask for the same from the same place.
Twins == Permutations({r1, r2})

\* "So. Fifty" is two chunks; "Six, fourteen." three, of two clauses, one of them a word
\* that no chunk can hold.
Text1 == [len |-> 8, blanks |-> {2}, stops |-> {2}, commas |-> {}, closed |-> FALSE]
Text2 == [len |-> 12, blanks |-> {3}, stops |-> {}, commas |-> {3}, closed |-> TRUE]
TwoTexts == [t \in {t1, t2} |-> IF t = t1 THEN Text1 ELSE Text2]
Varying == [t \in {t1, t2} |-> IF t = t1 THEN {2, 3} ELSE {2}]

\* Every text of at most MaxLength characters, with blanks and marks wherever they can be:
\* its chunks say it, none is longer than tts_max_chars, and the first is as short as was
\* asked for ("Nothing is truncated away": split_sentences).
MaxLength == 10
Blanks(n) == {b \in SUBSET (1 .. n) : \A i \in b : i + 1 < n /\ i + 1 \notin b}
Marked(n, b) == {[len |-> n, blanks |-> b, stops |-> s, commas |-> c, closed |-> e] :
                   s \in SUBSET b, c \in SUBSET b, e \in BOOLEAN}
Samples == UNION {UNION {Marked(n, b) : b \in Blanks(n)} : n \in 0 .. MaxLength}
ASSUME SplitSaysAll ==
    \A t \in Samples :
        LET chunks == split_sentences(t)
        IN  /\ IsText(t) /\ Says(chunks, t)
            /\ \A i \in DOMAIN chunks : chunks[i].to - chunks[i].from <= MaxChars
            /\ t.len > 0 => chunks[1].to <= first_cap
=============================================================================
