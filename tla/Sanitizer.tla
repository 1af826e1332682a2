----------------------------- MODULE Sanitizer -----------------------------
(***************************************************************************)
(* sanitize of src/sanctum/sanitize.py.  A text is a sequence of symbols:  *)
(* "a" and "e" stand for plain characters of one and two bytes, "i" for an *)
(* invisible codepoint of three, and "x", "y", "z" for halves of injection *)
(* patterns.  Marker and Note are abstracted to two symbols and one; the   *)
(* marker can be cut in two by the truncation.                             *)
(***************************************************************************)
EXTENDS Naturals, Sequences, FiniteSetsExt, SequencesExt

Symbols == {"a", "e", "i", "x", "y", "z"}

Width(c) == CASE c = "e" -> 2 [] c = "i" -> 3 [] OTHER -> 1

Bytes(text) == FoldLeft(LAMBDA n, c : n + Width(c), 0, text)

(* _INJECTION_PATTERNS, in the order they are applied.                     *)
Patterns == << <<"x", "y">>, <<"x", "z">> >>

Marker == <<"[", "]">>

Note == <<"T">>

Invisible(c) == c = "i"

Strip(text) ==
    FoldLeft(LAMBDA acc, c : IF Invisible(c) THEN acc ELSE Append(acc, c),
             <<>>, text)

(* pattern.subn: every occurrence becomes the marker.                      *)
Redact(text, pattern) ==
    FoldLeft(LAMBDA acc, c :
               IF acc # <<>> /\ <<Last(acc), c>> = pattern
               THEN Front(acc) \o Marker
               ELSE Append(acc, c),
             <<>>, text)

RedactAll(text) == FoldLeft(Redact, text, Patterns)

MutCleaned(text) == Strip(RedactAll(text))

(* First the invisibles, so that none can hide a pattern.                  *)
Cleaned(text) == RedactAll(Strip(text))

(* The longest prefix of whole characters within maxBytes, and the note.   *)
Truncate(text, maxBytes) ==
    LET Fits(n) == Bytes(SubSeq(text, 1, n)) <= maxBytes IN
    SubSeq(text, 1, Max({n \in 0..Len(text) : Fits(n)})) \o Note

(* Too large an input is refused before it is looked at.                   *)
Sanitize(raw, maxBytes, maxInput) ==
    LET clean == Cleaned(raw)
        tooLong == Bytes(clean) > maxBytes
    IN IF Bytes(raw) > maxInput
       THEN [kind |-> "too_large", payload |-> <<>>, truncated |-> FALSE]
       ELSE [kind |-> "sanitized",
             payload |-> IF tooLong THEN Truncate(clean, maxBytes) ELSE clean,
             truncated |-> tooLong]

-----------------------------------------------------------------------------
Occurs(pattern, text) ==
    \E k \in 1..(Len(text) - 1) : SubSeq(text, k, k + 1) = pattern

(* Nothing in the text is to be stripped or redacted.                      *)
Innocent(text) ==
    /\ \A k \in 1..Len(text) : ~Invisible(text[k])
    /\ \A p \in 1..Len(Patterns) : ~Occurs(Patterns[p], text)

=============================================================================
