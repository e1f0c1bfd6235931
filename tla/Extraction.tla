------------------------------ MODULE Extraction ------------------------------
(***************************************************************************)
(* extract (crates/core/src/extract/mod.rs): the entities a text mentions. *)
(* Store::write and update_content link a memory to them, and recall looks *)
(* for those of its query.  Here it is a function of a text; Mentions of   *)
(* Store.tla is what it says of each content.                              *)
(*                                                                         *)
(* A character is one of its class: "x", "y" and "X" letters, "5" and "0"  *)
(* digits, "u" a letter or digit outside ASCII, "_", ".", "-", "(" and "+" *)
(* themselves, "/" a slash or a backslash, and " " everything else.  Names *)
(* are sequences of those.                                                 *)
(***************************************************************************)
EXTENDS Integers, SequencesExt

CONSTANTS
  Libraries, Concepts, \* KNOWN_LIBRARIES and KNOWN_CONCEPTS, in lower case
  Commands,            \* KNOWN_COMMANDS
  Extensions           \* FILE_EXTS

Digits   == {"5", "0"}
WordByte == {"x", "y", "X", "_"} \cup Digits   \* is_word_byte
Char     == WordByte \cup {"u", ".", "-", "/", "(", "+", " "}

\* Where the word n overlaps itself there is a word byte before the overlap,
\* as in "php", so only one of two overlapping occurrences can be a word.
OverlapsInside(n) ==
  \A i \in 1 .. Len(n) - 1 :
    SubSeq(n, i + 1, Len(n)) = SubSeq(n, 1, Len(n) - i) => n[i] \in WordByte

\* What the words of the lexicon have in common: commands have blanks inside,
\* libraries and concepts do not.
ASSUME ExtractionConstants ==
  /\ \A n \in Libraries \cup Concepts :
       n \in Seq(Char) /\ n # <<>> /\ " " \notin ToSet(n) /\ OverlapsInside(n)
  /\ Commands \subseteq Seq(Char)

-----------------------------------------------------------------------------
(* Words.                                                                  *)

\* to_lowercase.  The case of letters outside ASCII is left out.
Lower(s) == [i \in DOMAIN s |-> IF s[i] = "X" THEN "x" ELSE s[i]]

Only(s, C) == ToSet(s) \subseteq C
Some(s, C) == ToSet(s) \cap C # {}

\* The needle n is at position p of the haystack h.
OccursAt(h, n, p) == p + Len(n) - 1 <= Len(h) /\ SubSeq(h, p, p + Len(n) - 1) = n

\* No letter, digit or underscore before it nor behind it.
Bounded(h, n, p) ==
  /\ p = 1 \/ h[p - 1] \notin WordByte
  /\ p + Len(n) > Len(h) \/ h[p + Len(n)] \notin WordByte

\* Mutant: the first occurrence decides.
ContainsWordFirst(h, n) ==
  \E p \in DOMAIN h : /\ OccursAt(h, n, p) /\ Bounded(h, n, p)
                      /\ \A q \in 1 .. p - 1 : ~OccursAt(h, n, q)

\* contains_word: from one occurrence to the next that does not overlap it.
ContainsWord(h, n) ==
  LET found[start \in 1 .. Len(h) + 1] ==
        LET places == {p \in start .. Len(h) : OccursAt(h, n, p)} IN
          /\ places # {}
          /\ LET p == Min(places) IN Bounded(h, n, p) \/ found[p + Len(n)]
  IN n # <<>> /\ found[1]

-----------------------------------------------------------------------------
(* Tokens.                                                                 *)

\* A letter outside ASCII is part of a token.
TokenChars == WordByte \cup {"u", ".", "-", "/", "("}

\* tokens: the longest runs of token characters.
Tokens(s) ==
  {SubSeq(s, r[1], r[2]) : r \in {q \in (DOMAIN s) \X (DOMAIN s) :
     /\ q[1] <= q[2] /\ Only(SubSeq(s, q[1], q[2]), TokenChars)
     /\ q[1] = 1 \/ s[q[1] - 1] \notin TokenChars
     /\ q[2] = Len(s) \/ s[q[2] + 1] \notin TokenChars}}

\* trim_end_matches.
TrimEnd(s, C) == SubSeq(s, 1, Max({0} \cup {i \in DOMAIN s : s[i] \notin C}))

-----------------------------------------------------------------------------
(* Entities.                                                               *)

\* An HTTP status is an error from 400 to 599, here when it starts with 5.
Http(t) == <<"X", "X", "X", "X", "_">> \o t

\* extract_errors.
Errors(s) ==
  {Http(t) : t \in {u \in Tokens(s) : Len(u) = 3 /\ Only(u, Digits) /\ u[1] = "5"}}
    \cup {t \in Tokens(s) : /\ Len(t) >= 4 /\ Only(t, {"X", "_"} \cup Digits) /\ Some(t, {"X"})
                            /\ Some(t, {"_"}) \/ Len(t) >= 6}

\* The length in bytes; a character outside ASCII has two or more, here two.
Bytes(s) == Len(s) + Cardinality({i \in DOMAIN s : s[i] = "u"})

\* extract_files.
Files(s) ==
  {f \in {TrimEnd(t, {"."}) : t \in {u \in Tokens(s) :
            Some(u, {"/"}) \/ \E e \in Extensions : IsSuffix(e, Lower(u))}} : Bytes(f) >= 3}

\* extract_symbols.
Symbols(s) ==
  {raw \in {TrimEnd(t, {"("}) : t \in {u \in Tokens(s) :
             LET r == TrimEnd(u, {"("}) IN
               \/ Some(r, {"x", "y"}) /\ Some(r, {"X"})
               \/ Some(r, {"_"}) /\ Len(r) >= 5
               \/ Last(u) = "("}} :
     /\ Len(raw) >= 3 /\ Only(raw, WordByte) /\ ~Only(raw, Digits)
     /\ Lower(raw) \notin Libraries \cup Concepts}

\* What the text mentions, as it spells it.
Spelled(s) ==
  LET word(L) == {w \in L : ContainsWord(Lower(s), w)}
      is(kind, N) == {[kind |-> kind, name |-> n] : n \in N}
  IN is("Library", word(Libraries)) \cup is("Concept", word(Concepts))
       \cup is("Command", {c \in Commands : \E p \in DOMAIN s : OccursAt(Lower(s), c, p)})
       \cup is("Error", Errors(s)) \cup is("File", Files(s)) \cup is("Symbol", Symbols(s))

\* extract; push_unique keeps one spelling of each.
Extract(s) == {[e EXCEPT !.name = Lower(@)] : e \in Spelled(s)}
=============================================================================
