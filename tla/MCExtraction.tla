---------------------------- MODULE MCExtraction -----------------------------
(* Extraction from texts made of pieces, with a lexicon like "go",         *)
(* "node.js", "c++", "api" and "go run".                                   *)
EXTENDS Extraction

CONSTANTS
  Pieces,       \* bound: what texts are made of
  MaxPieces     \* bound: how many of them

ASSUME PiecesAreTexts == Pieces \subseteq Seq(Char)

VARIABLES text, pieces

TextInit == text = <<>> /\ pieces = 0

\* A text grows by a piece.
TextNext ==
  /\ pieces < MaxPieces
  /\ pieces' = pieces + 1
  /\ \E p \in Pieces : text' = text \o p

TextSpec == TextInit /\ [][TextNext]_<<text, pieces>>

MCLibraries  == {<<"x", "x">>, <<"x", ".", "y">>, <<"x", "+", "+">>}
MCConcepts   == {<<"x", "x", "x">>}
MCCommands   == {<<"x", "x", " ", "x">>}
MCExtensions == {<<".", "y">>}
MCPieces     == {<<"x">>, <<"X", "X">>, <<"x", "X", "5">>, <<"5", "0", "0">>, <<"0">>, <<"u">>, <<"_">>, <<"-">>,
                 <<".">>, <<".", "y">>, <<"/">>, <<"(">>, <<"+", "+">>, <<" ">>}

-----------------------------------------------------------------------------
(* Properties.                                                             *)

\* Going on behind an occurrence misses no word of the lexicon.  (It would
\* miss one like "a.a", which overlaps itself at a dot; the lexicon has none.)
WholeWordsAreFound ==
  \A n \in Libraries \cup Concepts :
    ContainsWord(Lower(text), n) =
      \E p \in DOMAIN text : OccursAt(Lower(text), n, p) /\ Bounded(Lower(text), n, p)

WithoutCommands(S) == {e \in S : e.kind # "Command"}

\* What two texts mention, the texts one after the other mention, and, apart
\* from commands, which have a blank inside, nothing else: linking a memory
\* does not depend on what else is in it.
ExtractionIsLocal ==
  \A k \in {i \in DOMAIN text : text[i] = " "} :
    LET before == Extract(SubSeq(text, 1, k - 1))
        behind == Extract(SubSeq(text, k + 1, Len(text))) IN
      /\ before \cup behind \subseteq Extract(text)
      /\ WithoutCommands(Extract(text)) = WithoutCommands(before \cup behind)

\* The characters that join what stands on both sides of them: letters and
\* digits of every alphabet, and the marks inside of names and paths.
Joining == {"x", "y", "X", "5", "0", "u", "_", ".", "-", "/", "("}

\* The letters from i to j of a text, with or without parentheses up to m behind
\* them, have nothing else joined to them.
StandsFree(i, j, m) ==
  /\ i = 1 \/ text[i - 1] \notin Joining
  /\ m = Len(text) \/ text[m + 1] \notin Joining
  /\ \A p \in i .. j : text[p] \in WordByte
  /\ \A p \in j + 1 .. m : text[p] = "("

\* A name of a programming language: a call, or letters in both cases, or long
\* and with an underscore, and no word of the lexicon.
IsName(n, called) ==
  /\ Len(n) >= 3 /\ ~Only(n, Digits) /\ Lower(n) \notin Libraries \cup Concepts
  /\ \/ called
     \/ Some(n, {"x", "y"}) /\ Some(n, {"X"})
     \/ Len(n) >= 5 /\ Some(n, {"_"})

\* A symbol is found where it stands free, and nowhere else: one that is
\* written against a word of another alphabet, a hyphen or a dot is lost, in
\* the memory as in the query.
SymbolsStandFree ==
  {e.name : e \in {x \in Extract(text) : x.kind = "Symbol"}}
    = UNION {UNION {UNION {
        IF StandsFree(i, j, m) /\ IsName(SubSeq(text, i, j), m > j)
        THEN {Lower(SubSeq(text, i, j))} ELSE {} :
          m \in j .. Len(text)} : j \in i .. Len(text)} : i \in DOMAIN text}

\* A memory and a query that share a whole word of the lexicon, a field between
\* blanks, or a symbol that stands free in both, share its entity, whatever
\* else is in them.
ExtractionIsSound == WholeWordsAreFound /\ ExtractionIsLocal /\ SymbolsStandFree
=============================================================================
