----------------------------- MODULE MCPathScan -----------------------------
(***************************************************************************)
(* Every text of up to six characters: two letters, the dot, the separator *)
(* and one unsafe character; and every path of up to four characters to    *)
(* compare with.                                                           *)
(***************************************************************************)
EXTENDS PathScan

LOCAL Seqs == INSTANCE SequencesExt

Characters == {"a", "b", ".", "/", "!"}

ShortTexts == UNION {[1..n -> Characters] : n \in 0..6}

\* The name of a piece is the string it spells, or "!" if a character of it is
\* unsafe.
Spelling(piece) ==
  IF \E i \in DOMAIN piece : piece[i] = "!" THEN "!"
  ELSE Seqs!FoldLeft(LAMBDA spelled, ch : spelled \o ch, "", piece)

Spellings ==
  [piece \in UNION {[1..n -> Characters \ {"/"}] : n \in 0..6} |-> Spelling(piece)]

\* Canonical spellings: they begin and end with a letter and double nothing.
ShortPaths ==
  {text \in UNION {[1..n -> {"a", "b", "/"}] : n \in 1..4} :
     /\ text[1] # "/" /\ text[Len(text)] # "/"
     /\ \A i \in 2..Len(text) : ~(text[i - 1] = "/" /\ text[i] = "/")}

=============================================================================
