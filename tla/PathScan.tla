------------------------------ MODULE PathScan ------------------------------
(***************************************************************************)
(* package_path character by character: the scan of parse, filename,       *)
(* parent, and is_ancestor_of.  A caller parses a text and then asks for   *)
(* parents until there is none.  Texts are sequences of characters, "!"    *)
(* any of the characters NUL, LF and CR; indices are zero-based as in the  *)
(* code.  PackagePath, which every other module uses, is the reference: it *)
(* works on the pieces between separators.                                 *)
(***************************************************************************)
EXTENDS PackagePath

CONSTANTS
  Texts,     \* the texts a caller may parse
  Others,    \* the values is_ancestor_of compares with
  Names      \* what PackagePath takes for a piece of a text

\* A text is a sequence of characters.
IsText(text) == text \in Seq({text[i] : i \in DOMAIN text})

ASSUME TextsAssumption == \A text \in Texts \union Others : IsText(text)

\* The pieces of the first n characters of a text, split in one go, with no
\* positions: the ones before the last separator, and what follows it.
After(split, ch) ==
  IF ch = "/" THEN [before |-> Append(split.before, split.last), last |-> <<>>]
              ELSE [before |-> split.before, last |-> Append(split.last, ch)]

SplitUpTo(text) ==
  LET split[n \in 0..Len(text)] ==
        IF n = 0 THEN [before |-> <<>>, last |-> <<>>] ELSE After(split[n - 1], text[n])
  IN  split

PiecesOf(text) ==
  LET split == SplitUpTo(text)[Len(text)] IN Append(split.before, split.last)

Named(pieces) == [i \in 1..Len(pieces) |-> Names[pieces[i]]]

\* Every piece has a name, which tells what parse asks of a piece.
ASSUME NamesAssumption ==
  /\ \A text \in Texts : \A i \in DOMAIN PiecesOf(text) : PiecesOf(text)[i] \in DOMAIN Names
  /\ \A piece \in DOMAIN Names :
       /\ Names[piece] = "" <=> piece = <<>>
       /\ Names[piece] = "." <=> piece = <<".">>
       /\ Names[piece] = ".." <=> piece = <<".", ".">>
       /\ Names[piece] \in LineUnsafe <=> \E i \in DOMAIN piece : piece[i] = "!"

VARIABLES
  pc,          \* where the caller stands
  input,       \* the text being parsed
  begin,       \* where the next component begins
  components,  \* the components found so far
  joined,      \* how many of them have been joined
  value,       \* value_ of the path the caller holds, or of the one being made
  origin,      \* value_ of the path that was parsed
  ancestors,   \* the paths parent() has returned
  error        \* the exception that ended the call, absent if none

pathVars == <<pc, input, begin, components, joined, value, origin, ancestors, error>>

\* string_view::substr, find and rfind; an absent result is std::npos.
Substr(text, from, count) == SubSeq(text, from + 1, from + count)

Separators(text) == {i \in 0..(Len(text) - 1) : text[i + 1] = "/"}

Find(text, from) ==
  LET at == {i \in Separators(text) : i >= from}
  IN  {i \in at : \A j \in at : i <= j}

\* (Variant: the first separator instead of the last.)
RfindFirst(text) == Find(text, 0)

Rfind(text) == {i \in Separators(text) : \A j \in Separators(text) : j <= i}

-----------------------------------------------------------------------------
\* The checks before the scan.  An unsafe character is refused wherever it is.
Malformed(text) ==
  \/ text = <<>>
  \/ \E i \in DOMAIN text : text[i] = "!" \/ (i = 1 /\ text[i] = "/")

Parse(text) ==
  /\ pc = "idle"
  /\ input' = text
  /\ \/ Malformed(text) /\ pc' = "failed" /\ error' = {"path_error"}
     \/ ~Malformed(text) /\ pc' = "scan" /\ UNCHANGED error
  /\ UNCHANGED <<begin, components, joined, value, origin, ancestors>>

\* The component that begins at `begin'.  (Variant: the last one is measured
\* as if a separator followed it.)
ComponentShort(text, from, end) ==
  Substr(text, from, (IF end = {} THEN Len(text) - 1 ELSE CHOOSE i \in end : TRUE) - from)

Component(text, from, end) ==
  Substr(text, from, (IF end = {} THEN Len(text) ELSE CHOOSE i \in end : TRUE) - from)

\* One iteration of the loop.
ScanComponent ==
  LET end       == Find(input, begin)
      component == Component(input, begin, end)
  IN  /\ pc = "scan"
      /\ components' = IF component \in {<<>>, <<".">>, <<".", ".">>}
                         THEN components ELSE Append(components, component)
      /\ begin' = IF end = {} THEN begin ELSE 1 + CHOOSE i \in end : TRUE
      /\ \/ component = <<".", ".">> /\ pc' = "failed" /\ error' = {"path_error"}
         \/ /\ component # <<".", ".">>
            /\ pc' = IF end = {} THEN "join" ELSE "scan"
            /\ UNCHANGED error
      /\ UNCHANGED <<input, joined, value, origin, ancestors>>

\* What is put in front of the next component: nothing in front of the first.
Separator == IF joined = 0 THEN <<>> ELSE <<"/">>

\* One iteration of the loop that joins the components, if there are any.
JoinComponent ==
  /\ pc = "join"
  /\ joined < Len(components)
  /\ value' = value \o Separator \o components[joined + 1]
  /\ joined' = joined + 1
  /\ UNCHANGED <<pc, input, begin, components, origin, ancestors, error>>

EndJoin ==
  /\ pc = "join"
  /\ joined = Len(components)
  /\ \/ components = <<>> /\ pc' = "failed" /\ error' = {"path_error"} /\ UNCHANGED origin
     \/ components # <<>> /\ pc' = "parsed" /\ origin' = value /\ UNCHANGED error
  /\ UNCHANGED <<input, begin, components, joined, value, ancestors>>

\* filename: what follows the last separator.
Filename(path) ==
  LET from == {i + 1 : i \in Rfind(path)} \union IF Rfind(path) = {} THEN {0} ELSE {}
      at   == CHOOSE i \in from : TRUE
  IN  Substr(path, at, Len(path) - at)

\* parent: what precedes it, absent without one.  (Variant: the separator is
\* not cut off.)
ParentAndSeparator(path) == {Substr(path, 0, i + 1) : i \in Rfind(path)}

Parent(path) == {Substr(path, 0, i) : i \in Rfind(path)}

\* The caller replaces the path by its parent, or has reached the top.
Climb ==
  /\ pc \in {"parsed", "climb"}
  /\ \/ \E up \in Parent(value) :
          /\ pc' = "climb"
          /\ value' = up
          /\ ancestors' = ancestors \union {up}
     \/ Parent(value) = {} /\ pc' = "top" /\ UNCHANGED <<value, ancestors>>
  /\ UNCHANGED <<input, begin, components, joined, origin, error>>

\* is_ancestor_of.  (Variant: a prefix will do.)
IsPrefixOf(path, other) ==
  Len(other) > Len(path) /\ Substr(other, 0, Len(path)) = path

IsAncestorOf(path, other) ==
  /\ Len(other) > Len(path)
  /\ Substr(other, 0, Len(path)) = path
  /\ other[Len(path) + 1] = "/"

Stopped == pc \in {"failed", "top"} /\ UNCHANGED pathVars

Init ==
  /\ pc = "idle"
  /\ input = <<>>
  /\ begin = 0
  /\ components = <<>>
  /\ joined = 0
  /\ value = <<>>
  /\ origin = <<>>
  /\ ancestors = {}
  /\ error = {}

Next ==
  \/ \E text \in Texts : Parse(text)
  \/ ScanComponent \/ JoinComponent \/ EndJoin \/ Climb
  \/ Stopped

Spec == Init /\ [][Next]_pathVars

-----------------------------------------------------------------------------
\* The scan of parse accepts exactly the texts that the definition on pieces
\* accepts, with the same components: none is lost or invented at a double,
\* leading or trailing separator or at the end of the text.
ScanAgreesWithPieces ==
  /\ pc = "failed" => error = ParsePath(Named(PiecesOf(input))).error
  /\ pc = "parsed" => ParsePath(Named(PiecesOf(input))) = Ok(Named(PiecesOf(value)))

\* is_ancestor_of and repeated parent() agree: a path is an ancestor of another
\* exactly when climbing from the other meets it, so that no path is an
\* ancestor by the letters of its last component alone.
AncestorsAreParents ==
  pc = "top" =>
    \A other \in Others \union ancestors :
      IsAncestorOf(other, origin) <=> other \in ancestors

\* A piece of a text begins and ends at the ends of the text and beside its
\* separators.
Begins(text) == {1} \union {i + 1 : i \in {k \in DOMAIN text : text[k] = "/"}}

Ends(text) == {Len(text)} \union {i - 1 : i \in {k \in DOMAIN text : text[k] = "/"}}

\* A path that parse would return as it is.
Canonical(text) ==
  /\ text # <<>>
  /\ \A i \in DOMAIN text : text[i] # "!"
  /\ \A i \in Begins(text), j \in Ends(text) :
       i <= j + 1 /\ (\A k \in i..j : text[k] # "/") =>
         SubSeq(text, i, j) \notin {<<>>, <<".">>, <<".", ".">>}

\* Every path a caller comes to hold is canonical, be it from parse or from
\* parent, which makes it of a part of value_ without any of the checks of
\* parse.
HeldPathIsCanonical == pc \in {"parsed", "climb", "top"} => Canonical(value)

\* parent and filename take a path apart at its last component: filename holds
\* no separator, and the two with one between them are the path.
ParentAndFilename ==
  pc \in {"parsed", "climb"} =>
    /\ \A i \in DOMAIN Filename(value) : Filename(value)[i] # "/"
    /\ Parent(value) = {} => Filename(value) = value
    /\ \A up \in Parent(value) : (up \o <<"/">>) \o Filename(value) = value

=============================================================================
