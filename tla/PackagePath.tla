---------------------------- MODULE PackagePath ----------------------------
(***************************************************************************)
(* package_path::parse, by which every path of an archive is normalized.   *)
(*                                                                         *)
(* A path text is the sequence of the pieces between its '/' characters,   *)
(* the empty ones included: "./a//b" is <<".", "a", "", "b">>, "" is       *)
(* <<"">> and "/a" is <<"", "a">>.  A normalized path is the sequence of   *)
(* its components.  LineUnsafe holds the pieces that contain a NUL, a line *)
(* feed or a carriage return.                                              *)
(***************************************************************************)
EXTENDS Outcome, Naturals, Sequences

CONSTANT LineUnsafe

\* A piece that is no component.
Skipped(piece) == piece \in {"", "."}

\* The components among the first n pieces.
KeptPieces(text) ==
  LET kept[n \in 0..Len(text)] ==
        IF n = 0 THEN <<>>
        ELSE IF Skipped(text[n]) THEN kept[n - 1]
        ELSE Append(kept[n - 1], text[n])
  IN  kept

\* package_path::parse.  The first piece is empty exactly when the text is
\* empty or begins with '/'.
ParsePath(text) ==
  LET components == KeptPieces(text)[Len(text)]
  IN  IF \/ text[1] = ""
         \/ \E i \in DOMAIN text : text[i] \in LineUnsafe \union {".."}
         \/ components = <<>>
        THEN Fail("path_error")
        ELSE Ok(components)

=============================================================================
