--------------------------- MODULE ArchiveSamples ---------------------------
(***************************************************************************)
(* The archive blocks that the instances for TLC are made of.              *)
(***************************************************************************)
EXTENDS TLC, Integers

\* A raw header; the others differ from it in a few fields.
PlainHeader ==
  [path |-> {<<"a">>}, filetype |-> "regular", attributes |-> 0,
   nsec |-> 0, uid |-> 0, gid |-> 0, size |-> 1, symlink |-> {},
   hardlink |-> {}, rdev |-> [major |-> 0, minor |-> 0], stored |-> 1]

\* A hardlink; archives may store a payload block for one.
LinkHeader(path, target) ==
  [PlainHeader EXCEPT !.path = {path}, !.hardlink = {target}]

\* Regular files that store one block: Ha, Hb, Hc, one that declares none (He).
\* Regular files that declare two blocks: Ha2 stores them, Ha1 one, Ha3 three.
\* Hd: a directory; Hl: a hardlink to a; Hs: a hardlink to itself.  Headers
\* that do not normalize: Hp leaves the package, Hu has a negative uid.
SampleHeader ==
  "Ha"  :> PlainHeader @@
  "Hb"  :> [PlainHeader EXCEPT !.path = {<<".", "b">>}] @@
  "Hc"  :> [PlainHeader EXCEPT !.path = {<<"c">>}] @@
  "He"  :> [PlainHeader EXCEPT !.size = 0] @@
  "Ha2" :> [PlainHeader EXCEPT !.size = 2, !.stored = 2] @@
  "Ha1" :> [PlainHeader EXCEPT !.size = 2, !.stored = 1] @@
  "Ha3" :> [PlainHeader EXCEPT !.size = 2, !.stored = 3] @@
  "Hd"  :> [PlainHeader EXCEPT !.path = {<<"d", "">>}, !.filetype = "directory",
                               !.size = 0, !.stored = 0] @@
  "Hl"  :> LinkHeader(<<"l">>, <<"a">>) @@
  "Hs"  :> LinkHeader(<<"a", "">>, <<"a">>) @@
  "Hp"  :> [PlainHeader EXCEPT !.path = {<<"..", "b">>}] @@
  "Hu"  :> [PlainHeader EXCEPT !.uid = -1]

HeadersOf(names) == [name \in names |-> SampleHeader[name]]

\* The blocks of an instance: its headers, two payload blocks, the end mark.
BlocksOf(headers) == DOMAIN headers \union {"x", "y", "End"}

\* Every file of up to n blocks.
FilesUpTo(n, blocks) == UNION {[1..k -> blocks] : k \in 0..n}

=============================================================================
