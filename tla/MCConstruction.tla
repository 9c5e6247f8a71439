--------------------------- MODULE MCConstruction ---------------------------
(***************************************************************************)
(* Images of one or two entries that differ in one field each, and what is *)
(* no image: entries construct() must refuse.                              *)
(***************************************************************************)
EXTENDS ImageConstruction, TLC

Regular ==
  [id |-> 9, path |-> <<"a">>, type |-> "regular",
   attributes |-> [mode |-> 420, mtime |-> 0], uid |-> 0, gid |-> 0, size |-> 1,
   nsec |-> 0, symlink |-> {}, hardlink |-> {}, device |-> {}, content |-> {1}]

Other(type) == [Regular EXCEPT !.path = <<"b">>, !.type = type, !.size = 0, !.content = {}]

Link(path, target) == [Other("hardlink") EXCEPT !.path = path, !.hardlink = {target}]

\* Each differs from a regular file, or from a node, in one respect.
Files ==
  {Regular} \union
  {[Regular EXCEPT !.content = c] : c \in {{}, {2}}} \union
  {[Regular EXCEPT !.size = n] : n \in {0, 256}} \union
  {[Regular EXCEPT !.attributes = [mode |-> m, mtime |-> t]] :
     m \in {420, 65956}, t \in {-1, 255}} \union
  {[Regular EXCEPT !.uid = 1], [Regular EXCEPT !.gid = 1]} \union
  {[Regular EXCEPT !.nsec = n] : n \in {65536, 999999999, 1000000000}} \union
  {[Regular EXCEPT !.path = p] : p \in {<<"ab">>, <<"a", "b">>, <<"a", "a">>}} \union
  {[Regular EXCEPT !.hardlink = {<<"b">>}], [Regular EXCEPT !.symlink = {"b"}]}

Nodes ==
  {Other("directory"), Other("fifo"), [Other("fifo") EXCEPT !.size = 1]} \union
  {[Other("symlink") EXCEPT !.symlink = s] : s \in {{}, {""}, {"a"}, {"ab"}, {"!"}}} \union
  {[Other(type) EXCEPT !.device = d] :
     type \in {"character_device", "block_device", "directory"},
     d \in {{}, {[major |-> 1, minor |-> 2]}, {[major |-> 2, minor |-> 1]}}}

\* What two entries may do to each other.
Members ==
  {Regular, [Regular EXCEPT !.path = <<"b">>], [Regular EXCEPT !.path = <<"a", "b">>],
   Other("directory"), Link(<<"l">>, <<"a">>), Link(<<"l">>, <<"b">>),
   Link(<<"a">>, <<"a">>), [Other("symlink") EXCEPT !.symlink = {"a"}]}

SmallManifests ==
  {<<>>} \union {<<e>> : e \in Files \union Nodes \union Members} \union
  {<<d, e>> : d \in Members, e \in Members}

Bytes ==
  "a" :> <<97>> @@ "b" :> <<98>> @@ "ab" :> <<97, 98>> @@ "l" :> <<108>> @@
  ImageLabel :> <<1, 1>> @@ ReceiptLabel :> <<2, 1, 2>>

=============================================================================
