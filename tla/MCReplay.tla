------------------------------ MODULE MCReplay ------------------------------
(***************************************************************************)
(* Instances of LibarchiveReplay for TLC.                                  *)
(***************************************************************************)
EXTENDS LibarchiveReplay, ArchiveMeaning, ArchiveSamples

SealedFrom(blocks) ==
  [stamp |-> [size |-> Len(blocks), mtime |-> 0], digest |-> blocks,
   image |-> ValueOf(Decode(blocks))]

\* What callers selected: the archive it is of, and the ids.
SelectionsOf(requests) ==
  {ValueOf(FromIds(ValueOf(Decode(r.of)), r.ids)) : r \in requests}

\* A directory between two regular files, and editors that may put any of the
\* headers of a with a wrong payload, or one that does not normalize.
LargeHeaders == HeadersOf({"Ha2", "Ha1", "Ha3", "Hb", "Hd", "Hp"})
LargeBlocks == BlocksOf(LargeHeaders)
LargeArchive == <<"Ha2", "x", "y", "Hd", "Hb", "x", "End">>
LargePackages == {SealedFrom(LargeArchive)}

\* Everything, given in reverse order; one file; nothing; and a selection of
\* an archive that differs in the content of b only.
OtherArchive == <<"Ha2", "x", "y", "Hd", "Hb", "y", "End">>
LargeSelections ==
  SelectionsOf([of : {LargeArchive}, ids : {<<2, 0>>, <<0>>, <<>>}]
                 \union {[of |-> OtherArchive, ids |-> <<2>>]})

\* Two regular files, of which the second, which ends the archive, is selected:
\* with the header Ha3 its payload would run past the end.
SmallHeaders == HeadersOf({"Ha2", "Ha3", "Hb"})
SmallBlocks == BlocksOf(SmallHeaders)
SmallArchive == <<"Hb", "x", "Ha2", "x", "y">>
SmallPackages == {SealedFrom(SmallArchive)}
SmallSelections == SelectionsOf({[of |-> SmallArchive, ids |-> <<1>>]})

\* What the verdict of replay is proved from: open seals the image that the
\* sealed bytes mean.
ASSUME SealedMeaning == \A p \in Packages : Decode(p.digest) = Ok(p.image)

=============================================================================
