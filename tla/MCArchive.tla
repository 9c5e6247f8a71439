----------------------------- MODULE MCArchive -----------------------------
(***************************************************************************)
(* Instances of PackageArchive for TLC.                                    *)
(***************************************************************************)
EXTENDS PackageArchive, ArchiveSamples

\* Undisturbed: every file of up to four blocks, and three regular files of
\* which a consumer may select two.
ShortBlocks == BlocksOf(HeadersOf({"Ha", "Hb", "He", "Hl", "Hd"}))
ThreeFiles == <<"Ha", "x", "Hb", "y", "Hc", "x">>
ManyFiles == FilesUpTo(4, ShortBlocks) \union {ThreeFiles}
ManyHeaders == HeadersOf({"Ha", "Hb", "Hc", "He", "Hl", "Hd"})
ManyBlocks == BlocksOf(ManyHeaders)

\* Edited: one package of two files.
FewHeaders == HeadersOf({"Ha", "Hb"})
FewBlocks == BlocksOf(FewHeaders)
OnePackage == {<<"Ha", "x", "Hb", "y">>}

\* Until the calls end: a file, and a hardlink whose payload is skipped.
LiveHeaders == HeadersOf({"Ha", "Hl"})
LiveBlocks == BlocksOf(LiveHeaders)
LivePackage == {<<"Ha", "x", "Hl", "y", "End">>}

NoRequest == {{}}

=============================================================================
