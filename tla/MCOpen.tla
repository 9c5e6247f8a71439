------------------------------- MODULE MCOpen -------------------------------
(***************************************************************************)
(* Instances of LibarchiveOpen for TLC.                                    *)
(***************************************************************************)
EXTENDS LibarchiveOpen, ArchiveSamples

\* Undisturbed: every file of up to four blocks over all kinds of header.
AllHeaders == HeadersOf({"Ha", "Hb", "He", "Ha2", "Ha1", "Hl", "Hs", "Hp", "Hu"})
AllBlocks == BlocksOf(AllHeaders)
ShortFiles == FilesUpTo(4, AllBlocks)
ShortRequests == {{}, {<<"Ha", "x">>}}

\* Edited: one package, and no assertion about its digest or the right one.
FewHeaders == HeadersOf({"Ha", "Ha1", "Hl"})
FewBlocks == BlocksOf(FewHeaders)
Package == <<"Ha", "x", "Hl", "y", "End">>
OnePackage == {Package}
PackageRequests == {{}, {Package}}

=============================================================================
