--------------------------- MODULE ArchiveMeaning ---------------------------
(***************************************************************************)
(* What a sequence of archive blocks means: the reference that opening an  *)
(* archive is compared with.  It reads the whole sequence at once, with no *)
(* buffer, no offsets and nobody editing, and says which image it holds or *)
(* which exception it deserves.                                            *)
(***************************************************************************)
EXTENDS PackageImage, LibarchiveReader

\* A raw header has a signed size.
ASSUME SizesAssumption == \A b \in DOMAIN RawHeader : RawHeader[b].size \in Int

\* The blocks of the payload that follows the header at position i.
PayloadAt(blocks, i) ==
  SubSeq(blocks, i + 1, Least(i + RawHeader[blocks[i]].stored, Len(blocks)))

\* What is wrong with the payload of the entry e whose header is at i.
PayloadFault(blocks, i, e) ==
  LET payload   == PayloadAt(blocks, i)
      truncated == Len(payload) < RawHeader[blocks[i]].stored
  IN  IF e.type = "regular" /\ Len(payload) > e.size
        THEN {"declared_size_mismatch_error"}
      ELSE IF truncated THEN {"archive_error"}
      ELSE IF e.type = "regular" /\ Len(payload) < e.size
        THEN {"declared_size_mismatch_error"}
      ELSE {}

\* The entry that the header at position i normalizes to, with its content, or
\* its fault.
EntryOfHeader(blocks, i, header) ==
  LET e     == ValueOf(header)
      fault == PayloadFault(blocks, i, e)
  IN  IF ~Succeeds(header) THEN header
      ELSE IF fault # {} THEN [error |-> fault, value |-> {}]
      ELSE Ok([e EXCEPT !.content =
                 IF e.type = "regular" THEN {PayloadAt(blocks, i)} ELSE {}])

EntryOf(blocks, i) == EntryOfHeader(blocks, i, NormalizeEntry(RawHeader[blocks[i]]))

\* The entries from each position on.
EntriesFrom(blocks) ==
  LET from[i \in 1..(Len(blocks) + 1)] ==
        IF i > Len(blocks) THEN Ok(<<>>)
        ELSE IF blocks[i] = EndMark THEN Ok(<<>>)
        ELSE IF blocks[i] \notin DOMAIN RawHeader THEN Fail("archive_error")
        ELSE LET first == EntryOf(blocks, i)
                 rest  == from[i + 1 + RawHeader[blocks[i]].stored]
             IN  IF ~Succeeds(first) THEN first
                 ELSE IF ~Succeeds(rest) THEN rest
                 ELSE Ok(<<ValueOf(first)>> \o ValueOf(rest))
  IN  from

\* The image of an archive, or why it has none.
Decode(blocks) ==
  LET entries == EntriesFrom(blocks)[1]
  IN  IF blocks = <<>> THEN Fail("archive_error")
      ELSE IF ~Succeeds(entries) THEN entries
      ELSE Construct(ValueOf(entries))

=============================================================================
