-------------------------- MODULE LibarchiveReader --------------------------
(***************************************************************************)
(* The archive reader: libarchive over the callback read_source.           *)
(*                                                                         *)
(* libarchive itself is external.  It pulls blocks through the callback    *)
(* into a buffer and interprets them in order: a header block announces an *)
(* entry and how many payload blocks follow it, the end mark ends the      *)
(* archive, and a block that is neither, where a header is due, is an      *)
(* error.  Blocks after the end mark are never read.                       *)
(***************************************************************************)
EXTENDS ArchiveSource

CONSTANTS
  EndMark,    \* the block that ends an archive
  RawHeader   \* the raw header of every block that is one

ASSUME ReaderAssumption ==
  /\ EndMark \in Block
  /\ DOMAIN RawHeader \subseteq Block \ {EndMark}
  /\ \A b \in DOMAIN RawHeader : RawHeader[b].stored \in Nat

\* reader_context (offset), the bytes libarchive holds, and how much of the
\* payload of the current entry it has still to deliver.
Reader == [offset : Nat, buffer : Seq(Block), left : Nat]

NewReader == [offset |-> 0, buffer |-> <<>>, left |-> 0]

Buffered(r) == r.buffer # <<>>

\* The callback has delivered everything up to the size in the stamp.
Drained(r, size) == r.offset >= size

\* read_source: the next blocks of the source, none when it was truncated.
ReadSource(r, size) == Pread(r.offset, Least(size - r.offset, Chunk))

Refill(r, blocks) == [r EXCEPT !.offset = @ + Len(blocks),
                               !.buffer = @ \o blocks]

\* The status archive_read_next_header returns for a buffered block, or when
\* the input has ended: an empty input has no recognizable format.  "FATAL" is
\* any status but OK and EOF, for the code takes warnings as failures too.
HeaderStatus(r) ==
  IF ~Buffered(r)
    THEN IF r.offset = 0 THEN "FATAL" ELSE "EOF"
    ELSE IF Head(r.buffer) = EndMark THEN "EOF"
    ELSE IF Head(r.buffer) \in DOMAIN RawHeader THEN "OK" ELSE "FATAL"

CurrentHeader(r) == RawHeader[Head(r.buffer)]

TakeHeader(r) == [r EXCEPT !.buffer = Tail(@), !.left = CurrentHeader(r).stored]

\* archive_read_data delivers a payload block ...
TakeBlock(r) == [r EXCEPT !.buffer = Tail(@), !.left = @ - 1]

\* ... and archive_read_data_skip passes over all of it that is buffered.
\* (Variant: it passes over the whole buffer.)
SkipBuffer(r) == [r EXCEPT !.buffer = <<>>, !.left = @ - Len(r.buffer)]

SkipBlocks(r) ==
  LET n == Least(r.left, Len(r.buffer))
  IN  [r EXCEPT !.buffer = SubSeq(@, n + 1, Len(@)), !.left = @ - n]

=============================================================================
