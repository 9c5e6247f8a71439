------------------------ MODULE ArchiveMeaningProofs ------------------------
(***************************************************************************)
(* Lemmas about the retained file, the archive reader over it and the      *)
(* meaning of an archive, on which the proofs about open and about replay  *)
(* rest.  The recursive definition of the entries of an archive has a      *)
(* value at every position, and it is the one that its equation says.      *)
(***************************************************************************)
EXTENDS ArchiveMeaning, WellFoundedInduction, SequenceTheorems, TLAPS

\* A set of naturals that is not empty has a least element.
LEMMA LeastNatural ==
  ASSUME NEW T \in SUBSET Nat, T # {}
  PROVE  \E n \in T : \A m \in T : n <= m
<1>1. PICK n \in T : \A m \in T : <<m, n>> \notin OpToRel(<, Nat)
  BY NatLessThanWellFounded, WFMin
<1>2. ASSUME NEW m \in T, m < n
      PROVE  FALSE
  <2>1. <<m, n>> \in Nat \X Nat
    OBVIOUS
  <2>2. <<m, n>> \in OpToRel(<, Nat)
    BY <1>2, <2>1, Zenon DEF OpToRel
  <2>3. QED
    BY <1>1, <2>2
<1>3. QED
  BY <1>2

-----------------------------------------------------------------------------
(***************************************************************************)
(* Reads, edits and what the reader does with its buffer.                  *)
(***************************************************************************)

\* A read returns blocks, and never more than were asked for.
LEMMA PreadType ==
  ASSUME file \in Seq(Block), NEW offset \in Nat, NEW request \in Nat,
         NEW blocks \in Pread(offset, request)
  PROVE  blocks \in Seq(Block) /\ Len(blocks) <= request
<1>1. CASE offset >= Len(file)
  BY <1>1 DEF Pread
<1>2. CASE ~(offset >= Len(file))
  <2>1. PICK count \in 1..Least(request, Len(file) - offset) :
          blocks = SubSeq(file, offset + 1, offset + count)
    BY <1>2 DEF Pread
  <2>2. /\ count \in Nat
        /\ count >= 1
        /\ count <= request
        /\ offset + count <= Len(file)
    BY <1>2, <2>1 DEF Least
  <2>3. QED
    BY <2>1, <2>2
<1>3. QED
  BY <1>1, <1>2

\* An edit leaves the source well typed.
LEMMA EditType ==
  ASSUME SourceTypeOK, Edit
  PROVE  SourceTypeOK'
<1>1. ASSUME NEW blocks \in Seq(Block), Install(blocks)
      PROVE  SourceTypeOK'
  <2>1. /\ file' \in Seq(Block)
        /\ mtime' \in MTimes
    BY <1>1 DEF Install
  <2>2. edits' \in 0..MaxEdits
    BY <1>1, BoundsAssumption DEF Install, SourceTypeOK
  <2>3. past' \in [1..MaxLength -> SUBSET SUBSET Block]
    <3>1. \A i \in 1..MaxLength : Cell(file, i) \in SUBSET Block
      BY DEF SourceTypeOK, Cell
    <3>2. QED
      BY <1>1, <3>1 DEF Install, SourceTypeOK
  <2>4. reverted' \in BOOLEAN
    BY <1>1 DEF Install, SourceTypeOK
  <2>5. QED
    BY <2>1, <2>2, <2>3, <2>4 DEF SourceTypeOK
<1>2. CASE Overwrite
  <2>1. PICK i \in DOMAIN file, b \in Block : Install([file EXCEPT ![i] = b])
    BY <1>2 DEF Overwrite
  <2>2. [file EXCEPT ![i] = b] \in Seq(Block)
    BY DEF SourceTypeOK
  <2>3. QED
    BY <1>1, <2>1, <2>2
<1>3. CASE Truncate
  <2>1. PICK n \in 0..(Len(file) - 1) : Install(SubSeq(file, 1, n))
    BY <1>3 DEF Truncate
  <2>2. SubSeq(file, 1, n) \in Seq(Block)
    BY DEF SourceTypeOK
  <2>3. QED
    BY <1>1, <2>1, <2>2
<1>4. CASE Extend
  <2>1. PICK b \in Block : Install(Append(file, b))
    BY <1>4 DEF Extend
  <2>2. Append(file, b) \in Seq(Block)
    BY DEF SourceTypeOK
  <2>3. QED
    BY <1>1, <2>1, <2>2
<1>5. CASE Touch
  BY <1>1, <1>5 DEF Touch, SourceTypeOK
<1>6. QED
  BY <1>2, <1>3, <1>4, <1>5 DEF Edit

\* What libarchive does with its buffer keeps a reader a reader.
LEMMA ReaderSteps ==
  ASSUME NEW r \in Reader
  PROVE  /\ \A blocks \in Seq(Block) : Refill(r, blocks) \in Reader
         /\ Buffered(r) /\ HeaderStatus(r) = "OK" => TakeHeader(r) \in Reader
         /\ Buffered(r) /\ r.left > 0 => TakeBlock(r) \in Reader
         /\ SkipBlocks(r) \in Reader
<1>1. /\ r.offset \in Nat
      /\ r.buffer \in Seq(Block)
      /\ r.left \in Nat
      /\ r = [offset |-> r.offset, buffer |-> r.buffer, left |-> r.left]
  BY DEF Reader
<1>2. ASSUME NEW blocks \in Seq(Block)
      PROVE  Refill(r, blocks) \in Reader
  <2>1. r.offset + Len(blocks) \in Nat /\ r.buffer \o blocks \in Seq(Block)
    BY <1>1
  <2>2. QED
    BY <2>1 DEF Refill, Reader
<1>3. ASSUME Buffered(r), HeaderStatus(r) = "OK"
      PROVE  TakeHeader(r) \in Reader
  <2>1. Head(r.buffer) \in DOMAIN RawHeader
    BY <1>3 DEF HeaderStatus
  <2>2. CurrentHeader(r).stored \in Nat
    BY <2>1, ReaderAssumption DEF CurrentHeader
  <2>3. Tail(r.buffer) \in Seq(Block)
    BY <1>1, <1>3 DEF Buffered
  <2>4. QED
    BY <1>1, <2>2, <2>3 DEF TakeHeader, Reader
<1>4. ASSUME Buffered(r), r.left > 0
      PROVE  TakeBlock(r) \in Reader
  <2>1. Tail(r.buffer) \in Seq(Block)
    BY <1>1, <1>4 DEF Buffered
  <2>2. r.left - 1 \in Nat
    BY <1>1, <1>4
  <2>3. QED
    BY <2>1, <2>2 DEF TakeBlock, Reader
<1>5. SkipBlocks(r) \in Reader
  <2> DEFINE n == Least(r.left, Len(r.buffer))
  <2>1. n \in Nat /\ n <= r.left /\ n <= Len(r.buffer)
    BY <1>1 DEF Least
  <2>2. SubSeq(r.buffer, n + 1, Len(r.buffer)) \in Seq(Block)
    BY <1>1, <2>1
  <2>3. r.left - n \in Nat
    BY <1>1, <2>1
  <2>4. QED
    BY <1>1, <2>2, <2>3 DEF SkipBlocks, Reader
<1>6. QED
  BY <1>2, <1>3, <1>4, <1>5

\* What a read returns is what the file holds at those positions.
LEMMA PreadBlocks ==
  ASSUME file \in Seq(Block), NEW offset \in Nat, NEW request \in Nat,
         NEW blocks \in Pread(offset, request)
  PROVE  /\ blocks # <<>> => offset + Len(blocks) <= Len(file)
         /\ \A k \in 1..Len(blocks) :
              /\ offset + k <= Len(file)
              /\ blocks[k] = file[offset + k]
<1>1. CASE offset >= Len(file)
  BY <1>1 DEF Pread
<1>2. CASE ~(offset >= Len(file))
  <2>1. PICK count \in 1..Least(request, Len(file) - offset) :
          blocks = SubSeq(file, offset + 1, offset + count)
    BY <1>2 DEF Pread
  <2>2. /\ count \in Nat
        /\ offset + count <= Len(file)
    BY <1>2, <2>1 DEF Least
  <2>3. /\ Len(blocks) = count
        /\ \A k \in 1..count : blocks[k] = file[offset + k]
    BY <2>1, <2>2
  <2>4. QED
    BY <2>2, <2>3
<1>3. QED
  BY <1>1, <1>2

\* The hash has grown by what the file holds right after what was hashed.
Grown(h, next, size) ==
  /\ next \in [offset : Nat, blocks : Seq(Block)]
  /\ next.offset = Len(next.blocks)
  /\ next.offset <= Len(file)
  /\ next.offset <= size
  /\ h.offset <= next.offset
  /\ \A k \in 1..h.offset : next.blocks[k] = h.blocks[k]
  /\ \A k \in (h.offset + 1)..next.offset : next.blocks[k] = file[k]

\* That is what one pread of a hash pass makes of it.
LEMMA HashGrows ==
  ASSUME file \in Seq(Block), NEW size \in Nat,
         NEW h \in [offset : Nat, blocks : Seq(Block)],
         h.offset = Len(h.blocks), h.offset < size,
         NEW blocks \in Pread(h.offset, Least(size - h.offset, Chunk)) \ {<<>>},
         NEW next, next = [offset |-> h.offset + Len(blocks),
                           blocks |-> h.blocks \o blocks]
  PROVE  Grown(h, next, size)
<1>1. /\ h.offset \in Nat /\ h.blocks \in Seq(Block)
      /\ Least(size - h.offset, Chunk) \in Nat
      /\ Least(size - h.offset, Chunk) <= size - h.offset
  BY ChunkAssumption DEF Least
<1>2. blocks \in Seq(Block) /\ Len(blocks) <= size - h.offset
  BY <1>1, PreadType
<1>3. /\ h.offset + Len(blocks) <= Len(file)
      /\ \A k \in 1..Len(blocks) : blocks[k] = file[h.offset + k]
  BY <1>1, PreadBlocks
<1>4. /\ next.offset = h.offset + Len(blocks)
      /\ next.blocks = h.blocks \o blocks
      /\ next.blocks \in Seq(Block)
      /\ Len(next.blocks) = h.offset + Len(blocks)
  BY <1>1, <1>2
<1>5. \A k \in 1..h.offset : next.blocks[k] = h.blocks[k]
  BY <1>1, <1>2, <1>4
<1>6. ASSUME NEW k \in (h.offset + 1)..next.offset
      PROVE  next.blocks[k] = file[k]
  <2>1. k - h.offset \in 1..Len(blocks) /\ h.offset + (k - h.offset) = k
    BY <1>1, <1>2, <1>4
  <2>2. next.blocks[k] = blocks[k - h.offset]
    BY <1>1, <1>2, <1>4
  <2>3. QED
    BY <1>3, <2>1, <2>2
<1>7. QED
  BY <1>1, <1>2, <1>3, <1>4, <1>5, <1>6 DEF Grown

-----------------------------------------------------------------------------
(***************************************************************************)
(* What the past of the file tells.  A position that has held a cell holds *)
(* it still, or the cell is gone; what is gone stays gone, or the file has *)
(* reverted.                                                               *)
(***************************************************************************)

Seen(i, cell) == cell = Cell(file, i) \/ cell \in past[i]

Gone(i, cell) == cell # Cell(file, i) /\ cell \in past[i]

\* The history of a position, over the installation of other contents,
LEMMA InstallHistory ==
  ASSUME SourceTypeOK, NEW blocks, Install(blocks),
         NEW i \in 1..MaxLength, NEW cell
  PROVE  /\ Seen(i, cell) => Seen(i, cell)'
         /\ Gone(i, cell) => Gone(i, cell)' \/ reverted'
         /\ reverted => reverted'
<1> DEFINE changed == {k \in 1..MaxLength : Cell(blocks, k) # Cell(file, k)}
<1>1. /\ file' = blocks
      /\ past' = [k \in 1..MaxLength |->
                    IF k \in changed THEN past[k] \union {Cell(file, k)} ELSE past[k]]
      /\ reverted' = (reverted \/ \E k \in changed : Cell(blocks, k) \in past[k])
  BY DEF Install
<1>2. Cell(file, i)' = Cell(blocks, i)
  BY <1>1 DEF Cell
<1>3. CASE i \in changed
  <2>1. past'[i] = past[i] \union {Cell(file, i)}
    BY <1>1, <1>3
  <2>2. Cell(blocks, i) \in past[i] => reverted'
    BY <1>1, <1>3
  <2>3. QED
    BY <1>1, <1>2, <2>1, <2>2 DEF Seen, Gone
<1>4. CASE i \notin changed
  <2>1. past'[i] = past[i] /\ Cell(blocks, i) = Cell(file, i)
    BY <1>1, <1>4
  <2>2. QED
    BY <1>1, <1>2, <2>1 DEF Seen, Gone
<1>5. QED
  BY <1>3, <1>4

\* and over any edit.
LEMMA EditHistory ==
  ASSUME SourceTypeOK, Edit \/ UNCHANGED sourceVars, NEW i \in 1..MaxLength, NEW cell
  PROVE  /\ Seen(i, cell) => Seen(i, cell)'
         /\ Gone(i, cell) => Gone(i, cell)' \/ reverted'
         /\ reverted => reverted'
<1>1. CASE UNCHANGED sourceVars
  BY <1>1 DEF sourceVars, Seen, Gone, Cell
<1>2. CASE Edit
  <2>1. \E blocks : Install(blocks)
    BY <1>2 DEF Edit, Overwrite, Truncate, Extend, Touch
  <2>2. QED
    BY <2>1, InstallHistory
<1>3. QED
  BY <1>1, <1>2

\* Reverting is for ever, wherever the file is.
LEMMA RevertedStays ==
  ASSUME SourceTypeOK, Edit \/ UNCHANGED sourceVars
  PROVE  reverted => reverted'
<1>1. CASE UNCHANGED sourceVars
  BY <1>1 DEF sourceVars
<1>2. CASE Edit
  BY <1>2 DEF Edit, Overwrite, Truncate, Extend, Touch, Install
<1>3. QED
  BY <1>1, <1>2

-----------------------------------------------------------------------------
(***************************************************************************)
(* What libarchive takes from the blocks that the callback delivers.       *)
(***************************************************************************)

\* A file of bytes is read unless its end is reached.
LEMMA PreadSome ==
  ASSUME file \in Seq(Block), NEW offset \in Nat, offset < Len(file),
         NEW size \in Nat, offset < size
  PROVE  <<>> \notin Pread(offset, Least(size - offset, Chunk))
<1>1. PICK asked : asked = Least(size - offset, Chunk)
  OBVIOUS
<1>2. asked \in Nat /\ asked >= 1
  BY <1>1, ChunkAssumption DEF Least
<1>3. ASSUME NEW count \in 1..Least(asked, Len(file) - offset)
      PROVE  SubSeq(file, offset + 1, offset + count) # <<>>
  <2>1. count \in Nat /\ count >= 1 /\ offset + count <= Len(file)
    BY <1>2 DEF Least
  <2>2. Len(SubSeq(file, offset + 1, offset + count)) = count
    BY <2>1
  <2>3. QED
    BY <2>1, <2>2
<1>4. QED
  BY <1>1, <1>3 DEF Pread

\* How many blocks libarchive has taken from the buffer of a reader.
Position(r) == r.offset - Len(r.buffer)

\* The callback has delivered the blocks of d.
Delivers(d, r) ==
  /\ r.offset <= Len(d)
  /\ Len(r.buffer) <= r.offset
  /\ \A k \in 1..Len(r.buffer) : r.buffer[k] = d[Position(r) + k]

\* The next block libarchive takes is the next one of d.
LEMMA DeliveredNext ==
  ASSUME NEW d \in Seq(Block), NEW r \in Reader, Delivers(d, r)
  PROVE  /\ Position(r) \in Nat /\ Position(r) <= Len(d)
         /\ r.buffer # <<>> => /\ Position(r) + 1 <= Len(d)
                               /\ Head(r.buffer) = d[Position(r) + 1]
         /\ r.buffer = <<>> => Position(r) = r.offset
<1>1. /\ r.offset \in Nat /\ r.buffer \in Seq(Block)
      /\ Len(r.buffer) \in Nat /\ Len(d) \in Nat
  BY DEF Reader
<1>2. Position(r) \in Nat /\ Position(r) <= Len(d)
  BY <1>1 DEF Delivers, Position
<1>3. ASSUME r.buffer # <<>>
      PROVE  Position(r) + 1 <= Len(d) /\ Head(r.buffer) = d[Position(r) + 1]
  <2>1. Len(r.buffer) >= 1 /\ Head(r.buffer) = r.buffer[1]
    BY <1>1, <1>3
  <2>2. r.buffer[1] = d[Position(r) + 1]
    BY <1>1, <2>1 DEF Delivers
  <2>3. Position(r) + 1 <= Len(d)
    BY <1>1, <2>1 DEF Delivers, Position
  <2>4. QED
    BY <2>1, <2>2, <2>3
<1>4. r.buffer = <<>> => Position(r) = r.offset
  BY <1>1 DEF Position
<1>5. QED
  BY <1>2, <1>3, <1>4

\* Taking blocks from the front of the buffer leaves the rest in place.
LEMMA DropDelivers ==
  ASSUME NEW d \in Seq(Block), NEW r \in Reader, Delivers(d, r),
         NEW n \in Nat, n <= Len(r.buffer),
         NEW s, s.offset = r.offset,
         s.buffer = SubSeq(r.buffer, n + 1, Len(r.buffer))
  PROVE  Delivers(d, s) /\ Position(s) = Position(r) + n
<1>1. PICK buffer \in Seq(Block), offset \in Nat :
        buffer = r.buffer /\ offset = r.offset
  BY DEF Reader
<1>2. PICK rest \in Seq(Block) : /\ rest = s.buffer
                                 /\ Len(rest) = Len(buffer) - n
                                 /\ \A k \in 1..Len(rest) : rest[k] = buffer[n + k]
  <2>1. PICK rest : rest = SubSeq(buffer, n + 1, Len(buffer))
    OBVIOUS
  <2>2. rest \in Seq(Block) /\ Len(rest) = Len(buffer) - n
    BY <1>1, <2>1
  <2>3. \A k \in 1..Len(rest) : rest[k] = buffer[n + k]
    BY <1>1, <2>1, <2>2, SMTT(30)
  <2>4. QED
    BY <1>1, <2>1, <2>2, <2>3
<1>3. /\ Position(r) = offset - Len(buffer)
      /\ Position(s) = offset - Len(rest)
      /\ Position(s) = Position(r) + n
  BY <1>1, <1>2 DEF Position
<1>4. /\ offset <= Len(d) /\ Len(buffer) <= offset
      /\ \A k \in 1..Len(buffer) : buffer[k] = d[Position(r) + k]
  BY <1>1 DEF Delivers
<1>5. ASSUME NEW k \in 1..Len(rest)
      PROVE  rest[k] = d[Position(s) + k]
  <2>1. n + k \in 1..Len(buffer) /\ Position(r) + (n + k) = Position(s) + k
    BY <1>1, <1>2, <1>3
  <2>2. QED
    BY <1>2, <1>4, <2>1
<1>6. Len(rest) <= offset
  BY <1>1, <1>2, <1>4
<1>7. QED
  BY <1>1, <1>2, <1>3, <1>4, <1>5, <1>6 DEF Delivers

\* So does losing its first block.
LEMMA DropHeadDelivers ==
  ASSUME NEW d \in Seq(Block), NEW r \in Reader, Delivers(d, r), r.buffer # <<>>,
         NEW s, s.offset = r.offset, s.buffer = Tail(r.buffer)
  PROVE  Delivers(d, s) /\ Position(s) = Position(r) + 1
<1>1. r.buffer \in Seq(Block)
  BY DEF Reader
<1>2. PICK n \in Nat : n = 1
  OBVIOUS
<1>3. n <= Len(r.buffer) /\ s.buffer = SubSeq(r.buffer, n + 1, Len(r.buffer))
  BY <1>1, <1>2
<1>4. Delivers(d, s) /\ Position(s) = Position(r) + n
  BY <1>3, DropDelivers
<1>5. QED
  BY <1>2, <1>4

\* An empty buffer filled with the next blocks of d.
LEMMA RefillDelivers ==
  ASSUME NEW d \in Seq(Block), NEW r \in Reader, r.buffer = <<>>,
         NEW blocks \in Seq(Block), r.offset + Len(blocks) <= Len(d),
         \A k \in 1..Len(blocks) : blocks[k] = d[r.offset + k]
  PROVE  /\ Delivers(d, Refill(r, blocks))
         /\ Position(Refill(r, blocks)) = Position(r)
         /\ Refill(r, blocks).left = r.left
<1>1. PICK offset \in Nat : offset = r.offset
  BY DEF Reader
<1>2. /\ Refill(r, blocks).offset = offset + Len(blocks)
      /\ Refill(r, blocks).buffer = blocks
      /\ Refill(r, blocks).left = r.left
  BY <1>1 DEF Refill, Reader
<1>3. Position(r) = offset /\ Position(Refill(r, blocks)) = offset
  BY <1>1, <1>2 DEF Position
<1>4. QED
  BY <1>1, <1>2, <1>3 DEF Delivers

-----------------------------------------------------------------------------
(***************************************************************************)
(* The recursion of EntriesFrom.                                           *)
(***************************************************************************)

\* The entries an archive may have.
EntriesOf(blocks) ==
  {ValueOf(EntryOf(blocks, i)) :
     i \in {h \in 1..Len(blocks) : /\ blocks[h] \in DOMAIN RawHeader
                                   /\ Succeeds(EntryOf(blocks, h))}}

\* What the entries from a position on are, given those of later positions.
FromHere(blocks, from, i) ==
  IF i > Len(blocks) THEN Ok(<<>>)
  ELSE IF blocks[i] = EndMark THEN Ok(<<>>)
  ELSE IF blocks[i] \notin DOMAIN RawHeader THEN Fail("archive_error")
  ELSE LET first == EntryOf(blocks, i)
           rest  == from[i + 1 + RawHeader[blocks[i]].stored]
       IN  IF ~Succeeds(first) THEN first
           ELSE IF ~Succeeds(rest) THEN rest
           ELSE Ok(<<ValueOf(first)>> \o ValueOf(rest))

\* An entry without fault has its whole payload in the archive.
LEMMA PayloadWithin ==
  ASSUME NEW blocks \in Seq(Block), NEW i \in 1..Len(blocks),
         blocks[i] \in DOMAIN RawHeader, Succeeds(EntryOf(blocks, i))
  PROVE  /\ RawHeader[blocks[i]].stored \in Nat
         /\ i + RawHeader[blocks[i]].stored <= Len(blocks)
<1> DEFINE stored == RawHeader[blocks[i]].stored
           last == Least(i + stored, Len(blocks))
<1>1. stored \in Nat
  BY ReaderAssumption
<1>2. Len(PayloadAt(blocks, i)) >= stored
  <2>1. PayloadFault(blocks, i, ValueOf(NormalizeEntry(RawHeader[blocks[i]]))) = {}
    BY DEF EntryOf, EntryOfHeader, Succeeds
  <2>2. ~(Len(PayloadAt(blocks, i)) < stored)
    BY <2>1 DEF PayloadFault
  <2>3. PayloadAt(blocks, i) \in Seq(Block)
    <3>1. last \in Nat /\ last <= Len(blocks)
      BY <1>1 DEF Least
    <3>2. PayloadAt(blocks, i) = SubSeq(blocks, i + 1, last)
      BY DEF PayloadAt
    <3> HIDE DEF last
    <3>3. QED
      BY <3>1, <3>2
  <2> HIDE DEF stored
  <2>4. QED
    BY <1>1, <2>2, <2>3
<1>3. CASE i + stored <= Len(blocks)
  BY <1>1, <1>3
<1>4. CASE ~(i + stored <= Len(blocks))
  <2>1. last = Len(blocks)
    BY <1>1, <1>4 DEF Least
  <2>2. Len(PayloadAt(blocks, i)) = Len(blocks) - i
    BY <2>1 DEF PayloadAt
  <2> HIDE DEF stored
  <2>3. QED
    BY <1>1, <1>2, <1>4, <2>2
<1>5. QED
  BY <1>3, <1>4

\* Only later positions matter.
LEMMA FromLater ==
  ASSUME NEW blocks \in Seq(Block), NEW i \in 1..(Len(blocks) + 1), NEW f, NEW g,
         \A j \in (i + 1)..(Len(blocks) + 1) : f[j] = g[j]
  PROVE  FromHere(blocks, f, i) = FromHere(blocks, g, i)
<1>1. CASE \/ i > Len(blocks)
           \/ blocks[i] \notin DOMAIN RawHeader
           \/ ~Succeeds(EntryOf(blocks, i))
  BY <1>1 DEF FromHere
<1>2. CASE /\ ~(i > Len(blocks))
           /\ blocks[i] \in DOMAIN RawHeader
           /\ Succeeds(EntryOf(blocks, i))
  <2>1. i \in 1..Len(blocks)
    BY <1>2
  <2>2. i + 1 + RawHeader[blocks[i]].stored \in (i + 1)..(Len(blocks) + 1)
    BY <1>2, <2>1, PayloadWithin
  <2>3. f[i + 1 + RawHeader[blocks[i]].stored] = g[i + 1 + RawHeader[blocks[i]].stored]
    BY <2>2
  <2>4. QED
    BY <2>3 DEF FromHere
<1>3. QED
  BY <1>1, <1>2

\* The entries from position k on can be told.
Told(blocks, k) ==
  \E f : f = [i \in k..(Len(blocks) + 1) |-> FromHere(blocks, f, i)]

\* If the entries from position k on can be told, so can those from the one
\* before.
LEMMA ToldBefore ==
  ASSUME NEW blocks \in Seq(Block), NEW k \in 2..(Len(blocks) + 1), Told(blocks, k)
  PROVE  Told(blocks, k - 1)
<1>1. PICK f : f = [i \in k..(Len(blocks) + 1) |-> FromHere(blocks, f, i)]
  BY DEF Told
<1> DEFINE g == [i \in (k - 1)..(Len(blocks) + 1) |->
                   IF i = k - 1 THEN FromHere(blocks, f, k - 1) ELSE f[i]]
<1>2. \A j \in k..(Len(blocks) + 1) : g[j] = f[j]
  OBVIOUS
<1>3. ASSUME NEW i \in (k - 1)..(Len(blocks) + 1)
      PROVE  g[i] = FromHere(blocks, g, i)
  <2>1. g[i] = FromHere(blocks, f, i)
    <3>1. CASE i = k - 1
      BY <3>1
    <3>2. CASE i # k - 1
      <4>1. i \in k..(Len(blocks) + 1)
        BY <3>2
      <4>2. QED
        BY <1>1, <1>2, <4>1
    <3>3. QED
      BY <3>1, <3>2
  <2>2. \A j \in (i + 1)..(Len(blocks) + 1) : f[j] = g[j]
    BY <1>2
  <2>3. i \in 1..(Len(blocks) + 1)
    OBVIOUS
  <2> HIDE DEF g
  <2>4. FromHere(blocks, f, i) = FromHere(blocks, g, i)
    BY <2>2, <2>3, FromLater
  <2>5. QED
    BY <2>1, <2>4
<1>4. g = [i \in (k - 1)..(Len(blocks) + 1) |-> FromHere(blocks, g, i)]
  <2>1. g = [i \in (k - 1)..(Len(blocks) + 1) |-> g[i]]
    OBVIOUS
  <2> HIDE DEF g
  <2>2. QED
    BY <1>3, <2>1
<1> HIDE DEF g
<1>5. QED
  BY <1>4 DEF Told

\* The equation of EntriesFrom holds at every position.
LEMMA EntriesEquation ==
  ASSUME NEW blocks \in Seq(Block), NEW i \in 1..(Len(blocks) + 1)
  PROVE  EntriesFrom(blocks)[i] = FromHere(blocks, EntriesFrom(blocks), i)
<1> DEFINE T == {k \in 1..(Len(blocks) + 1) : Told(blocks, k)}
<1>1. Len(blocks) + 1 \in T
  <2> DEFINE f == [j \in (Len(blocks) + 1)..(Len(blocks) + 1) |-> Ok(<<>>)]
  <2>1. \A j \in (Len(blocks) + 1)..(Len(blocks) + 1) : FromHere(blocks, f, j) = Ok(<<>>)
    BY DEF FromHere
  <2>2. f = [j \in (Len(blocks) + 1)..(Len(blocks) + 1) |-> FromHere(blocks, f, j)]
    BY <2>1
  <2> HIDE DEF f
  <2>3. QED
    BY <2>2 DEF Told
<1>2. T \in SUBSET Nat /\ T # {}
  BY <1>1
<1>3. PICK k \in T : \A m \in T : k <= m
  BY <1>2, LeastNatural
<1>4. k = 1
  <2>1. SUFFICES ASSUME k # 1
                 PROVE  FALSE
    OBVIOUS
  <2>2. k \in 2..(Len(blocks) + 1) /\ Told(blocks, k)
    BY <2>1
  <2>3. k - 1 \in T
    BY <2>2, ToldBefore
  <2>4. QED
    BY <1>3, <2>2, <2>3
<1>5. PICK f : f = [j \in 1..(Len(blocks) + 1) |-> FromHere(blocks, f, j)]
  BY <1>4 DEF Told
<1>6. EntriesFrom(blocks)
        = [j \in 1..(Len(blocks) + 1) |-> FromHere(blocks, EntriesFrom(blocks), j)]
  BY <1>5 DEF EntriesFrom, FromHere
<1>7. QED
  BY <1>6

\* Where the entries from a position on can be read, they are a list of
\* entries of the archive.
LEMMA EntriesListed ==
  ASSUME NEW blocks \in Seq(Block), NEW i \in 1..(Len(blocks) + 1),
         Succeeds(EntriesFrom(blocks)[i])
  PROVE  \E list \in Seq(EntriesOf(blocks)) : EntriesFrom(blocks)[i] = Ok(list)
<1> DEFINE from == EntriesFrom(blocks)
           Listed(j) == \E list \in Seq(EntriesOf(blocks)) : from[j] = Ok(list)
           T == {k \in Nat : \E j \in 1..(Len(blocks) + 1) :
                    j = Len(blocks) + 1 - k /\ Succeeds(from[j]) /\ ~Listed(j)}
<1>1. SUFFICES ASSUME ~Listed(i)
               PROVE  FALSE
  OBVIOUS
<1>2. T \in SUBSET Nat /\ T # {}
  <2>1. Len(blocks) + 1 - i \in Nat /\ i = Len(blocks) + 1 - (Len(blocks) + 1 - i)
    OBVIOUS
  <2>2. Len(blocks) + 1 - i \in T
    BY <1>1, <2>1
  <2>3. QED
    BY <2>2
<1>3. PICK k \in T : \A m \in T : k <= m
  BY <1>2, LeastNatural
<1>4. PICK j \in 1..(Len(blocks) + 1) :
        j = Len(blocks) + 1 - k /\ Succeeds(from[j]) /\ ~Listed(j)
  BY <1>3
<1>5. from[j] = FromHere(blocks, from, j)
  BY EntriesEquation
<1>6. <<>> \in Seq(EntriesOf(blocks))
  OBVIOUS
<1>7. from[j] # Ok(<<>>)
  BY <1>4, <1>6
<1>8. /\ ~(j > Len(blocks))
      /\ blocks[j] \in DOMAIN RawHeader
      /\ Succeeds(EntryOf(blocks, j))
      /\ Succeeds(from[j + 1 + RawHeader[blocks[j]].stored])
      /\ from[j] = Ok(<<ValueOf(EntryOf(blocks, j))>>
                      \o ValueOf(from[j + 1 + RawHeader[blocks[j]].stored]))
  <2> HIDE DEF Listed, T, from
  <2>1. ~Succeeds(Fail("archive_error"))
    BY DEF Succeeds, Fail
  <2>2. ~(j > Len(blocks)) /\ blocks[j] # EndMark /\ blocks[j] \in DOMAIN RawHeader
    BY <1>4, <1>5, <1>7, <2>1 DEF FromHere
  <2>3. Succeeds(EntryOf(blocks, j))
    BY <1>4, <1>5, <2>2 DEF FromHere
  <2>4. Succeeds(from[j + 1 + RawHeader[blocks[j]].stored])
    BY <1>4, <1>5, <2>2, <2>3 DEF FromHere
  <2>5. QED
    BY <1>5, <2>2, <2>3, <2>4 DEF FromHere
<1>9. j \in 1..Len(blocks)
  BY <1>8
<1>10. PICK next \in 1..(Len(blocks) + 1) :
         next = j + 1 + RawHeader[blocks[j]].stored /\ next > j
  BY <1>8, <1>9, PayloadWithin
<1>11. Listed(next)
  <2>1. Len(blocks) + 1 - next \in Nat /\ Len(blocks) + 1 - next < k
    BY <1>3, <1>4, <1>10
  <2>2. Len(blocks) + 1 - next \notin T
    <3> HIDE DEF T
    <3>1. QED
      BY <1>2, <1>3, <2>1
  <2>3. next = Len(blocks) + 1 - (Len(blocks) + 1 - next)
    OBVIOUS
  <2>4. QED
    BY <1>8, <1>10, <2>1, <2>2, <2>3
<1>12. PICK list \in Seq(EntriesOf(blocks)) : from[next] = Ok(list)
  BY <1>11
<1>13. ValueOf(from[next]) = list
  BY <1>12 DEF ValueOf, Ok
<1>14. ValueOf(EntryOf(blocks, j)) \in EntriesOf(blocks)
  BY <1>8, <1>9 DEF EntriesOf
<1>15. <<ValueOf(EntryOf(blocks, j))>> \o list \in Seq(EntriesOf(blocks))
  BY <1>14
<1>16. QED
  BY <1>4, <1>8, <1>10, <1>13, <1>15

-----------------------------------------------------------------------------
(***************************************************************************)
(* Reading entry after entry.                                              *)
(***************************************************************************)

\* The entries listed, followed by those of a result.
Before(list, r) == IF Succeeds(r) THEN Ok(list \o ValueOf(r)) ELSE r

\* The list holds the entries before position h.
ListedUpTo(blocks, list, h) ==
  /\ list \in Seq(EntriesOf(blocks))
  /\ EntriesFrom(blocks)[1] = Before(list, EntriesFrom(blocks)[h])

\* Nothing is listed before the first position.
LEMMA NothingListed ==
  ASSUME NEW blocks \in Seq(Block)
  PROVE  ListedUpTo(blocks, <<>>, 1)
<1>1. 1 \in 1..(Len(blocks) + 1)
  OBVIOUS
<1>2. CASE ~Succeeds(EntriesFrom(blocks)[1])
  BY <1>2 DEF ListedUpTo, Before
<1>3. CASE Succeeds(EntriesFrom(blocks)[1])
  <2>1. PICK list \in Seq(EntriesOf(blocks)) : EntriesFrom(blocks)[1] = Ok(list)
    BY <1>1, <1>3, EntriesListed
  <2>2. ValueOf(Ok(list)) = list /\ Succeeds(Ok(list))
    BY DEF ValueOf, Ok, Succeeds
  <2>3. <<>> \o list = list
    BY <2>1
  <2>4. QED
    BY <2>1, <2>2, <2>3 DEF ListedUpTo, Before
<1>4. QED
  BY <1>2, <1>3

\* An entry read is appended.
LEMMA EntryListed ==
  ASSUME NEW blocks \in Seq(Block), NEW h \in 1..Len(blocks),
         blocks[h] \in DOMAIN RawHeader,
         NEW e, EntryOf(blocks, h) = Ok(e),
         NEW list, ListedUpTo(blocks, list, h)
  PROVE  ListedUpTo(blocks, Append(list, e), h + 1 + RawHeader[blocks[h]].stored)
<1> DEFINE from == EntriesFrom(blocks)
           S == EntriesOf(blocks)
<1>1. Succeeds(EntryOf(blocks, h)) /\ ValueOf(EntryOf(blocks, h)) = e
  BY DEF Succeeds, ValueOf, Ok
<1>2. e \in S
  BY <1>1 DEF EntriesOf
<1>3. PICK next \in 1..(Len(blocks) + 1) : next = h + 1 + RawHeader[blocks[h]].stored
  BY <1>1, PayloadWithin
<1>4. from[h] = FromHere(blocks, from, h)
  BY EntriesEquation
<1>5. blocks[h] # EndMark
  BY ReaderAssumption
<1>6. from[h] = IF ~Succeeds(from[next]) THEN from[next]
                ELSE Ok(<<e>> \o ValueOf(from[next]))
  <2> HIDE DEF from, S
  <2>1. QED
    BY <1>1, <1>3, <1>4, <1>5 DEF FromHere
<1>7. list \in Seq(S) /\ from[1] = Before(list, from[h])
  BY DEF ListedUpTo
<1>8. Append(list, e) \in Seq(S)
  <2> HIDE DEF S
  <2>1. QED
    BY <1>2, <1>7
<1>9. from[1] = Before(Append(list, e), from[next])
  <2>1. CASE ~Succeeds(from[next])
    BY <1>6, <1>7, <2>1 DEF Before
  <2>2. CASE Succeeds(from[next])
    <3>1. PICK tail \in Seq(S) : from[next] = Ok(tail)
      BY <2>2, EntriesListed
    <3> HIDE DEF S, from
    <3>2. /\ ValueOf(Ok(tail)) = tail
          /\ ValueOf(Ok(<<e>> \o tail)) = <<e>> \o tail
          /\ Succeeds(Ok(<<e>> \o tail))
      BY DEF ValueOf, Ok, Succeeds
    <3>3. list \o (<<e>> \o tail) = Append(list, e) \o tail
      <4>1. <<e>> \in Seq(S)
        BY <1>2
      <4>2. Append(list, e) = list \o <<e>>
        BY <1>2, <1>7, AppendIsConcat
      <4>3. (list \o <<e>>) \o tail = list \o (<<e>> \o tail)
        BY <1>7, <3>1, <4>1, ConcatAssociative, SMTT(30)
      <4>4. QED
        BY <4>2, <4>3, Zenon
    <3>4. from[h] = Ok(<<e>> \o tail)
      BY <1>6, <2>2, <3>1, <3>2
    <3>5. QED
      BY <1>7, <2>2, <3>1, <3>2, <3>3, <3>4 DEF Before
  <2>3. QED
    BY <2>1, <2>2
<1>10. QED
  BY <1>3, <1>8, <1>9 DEF ListedUpTo

\* Where the archive ends, all entries are listed.
LEMMA AllListed ==
  ASSUME NEW blocks \in Seq(Block), NEW h \in 1..(Len(blocks) + 1),
         h = Len(blocks) + 1 \/ blocks[h] = EndMark,
         NEW list, ListedUpTo(blocks, list, h)
  PROVE  EntriesFrom(blocks)[1] = Ok(list)
<1>1. EntriesFrom(blocks)[h] = Ok(<<>>)
  <2>1. EntriesFrom(blocks)[h] = FromHere(blocks, EntriesFrom(blocks), h)
    BY EntriesEquation
  <2>2. QED
    BY <2>1 DEF FromHere
<1>2. Succeeds(Ok(<<>>)) /\ ValueOf(Ok(<<>>)) = <<>>
  BY DEF ValueOf, Ok, Succeeds
<1>3. list \o <<>> = list
  BY DEF ListedUpTo
<1>4. QED
  BY <1>1, <1>2, <1>3 DEF ListedUpTo, Before

\* The entry of a header whose payload is there, and has the declared size.
LEMMA EntryWhole ==
  ASSUME NEW blocks \in Seq(Block), NEW h \in 1..Len(blocks),
         blocks[h] \in DOMAIN RawHeader,
         h + RawHeader[blocks[h]].stored <= Len(blocks),
         NEW e, NormalizeEntry(RawHeader[blocks[h]]) = Ok(e)
  PROVE  /\ e.type = "regular" /\ e.size = RawHeader[blocks[h]].stored =>
              EntryOf(blocks, h) =
                Ok([e EXCEPT !.content =
                      {SubSeq(blocks, h + 1, h + RawHeader[blocks[h]].stored)}])
         /\ e.type # "regular" => EntryOf(blocks, h) = Ok([e EXCEPT !.content = {}])
<1> DEFINE stored == RawHeader[blocks[h]].stored
<1>1. stored \in Nat
  BY ReaderAssumption
<1>2. /\ PayloadAt(blocks, h) = SubSeq(blocks, h + 1, h + stored)
      /\ Len(PayloadAt(blocks, h)) = stored
  <2>1. PayloadAt(blocks, h) = SubSeq(blocks, h + 1, Least(h + stored, Len(blocks)))
    BY DEF PayloadAt
  <2>2. Least(h + stored, Len(blocks)) = h + stored
    BY <1>1 DEF Least
  <2> HIDE DEF stored
  <2>3. Len(SubSeq(blocks, h + 1, h + stored)) = stored
    BY <1>1 DEF stored
  <2>4. QED
    BY <2>1, <2>2, <2>3
<1>3. /\ ValueOf(NormalizeEntry(RawHeader[blocks[h]])) = e
      /\ Succeeds(NormalizeEntry(RawHeader[blocks[h]]))
  BY DEF ValueOf, Ok, Succeeds
<1>4. ASSUME e.type = "regular" => e.size = stored
      PROVE  PayloadFault(blocks, h, e) = {}
  <2>1. ~(Len(PayloadAt(blocks, h)) < stored)
    BY <1>1, <1>2
  <2>2. e.type = "regular" =>
          /\ ~(Len(PayloadAt(blocks, h)) > e.size)
          /\ ~(Len(PayloadAt(blocks, h)) < e.size)
    BY <1>1, <1>2, <1>4
  <2>3. QED
    BY <2>1, <2>2 DEF PayloadFault
<1>5. QED
  BY <1>2, <1>3, <1>4 DEF EntryOf, EntryOfHeader

-----------------------------------------------------------------------------
(***************************************************************************)
(* What the reference says of an archive that cannot be read, and of headers*)
(* that normalize.                                                         *)
(***************************************************************************)

\* The first entry that fails decides.
LEMMA EntryDecides ==
  ASSUME NEW blocks \in Seq(Block), NEW h \in 1..Len(blocks),
         blocks[h] \in DOMAIN RawHeader, ~Succeeds(EntryOf(blocks, h)),
         NEW list, ListedUpTo(blocks, list, h)
  PROVE  Decode(blocks).error = EntryOf(blocks, h).error
<1>1. blocks # <<>> /\ h \in 1..(Len(blocks) + 1) /\ ~(h > Len(blocks))
  OBVIOUS
<1>2. blocks[h] # EndMark
  BY ReaderAssumption
<1>3. EntriesFrom(blocks)[h] = FromHere(blocks, EntriesFrom(blocks), h)
  BY <1>1, EntriesEquation
<1>4. EntriesFrom(blocks)[h] = EntryOf(blocks, h)
  BY <1>1, <1>2, <1>3 DEF FromHere
<1>5. EntriesFrom(blocks)[1] = EntryOf(blocks, h)
  BY <1>4 DEF ListedUpTo, Before
<1>6. QED
  BY <1>1, <1>5 DEF Decode

\* So does a block where a header is due that is none.
LEMMA StrayDecides ==
  ASSUME NEW blocks \in Seq(Block), NEW h \in 1..Len(blocks),
         blocks[h] \notin DOMAIN RawHeader, blocks[h] # EndMark,
         NEW list, ListedUpTo(blocks, list, h)
  PROVE  Decode(blocks).error = {"archive_error"}
<1>1. blocks # <<>> /\ h \in 1..(Len(blocks) + 1) /\ ~(h > Len(blocks))
  OBVIOUS
<1>2. EntriesFrom(blocks)[h] = FromHere(blocks, EntriesFrom(blocks), h)
  BY <1>1, EntriesEquation
<1>3. EntriesFrom(blocks)[h] = Fail("archive_error")
  BY <1>1, <1>2 DEF FromHere
<1>4. ~Succeeds(Fail("archive_error")) /\ Fail("archive_error").error = {"archive_error"}
  BY DEF Succeeds, Fail
<1>5. EntriesFrom(blocks)[1] = Fail("archive_error")
  BY <1>3, <1>4 DEF ListedUpTo, Before
<1>6. QED
  BY <1>1, <1>4, <1>5 DEF Decode

\* A header either fails with an exception of the library, or gives an entry
\* whose content is still absent.
LEMMA NormalizedHeader ==
  ASSUME NEW raw
  PROVE  /\ NormalizeEntry(raw).error \subseteq ErrorKind
         /\ \A e \in NormalizeEntry(raw).value :
              /\ NormalizeEntry(raw) = Ok(e)
              /\ DOMAIN e = AllFields
              /\ e.content = {}
<1>1. NormalizeError(raw) \subseteq ErrorKind
  BY DEF NormalizeError, ErrorKind
<1>2. CASE NormalizeError(raw) = {}
  <2>1. NormalizeEntry(raw) = Ok(NormalizedEntry(raw))
    BY <1>2 DEF NormalizeEntry
  <2>2. DOMAIN NormalizedEntry(raw) = AllFields /\ NormalizedEntry(raw).content = {}
    BY DEF NormalizedEntry, AllFields
  <2>3. QED
    BY <2>1, <2>2 DEF Ok
<1>3. CASE NormalizeError(raw) # {}
  BY <1>1, <1>3 DEF NormalizeEntry
<1>4. QED
  BY <1>2, <1>3

\* A regular file declares a size.
LEMMA RegularSize ==
  ASSUME NEW raw, raw.size \in Int, NEW e, NormalizeEntry(raw) = Ok(e),
         e.type = "regular"
  PROVE  e.size \in Nat
<1>1. NormalizeError(raw) = {} /\ e = NormalizedEntry(raw)
  <2>1. e \in NormalizeEntry(raw).value
    BY DEF Ok
  <2>2. QED
    BY <2>1 DEF NormalizeEntry, Ok
<1>2. PICK type : type = CHOOSE t \in NormalizedType(raw) : TRUE
  OBVIOUS
<1>3. type = "regular" /\ e.size = raw.size
  BY <1>1, <1>2 DEF NormalizedEntry
<1>4. NormalizedType(raw) # {}
  BY <1>1 DEF NormalizeError
<1>5. NormalizedType(raw) = {"regular"}
  <2>1. \A s, t \in NormalizedType(raw) : s = t
    BY DEF NormalizedType
  <2>2. type \in NormalizedType(raw)
    BY <1>2, <1>4
  <2>3. QED
    BY <1>3, <2>1, <2>2
<1>6. ~(raw.size < 0)
  BY <1>1, <1>5 DEF NormalizeError
<1>7. QED
  BY <1>3, <1>6

\* How much payload there is.
LEMMA PayloadLength ==
  ASSUME NEW blocks \in Seq(Block), NEW h \in 1..Len(blocks),
         NEW stored \in Nat, stored = RawHeader[blocks[h]].stored
  PROVE  Len(PayloadAt(blocks, h)) =
           IF h + stored <= Len(blocks) THEN stored ELSE Len(blocks) - h
<1>1. PICK last \in Nat : /\ last = Least(h + stored, Len(blocks))
                          /\ last >= h /\ last <= Len(blocks)
  BY DEF Least
<1>2. Len(SubSeq(blocks, h + 1, last)) = last - h
  BY <1>1
<1>3. PayloadAt(blocks, h) = SubSeq(blocks, h + 1, last)
  BY <1>1 DEF PayloadAt
<1>4. QED
  BY <1>1, <1>2, <1>3 DEF Least
-----------------------------------------------------------------------------
(***************************************************************************)
(* What the reference says of an archive that can be read.                 *)
(***************************************************************************)

\* An entry with its id, as construct assigns it, and one with its content.
Numbered(e, id) == [e EXCEPT !.id = id]

Filled(e, content) == [e EXCEPT !.content = content]

\* Every entry that is reached can be read, and the image holds it at the
\* position it is listed at.
LEMMA EntryImaged ==
  ASSUME NEW d \in Seq(Block), NEW image, Decode(d) = Ok(image),
         NEW h \in 1..Len(d), d[h] \in DOMAIN RawHeader,
         NEW list, ListedUpTo(d, list, h)
  PROVE  \E e : /\ EntryOf(d, h) = Ok(e)
                /\ ListedUpTo(d, Append(list, e), h + 1 + RawHeader[d[h]].stored)
                /\ Len(Append(list, e)) = Len(list) + 1
                /\ Len(list) \in Nat /\ Len(image) \in Nat
                /\ Len(list) < Len(image)
                /\ image[Len(list) + 1] = Numbered(e, Len(list))
<1> DEFINE S == EntriesOf(d)
           from == EntriesFrom(d)
           stored == RawHeader[d[h]].stored
<1>1. Succeeds(EntryOf(d, h))
  <2>1. Decode(d).error = {}
    BY DEF Ok
  <2>2. QED
    BY <2>1, EntryDecides DEF Succeeds
<1>2. PICK e : EntryOf(d, h) = Ok(e)
  BY <1>1 DEF EntryOf, EntryOfHeader, Succeeds
<1>3. PICK longer : longer = Append(list, e)
  OBVIOUS
<1>4. ListedUpTo(d, longer, h + 1 + stored)
  BY <1>2, <1>3, EntryListed
<1>5. PICK next \in 1..(Len(d) + 1) : next = h + 1 + stored
  BY <1>1, PayloadWithin
<1>6. longer \in Seq(S) /\ from[1] = Before(longer, from[next]) /\ list \in Seq(S)
  BY <1>4, <1>5 DEF ListedUpTo
<1>7. Succeeds(from[1])
  BY DEF Decode, Ok, Fail, Succeeds
<1>8. Succeeds(from[next])
  BY <1>6, <1>7 DEF Before
<1>9. PICK tail \in Seq(S) : from[next] = Ok(tail)
  BY <1>5, <1>8, EntriesListed
<1>10. PICK all : all = longer \o tail
  OBVIOUS
<1>11. from[1] = Ok(all) /\ ValueOf(from[1]) = all
  <2>1. ValueOf(from[next]) = tail /\ ValueOf(Ok(all)) = all
    BY <1>9 DEF ValueOf, Ok
  <2>2. QED
    BY <1>6, <1>8, <1>10, <2>1 DEF Before
<1>12. image = [i \in 1..Len(all) |-> [all[i] EXCEPT !.id = i - 1]]
  <2>1. Construct(all) = Ok(image)
    BY <1>7, <1>11 DEF Decode, Ok, Fail
  <2>2. QED
    BY <2>1 DEF Construct, Ok, Fail
<1>13. /\ Len(list) \in Nat /\ Len(longer) = Len(list) + 1
       /\ longer[Len(list) + 1] = e
       /\ Len(all) \in Nat /\ Len(all) >= Len(list) + 1
       /\ all[Len(list) + 1] = e
  <2> HIDE DEF S
  <2>1. Len(list) \in Nat
    BY <1>6
  <2>2. Len(longer) = Len(list) + 1 /\ longer[Len(list) + 1] = e
    BY <1>3, <1>6
  <2>3. /\ Len(tail) \in Nat /\ Len(all) = Len(longer) + Len(tail)
        /\ \A i \in 1..Len(longer) : all[i] = longer[i]
    BY <1>6, <1>9, <1>10
  <2>4. QED
    BY <2>1, <2>2, <2>3
<1>14. Len(image) = Len(all) /\ image[Len(list) + 1] = Numbered(e, Len(list))
  <2>1. Len(image) = Len(all)
    BY <1>12, <1>13
  <2>2. PICK k \in 1..Len(all) : k = Len(list) + 1 /\ k - 1 = Len(list)
    BY <1>13
  <2>3. image[k] = [all[k] EXCEPT !.id = k - 1]
    BY <1>12, <2>2
  <2>4. QED
    BY <1>13, <2>1, <2>2, <2>3 DEF Numbered
<1>15. Len(list) < Len(image) /\ Len(image) \in Nat
  BY <1>13, <1>14
<1>16. QED
  BY <1>2, <1>3, <1>4, <1>13, <1>14, <1>15

\* Where the archive ends, the list is as long as the image.
LEMMA AllImaged ==
  ASSUME NEW d \in Seq(Block), NEW image, Decode(d) = Ok(image),
         NEW h \in 1..(Len(d) + 1), h = Len(d) + 1 \/ d[h] = EndMark,
         NEW list, ListedUpTo(d, list, h)
  PROVE  Len(image) = Len(list)
<1>1. EntriesFrom(d)[1] = Ok(list)
  BY AllListed
<1>2. ValueOf(Ok(list)) = list /\ Succeeds(Ok(list))
  BY DEF ValueOf, Ok, Succeeds
<1>3. Construct(list) = Ok(image)
  BY <1>1, <1>2 DEF Decode, Ok, Fail
<1>4. image = [i \in 1..Len(list) |-> [list[i] EXCEPT !.id = i - 1]]
  BY <1>3 DEF Construct, Ok, Fail
<1>5. Len(list) \in Nat
  BY DEF ListedUpTo
<1>6. QED
  BY <1>4, <1>5

\* An entry that can be read has the header normalized, and all of its
\* payload, which is the content of a regular file and has the size declared.
LEMMA EntryRead ==
  ASSUME NEW d \in Seq(Block), NEW h \in 1..Len(d), d[h] \in DOMAIN RawHeader,
         NEW e, EntryOf(d, h) = Ok(e)
  PROVE  \E n : /\ NormalizeEntry(RawHeader[d[h]]) = Ok(n)
                /\ DOMAIN n = AllFields
                /\ \E content : e = Filled(n, content)
                /\ RawHeader[d[h]].stored \in Nat
                /\ h + RawHeader[d[h]].stored <= Len(d)
                /\ e.type = "regular" =>
                     /\ e.size = RawHeader[d[h]].stored
                     /\ e.content = {SubSeq(d, h + 1, h + RawHeader[d[h]].stored)}
<1> DEFINE header == NormalizeEntry(RawHeader[d[h]])
<1>1. Succeeds(EntryOf(d, h))
  BY DEF Succeeds, Ok
<1>2. Succeeds(header)
  BY <1>1 DEF EntryOf, EntryOfHeader
<1>3. PICK n : header = Ok(n)
  BY <1>2 DEF NormalizeEntry, Succeeds
<1>4. ValueOf(header) = n
  BY <1>3 DEF ValueOf, Ok
<1>5. PayloadFault(d, h, n) = {}
  BY <1>1, <1>2, <1>4 DEF EntryOf, EntryOfHeader, Succeeds
<1>6. e = [n EXCEPT !.content = IF n.type = "regular" THEN {PayloadAt(d, h)} ELSE {}]
  BY <1>2, <1>4, <1>5 DEF EntryOf, EntryOfHeader, Ok
<1>7. DOMAIN n = AllFields
  BY <1>3, NormalizedHeader DEF Ok
<1>8. PICK stored \in Nat : stored = RawHeader[d[h]].stored /\ h + stored <= Len(d)
  BY <1>1, PayloadWithin
<1>9. Len(PayloadAt(d, h)) = stored
  BY <1>8, PayloadLength
<1>10. PayloadAt(d, h) = SubSeq(d, h + 1, h + stored)
  BY <1>8 DEF PayloadAt, Least
<1>11. e.type = n.type /\ e.size = n.size
  BY <1>6, <1>7 DEF AllFields
<1>12. ASSUME e.type = "regular"
       PROVE  e.size = stored /\ e.content = {SubSeq(d, h + 1, h + stored)}
  <2>1. n.size \in Nat
    BY <1>3, <1>11, <1>12, RegularSize, SizesAssumption
  <2>2. /\ ~(Len(PayloadAt(d, h)) > n.size)
        /\ ~(Len(PayloadAt(d, h)) < n.size)
    <3>1. ~(Len(PayloadAt(d, h)) < RawHeader[d[h]].stored)
      BY <1>8, <1>9
    <3>2. QED
      BY <1>5, <1>11, <1>12, <3>1 DEF PayloadFault
  <2>3. e.content = {PayloadAt(d, h)}
    BY <1>6, <1>7, <1>11, <1>12 DEF AllFields
  <2>4. QED
    BY <1>8, <1>9, <1>10, <1>11, <2>1, <2>2, <2>3
<1>13. \E content : e = Filled(n, content)
  BY <1>6 DEF Filled
<1>14. QED
  BY <1>3, <1>7, <1>8, <1>12, <1>13


=============================================================================
