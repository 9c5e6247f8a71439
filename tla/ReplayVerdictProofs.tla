------------------------ MODULE ReplayVerdictProofs ------------------------
(***************************************************************************)
(* Proof that replay refuses nothing it should accept: when the sealed     *)
(* image is what the sealed bytes mean, and nobody edits the file and no   *)
(* call below fails, then a call ends with an exception of the sink or of  *)
(* validate, or not at all with one, however its reads are split.          *)
(*                                                                         *)
(* The reader of such a call is always in step with the reference: before  *)
(* a header as many entries are listed as the index says, and inside an    *)
(* entry what is left of its payload is what the archive still stores.     *)
(***************************************************************************)
EXTENDS LibarchiveReplayProofs, FunctionTheorems

-----------------------------------------------------------------------------
(***************************************************************************)
(* The invariant of the calls that nobody disturbs.                        *)
(***************************************************************************)

Calm == edits = 0 /\ faults = 0

\* A file that nobody has edited is the sealed one.
Sealed == edits = 0 => file = package.digest /\ Stamp = package.stamp

\* Every entry a sink has seen ended was counted.
Tallied(c) == replayed[c] = Len(sink[c].ended)

\* A hash pass hashes the sealed bytes, and ends at their end.
HashesSealed(c) ==
  /\ pc[c] \in {"hash", "reverify"} =>
       /\ hash[c].offset <= Len(package.digest)
       /\ \A k \in 1..hash[c].offset : hash[c].blocks[k] = package.digest[k]
  /\ pc[c] = "reverify" => hash[c].offset >= Len(package.digest)

\* The entries before position h are those before the index.
ListedAt(c, h) ==
  \E list : ListedUpTo(package.digest, list, h) /\ Len(list) = index[c]

\* The current entry is the one whose header is at position h.
ReadsEntry(c, h) ==
  LET at == Position(reader[c])
  IN  /\ package.digest[h] \in DOMAIN RawHeader
      /\ ListedAt(c, h)
      /\ at + reader[c].left = h + RawHeader[package.digest[h]].stored
      /\ pc[c] = "begin" => at = h
      /\ pc[c] = "data" => contents[c] = SubSeq(package.digest, h + 1, at)

\* Decoding starts afresh and is in step with the reference.
InStep(c) ==
  /\ phase[c] = "pre" /\ pc[c] \in {"idle", "verify", "hash", "reverify"} =>
       reader[c] = NewReader
  /\ pc[c] \in Decoding => Delivers(package.digest, reader[c])
  /\ pc[c] = "header" => ListedAt(c, Position(reader[c]) + 1)
  /\ pc[c] \in {"begin", "data", "skip"} =>
       \E h \in 1..Position(reader[c]) : ReadsEntry(c, h)

\* What a failed call may have failed with.
Excused(c) ==
  pc[c] = "failed" =>
    \/ error[c] = {"sink_exception"}
    \/ error[c] = {"selection_error"} /\ ~ValidFor(Chosen(c), package.image)

Undisturbed(c) == HashesSealed(c) /\ InStep(c) /\ Excused(c)

\* What is known of a call otherwise.
Known(c) == SelectionKept(c) /\ HashCounts(c) /\ Counted(c) /\ Tallied(c)

-----------------------------------------------------------------------------
(***************************************************************************)
(* What is kept whatever happens.                                          *)
(***************************************************************************)

\* Nothing has disturbed the calls before, if nothing has after a step.
LEMMA CalmBefore ==
  ASSUME TypeOK, [Next]_vars, Calm'
  PROVE  Calm /\ ~EditSource /\ \A c \in Callers : ~Fault(c)
<1>1. edits \in Nat /\ faults \in Nat
  BY BoundsAssumption, FaultsAssumption DEF TypeOK, SourceTypeOK
<1>2. ~Edit
  <2>1. SUFFICES ASSUME Edit
                 PROVE  FALSE
    OBVIOUS
  <2>2. edits' = edits + 1
    BY <2>1 DEF Edit, Overwrite, Truncate, Extend, Touch, Install
  <2>3. QED
    BY <1>1, <2>2 DEF Calm
<1>3. ~EditSource /\ \A c \in Callers : ~Fault(c)
  BY <1>1, <1>2 DEF EditSource, Calm, Fault
<1>4. edits' = edits /\ faults' = faults
  <2>1. ASSUME NEW c \in Callers, Step(c)
        PROVE  edits' = edits /\ faults' = faults
    BY <2>1 DEF Step, sourceVars, VerifyStamp, HashChunk, HashTruncated, HashDone,
         VerifySealed, FillBuffer, SourceTruncated, NextHeader, EndOfArchive,
         Begin, WriteBlock, PayloadExceeds, EndEntry, PayloadRejected, SinkThrows,
         SkipData, EndSkip, PayloadTruncated, CloseReader
  <2>2. QED
    BY <1>3, <2>1 DEF Next, Replay, Terminated, vars, sourceVars
<1>5. QED
  BY <1>3, <1>4 DEF Calm

\* A file that was not edited stays the sealed one.
LEMMA SealedKept ==
  ASSUME IInv, [Next]_vars, Sealed
  PROVE  Sealed' /\ package' = package
<1>1. edits \in Nat
  BY BoundsAssumption DEF IInv, TypeOK, SourceTypeOK
<1>2. package' = package /\ (Edit \/ UNCHANGED sourceVars)
  <2>1. ASSUME NEW c \in Callers, Step(c) \/ Fault(c)
        PROVE  UNCHANGED <<package, sourceVars>>
    BY <2>1, StepEffects DEF IInv
  <2>2. QED
    BY <2>1 DEF Next, Replay, EditSource, Terminated, vars
<1>3. CASE Edit
  <2>1. edits' = edits + 1
    BY <1>3 DEF Edit, Overwrite, Truncate, Extend, Touch, Install
  <2>2. QED
    BY <1>1, <1>2, <2>1 DEF Sealed
<1>4. CASE UNCHANGED sourceVars
  BY <1>2, <1>4 DEF Sealed, sourceVars, Stamp
<1>5. QED
  BY <1>2, <1>3, <1>4

\* Ending an entry counts it, and nothing else does.
LEMMA TalliedKept ==
  ASSUME IInv, [Next]_vars, NEW d \in Callers, Tallied(d)
  PROVE  Tallied(d)'
<1>1. ASSUME NEW c \in Callers, Step(c) \/ Fault(c)
      PROVE  Tallied(d)'
  <2>1. /\ \A e \in Callers \ {c} : Untouched(e)
        /\ Begin(c) \/ WriteBlock(c) \/ EndEntry(c) \/ sink'[c] = sink[c]
        /\ EndEntry(c) \/ replayed'[c] = replayed[c]
    BY <1>1, StepEffects DEF IInv
  <2>2. CASE c # d
    BY <2>1, <2>2 DEF Untouched, Tallied
  <2>3. CASE c = d /\ EndEntry(c)
    <3>1. /\ sink[c].ended \in Seq([id : Nat, content : Seq(Block)])
          /\ sink'[c].ended = Append(sink[c].ended,
                                     [id |-> ExpectedEntry(c).id, content |-> sink[c].written])
          /\ replayed'[c] = replayed[c] + 1
      BY <2>3 DEF IInv, TypeOK, EndEntry, SinkEnd
    <3>2. Len(sink'[c].ended) = Len(sink[c].ended) + 1
      BY <3>1
    <3>3. QED
      BY <2>3, <3>1, <3>2 DEF Tallied
  <2>4. CASE c = d /\ ~EndEntry(c)
    <3>1. sink'[c].ended = sink[c].ended
      BY <2>1, <2>4 DEF Begin, WriteBlock, SinkBegin, SinkWrite, IInv, TypeOK
    <3>2. QED
      BY <2>1, <2>4, <3>1 DEF Tallied
  <2>5. QED
    BY <2>2, <2>3, <2>4
<1>2. CASE UNCHANGED <<sink, replayed>>
  BY <1>2 DEF Tallied
<1>3. QED
  BY <1>1, <1>2 DEF Next, Replay, EditSource, Terminated, vars, callVars

-----------------------------------------------------------------------------
(***************************************************************************)
(* Verifying the source.                                                   *)
(***************************************************************************)

\* The source of the calls that nobody disturbs.
LEMMA CalmSource ==
  ASSUME IInv, Sealed, Calm
  PROVE  /\ package \in Packages
         /\ package.digest \in Seq(Block)
         /\ file = package.digest /\ Stamp = package.stamp
         /\ Len(package.digest) \in Nat
         /\ package.stamp.size = Len(package.digest)
<1>1. package \in Packages
  BY DEF IInv, TypeOK
<1>2. package.digest \in Seq(Block) /\ Len(package.digest) \in Nat
  BY <1>1, PackagesAssumption
<1>3. package.stamp.size = Len(package.digest)
  BY <1>1, SealedAssumption
<1>4. QED
  BY <1>1, <1>2, <1>3 DEF Sealed, Calm

\* A verification succeeds, and every pass hashes the sealed bytes.
LEMMA VerifyCalm ==
  ASSUME IInv, Sealed, Calm, NEW c \in Callers, Known(c), Undisturbed(c),
         VerifyStamp(c)
  PROVE  Undisturbed(c)'
<1>1. /\ pc[c] = "verify" /\ pc'[c] = "hash"
      /\ hash'[c] = NewHash
      /\ UNCHANGED <<package, phase, reader>>
  BY CalmSource DEF VerifyStamp, Goto, FreshHash, IInv, TypeOK
<1>2. Len(package.digest) \in Nat
  BY CalmSource
<1>3. HashesSealed(c)'
  BY <1>1, <1>2 DEF HashesSealed, NewHash
<1>4. InStep(c)'
  BY <1>1 DEF InStep, Undisturbed, Decoding
<1>5. QED
  BY <1>1, <1>3, <1>4 DEF Undisturbed, Excused

\* A pass hashes the sealed bytes chunk by chunk.
LEMMA HashChunkCalm ==
  ASSUME IInv, Sealed, Calm, NEW c \in Callers, Known(c), Undisturbed(c),
         HashChunk(c)
  PROVE  Undisturbed(c)'
<1>1. /\ pc[c] = "hash" /\ pc'[c] = "hash"
      /\ UNCHANGED <<package, phase, reader>>
  BY DEF HashChunk
<1>2. PICK size \in Nat, d \in Seq(Block) :
        /\ size = package.stamp.size /\ d = package.digest
        /\ size = Len(d) /\ file = d
  BY CalmSource
<1>3. Grown(hash[c], hash'[c], size)
  BY <1>2, HashChunkGrows DEF Known
<1>4. hash[c].offset \in Nat /\ hash'[c].offset \in Nat
  BY <1>3 DEF IInv, TypeOK, Grown
<1>5. \A k \in 1..hash[c].offset : hash[c].blocks[k] = d[k]
  BY <1>1, <1>2 DEF Undisturbed, HashesSealed
<1>6. ASSUME NEW k \in 1..hash'[c].offset
      PROVE  hash'[c].blocks[k] = d[k]
  <2>1. CASE k <= hash[c].offset
    BY <1>3, <1>4, <1>5, <2>1 DEF Grown
  <2>2. CASE ~(k <= hash[c].offset)
    BY <1>2, <1>3, <1>4, <2>2 DEF Grown
  <2>3. QED
    BY <2>1, <2>2
<1>7. hash'[c].offset <= Len(d)
  BY <1>2, <1>3 DEF Grown
<1>8. HashesSealed(c)'
  BY <1>1, <1>2, <1>6, <1>7 DEF HashesSealed
<1>9. InStep(c)'
  BY <1>1 DEF InStep, Undisturbed, Decoding
<1>10. QED
  BY <1>1, <1>8, <1>9 DEF Undisturbed, Excused

\* A read of the source that returns nothing does not happen.
LEMMA ReadsSomething ==
  ASSUME IInv, Sealed, Calm, NEW offset \in Nat, offset < package.stamp.size
  PROVE  <<>> \notin Pread(offset, Least(package.stamp.size - offset, Chunk))
<1>1. PICK size \in Nat : size = package.stamp.size /\ size = Len(file)
  BY CalmSource
<1>2. file \in Seq(Block)
  BY CalmSource
<1>3. QED
  BY <1>1, <1>2, PreadSome

\* It is not cut short, and ends where the sealed bytes end.
LEMMA HashDoneCalm ==
  ASSUME IInv, Sealed, Calm, NEW c \in Callers, Known(c), Undisturbed(c),
         HashTruncated(c) \/ HashDone(c)
  PROVE  Undisturbed(c)'
<1>1. pc[c] = "hash" /\ hash[c].offset \in Nat
  BY DEF HashTruncated, HashDone, IInv, TypeOK
<1>2. ~HashTruncated(c)
  BY <1>1, ReadsSomething DEF HashTruncated, HashPread
<1>3. /\ pc'[c] = "reverify"
      /\ hash[c].offset >= package.stamp.size
      /\ UNCHANGED <<package, phase, hash, reader>>
  BY <1>2 DEF HashDone, Goto, IInv, TypeOK
<1>4. HashesSealed(c)'
  BY <1>1, <1>3, CalmSource DEF Undisturbed, HashesSealed
<1>5. InStep(c)'
  BY <1>1, <1>3 DEF InStep, Undisturbed, Decoding
<1>6. QED
  BY <1>3, <1>4, <1>5 DEF Undisturbed, Excused

\* The sealed bytes are what was hashed; decoding starts at their beginning.
LEMMA VerifySealedCalm ==
  ASSUME IInv, Sealed, Calm, NEW c \in Callers, Known(c), Undisturbed(c),
         VerifySealed(c)
  PROVE  Undisturbed(c)'
<1>1. pc[c] = "reverify" /\ UNCHANGED <<package, phase, hash, reader, index>>
  BY DEF VerifySealed
<1>2. PICK d \in Seq(Block) : d = package.digest /\ Len(d) \in Nat
  BY CalmSource
<1>3. hash[c].blocks = d
  <2>1. /\ hash[c].blocks \in Seq(Block)
        /\ hash[c].offset = Len(hash[c].blocks)
        /\ hash[c].offset <= Len(d) /\ hash[c].offset >= Len(d)
        /\ \A k \in 1..hash[c].offset : hash[c].blocks[k] = d[k]
    BY <1>1, <1>2 DEF IInv, TypeOK, Known, HashCounts, Undisturbed, HashesSealed
  <2>2. hash[c].offset = Len(d)
    BY <1>2, <2>1
  <2>3. QED
    BY <2>1, <2>2, SeqEqual
<1>4. SealHolds(c)
  BY <1>2, <1>3, CalmSource DEF SealHolds
<1>5. pc'[c] = IF phase[c] = "pre" THEN "header" ELSE "returned"
  BY <1>4 DEF VerifySealed, Goto, IInv, TypeOK
<1>6. CASE phase[c] = "pre"
  <2>1. reader[c] = NewReader /\ index[c] = 0 /\ pc'[c] = "header"
    BY <1>1, <1>5, <1>6 DEF Undisturbed, InStep, IInv, CallInvariant, PhaseFits
  <2>2. Delivers(d, reader[c]) /\ Position(reader[c]) = 0
    BY <1>2, <2>1 DEF Delivers, Position, NewReader
  <2>3. ListedAt(c, 1)'
    <3>1. ListedUpTo(d, <<>>, 1) /\ Len(<<>>) = 0
      BY NothingListed
    <3>2. QED
      BY <1>1, <1>2, <2>1, <3>1 DEF ListedAt
  <2>4. InStep(c)'
    BY <1>1, <1>2, <2>1, <2>2, <2>3 DEF InStep
  <2>5. QED
    BY <2>1, <2>4 DEF Undisturbed, HashesSealed, Excused
<1>7. CASE phase[c] # "pre"
  BY <1>1, <1>5, <1>7 DEF Undisturbed, HashesSealed, InStep, Excused, Decoding
<1>8. QED
  BY <1>6, <1>7

-----------------------------------------------------------------------------
(***************************************************************************)
(* Reading entry after entry.                                              *)
(***************************************************************************)

\* The sealed image is what the sealed bytes mean, for every package.
Meant == \A p \in Packages : Decode(p.digest) = Ok(p.image)

\* The reader of a call that decodes.
LEMMA ReaderInStep ==
  ASSUME IInv, Sealed, Calm, NEW c \in Callers, Undisturbed(c), pc[c] \in Decoding
  PROVE  /\ package.digest \in Seq(Block) /\ Len(package.digest) \in Nat
         /\ reader[c] \in Reader
         /\ reader[c].offset \in Nat /\ reader[c].buffer \in Seq(Block)
         /\ reader[c].left \in Nat
         /\ reader[c].offset <= Len(package.digest)
         /\ Delivers(package.digest, reader[c])
         /\ Position(reader[c]) \in Nat
         /\ Position(reader[c]) <= Len(package.digest)
         /\ reader[c].buffer # <<>> =>
              /\ Position(reader[c]) + 1 <= Len(package.digest)
              /\ Head(reader[c].buffer) = package.digest[Position(reader[c]) + 1]
         /\ reader[c].buffer = <<>> => Position(reader[c]) = reader[c].offset
         /\ phase[c] = "pre"
<1>1. package.digest \in Seq(Block) /\ Len(package.digest) \in Nat
  BY CalmSource
<1>2. reader[c] \in Reader
  BY DEF IInv, TypeOK
<1>3. Delivers(package.digest, reader[c])
  BY DEF Undisturbed, InStep
<1>4. phase[c] = "pre"
  BY DEF IInv, CallInvariant, PhaseFits
<1>5. QED
  BY <1>1, <1>2, <1>3, <1>4, DeliveredNext DEF Reader, Delivers

\* The entry being read can be read, and the image holds it.
LEMMA EntryInStep ==
  ASSUME Meant, IInv, Sealed, Calm, NEW c \in Callers, Known(c), Undisturbed(c),
         pc[c] \in {"begin", "data", "skip"}
  PROVE  \E h \in 1..Position(reader[c]), stored \in Nat :
           /\ ReadsEntry(c, h)
           /\ h + stored <= Len(package.digest)
           /\ Position(reader[c]) + reader[c].left = h + stored
           /\ \E list : /\ ListedUpTo(package.digest, list, h + 1 + stored)
                        /\ Len(list) = index[c] + 1
           /\ ExpectedEntry(c).type = "regular" =>
                /\ ExpectedEntry(c).size = stored
                /\ ExpectedEntry(c).content
                     = {SubSeq(package.digest, h + 1, h + stored)}
<1>1. PICK d \in Seq(Block) : d = package.digest /\ Len(d) \in Nat
  BY CalmSource
<1>2. PICK at \in Nat : at = Position(reader[c]) /\ at <= Len(d)
  BY <1>1, ReaderInStep DEF Decoding
<1>3. PICK h \in 1..at : ReadsEntry(c, h)
  BY <1>2 DEF Undisturbed, InStep
<1>4. h \in 1..Len(d) /\ d[h] \in DOMAIN RawHeader
  BY <1>1, <1>2, <1>3 DEF ReadsEntry
<1>5. PICK list : ListedUpTo(d, list, h) /\ Len(list) = index[c]
  BY <1>1, <1>3 DEF ReadsEntry, ListedAt
<1>6. Decode(d) = Ok(package.image)
  BY <1>1, CalmSource DEF Meant
<1>7. PICK e : /\ EntryOf(d, h) = Ok(e)
               /\ ListedUpTo(d, Append(list, e), h + 1 + RawHeader[d[h]].stored)
               /\ Len(Append(list, e)) = index[c] + 1
               /\ package.image[index[c] + 1] = Numbered(e, index[c])
  BY <1>4, <1>5, <1>6, EntryImaged
<1>8. PICK n : /\ DOMAIN n = AllFields
               /\ \E content : e = Filled(n, content)
               /\ RawHeader[d[h]].stored \in Nat
               /\ h + RawHeader[d[h]].stored <= Len(d)
               /\ e.type = "regular" =>
                    /\ e.size = RawHeader[d[h]].stored
                    /\ e.content = {SubSeq(d, h + 1, h + RawHeader[d[h]].stored)}
  BY <1>4, <1>7, EntryRead
<1>9. DOMAIN e = AllFields
  BY <1>8 DEF Filled
<1>10. PICK stored \in Nat : stored = RawHeader[d[h]].stored
  BY <1>8
<1>11. at + reader[c].left = h + stored
  BY <1>1, <1>2, <1>3, <1>10 DEF ReadsEntry
<1>12. \E longer : /\ ListedUpTo(d, longer, h + 1 + stored)
                   /\ Len(longer) = index[c] + 1
  BY <1>7, <1>10
<1>13. /\ ExpectedEntry(c).type = e.type
       /\ ExpectedEntry(c).size = e.size
       /\ ExpectedEntry(c).content = e.content
  BY <1>7, <1>9 DEF ExpectedEntry, Numbered, AllFields
<1>14. /\ h + stored <= Len(d)
       /\ ExpectedEntry(c).type = "regular" =>
            /\ ExpectedEntry(c).size = stored
            /\ ExpectedEntry(c).content = {SubSeq(d, h + 1, h + stored)}
  BY <1>8, <1>10, <1>13
<1>15. QED
  BY <1>1, <1>2, <1>3, <1>11, <1>12, <1>14, Zenon

\* What the callback delivers are the sealed bytes.
LEMMA FillCalm ==
  ASSUME IInv, Sealed, Calm, NEW c \in Callers, Known(c), Undisturbed(c),
         FillBuffer(c)
  PROVE  Undisturbed(c)'
<1>1. /\ pc[c] \in {"header", "data", "skip"}
      /\ reader[c].buffer = <<>>
      /\ reader[c].offset < package.stamp.size
      /\ UNCHANGED <<package, pc, selection, phase, hash, index, contents, error>>
  <2>1. reader[c].offset \in Nat /\ package.stamp.size \in Nat
    BY CalmSource DEF IInv, TypeOK, Reader
  <2>2. QED
    BY <2>1 DEF FillBuffer, Starving, Buffered, Drained
<1>2. PICK d \in Seq(Block), r \in Reader :
        /\ d = package.digest /\ Len(d) \in Nat /\ file = d
        /\ package.stamp.size = Len(d)
        /\ r = reader[c]
  BY CalmSource DEF IInv, TypeOK
<1>3. PICK blocks \in ReadSource(r, Len(d)) : reader'[c] = Refill(r, blocks)
  BY <1>1, <1>2 DEF FillBuffer, Advance, IInv, TypeOK
<1>4. PICK offset \in Nat, asked \in Nat :
        /\ offset = r.offset
        /\ asked <= Len(d) - offset
        /\ blocks \in Pread(offset, asked)
  <2>1. PICK offset \in Nat : offset = r.offset /\ offset < Len(d)
    BY <1>1, <1>2 DEF Reader
  <2>2. /\ Least(Len(d) - offset, Chunk) \in Nat
        /\ Least(Len(d) - offset, Chunk) <= Len(d) - offset
    BY <1>2, <2>1, ChunkAssumption DEF Least
  <2>3. QED
    BY <1>3, <2>1, <2>2 DEF ReadSource
<1>5. /\ blocks \in Seq(Block)
      /\ Len(blocks) <= asked
      /\ \A k \in 1..Len(blocks) : blocks[k] = d[offset + k]
  BY <1>2, <1>4, PreadType, PreadBlocks
<1>6. offset + Len(blocks) <= Len(d)
  BY <1>2, <1>4, <1>5
<1>7. /\ Delivers(d, reader'[c])
      /\ Position(reader'[c]) = Position(r)
      /\ reader'[c].left = r.left
  BY <1>1, <1>2, <1>3, <1>4, <1>5, <1>6, RefillDelivers, ZenonT(30)
<1>8. InStep(c)'
  <2>1. \A h : ListedAt(c, h) <=> ListedAt(c, h)'
    BY <1>1 DEF ListedAt
  <2>2. \A h : ReadsEntry(c, h) => ReadsEntry(c, h)'
    BY <1>1, <1>2, <1>7, <2>1 DEF ReadsEntry
  <2>3. QED
    BY <1>1, <1>2, <1>7, <2>1, <2>2 DEF InStep, Undisturbed, Decoding
<1>9. QED
  BY <1>1, <1>8 DEF Undisturbed, HashesSealed, Excused

\* The header that comes next is that of the entry at the index, and differs
\* from it in nothing that is compared.
LEMMA HeaderCalm ==
  ASSUME Meant, IInv, Sealed, Calm, NEW c \in Callers, Known(c), Undisturbed(c),
         HeaderReady(c), HeaderStatus(reader[c]) = "OK"
  PROVE  /\ reader[c].buffer # <<>>
         /\ HeaderError(c) = {}
         /\ ListedAt(c, Position(reader[c]) + 1)
<1>1. pc[c] = "header" /\ pc[c] \in Decoding
  BY DEF HeaderReady, Decoding
<1>2. reader[c].buffer # <<>> /\ Head(reader[c].buffer) \in DOMAIN RawHeader
  BY DEF HeaderStatus, Buffered
<1>3. PICK d \in Seq(Block), h \in Nat :
        /\ d = package.digest /\ Len(d) \in Nat
        /\ h = Position(reader[c]) + 1 /\ h \in 1..Len(d)
        /\ Head(reader[c].buffer) = d[h]
  BY <1>1, <1>2, ReaderInStep
<1>4. ListedAt(c, h)
  BY <1>1, <1>3 DEF Undisturbed, InStep
<1>5. PICK list : ListedUpTo(d, list, h) /\ Len(list) = index[c]
  BY <1>3, <1>4 DEF ListedAt
<1>6. Decode(d) = Ok(package.image)
  BY <1>3, CalmSource DEF Meant
<1>7. PICK e : /\ EntryOf(d, h) = Ok(e)
               /\ index[c] < Len(package.image)
               /\ package.image[index[c] + 1] = Numbered(e, index[c])
  BY <1>2, <1>3, <1>5, <1>6, EntryImaged
<1>8. PICK n : /\ NormalizeEntry(RawHeader[d[h]]) = Ok(n)
               /\ DOMAIN n = AllFields
               /\ \E content : e = Filled(n, content)
  BY <1>2, <1>3, <1>7, EntryRead
<1>9. NormalizeEntry(CurrentHeader(reader[c])) = Ok(n)
  BY <1>3, <1>8 DEF CurrentHeader
<1>10. Succeeds(Ok(n)) /\ ValueOf(Ok(n)) = n
  BY DEF Succeeds, Ok, ValueOf
<1>11. Expected(c) # {}
  BY <1>7 DEF Expected, EntryAt
<1>12. SameEntryHeader([n EXCEPT !.id = index[c]], ExpectedEntry(c))
  <2>1. PICK content : e = Filled(n, content)
    BY <1>8
  <2>2. ASSUME NEW f \in HeaderFields
        PROVE  [n EXCEPT !.id = index[c]][f] = Numbered(e, index[c])[f]
    <3>1. f \in AllFields /\ f # "content" /\ DOMAIN e = AllFields
      BY <1>8, <2>1 DEF HeaderFields, AllFields, Filled
    <3>2. e[f] = n[f]
      BY <1>8, <2>1, <3>1 DEF Filled
    <3>3. QED
      BY <1>8, <3>1, <3>2 DEF Numbered
  <2>3. QED
    BY <1>7, <2>2 DEF SameEntryHeader, ExpectedEntry
<1>13. HeaderError(c) = {}
  BY <1>9, <1>10, <1>11, <1>12 DEF HeaderError
<1>14. QED
  BY <1>2, <1>3, <1>4, <1>13

\* The header is taken, and the payload stored for it is left.
LEMMA NextHeaderCalm ==
  ASSUME Meant, IInv, Sealed, Calm, NEW c \in Callers, Known(c), Undisturbed(c),
         NextHeader(c)
  PROVE  Undisturbed(c)'
<1>1. /\ pc[c] = "header" /\ pc[c] \in Decoding
      /\ pc'[c] \in {"begin", "skip"}
      /\ reader'[c] = TakeHeader(reader[c])
      /\ reader[c].buffer # <<>> /\ Head(reader[c].buffer) \in DOMAIN RawHeader
      /\ ListedAt(c, Position(reader[c]) + 1)
      /\ UNCHANGED <<package, selection, phase, hash, index, error>>
  BY HeaderCalm DEF NextHeader, HeaderReady, HeaderStatus, Buffered, Goto, Decoding,
     IInv, TypeOK
<1>2. PICK d \in Seq(Block), r \in Reader, h \in Nat :
        /\ d = package.digest /\ r = reader[c] /\ Delivers(d, r)
        /\ h = Position(r) + 1 /\ h >= 1
        /\ Head(r.buffer) = d[h]
  BY <1>1, ReaderInStep
<1>3. /\ reader'[c].offset = r.offset
      /\ reader'[c].buffer = Tail(r.buffer)
      /\ reader'[c].left = RawHeader[d[h]].stored
  BY <1>1, <1>2 DEF TakeHeader, CurrentHeader, Reader
<1>4. Delivers(d, reader'[c]) /\ Position(reader'[c]) = h
  BY <1>1, <1>2, <1>3, DropHeadDelivers
<1>5. ReadsEntry(c, h)'
  <2>1. ListedAt(c, h)'
    BY <1>1, <1>2 DEF ListedAt
  <2>2. QED
    BY <1>1, <1>2, <1>3, <1>4, <2>1 DEF ReadsEntry
<1>6. InStep(c)'
  BY <1>1, <1>2, <1>4, <1>5 DEF InStep, IInv, CallInvariant, PhaseFits
<1>7. QED
  BY <1>1, <1>6 DEF Undisturbed, HashesSealed, Excused

\* The k values of a ascend through all of a set of numbers.
Ascending(a, k, S) ==
  /\ \A i \in 1..k : a[i] \in S /\ a[i] \in Nat
  /\ \A x \in S : \E i \in 1..k : a[i] = x
  /\ \A i, j \in 1..k : i < j => a[i] < a[j]

\* What ascends through a set of numbers counts them.
LEMMA AscendingCounts ==
  ASSUME NEW S, NEW k \in Nat, NEW a, Ascending(a, k, S)
  PROVE  ExistsBijection(1..k, S)
<1>1. PICK b : b = [i \in 1..k |-> a[i]]
  OBVIOUS
<1>2. \A i, j \in 1..k : b[i] = b[j] => i = j
  BY <1>1 DEF Ascending
<1>3. b \in [1..k -> S]
  BY <1>1 DEF Ascending
<1>4. \A x \in S : \E i \in 1..k : b[i] = x
  BY <1>1 DEF Ascending
<1>5. b \in Bijection(1..k, S)
  BY <1>2, <1>3, <1>4 DEF Bijection, Injection, Surjection, IsInjective
<1>6. QED
  BY <1>5 DEF ExistsBijection

\* After the last entry, as many entries were ended as were selected.
LEMMA AllCounted ==
  ASSUME IInv, NEW c \in Callers, Known(c), pc[c] \in Decoding,
         index[c] = Len(package.image)
  PROVE  CountsAgree(c)
<1>1. pc[c] \in Active
  BY DEF Decoding, Active
<1>2. PICK s \in Selections : s = Chosen(c) /\ s.imageSize = Len(package.image)
  <2>1. PICK s \in Selections : selection[c] = {s} /\ s.imageSize = Len(package.image)
    BY <1>1 DEF IInv, CallInvariant, SelectionFits
  <2>2. QED
    BY <2>1 DEF Chosen
<1>3. PICK n \in Nat :
        /\ n = Len(s.entries) /\ DOMAIN s.entries = 1..n
        /\ \A id \in s.selected : \E j \in 1..n : s.entries[j].id = id
        /\ \A j \in 1..n : s.entries[j].id \in s.selected
        /\ \A i, j \in 1..n : i < j => s.entries[i].id < s.entries[j].id
  <2>1. PICK domain : domain = DOMAIN s.entries
    OBVIOUS
  <2>2. /\ Len(s.entries) \in Nat /\ domain = 1..Len(s.entries)
        /\ \A id \in s.selected : \E j \in domain : s.entries[j].id = id
        /\ \A j \in domain : s.entries[j].id \in s.selected
        /\ \A i, j \in domain : i < j => s.entries[i].id < s.entries[j].id
    BY <2>1, SelectedAssumption, Zenon
  <2>3. QED
    BY <2>1, <2>2, Zenon
<1>4. \A id \in s.selected : id \in 0..(index[c] - 1) /\ id \in Nat
  BY <1>2, SelectionsAssumption
<1>5. PICK ended : ended = sink[c].ended
  OBVIOUS
<1>6. Len(ended) \in Nat /\ replayed[c] = Len(ended)
  <2>1. ended \in Seq([id : Nat, content : Seq(Block)])
    BY <1>5 DEF IInv, TypeOK
  <2>2. QED
    BY <1>5, <2>1 DEF Known, Tallied
<1>7. /\ \A i \in 1..Len(ended) : ended[i].id \in s.selected
      /\ \A i, j \in 1..Len(ended) : i < j => ended[i].id < ended[j].id
      /\ \A id \in s.selected : \E i \in 1..Len(ended) : ended[i].id = id
  BY <1>1, <1>2, <1>4, <1>5 DEF Known, SelectionKept, IInv, CallInvariant, EndedSoFar
<1>8. n = Len(ended)
  <2>1. PICK m \in Nat : m = Len(ended)
    BY <1>6
  <2>2. PICK f : f = [i \in 1..m |-> ended[i].id]
    OBVIOUS
  <2>3. PICK g : g = [j \in 1..n |-> s.entries[j].id]
    OBVIOUS
  <2>4. ExistsBijection(1..m, s.selected)
    <3>1. \A i \in 1..m : f[i] \in s.selected /\ f[i] \in Nat
      BY <1>4, <1>7, <2>1, <2>2
    <3>2. \A x \in s.selected : \E i \in 1..m : f[i] = x
      BY <1>7, <2>1, <2>2
    <3>3. \A i, j \in 1..m : i < j => f[i] < f[j]
      BY <1>7, <2>1, <2>2
    <3>4. Ascending(f, m, s.selected)
      BY <3>1, <3>2, <3>3 DEF Ascending
    <3>5. QED
      BY <3>4, AscendingCounts
  <2>5. ExistsBijection(1..n, s.selected)
    <3>1. \A j \in 1..n : g[j] \in s.selected /\ g[j] \in Nat
      BY <1>3, <1>4, <2>3
    <3>2. \A x \in s.selected : \E j \in 1..n : g[j] = x
      BY <1>3, <2>3
    <3>3. \A i, j \in 1..n : i < j => g[i] < g[j]
      BY <1>3, <2>3
    <3>4. Ascending(g, n, s.selected)
      BY <3>1, <3>2, <3>3 DEF Ascending
    <3>5. QED
      BY <3>4, AscendingCounts
  <2>6. QED
    BY <2>1, <2>4, <2>5, Fun_NatBijSame
<1>9. QED
  BY <1>2, <1>3, <1>6, <1>8 DEF CountsAgree, SelectionSize

\* Where the archive ends, all of it was replayed.
LEMMA EndOfArchiveCalm ==
  ASSUME Meant, IInv, Sealed, Calm, NEW c \in Callers, Known(c), Undisturbed(c),
         EndOfArchive(c)
  PROVE  Undisturbed(c)'
<1>1. /\ pc[c] = "header" /\ pc[c] \in Decoding
      /\ HeaderStatus(reader[c]) # "OK"
      /\ reader[c].buffer # <<>> \/ reader[c].offset >= package.stamp.size
      /\ UNCHANGED <<package, phase, hash, reader>>
  BY DEF EndOfArchive, HeaderReady, Buffered, Drained, Decoding
<1>2. PICK d \in Seq(Block), at \in Nat :
        /\ d = package.digest /\ Len(d) \in Nat /\ package.stamp.size = Len(d)
        /\ at = Position(reader[c])
        /\ reader[c].offset \in Nat /\ reader[c].offset <= Len(d)
        /\ reader[c].buffer # <<>> => /\ at + 1 \in 1..Len(d)
                                      /\ Head(reader[c].buffer) = d[at + 1]
        /\ reader[c].buffer = <<>> => at = reader[c].offset
  BY <1>1, ReaderInStep, CalmSource
<1>3. Decode(d) = Ok(package.image)
  BY <1>2, CalmSource DEF Meant
<1>4. PICK list : ListedUpTo(d, list, at + 1) /\ Len(list) = index[c]
  BY <1>1, <1>2 DEF Undisturbed, InStep, ListedAt
<1>5. /\ HeaderStatus(reader[c]) = "EOF"
      /\ at + 1 \in 1..(Len(d) + 1)
      /\ at + 1 = Len(d) + 1 \/ d[at + 1] = EndMark
  <2>1. CASE reader[c].buffer = <<>>
    <3>1. reader[c].offset = Len(d) /\ at = Len(d)
      BY <1>1, <1>2, <2>1
    <3>2. d # <<>>
      BY <1>3 DEF Decode, Ok, Fail
    <3>3. reader[c].offset # 0
      BY <3>1, <3>2
    <3>4. QED
      BY <1>2, <2>1, <3>1, <3>3 DEF HeaderStatus, Buffered
  <2>2. CASE reader[c].buffer # <<>>
    <3>1. d[at + 1] \notin DOMAIN RawHeader \/ d[at + 1] = EndMark
      BY <1>1, <1>2, <2>2 DEF HeaderStatus, Buffered
    <3>2. Decode(d).error # {"archive_error"}
      BY <1>3 DEF Ok
    <3>3. d[at + 1] = EndMark
      BY <1>2, <1>4, <2>2, <3>1, <3>2, StrayDecides
    <3>4. QED
      BY <1>2, <2>2, <3>3 DEF HeaderStatus, Buffered
  <2>3. QED
    BY <2>1, <2>2
<1>6. index[c] = Len(package.image)
  BY <1>3, <1>4, <1>5, AllImaged
<1>7. EndError(c) = {}
  BY <1>1, <1>5, <1>6, AllCounted DEF EndError
<1>8. pc'[c] = "close"
  BY <1>7 DEF EndOfArchive, Goto, IInv, TypeOK
<1>9. InStep(c)'
  BY <1>1, <1>8 DEF InStep, Decoding
<1>10. QED
  BY <1>8, <1>9 DEF Undisturbed, HashesSealed, Excused

\* An entry is begun with its payload ahead.
LEMMA BeginCalm ==
  ASSUME Meant, IInv, Sealed, Calm, NEW c \in Callers, Known(c), Undisturbed(c),
         Begin(c)
  PROVE  Undisturbed(c)'
<1>1. /\ pc[c] = "begin" /\ pc[c] \in Decoding
      /\ pc'[c] = "data" /\ contents'[c] = <<>>
      /\ UNCHANGED <<package, phase, hash, reader, index>>
  BY DEF Begin, Goto, Decoding, IInv, TypeOK
<1>2. PICK d \in Seq(Block), at \in Nat :
        d = package.digest /\ at = Position(reader[c]) /\ Delivers(d, reader[c])
  BY <1>1, ReaderInStep
<1>3. PICK h \in 1..at : ReadsEntry(c, h)
  BY <1>1, <1>2 DEF Undisturbed, InStep
<1>4. at = h /\ SubSeq(d, h + 1, at) = <<>>
  BY <1>1, <1>2, <1>3 DEF ReadsEntry
<1>5. ReadsEntry(c, h)'
  <2>1. ListedAt(c, h)'
    BY <1>1, <1>3 DEF ReadsEntry, ListedAt
  <2>2. QED
    BY <1>1, <1>2, <1>3, <1>4, <2>1 DEF ReadsEntry
<1>6. InStep(c)'
  BY <1>1, <1>2, <1>5, ReaderInStep DEF InStep, Decoding
<1>7. QED
  BY <1>1, <1>6 DEF Undisturbed, HashesSealed, Excused
-----------------------------------------------------------------------------
(***************************************************************************)
(* Payloads and skipped entries.                                           *)
(***************************************************************************)

\* What is replayed is a regular file.
LEMMA ReplaysRegular ==
  ASSUME IInv, NEW c \in Callers, Known(c), pc[c] \in {"begin", "data"}
  PROVE  ExpectedEntry(c).type = "regular"
<1>1. /\ pc[c] \in Active
      /\ index[c] \in Chosen(c).selected
      /\ index[c] < Len(package.image)
  BY DEF Active, IInv, CallInvariant, SelectionFits, WithinImage
<1>2. Chosen(c) \in Selections /\ ValidFor(Chosen(c), package.image)
  BY <1>1 DEF Known, SelectionKept
<1>3. PICK j \in DOMAIN Chosen(c).entries : Chosen(c).entries[j].id = index[c]
  BY <1>1, <1>2, SelectedAssumption
<1>4. PICK e \in EntryAt(package.image, index[c]) : e.type = "regular"
  BY <1>2, <1>3 DEF ValidFor
<1>5. e = package.image[index[c] + 1]
  BY <1>4 DEF EntryAt
<1>6. QED
  BY <1>4, <1>5 DEF ExpectedEntry

\* The payload being read is that of the entry, which ends where it must.
LEMMA PayloadInStep ==
  ASSUME Meant, IInv, Sealed, Calm, NEW c \in Callers, Known(c), Undisturbed(c),
         pc[c] = "data"
  PROVE  \E h \in 1..Position(reader[c]), stored \in Nat :
           /\ ReadsEntry(c, h)
           /\ h + stored <= Len(package.digest)
           /\ Position(reader[c]) + reader[c].left = h + stored
           /\ \E list : /\ ListedUpTo(package.digest, list, h + 1 + stored)
                        /\ Len(list) = index[c] + 1
           /\ ExpectedEntry(c).size = stored
           /\ ExpectedEntry(c).content
                = {SubSeq(package.digest, h + 1, h + stored)}
           /\ contents[c] = SubSeq(package.digest, h + 1, Position(reader[c]))
           /\ total[c] = Position(reader[c]) - h
<1>1. PICK d \in Seq(Block) : d = package.digest /\ Len(d) \in Nat
  BY CalmSource
<1>2. PICK at \in Nat : at = Position(reader[c]) /\ at <= Len(d)
  BY <1>1, ReaderInStep DEF Decoding
<1>3. PICK h \in 1..Position(reader[c]), stored \in Nat :
        /\ ReadsEntry(c, h)
        /\ h + stored <= Len(package.digest)
        /\ Position(reader[c]) + reader[c].left = h + stored
        /\ \E list : /\ ListedUpTo(package.digest, list, h + 1 + stored)
                     /\ Len(list) = index[c] + 1
        /\ ExpectedEntry(c).type = "regular" =>
             /\ ExpectedEntry(c).size = stored
             /\ ExpectedEntry(c).content
                  = {SubSeq(package.digest, h + 1, h + stored)}
  BY EntryInStep
<1>4. /\ ExpectedEntry(c).size = stored
      /\ ExpectedEntry(c).content
           = {SubSeq(package.digest, h + 1, h + stored)}
  BY <1>3, ReplaysRegular
<1>5. contents[c] = SubSeq(d, h + 1, at)
  BY <1>1, <1>2, <1>3 DEF ReadsEntry
<1>6. total[c] = at - h
  <2>1. total[c] = Len(contents[c])
    BY DEF Known, Counted
  <2>2. Len(SubSeq(d, h + 1, at)) = IF h + 1 <= at THEN at - (h + 1) + 1 ELSE 0
    BY <1>1, <1>2, <1>3
  <2>3. QED
    BY <1>2, <1>3, <1>5, <2>1, <2>2
<1>7. QED
  BY <1>1, <1>2, <1>3, <1>4, <1>5, <1>6, Zenon

\* A block that is delivered fits, and is the next one of the payload.
LEMMA WriteBlockCalm ==
  ASSUME Meant, IInv, Sealed, Calm, NEW c \in Callers, Known(c), Undisturbed(c),
         WriteBlock(c) \/ PayloadExceeds(c)
  PROVE  Undisturbed(c)'
<1>1. pc[c] = "data" /\ pc[c] \in Decoding /\ reader[c].left > 0 /\ reader[c].buffer # <<>>
  BY DEF WriteBlock, PayloadExceeds, BlockReady, Buffered, Decoding
<1>2. PICK d \in Seq(Block), r \in Reader, at \in Nat :
        /\ d = package.digest /\ r = reader[c] /\ at = Position(r)
        /\ Len(d) \in Nat /\ Delivers(d, r)
        /\ at + 1 <= Len(d) /\ Head(r.buffer) = d[at + 1]
  BY <1>1, ReaderInStep
<1>3. PICK left \in Nat : left = r.left /\ left > 0
  BY <1>1, <1>2 DEF Reader
<1>4. PICK h \in Nat, stored \in Nat :
        /\ 1 <= h /\ h <= at
        /\ ReadsEntry(c, h)
        /\ at + left = h + stored
        /\ ExpectedEntry(c).size = stored
        /\ contents[c] = SubSeq(d, h + 1, at)
        /\ total[c] = at - h
  BY <1>1, <1>2, <1>3, PayloadInStep, SMTT(30)
<1>5. Fits(c)
  BY <1>3, <1>4 DEF Fits
<1>6. /\ reader'[c] = TakeBlock(r)
      /\ contents'[c] = Append(contents[c], d[at + 1])
      /\ UNCHANGED <<package, pc, phase, hash, index, error>>
  BY <1>2, <1>5 DEF WriteBlock, PayloadExceeds, IInv, TypeOK
<1>7. /\ reader'[c].offset = r.offset
      /\ reader'[c].buffer = Tail(r.buffer)
      /\ reader'[c].left = left - 1
  BY <1>2, <1>3, <1>6 DEF TakeBlock, Reader
<1>8. Delivers(d, reader'[c]) /\ Position(reader'[c]) = at + 1
  BY <1>1, <1>2, <1>7, DropHeadDelivers
<1>9. contents'[c] = SubSeq(d, h + 1, at + 1)
  <2>1. h + 1 \in Nat /\ h + 1 >= 1 /\ h + 1 <= at + 1 /\ at + 1 \in Nat
    BY <1>4
  <2>2. SubSeq(d, h + 1, at) \in Seq(Block) /\ d[at + 1] \in Block
    BY <1>2, <2>1
  <2>3. SubSeq(d, h + 1, at + 1) = SubSeq(d, h + 1, (at + 1) - 1) \o <<d[at + 1]>>
    <3>1. h + 1 \in 1..Len(d) /\ at + 1 \in (h + 1)..Len(d)
      BY <1>2, <2>1
    <3>2. d \in Seq(Block)
      OBVIOUS
    <3>3. QED
      BY <3>1, <3>2, SubSeqRecursiveSecond
  <2>4. (at + 1) - 1 = at
    OBVIOUS
  <2>5. QED
    BY <1>4, <1>6, <2>2, <2>3, <2>4, AppendIsConcat, ZenonT(30)
<1>10. h \in 1..(at + 1) /\ (at + 1) + (left - 1) = at + left
  BY <1>4
<1>11. ReadsEntry(c, h)'
  <2>1. ListedAt(c, h)'
    BY <1>4, <1>6 DEF ReadsEntry, ListedAt
  <2>2. QED
    BY <1>1, <1>2, <1>3, <1>4, <1>6, <1>7, <1>8, <1>9, <1>10, <2>1 DEF ReadsEntry
<1>12. InStep(c)'
  BY <1>1, <1>2, <1>6, <1>8, <1>10, <1>11 DEF InStep
<1>13. QED
  BY <1>1, <1>6, <1>12 DEF Undisturbed, HashesSealed, Excused

\* A payload that was read to its end is the sealed one, and the next header
\* is due.
LEMMA EndEntryCalm ==
  ASSUME Meant, IInv, Sealed, Calm, NEW c \in Callers, Known(c), Undisturbed(c),
         EndEntry(c) \/ PayloadRejected(c)
  PROVE  Undisturbed(c)'
<1>1. pc[c] = "data" /\ pc[c] \in Decoding /\ reader[c].left = 0
  BY DEF EndEntry, PayloadRejected, PayloadRead, Decoding
<1>2. PICK d \in Seq(Block), at \in Nat :
        /\ d = package.digest /\ at = Position(reader[c])
        /\ Delivers(d, reader[c])
  BY <1>1, ReaderInStep
<1>3. PICK h \in 1..Position(reader[c]), stored \in Nat :
        /\ Position(reader[c]) + reader[c].left = h + stored
        /\ \E list : /\ ListedUpTo(package.digest, list, h + 1 + stored)
                     /\ Len(list) = index[c] + 1
        /\ ExpectedEntry(c).size = stored
        /\ ExpectedEntry(c).content
             = {SubSeq(package.digest, h + 1, h + stored)}
        /\ contents[c] = SubSeq(package.digest, h + 1, Position(reader[c]))
        /\ total[c] = Position(reader[c]) - h
  BY <1>1, PayloadInStep
<1>4. at = h + stored /\ total[c] = stored /\ h + 1 + stored = at + 1
  BY <1>1, <1>2, <1>3
<1>5. PayloadError(c) = {}
  BY <1>2, <1>3, <1>4 DEF PayloadError
<1>6. /\ pc'[c] = "header" /\ index'[c] = index[c] + 1
      /\ UNCHANGED <<package, phase, hash, reader, error>>
  BY <1>5 DEF EndEntry, PayloadRejected, Goto, IInv, TypeOK
<1>7. ListedAt(c, at + 1)'
  BY <1>2, <1>3, <1>4, <1>6 DEF ListedAt
<1>8. InStep(c)'
  BY <1>2, <1>6, <1>7 DEF InStep
<1>9. QED
  BY <1>6, <1>8 DEF Undisturbed, HashesSealed, Excused

\* Passing over a payload stays within it.
LEMMA SkipDataCalm ==
  ASSUME Meant, IInv, Sealed, Calm, NEW c \in Callers, Known(c), Undisturbed(c),
         SkipData(c)
  PROVE  Undisturbed(c)'
<1>1. /\ pc[c] = "skip" /\ pc[c] \in Decoding
      /\ reader'[c] = SkipBlocks(reader[c])
      /\ UNCHANGED <<package, pc, phase, hash, index, error>>
  BY DEF SkipData, Decoding, IInv, TypeOK
<1>2. PICK d \in Seq(Block), r \in Reader, at \in Nat :
        /\ d = package.digest /\ r = reader[c] /\ at = Position(r)
        /\ Delivers(d, r)
  BY <1>1, ReaderInStep
<1>3. PICK left \in Nat, buffer \in Seq(Block) : left = r.left /\ buffer = r.buffer
  BY DEF Reader
<1>4. PICK h \in 1..at : ReadsEntry(c, h)
  BY <1>1, <1>2 DEF Undisturbed, InStep
<1>5. PICK n \in Nat : n = Least(left, Len(buffer)) /\ n <= left /\ n <= Len(buffer)
  BY <1>3 DEF Least
<1>6. /\ reader'[c].offset = r.offset
      /\ reader'[c].buffer = SubSeq(r.buffer, n + 1, Len(r.buffer))
      /\ reader'[c].left = left - n
  BY <1>1, <1>2, <1>3, <1>5 DEF SkipBlocks, Reader
<1>7. Delivers(d, reader'[c]) /\ Position(reader'[c]) = at + n
  <2>1. n <= Len(r.buffer)
    BY <1>3, <1>5
  <2>2. PICK next : next = reader'[c]
    OBVIOUS
  <2>3. next.offset = r.offset /\ next.buffer = SubSeq(r.buffer, n + 1, Len(r.buffer))
    BY <1>6, <2>2
  <2>4. d \in Seq(Block) /\ r \in Reader /\ Delivers(d, r) /\ n \in Nat
    BY <1>2
  <2>5. Delivers(d, next) /\ Position(next) = Position(r) + n
    BY <2>1, <2>3, <2>4, DropDelivers
  <2>6. QED
    BY <1>2, <2>2, <2>5
<1>8. h \in 1..(at + n) /\ (at + n) + (left - n) = at + left
  BY <1>2, <1>3, <1>4, <1>5
<1>9. ReadsEntry(c, h)'
  <2>1. ListedAt(c, h)'
    BY <1>1, <1>4 DEF ReadsEntry, ListedAt
  <2>2. QED
    BY <1>1, <1>2, <1>3, <1>4, <1>6, <1>7, <1>8, <2>1 DEF ReadsEntry
<1>10. InStep(c)'
  BY <1>1, <1>2, <1>7, <1>8, <1>9 DEF InStep
<1>11. QED
  BY <1>1, <1>10 DEF Undisturbed, HashesSealed, Excused

\* Passing over an entry ends at the next header.
LEMMA EndSkipCalm ==
  ASSUME Meant, IInv, Sealed, Calm, NEW c \in Callers, Known(c), Undisturbed(c),
         EndSkip(c)
  PROVE  Undisturbed(c)'
<1>1. /\ pc[c] = "skip" /\ pc[c] \in Decoding /\ reader[c].left = 0
      /\ pc'[c] = "header" /\ index'[c] = index[c] + 1
      /\ UNCHANGED <<package, phase, hash, reader, error>>
  BY DEF EndSkip, Goto, Decoding, IInv, TypeOK
<1>2. PICK d \in Seq(Block), at \in Nat :
        /\ d = package.digest /\ at = Position(reader[c])
        /\ Delivers(d, reader[c])
  BY <1>1, ReaderInStep
<1>3. PICK h \in 1..at, stored \in Nat :
        /\ at + reader[c].left = h + stored
        /\ \E list : ListedUpTo(d, list, h + 1 + stored) /\ Len(list) = index[c] + 1
  BY <1>1, <1>2, EntryInStep, ZenonT(30)
<1>4. h + 1 + stored = at + 1
  BY <1>1, <1>2, <1>3
<1>5. ListedAt(c, at + 1)'
  BY <1>1, <1>2, <1>3, <1>4 DEF ListedAt
<1>6. InStep(c)'
  BY <1>1, <1>2, <1>5 DEF InStep
<1>7. QED
  BY <1>1, <1>6 DEF Undisturbed, HashesSealed, Excused

\* The source does not end early, neither for the callback nor for libarchive.
LEMMA NotTruncated ==
  ASSUME Meant, IInv, Sealed, Calm, NEW c \in Callers, Known(c), Undisturbed(c)
  PROVE  ~SourceTruncated(c) /\ ~PayloadTruncated(c)
<1>1. SUFFICES ASSUME SourceTruncated(c) \/ PayloadTruncated(c)
               PROVE  FALSE
  OBVIOUS
<1>2. pc[c] \in Decoding /\ reader[c].buffer = <<>>
  BY <1>1 DEF SourceTruncated, PayloadTruncated, Starving, Buffered, Decoding
<1>3. PICK offset \in Nat, size \in Nat :
        /\ offset = reader[c].offset /\ size = package.stamp.size
        /\ size = Len(package.digest)
        /\ Position(reader[c]) = offset
        /\ reader[c].left \in Nat
  BY <1>2, ReaderInStep, CalmSource
<1>4. CASE SourceTruncated(c)
  <2>1. offset < size /\ <<>> \in Pread(offset, Least(size - offset, Chunk))
    BY <1>3, <1>4 DEF SourceTruncated, Drained, ReadSource
  <2>2. QED
    BY <1>3, <2>1, ReadsSomething
<1>5. CASE PayloadTruncated(c)
  <2>1. pc[c] \in {"data", "skip"} /\ reader[c].left > 0 /\ offset >= size
    BY <1>3, <1>5 DEF PayloadTruncated, Starving, Drained
  <2>2. PICK h \in 1..offset, stored \in Nat :
          h + stored <= size /\ offset + reader[c].left = h + stored
    BY <1>3, <2>1, EntryInStep
  <2>3. QED
    BY <1>3, <2>1, <2>2
<1>6. QED
  BY <1>1, <1>4, <1>5

-----------------------------------------------------------------------------
(***************************************************************************)
(* Whole calls.                                                            *)
(***************************************************************************)

\* The reader is closed after the archive was read, and the sink may throw.
LEMMA LeaveCalm ==
  ASSUME IInv, NEW c \in Callers, Undisturbed(c), CloseReader(c) \/ SinkThrows(c)
  PROVE  Undisturbed(c)'
<1>1. CASE CloseReader(c)
  <2>1. pc'[c] = "verify" /\ phase'[c] = "post"
    BY <1>1 DEF CloseReader, Goto, IInv, TypeOK
  <2>2. QED
    BY <2>1 DEF Undisturbed, HashesSealed, InStep, Excused, Decoding
<1>2. CASE SinkThrows(c)
  <2>1. pc'[c] = "failed" /\ error'[c] = {"sink_exception"}
    BY <1>2 DEF SinkThrows, Throw, IInv, TypeOK
  <2>2. QED
    BY <2>1 DEF Undisturbed, HashesSealed, InStep, Excused, Decoding
<1>3. QED
  BY <1>1, <1>2

\* A call begins with a reader of its own, unless its selection is of another
\* image.
LEMMA ReplayCalm ==
  ASSUME IInv, NEW c \in Callers, Undisturbed(c),
         NEW s \in Selections, Replay(c, s)
  PROVE  Undisturbed(c)'
<1>1. /\ pc[c] = "idle" /\ selection'[c] = {s}
      /\ UNCHANGED <<package, phase, reader>>
      /\ \/ pc'[c] = "verify"
         \/ /\ pc'[c] = "failed" /\ error'[c] = {"selection_error"}
            /\ ~ValidFor(s, package.image)
  BY DEF Replay, Goto, Throw, IInv, TypeOK
<1>2. Chosen(c)' = s
  BY <1>1 DEF Chosen
<1>3. HashesSealed(c)' /\ InStep(c)'
  BY <1>1 DEF Undisturbed, HashesSealed, InStep, Decoding
<1>4. Excused(c)'
  BY <1>1, <1>2 DEF Excused
<1>5. QED
  BY <1>3, <1>4 DEF Undisturbed

\* A call that does nothing stays as it is.
LEMMA UndisturbedCopied ==
  ASSUME NEW d \in Callers, Undisturbed(d), package' = package, Untouched(d)
  PROVE  Undisturbed(d)'
<1>1. /\ UNCHANGED package
      /\ pc'[d] = pc[d] /\ phase'[d] = phase[d] /\ hash'[d] = hash[d]
      /\ reader'[d] = reader[d] /\ index'[d] = index[d]
      /\ contents'[d] = contents[d] /\ error'[d] = error[d]
      /\ Chosen(d)' = Chosen(d)
  BY DEF Untouched, Chosen
<1>2. HashesSealed(d)' /\ Excused(d)'
  BY <1>1 DEF Undisturbed, HashesSealed, Excused
<1>3. \A h : ListedAt(d, h) => ListedAt(d, h)'
  BY <1>1 DEF ListedAt
<1>4. \A h : ReadsEntry(d, h) => ReadsEntry(d, h)'
  BY <1>1, <1>3 DEF ReadsEntry
<1>5. InStep(d)'
  BY <1>1, <1>3, <1>4 DEF Undisturbed, InStep
<1>6. QED
  BY <1>2, <1>5 DEF Undisturbed

\* What is otherwise known of a call stays known.
LEMMA KnownKept ==
  ASSUME IInv, [Next]_vars, NEW d \in Callers, Known(d)
  PROVE  Known(d)'
BY SelectionKeptByNext, HashCountsKept, CountedKept, TalliedKept DEF Known

\* No step fails a call that nobody disturbs, but for the sink.
LEMMA UndisturbedKept ==
  ASSUME Meant, IInv, [Next]_vars, Sealed, Calm', NEW d \in Callers, Known(d),
         Calm => Undisturbed(d)
  PROVE  Undisturbed(d)'
<1>1. Calm /\ ~EditSource /\ \A c \in Callers : ~Fault(c)
  BY CalmBefore DEF IInv
<1>2. Undisturbed(d) /\ package' = package
  BY <1>1, SealedKept
<1>3. ASSUME NEW c \in Callers, NEW s \in Selections, Replay(c, s)
      PROVE  Undisturbed(d)'
  <2>1. CASE c = d
    BY <1>2, <1>3, <2>1, ReplayCalm
  <2>2. CASE c # d
    <3>1. Untouched(d)
      BY <1>3, <2>2 DEF Replay, Goto, Throw, IInv, TypeOK, Untouched
    <3>2. QED
      BY <1>2, <3>1, UndisturbedCopied
  <2>3. QED
    BY <2>1, <2>2
<1>4. ASSUME NEW c \in Callers, Step(c)
      PROVE  Undisturbed(d)'
  <2>1. CASE c # d
    <3>1. Untouched(d)
      BY <1>4, <2>1, StepEffects DEF IInv
    <3>2. QED
      BY <1>2, <3>1, UndisturbedCopied
  <2>2. CASE c = d
    <3>1. ~SourceTruncated(d) /\ ~PayloadTruncated(d)
      BY <1>1, <1>2, NotTruncated
    <3>2. CASE VerifyStamp(d)
      BY <1>1, <1>2, <3>2, VerifyCalm
    <3>3. CASE HashChunk(d)
      BY <1>1, <1>2, <3>3, HashChunkCalm
    <3>4. CASE HashTruncated(d) \/ HashDone(d)
      BY <1>1, <1>2, <3>4, HashDoneCalm
    <3>5. CASE VerifySealed(d)
      BY <1>1, <1>2, <3>5, VerifySealedCalm
    <3>6. CASE FillBuffer(d)
      BY <1>1, <1>2, <3>6, FillCalm
    <3>7. CASE NextHeader(d)
      BY <1>1, <1>2, <3>7, NextHeaderCalm
    <3>8. CASE EndOfArchive(d)
      BY <1>1, <1>2, <3>8, EndOfArchiveCalm
    <3>9. CASE Begin(d)
      BY <1>1, <1>2, <3>9, BeginCalm
    <3>10. CASE WriteBlock(d) \/ PayloadExceeds(d)
      BY <1>1, <1>2, <3>10, WriteBlockCalm
    <3>11. CASE EndEntry(d) \/ PayloadRejected(d)
      BY <1>1, <1>2, <3>11, EndEntryCalm
    <3>12. CASE SkipData(d)
      BY <1>1, <1>2, <3>12, SkipDataCalm
    <3>13. CASE EndSkip(d)
      BY <1>1, <1>2, <3>13, EndSkipCalm
    <3>14. CASE CloseReader(d) \/ SinkThrows(d)
      BY <1>2, <3>14, LeaveCalm
    <3>15. QED
      BY <1>4, <2>2, <3>1, <3>2, <3>3, <3>4, <3>5, <3>6, <3>7, <3>8, <3>9, <3>10,
         <3>11, <3>12, <3>13, <3>14 DEF Step
  <2>3. QED
    BY <2>1, <2>2
<1>5. CASE Terminated \/ UNCHANGED vars
  <2>1. Untouched(d)
    BY <1>5 DEF Terminated, vars, callVars, Untouched
  <2>2. QED
    BY <1>2, <2>1, UndisturbedCopied
<1>6. QED
  BY <1>1, <1>3, <1>4, <1>5 DEF Next

\* Nothing has disturbed a call that has not begun.
LEMMA IdleIsUndisturbed ==
  ASSUME InitCalls, NEW c \in Callers
  PROVE  Known(c) /\ Undisturbed(c)
<1>1. /\ pc[c] = "idle" /\ hash[c] = NewHash /\ reader[c] = NewReader
      /\ replayed[c] = 0 /\ sink[c].ended = <<>>
  BY DEF InitCalls, NewSink
<1>2. Known(c)
  BY <1>1 DEF Known, SelectionKept, HashCounts, Counted, Tallied, NewHash, Active
<1>3. Undisturbed(c)
  BY <1>1 DEF Undisturbed, HashesSealed, InStep, Excused, Decoding
<1>4. QED
  BY <1>2, <1>3

\* Without an edit, a failing call below or an exception of the sink, a replay
\* of a selection of this image does not fail, if the image is what open makes
\* of the bytes it has sealed (see the verdict of open).
THEOREM Verdict == ASSUME Meant PROVE Spec => []NoSpuriousFailure
<1> DEFINE Kept == /\ Sealed
                   /\ \A c \in Callers : Known(c) /\ (Calm => Undisturbed(c))
<1>1. Init => Kept
  <2>1. SUFFICES ASSUME Init
                 PROVE  Kept
    OBVIOUS
  <2>2. Sealed
    <3>1. /\ package \in Packages
          /\ file = package.digest /\ mtime = package.stamp.mtime
      BY <2>1 DEF Init, SourceInit
    <3>2. /\ package.stamp \in [size : Nat, mtime : MTimes]
          /\ package.stamp.size = Len(package.digest)
      BY <3>1, PackagesAssumption, SealedAssumption
    <3>3. QED
      BY <3>1, <3>2 DEF Sealed, Stamp
  <2>3. ASSUME NEW c \in Callers
        PROVE  Known(c) /\ Undisturbed(c)
    BY <2>1, IdleIsUndisturbed DEF Init
  <2>4. QED
    BY <2>2, <2>3
<1>2. IInv /\ Kept /\ [Next]_vars => Kept'
  <2>1. SUFFICES ASSUME IInv, Kept, [Next]_vars
                 PROVE  Kept'
    OBVIOUS
  <2>2. Sealed'
    BY <2>1, SealedKept
  <2>3. ASSUME NEW c \in Callers
        PROVE  Known(c)'
    BY <2>1, <2>3, KnownKept
  <2>4. ASSUME NEW c \in Callers, Calm'
        PROVE  Undisturbed(c)'
    BY <2>1, <2>4, UndisturbedKept
  <2>5. QED
    BY <2>2, <2>3, <2>4
<1>3. Kept => NoSpuriousFailure
  BY DEF Undisturbed, Excused, NoSpuriousFailure, Calm
<1> HIDE DEF Kept
<1>4. QED
  BY <1>1, <1>2, <1>3, Invariance, PTL DEF Spec

=============================================================================
