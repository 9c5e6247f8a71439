----------------------- MODULE LibarchiveReplayProofs -----------------------
(***************************************************************************)
(* Proofs about LibarchiveReplay, for any number of concurrent calls, any  *)
(* file, package and selections, and any bounds.  First the inductive      *)
(* invariant of the module and what follows from it; then what needs the   *)
(* history of a call and of the file: which selection a call was given,    *)
(* what was hashed while nobody edited, and what a position has held       *)
(* before.  They end with the refinement of PayloadContract by every call. *)
(***************************************************************************)
EXTENDS LibarchiveReplay, ArchiveMeaningProofs

-----------------------------------------------------------------------------
(***************************************************************************)
(* What a sink records, and what replay throws.                            *)
(***************************************************************************)

\* What the sink records stays well formed.
Recording == [open : SUBSET Nat, written : Seq(Block),
              ended : Seq([id : Nat, content : Seq(Block)])]

\* What write() changes in a sink.
LEMMA SinkWriteStep ==
  ASSUME NEW s \in Recording, NEW block \in Block
  PROVE  /\ SinkWrite(s, block) \in Recording
         /\ SinkWrite(s, block).open = s.open
         /\ SinkWrite(s, block).written = Append(s.written, block)
         /\ SinkWrite(s, block).ended = s.ended
<1>1. s.written \in Seq(Block)
  BY DEF Recording
<1>2. Append(s.written, block) \in Seq(Block)
  BY <1>1
<1>3. SinkWrite(s, block) \in Recording
  BY <1>2 DEF SinkWrite, Recording
<1>4. QED
  BY <1>3 DEF SinkWrite

\* What begin() and end() change in a sink.
LEMMA SinkBeginEndSteps ==
  ASSUME NEW s \in Recording, NEW id \in Nat
  PROVE  /\ SinkBegin(s, id) \in Recording
         /\ SinkBegin(s, id).open = {id}
         /\ SinkBegin(s, id).written = <<>>
         /\ SinkBegin(s, id).ended = s.ended
         /\ SinkEnd(s, id) \in Recording
         /\ SinkEnd(s, id).open = {}
         /\ SinkEnd(s, id).ended
              = Append(s.ended, [id |-> id, content |-> s.written])
<1>1. /\ s.open \in SUBSET Nat
      /\ s.written \in Seq(Block)
      /\ s.ended \in Seq([id : Nat, content : Seq(Block)])
  BY DEF Recording
<1>2. SinkBegin(s, id) \in Recording
  BY <1>1 DEF SinkBegin, Recording
<1>3. Append(s.ended, [id |-> id, content |-> s.written])
        \in Seq([id : Nat, content : Seq(Block)])
  <2>1. [id |-> id, content |-> s.written] \in [id : Nat, content : Seq(Block)]
    BY <1>1
  <2>2. QED
    BY <1>1, <2>1
<1>4. SinkEnd(s, id) \in Recording
  BY <1>1, <1>3 DEF SinkEnd, Recording
<1>5. QED
  BY <1>2, <1>4 DEF SinkBegin, SinkEnd

\* The ended entries of a record, one by one.
LEMMA EndedEntries ==
  ASSUME NEW s \in Recording
  PROVE  /\ Len(s.ended) \in Nat
         /\ DOMAIN s.ended = 1..Len(s.ended)
         /\ \A i \in 1..Len(s.ended) :
              /\ s.ended[i] \in [id : Nat, content : Seq(Block)]
              /\ s.ended[i].id \in Nat
<1> DEFINE Entries == [id : Nat, content : Seq(Block)]
           ended == s.ended
<1>1. ended \in Seq(Entries)
  BY DEF Recording
<1>2. \A e \in Entries : e.id \in Nat
  OBVIOUS
<1> HIDE DEF Entries, ended
<1>3. \A i \in 1..Len(ended) : ended[i] \in Entries
  BY <1>1
<1>4. Len(ended) \in Nat /\ DOMAIN ended = 1..Len(ended)
  BY <1>1
<1>5. \A i \in 1..Len(ended) : ended[i].id \in Nat
  BY <1>2, <1>3
<1>6. QED
  BY <1>3, <1>4, <1>5 DEF ended, Entries

\* Whatever replay finds wrong is reported with an exception of the library.
LEMMA ErrorsAreKinds ==
  ASSUME NEW c \in Callers
  PROVE  /\ HeaderError(c) \subseteq ErrorKind
         /\ EndError(c) \subseteq ErrorKind
         /\ PayloadError(c) \subseteq ErrorKind
<1>1. \A raw : NormalizeError(raw) \subseteq ErrorKind
  BY DEF NormalizeError, ErrorKind
<1>2. \A raw : NormalizeEntry(raw).error \subseteq ErrorKind
  BY <1>1 DEF NormalizeEntry, Ok
<1>3. HeaderError(c) \subseteq ErrorKind
  BY <1>2 DEF HeaderError, ErrorKind
<1>4. EndError(c) \subseteq ErrorKind /\ PayloadError(c) \subseteq ErrorKind
  BY DEF EndError, PayloadError, ErrorKind
<1>5. QED
  BY <1>3, <1>4

-----------------------------------------------------------------------------
(***************************************************************************)
(* The invariant is preserved.  A step of one call leaves the others as    *)
(* they are, so each action is a matter of the call that takes it.         *)
(***************************************************************************)

\* What CallInvariant(d) depends on is the same after the step.
SameCall(d) ==
  /\ pc'[d] = pc[d]
  /\ selection'[d] = selection[d]
  /\ phase'[d] = phase[d]
  /\ index'[d] = index[d]
  /\ contents'[d] = contents[d]
  /\ sink'[d] = sink[d]

\* A step that leaves the variables of a call alone keeps the invariant of
\* the call.
LEMMA Frame ==
  ASSUME NEW d \in Callers, CallInvariant(d), package' = package, SameCall(d)
  PROVE  CallInvariant(d)'
<1>1. Chosen(d)' = Chosen(d)
  BY DEF SameCall, Chosen
<1>2. WithinImage(d)'
  BY DEF CallInvariant, WithinImage, SameCall
<1>3. PhaseFits(d)'
  BY DEF CallInvariant, PhaseFits, SameCall
<1>4. SelectionFits(d)'
  BY <1>1 DEF CallInvariant, SelectionFits, SameCall
<1>5. SinkFits(d)'
  BY DEF CallInvariant, SinkFits, SameCall
<1>6. EndedSoFar(d)'
  BY <1>1 DEF CallInvariant, EndedSoFar, SameCall
<1>7. QED
  BY <1>2, <1>3, <1>4, <1>5, <1>6 DEF CallInvariant

\* A call under way that has ended nothing more has still ended what it had.
LEMMA EndedCopied ==
  ASSUME NEW d \in Callers, EndedSoFar(d), package' = package,
         selection'[d] = selection[d], index'[d] = index[d],
         sink'[d].ended = sink[d].ended,
         pc[d] \in Active, pc'[d] # "idle"
  PROVE  EndedSoFar(d)'
<1>1. Chosen(d)' = Chosen(d)
  BY DEF Chosen
<1>2. QED
  BY <1>1 DEF EndedSoFar

\* A step of one call needs a look at that call only.
LEMMA OneCallSteps ==
  ASSUME IInv, NEW c \in Callers, TypeOK', CallInvariant(c)', package' = package,
         \A d \in Callers \ {c} : SameCall(d)
  PROVE  IInv'
BY Frame DEF IInv

\* A call ends with an exception, its own or its sink's.
LEMMA ThrowKeeps ==
  ASSUME IInv, NEW c \in Callers,
         NEW kind \in ErrorKind \union {"sink_exception"}, Throw(c, kind),
         UNCHANGED <<sourceVars, package, selection, phase, index, replayed,
                     total, contents, sink, quiet, genuine>>,
         hash' \in [Callers -> [offset : Nat, blocks : Seq(Block)]],
         reader' \in [Callers -> Reader],
         faults' \in 0..MaxFaults
  PROVE  IInv'
<1>1. pc' \in [Callers -> Location] /\ pc'[c] = "failed"
  BY DEF IInv, TypeOK, Throw, Location, Finished
<1>2. error' \in [Callers -> SUBSET (ErrorKind \union {"sink_exception"})]
  BY DEF IInv, TypeOK, Throw
<1>3. TypeOK'
  BY <1>1, <1>2 DEF IInv, TypeOK, SourceTypeOK, sourceVars
<1>4. CallInvariant(c)
  BY DEF IInv
<1>5. CallInvariant(c)'
  BY <1>1, <1>4 DEF CallInvariant, WithinImage, PhaseFits, SelectionFits,
                    SinkFits, EndedSoFar, Active, Decoding
<1>6. \A d \in Callers \ {c} : SameCall(d)
  BY DEF IInv, TypeOK, Throw, SameCall
<1>7. QED
  BY <1>3, <1>5, <1>6, OneCallSteps

\* A call moves on within its phase.
LEMMA GotoKeeps ==
  ASSUME IInv, NEW c \in Callers, NEW from, NEW to, pc[c] = from, Goto(c, to),
         \/ from = "verify" /\ to = "hash"
         \/ from = "hash" /\ to = "reverify"
         \/ from = "reverify" /\ to = "header" /\ phase[c] = "pre"
         \/ from = "reverify" /\ to = "returned" /\ phase[c] = "post"
         \/ from = "header" /\ to = "close" /\ index[c] = Len(package.image)
         \/ /\ from = "header"
            /\ index[c] < Len(package.image)
            /\ \/ to = "begin" /\ index[c] \in Chosen(c).selected
               \/ to = "skip" /\ index[c] \notin Chosen(c).selected,
         UNCHANGED <<sourceVars, package, selection, phase, index, replayed,
                     total, contents, sink, error, faults, quiet, genuine>>,
         hash' \in [Callers -> [offset : Nat, blocks : Seq(Block)]],
         reader' \in [Callers -> Reader]
  PROVE  IInv'
<1>1. to \in Active \union {"returned"} /\ from \in Active
  BY DEF Active
<1>2. pc' \in [Callers -> Location] /\ pc'[c] = to
  BY <1>1 DEF IInv, TypeOK, Goto, Location, Finished
<1>3. TypeOK'
  BY <1>2 DEF IInv, TypeOK, SourceTypeOK, sourceVars
<1>4. CallInvariant(c)
  BY DEF IInv
<1>5. WithinImage(c)'
  BY <1>2, <1>4 DEF CallInvariant, WithinImage, PhaseFits
<1>6. PhaseFits(c)'
  BY <1>2, <1>4 DEF CallInvariant, PhaseFits, Decoding
<1>7. SelectionFits(c)'
  BY <1>1, <1>2, <1>4 DEF CallInvariant, SelectionFits, Chosen, Active
<1>8. SinkFits(c)'
  BY <1>2, <1>4 DEF CallInvariant, SinkFits
<1>9. EndedSoFar(c)'
  BY <1>1, <1>2, <1>4, EndedCopied DEF CallInvariant, Active
<1>10. \A d \in Callers \ {c} : SameCall(d)
  BY DEF IInv, TypeOK, Goto, SameCall
<1>11. QED
  BY <1>3, <1>5, <1>6, <1>7, <1>8, <1>9, <1>10, OneCallSteps DEF CallInvariant

\* A call reads on where it stands.
LEMMA ReadKeeps ==
  ASSUME IInv,
         UNCHANGED <<sourceVars, package, pc, selection, phase, index, replayed,
                     total, contents, sink, error, faults, quiet>>,
         hash' \in [Callers -> [offset : Nat, blocks : Seq(Block)]],
         reader' \in [Callers -> Reader],
         genuine' \in [Callers -> BOOLEAN]
  PROVE  IInv'
<1>1. TypeOK'
  BY DEF IInv, TypeOK, SourceTypeOK, sourceVars
<1>2. \A d \in Callers : SameCall(d)
  BY DEF SameCall
<1>3. QED
  BY <1>1, <1>2, Frame DEF IInv

-----------------------------------------------------------------------------
(***************************************************************************)
(* One lemma per action, or per group of alike actions.                    *)
(***************************************************************************)

\* The call begins, or is refused for its selection.
LEMMA ReplayKeeps ==
  ASSUME IInv, NEW c \in Callers, NEW s \in Selections, Replay(c, s)
  PROVE  IInv'
<1>1. /\ selection' \in [Callers -> SUBSET Selections]
      /\ selection'[c] = {s}
      /\ quiet' \in [Callers -> BOOLEAN]
  BY DEF IInv, TypeOK, Replay
<1>2. \A d \in Callers \ {c} : SameCall(d)
  BY DEF IInv, TypeOK, Replay, Goto, Throw, SameCall
<1>3. CallInvariant(c) /\ pc[c] = "idle"
  BY DEF IInv, Replay
<1>4. CASE ValidFor(s, package.image)
  <2>1. pc' \in [Callers -> Location] /\ pc'[c] = "verify" /\ UNCHANGED error
    BY <1>4 DEF IInv, TypeOK, Replay, Goto, Location, Active
  <2>2. TypeOK'
    BY <1>1, <2>1 DEF IInv, TypeOK, Replay, SourceTypeOK, sourceVars
  <2>3. index[c] = 0 /\ sink[c].ended = <<>> /\ sink[c].open = {} /\ phase[c] = "pre"
    BY <1>3 DEF CallInvariant, PhaseFits, EndedSoFar, SinkFits
  <2>4. UNCHANGED <<package, phase, index, sink, contents>>
    BY DEF Replay
  <2>5. WithinImage(c)' /\ PhaseFits(c)' /\ SinkFits(c)'
    BY <1>3, <2>1, <2>3, <2>4
       DEF CallInvariant, WithinImage, PhaseFits, SinkFits, Decoding
  <2>6. SelectionFits(c)'
    BY <1>1, <1>4, <2>1, <2>4 DEF SelectionFits, ValidFor
  <2>7. EndedSoFar(c)'
    BY <2>1, <2>3, <2>4 DEF EndedSoFar
  <2>8. QED
    BY <1>2, <2>2, <2>4, <2>5, <2>6, <2>7, OneCallSteps DEF CallInvariant
<1>5. CASE ~ValidFor(s, package.image)
  <2>1. pc' \in [Callers -> Location] /\ pc'[c] = "failed"
    BY <1>5 DEF IInv, TypeOK, Replay, Throw, Location, Finished
  <2>2. error' \in [Callers -> SUBSET (ErrorKind \union {"sink_exception"})]
    <3>1. "selection_error" \in ErrorKind
      BY DEF ErrorKind
    <3>2. Throw(c, "selection_error")
      BY <1>5 DEF Replay
    <3>3. QED
      BY <3>1, <3>2 DEF IInv, TypeOK, Throw
  <2>3. TypeOK'
    BY <1>1, <2>1, <2>2 DEF IInv, TypeOK, Replay, SourceTypeOK, sourceVars
  <2>4. UNCHANGED <<package, phase, index, sink, contents>>
    BY DEF Replay
  <2>5. CallInvariant(c)'
    BY <1>3, <2>1, <2>4 DEF CallInvariant, WithinImage, PhaseFits, SelectionFits,
                            SinkFits, EndedSoFar, Active, Decoding
  <2>6. QED
    BY <1>2, <2>3, <2>4, <2>5, OneCallSteps
<1>6. QED
  BY <1>4, <1>5

\* Verification: the stamp, the digest, and the stamp again.
LEMMA VerifyStampKeeps ==
  ASSUME IInv, NEW c \in Callers, VerifyStamp(c)
  PROVE  IInv'
<1>1. hash' \in [Callers -> [offset : Nat, blocks : Seq(Block)]]
  <2>1. FreshHash(c) \in [offset : Nat, blocks : Seq(Block)]
    BY DEF FreshHash, NewHash
  <2>2. QED
    BY <2>1 DEF IInv, TypeOK, VerifyStamp
<1>2. reader' \in [Callers -> Reader] /\ faults' \in 0..MaxFaults
  BY DEF IInv, TypeOK, VerifyStamp
<1>3. "source_changed_error" \in ErrorKind
  BY DEF ErrorKind
<1>4. CASE Stamp = package.stamp
  BY <1>1, <1>2, <1>4, GotoKeeps DEF VerifyStamp
<1>5. CASE Stamp # package.stamp
  BY <1>1, <1>2, <1>3, <1>5, ThrowKeeps DEF VerifyStamp
<1>6. QED
  BY <1>4, <1>5

\* One pread of a hash pass.
LEMMA HashChunkKeeps ==
  ASSUME IInv, NEW c \in Callers, HashChunk(c)
  PROVE  IInv'
<1> DEFINE request == Least(package.stamp.size - hash[c].offset, Chunk)
<1>1. /\ hash[c].offset \in Nat
      /\ hash[c].blocks \in Seq(Block)
      /\ package.stamp.size \in Nat
      /\ file \in Seq(Block)
  BY PackagesAssumption DEF IInv, TypeOK, SourceTypeOK
<1>2. request \in Nat
  <2>1. hash[c].offset < package.stamp.size
    BY DEF HashChunk
  <2>2. package.stamp.size - hash[c].offset \in Nat /\ Chunk \in Nat
    BY <1>1, <2>1, ChunkAssumption
  <2>3. QED
    BY <2>2 DEF Least
<1>3. PICK blocks \in Pread(hash[c].offset, request) :
        hash' = [hash EXCEPT ![c] = [offset |-> @.offset + Len(blocks),
                                     blocks |-> @.blocks \o blocks]]
  BY DEF HashChunk, HashPread
<1>4. blocks \in Seq(Block)
  BY <1>1, <1>2, <1>3, PreadType
<1>5. hash' \in [Callers -> [offset : Nat, blocks : Seq(Block)]]
  BY <1>1, <1>3, <1>4 DEF IInv, TypeOK
<1>6. reader' \in [Callers -> Reader] /\ genuine' \in [Callers -> BOOLEAN]
  BY DEF IInv, TypeOK, HashChunk
<1>7. QED
  BY <1>5, <1>6, ReadKeeps DEF HashChunk

\* The end of a hash pass.
LEMMA HashDoneKeeps ==
  ASSUME IInv, NEW c \in Callers, HashDone(c)
  PROVE  IInv'
<1>1. /\ hash' \in [Callers -> [offset : Nat, blocks : Seq(Block)]]
      /\ reader' \in [Callers -> Reader]
  BY DEF IInv, TypeOK, HashDone
<1>2. QED
  BY <1>1, GotoKeeps DEF HashDone

\* The comparison of stamp and digest with what was sealed.
LEMMA VerifySealedKeeps ==
  ASSUME IInv, NEW c \in Callers, VerifySealed(c)
  PROVE  IInv'
<1>1. /\ hash' \in [Callers -> [offset : Nat, blocks : Seq(Block)]]
      /\ reader' \in [Callers -> Reader]
      /\ faults' \in 0..MaxFaults
  BY DEF IInv, TypeOK, VerifySealed
<1>2. phase[c] \in {"pre", "post"}
  BY DEF IInv, TypeOK
<1>3. "source_changed_error" \in ErrorKind
  BY DEF ErrorKind
<1>4. CASE SealHolds(c) /\ phase[c] = "pre"
  BY <1>1, <1>4, GotoKeeps DEF VerifySealed
<1>5. CASE SealHolds(c) /\ phase[c] = "post"
  BY <1>1, <1>5, GotoKeeps DEF VerifySealed
<1>6. CASE ~SealHolds(c)
  BY <1>1, <1>3, <1>6, ThrowKeeps DEF VerifySealed
<1>7. QED
  BY <1>2, <1>4, <1>5, <1>6

\* The exceptions that end a call and change nothing else.
LEMMA FailureKeeps ==
  ASSUME IInv, NEW c \in Callers,
         \/ HashTruncated(c) \/ SourceTruncated(c) \/ PayloadExceeds(c)
         \/ PayloadRejected(c) \/ SinkThrows(c) \/ PayloadTruncated(c) \/ Fault(c)
  PROVE  IInv'
<1>1. /\ UNCHANGED <<sourceVars, package, selection, phase, hash, reader, index,
                     replayed, total, contents, sink, quiet, genuine>>
      /\ faults' = faults \/ (faults < MaxFaults /\ faults' = faults + 1)
  BY DEF HashTruncated, SourceTruncated, PayloadExceeds, PayloadRejected,
         SinkThrows, PayloadTruncated, Fault
<1>2. /\ hash' \in [Callers -> [offset : Nat, blocks : Seq(Block)]]
      /\ reader' \in [Callers -> Reader]
  BY <1>1 DEF IInv, TypeOK
<1>3. faults' \in 0..MaxFaults
  BY <1>1, FaultsAssumption DEF IInv, TypeOK
<1>4. \E kind \in ErrorKind \union {"sink_exception"} : Throw(c, kind)
  <2>1. {"source_changed_error", "archive_error", "digest_error",
         "declared_size_mismatch_error"} \subseteq ErrorKind
    BY DEF ErrorKind
  <2>2. PayloadError(c) \subseteq ErrorKind
    BY ErrorsAreKinds
  <2>3. QED
    BY <2>1, <2>2 DEF HashTruncated, SourceTruncated, PayloadExceeds,
         PayloadRejected, SinkThrows, PayloadTruncated, Fault
<1>5. QED
  BY <1>1, <1>2, <1>3, <1>4, ThrowKeeps

\* libarchive reads ahead, or skips over a payload.
LEMMA FillBufferKeeps ==
  ASSUME IInv, NEW c \in Callers, FillBuffer(c)
  PROVE  IInv'
<1>1. /\ reader[c] \in Reader
      /\ package.stamp.size \in Nat
      /\ file \in Seq(Block)
  BY PackagesAssumption DEF IInv, TypeOK, SourceTypeOK
<1>2. /\ reader[c].offset \in Nat
      /\ reader[c].offset < package.stamp.size
  BY <1>1 DEF Reader, FillBuffer, Drained
<1>3. Least(package.stamp.size - reader[c].offset, Chunk) \in Nat
  <2>1. package.stamp.size - reader[c].offset \in Nat /\ Chunk \in Nat
    BY <1>1, <1>2, ChunkAssumption
  <2>2. QED
    BY <2>1 DEF Least
<1>4. PICK blocks \in ReadSource(reader[c], package.stamp.size) :
        /\ reader' = Advance(c, blocks)
        /\ \E b \in BOOLEAN : genuine' = [genuine EXCEPT ![c] = b]
  BY DEF FillBuffer
<1>5. blocks \in Seq(Block)
  BY <1>1, <1>2, <1>3, <1>4, PreadType DEF ReadSource
<1>6. reader' \in [Callers -> Reader]
  BY <1>1, <1>4, <1>5, ReaderSteps DEF IInv, TypeOK, Advance
<1>7. /\ genuine' \in [Callers -> BOOLEAN]
      /\ hash' \in [Callers -> [offset : Nat, blocks : Seq(Block)]]
  BY <1>4 DEF IInv, TypeOK, FillBuffer
<1>8. QED
  BY <1>6, <1>7, ReadKeeps DEF FillBuffer

\* Part of a payload that is not replayed.
LEMMA SkipDataKeeps ==
  ASSUME IInv, NEW c \in Callers, SkipData(c)
  PROVE  IInv'
<1>1. reader' \in [Callers -> Reader]
  BY ReaderSteps DEF IInv, TypeOK, SkipData
<1>2. /\ genuine' \in [Callers -> BOOLEAN]
      /\ hash' \in [Callers -> [offset : Nat, blocks : Seq(Block)]]
  BY DEF IInv, TypeOK, SkipData
<1>3. QED
  BY <1>1, <1>2, ReadKeeps DEF SkipData

\* What is known of a call that decodes: its selection is of this image, so
\* contains answers membership, and the entry at its position has that id.
LEMMA Decoded ==
  ASSUME IInv, NEW c \in Callers, pc[c] \in Active
  PROVE  /\ selection[c] = {Chosen(c)}
         /\ Chosen(c) \in Selections
         /\ Chosen(c).imageSize = Len(package.image)
         /\ index[c] \in Nat
         /\ Len(package.image) \in Nat
         /\ index[c] < Len(package.image) =>
              /\ Expected(c) # {}
              /\ ExpectedEntry(c).id = index[c]
         /\ index[c] >= Len(package.image) => Expected(c) = {}
         /\ \A id \in Nat : id < Len(package.image) =>
              (Contains(Chosen(c), id) <=> id \in Chosen(c).selected)
<1>1. PICK s \in Selections :
        selection[c] = {s} /\ s.imageSize = Len(package.image)
  BY DEF IInv, CallInvariant, SelectionFits
<1>2. Chosen(c) = s
  BY <1>1 DEF Chosen
<1>3. index[c] \in Nat /\ Len(package.image) \in Nat /\ package \in Packages
  BY PackagesAssumption DEF IInv, TypeOK
<1>4. index[c] < Len(package.image) =>
        /\ Expected(c) # {}
        /\ ExpectedEntry(c).id = index[c]
  BY <1>3, PackagesAssumption DEF Expected, ExpectedEntry, EntryAt
<1>5. index[c] >= Len(package.image) => Expected(c) = {}
  BY <1>3 DEF Expected, EntryAt
<1>6. QED
  BY <1>1, <1>2, <1>3, <1>4, <1>5 DEF Contains

\* A header compared with the entry that is due.
LEMMA NextHeaderKeeps ==
  ASSUME IInv, NEW c \in Callers, NextHeader(c)
  PROVE  IInv'
<1>1. reader' \in [Callers -> Reader]
  <2>1. Buffered(reader[c]) /\ HeaderStatus(reader[c]) = "OK"
    BY DEF NextHeader, HeaderReady, HeaderStatus
  <2>2. QED
    BY <2>1, ReaderSteps DEF IInv, TypeOK, NextHeader
<1>2. /\ hash' \in [Callers -> [offset : Nat, blocks : Seq(Block)]]
      /\ faults' \in 0..MaxFaults
  BY DEF IInv, TypeOK, NextHeader
<1>3. pc[c] = "header" /\ pc[c] \in Active
  BY DEF NextHeader, HeaderReady, Active
<1>4. ASSUME NEW kind \in HeaderError(c), Throw(c, kind)
      PROVE  IInv'
  BY <1>1, <1>2, <1>4, ErrorsAreKinds, ThrowKeeps DEF NextHeader
<1>5. ASSUME HeaderError(c) = {},
             Goto(c, IF Contains(Chosen(c), ExpectedEntry(c).id)
                       THEN "begin" ELSE "skip"),
             UNCHANGED error
      PROVE  IInv'
  <2>1. Expected(c) # {}
    BY <1>5 DEF HeaderError
  <2>2. index[c] < Len(package.image) /\ ExpectedEntry(c).id = index[c]
    BY <1>3, <2>1, Decoded
  <2>3. Contains(Chosen(c), ExpectedEntry(c).id) <=> index[c] \in Chosen(c).selected
    BY <1>3, <2>2, Decoded
  <2>4. CASE index[c] \in Chosen(c).selected
    BY <1>1, <1>2, <1>3, <1>5, <2>2, <2>3, <2>4, GotoKeeps DEF NextHeader
  <2>5. CASE index[c] \notin Chosen(c).selected
    BY <1>1, <1>2, <1>3, <1>5, <2>2, <2>3, <2>5, GotoKeeps DEF NextHeader
  <2>6. QED
    BY <2>4, <2>5
<1>6. QED
  BY <1>4, <1>5 DEF NextHeader

\* The end of the archive, or a block that is no header.
LEMMA EndOfArchiveKeeps ==
  ASSUME IInv, NEW c \in Callers, EndOfArchive(c)
  PROVE  IInv'
<1>1. /\ hash' \in [Callers -> [offset : Nat, blocks : Seq(Block)]]
      /\ reader' \in [Callers -> Reader]
      /\ faults' \in 0..MaxFaults
  BY DEF IInv, TypeOK, EndOfArchive
<1>2. pc[c] = "header"
  BY DEF EndOfArchive, HeaderReady
<1>3. ASSUME NEW kind \in EndError(c), Throw(c, kind)
      PROVE  IInv'
  BY <1>1, <1>3, ErrorsAreKinds, ThrowKeeps DEF EndOfArchive
<1>4. ASSUME EndError(c) = {}, Goto(c, "close"), UNCHANGED error
      PROVE  IInv'
  <2>1. index[c] = Len(package.image)
    BY <1>4 DEF EndError, CountsAgree
  <2>2. QED
    BY <1>1, <1>2, <1>4, <2>1, GotoKeeps DEF EndOfArchive
<1>5. QED
  BY <1>3, <1>4 DEF EndOfArchive

\* The sink is called, and the call moves on to the next entry.
LEMMA BeginKeeps ==
  ASSUME IInv, NEW c \in Callers, Begin(c)
  PROVE  IInv'
<1>1. /\ CallInvariant(c)
      /\ pc[c] = "begin" /\ pc[c] \in Active
      /\ index[c] \in Nat
      /\ sink[c] \in Recording
  BY DEF IInv, TypeOK, Recording, Begin, Active
<1>2. ExpectedEntry(c).id = index[c]
  BY <1>1, Decoded DEF CallInvariant, WithinImage
<1>3. sink' = [sink EXCEPT ![c] = SinkBegin(sink[c], index[c])]
  BY <1>2 DEF Begin
<1>4. /\ SinkBegin(sink[c], index[c]).open = {index[c]}
      /\ SinkBegin(sink[c], index[c]).written = <<>>
      /\ SinkBegin(sink[c], index[c]).ended = sink[c].ended
      /\ SinkBegin(sink[c], index[c])
           \in Recording
  BY <1>1, SinkBeginEndSteps
<1>5. /\ sink'[c] = SinkBegin(sink[c], index[c])
      /\ sink' \in [Callers -> Recording]
  BY <1>3, <1>4 DEF IInv, TypeOK, Recording
<1>6. /\ pc' \in [Callers -> Location] /\ pc'[c] = "data"
      /\ total' \in [Callers -> Nat]
      /\ contents' \in [Callers -> Seq(Block)] /\ contents'[c] = <<>>
  BY DEF IInv, TypeOK, Begin, Goto, Location, Active
<1>7. TypeOK'
  BY <1>5, <1>6 DEF IInv, TypeOK, Recording, Begin, SourceTypeOK, sourceVars
<1>8. UNCHANGED <<package, selection, phase, index>>
  BY DEF Begin
<1>9. WithinImage(c)' /\ PhaseFits(c)' /\ SinkFits(c)'
  BY <1>1, <1>4, <1>5, <1>6, <1>8
     DEF CallInvariant, WithinImage, PhaseFits, SinkFits, Decoding
<1>10. SelectionFits(c)'
  BY <1>1, <1>6, <1>8 DEF CallInvariant, SelectionFits, Chosen
<1>11. EndedSoFar(c)'
  BY <1>1, <1>4, <1>5, <1>6, <1>8, EndedCopied DEF CallInvariant
<1>12. \A d \in Callers \ {c} : SameCall(d)
  BY DEF IInv, TypeOK, Begin, Goto, SameCall
<1>13. QED
  BY <1>7, <1>8, <1>9, <1>10, <1>11, <1>12, OneCallSteps DEF CallInvariant

\* A block handed to the sink.
LEMMA WriteBlockKeeps ==
  ASSUME IInv, NEW c \in Callers, WriteBlock(c)
  PROVE  IInv'
<1> DEFINE block == Head(reader[c].buffer)
<1>1. /\ CallInvariant(c)
      /\ pc[c] = "data" /\ pc[c] \in Active
      /\ reader[c] \in Reader /\ reader[c].buffer # <<>> /\ reader[c].left > 0
      /\ contents[c] \in Seq(Block)
      /\ sink[c] \in Recording
  BY DEF IInv, TypeOK, WriteBlock, Recording, BlockReady, Buffered,
         Active
<1>2. block \in Block
  BY <1>1 DEF Reader
<1>3. /\ sink' = [sink EXCEPT ![c] = SinkWrite(sink[c], block)]
      /\ contents' = [contents EXCEPT ![c] = Append(contents[c], block)]
  BY DEF WriteBlock
<1>4. /\ SinkWrite(sink[c], block).open = sink[c].open
      /\ SinkWrite(sink[c], block).written = Append(sink[c].written, block)
      /\ SinkWrite(sink[c], block).ended = sink[c].ended
      /\ SinkWrite(sink[c], block)
           \in Recording
  BY <1>1, <1>2, SinkWriteStep
<1>5. /\ sink'[c] = SinkWrite(sink[c], block)
      /\ sink' \in [Callers -> Recording]
  BY <1>3, <1>4 DEF IInv, TypeOK, Recording
<1>6. /\ contents' \in [Callers -> Seq(Block)]
      /\ contents'[c] = Append(contents[c], block)
  BY <1>1, <1>2, <1>3 DEF IInv, TypeOK
<1>7. total' \in [Callers -> Nat] /\ reader' \in [Callers -> Reader]
  <2>1. TakeBlock(reader[c]) \in Reader
    BY <1>1, ReaderSteps DEF Buffered
  <2>2. QED
    BY <2>1 DEF IInv, TypeOK, WriteBlock
<1>8. TypeOK'
  BY <1>5, <1>6, <1>7 DEF IInv, TypeOK, Recording, WriteBlock, SourceTypeOK,
                             sourceVars
<1>9. UNCHANGED <<package, pc, selection, phase, index>>
  BY DEF WriteBlock
<1>10. WithinImage(c)' /\ PhaseFits(c)'
  BY <1>1, <1>9 DEF CallInvariant, WithinImage, PhaseFits
<1>11. SinkFits(c)'
  BY <1>1, <1>4, <1>5, <1>6, <1>9 DEF CallInvariant, SinkFits
<1>12. SelectionFits(c)'
  BY <1>1, <1>9 DEF CallInvariant, SelectionFits, Chosen
<1>13. EndedSoFar(c)'
  BY <1>1, <1>4, <1>5, <1>9, EndedCopied DEF CallInvariant
<1>14. \A d \in Callers \ {c} : SameCall(d)
  BY DEF IInv, TypeOK, WriteBlock, SameCall
<1>15. QED
  BY <1>8, <1>9, <1>10, <1>11, <1>12, <1>13, <1>14, OneCallSteps
     DEF CallInvariant

\* What was ended is, in order, the selected ids below n.
EndedBelow(ended, n, selected) ==
  /\ \A i \in 1..Len(ended) : ended[i].id < n
  /\ \A i, j \in 1..Len(ended) : i < j => ended[i].id < ended[j].id
  /\ \A id \in 0..(n - 1) :
       id \in selected <=> \E i \in 1..Len(ended) : ended[i].id = id

\* The selected entries ended below n, when the one of n is appended.
LEMMA AppendNext ==
  ASSUME NEW n \in Nat, NEW Entries, \A e \in Entries : e.id \in Nat,
         NEW was \in Seq(Entries), NEW new \in Entries, new.id = n,
         NEW selected, n \in selected, EndedBelow(was, n, selected)
  PROVE  EndedBelow(Append(was, new), n + 1, selected)
<1> DEFINE now == Append(was, new)
<1>1. /\ Len(was) \in Nat
      /\ Len(now) = Len(was) + 1
      /\ \A i \in 1..Len(was) : now[i] = was[i]
      /\ now[Len(was) + 1] = new
  OBVIOUS
<1>2. \A i \in 1..Len(was) : was[i].id \in Nat
  <2>1. \A i \in 1..Len(was) : was[i] \in Entries
    OBVIOUS
  <2>2. QED
    BY <2>1
<1>3. \A i \in 1..Len(now) : i \in 1..Len(was) \/ i = Len(was) + 1
  BY <1>1
<1> HIDE DEF now
<1>4. \A i \in 1..Len(now) : now[i].id < n + 1
  BY <1>1, <1>2, <1>3 DEF EndedBelow
<1>5. ASSUME NEW i \in 1..Len(now), NEW j \in 1..Len(now), i < j
      PROVE  now[i].id < now[j].id
  <2>1. i \in 1..Len(was)
    BY <1>1, <1>5
  <2>2. CASE j \in 1..Len(was)
    BY <1>1, <1>5, <2>1, <2>2 DEF EndedBelow
  <2>3. CASE j = Len(was) + 1
    BY <1>1, <2>1, <2>3 DEF EndedBelow
  <2>4. QED
    BY <1>3, <2>2, <2>3
<1>6. ASSUME NEW id \in 0..n
      PROVE  id \in selected <=> \E i \in 1..Len(now) : now[i].id = id
  <2>1. CASE id = n
    <3>1. Len(was) + 1 \in 1..Len(now) /\ now[Len(was) + 1].id = id
      BY <1>1, <2>1
    <3>2. QED
      BY <2>1, <3>1
  <2>2. CASE id # n
    <3>1. id \in 0..(n - 1)
      BY <2>2
    <3>2. (\E i \in 1..Len(now) : now[i].id = id)
            <=> \E i \in 1..Len(was) : was[i].id = id
      <4>1. 1..Len(was) \subseteq 1..Len(now)
        BY <1>1
      <4>2. now[Len(was) + 1].id # id
        BY <1>1, <2>2
      <4>3. QED
        BY <1>1, <1>3, <4>1, <4>2
    <3>3. QED
      BY <3>1, <3>2 DEF EndedBelow
  <2>3. QED
    BY <2>1, <2>2
<1>7. QED
  <2>1. (n + 1) - 1 = n
    OBVIOUS
  <2>2. QED
    BY <1>4, <1>5, <1>6, <2>1 DEF EndedBelow, now

\* The end of an entry that is replayed.
LEMMA EndEntryKeeps ==
  ASSUME IInv, NEW c \in Callers, EndEntry(c)
  PROVE  IInv'
<1> DEFINE was == sink[c].ended
           new == [id |-> index[c], content |-> sink[c].written]
<1>1. /\ CallInvariant(c)
      /\ pc[c] = "data" /\ pc[c] \in Active
      /\ index[c] \in Nat /\ replayed[c] \in Nat
      /\ index[c] < Len(package.image)
      /\ sink[c] \in Recording
  BY DEF IInv, TypeOK, Recording, EndEntry, PayloadRead, Active, CallInvariant,
         WithinImage
<1>2. ExpectedEntry(c).id = index[c]
  BY <1>1, Decoded
<1>3. sink' = [sink EXCEPT ![c] = SinkEnd(sink[c], index[c])]
  BY <1>2 DEF EndEntry
<1>4. /\ SinkEnd(sink[c], index[c]).open = {}
      /\ SinkEnd(sink[c], index[c]).ended = Append(was, new)
      /\ SinkEnd(sink[c], index[c]) \in Recording
  BY <1>1, SinkBeginEndSteps
<1>5. /\ sink'[c] = SinkEnd(sink[c], index[c])
      /\ sink' \in [Callers -> Recording]
  BY <1>3, <1>4 DEF IInv, TypeOK, Recording
<1>6. /\ pc' \in [Callers -> Location] /\ pc'[c] = "header"
      /\ replayed' \in [Callers -> Nat]
      /\ index' \in [Callers -> Nat] /\ index'[c] = index[c] + 1
  BY <1>1 DEF IInv, TypeOK, EndEntry, Goto, Location, Active
<1>7. TypeOK'
  BY <1>5, <1>6 DEF IInv, TypeOK, Recording, EndEntry, SourceTypeOK, sourceVars
<1>8. UNCHANGED <<package, selection, phase, contents>>
  BY DEF EndEntry
<1>9. Chosen(c)' = Chosen(c)
  BY <1>8 DEF Chosen
<1>10. WithinImage(c)'
  <2>1. Len(package.image) \in Nat
    BY <1>1, Decoded
  <2>2. QED
    BY <1>1, <1>6, <1>8, <2>1 DEF CallInvariant, WithinImage, PhaseFits, Decoding
<1>11. PhaseFits(c)' /\ SinkFits(c)'
  BY <1>1, <1>4, <1>5, <1>6, <1>8 DEF CallInvariant, PhaseFits, SinkFits, Decoding
<1>12. SelectionFits(c)'
  BY <1>1, <1>6, <1>8, <1>9 DEF CallInvariant, SelectionFits, Active
<1>13. EndedSoFar(c)'
  <2> DEFINE now == Append(was, new)
  <2>1. EndedSoFar(c) /\ index[c] \in Chosen(c).selected
    BY <1>1 DEF CallInvariant, SelectionFits
  <2>2. /\ was \in Seq([id : Nat, content : Seq(Block)])
        /\ new \in [id : Nat, content : Seq(Block)]
    BY <1>1 DEF Recording
  <2>3. EndedBelow(was, index[c], Chosen(c).selected)
    BY <1>1, <2>1 DEF EndedSoFar, EndedBelow
  <2>4. EndedBelow(now, index[c] + 1, Chosen(c).selected)
    <3> DEFINE Entries == [id : Nat, content : Seq(Block)]
    <3>1. \A e \in Entries : e.id \in Nat
      OBVIOUS
    <3>2. new.id = index[c]
      OBVIOUS
    <3> HIDE DEF was, new, Entries
    <3>3. was \in Seq(Entries) /\ new \in Entries
      BY <2>2 DEF Entries
    <3>4. QED
      BY <1>1, <2>1, <2>3, <3>1, <3>2, <3>3, AppendNext
  <2>5. new.content \in package.image[new.id + 1].content
    <3>1. PayloadError(c) = {}
      BY DEF EndEntry
    <3>2. contents[c] \in ExpectedEntry(c).content
      BY <3>1 DEF PayloadError
    <3>3. sink[c].written = contents[c]
      BY <1>1 DEF CallInvariant, SinkFits
    <3>4. QED
      BY <3>2, <3>3 DEF ExpectedEntry
  <2>6. \A i \in 1..Len(was) :
          was[i].content \in package.image[was[i].id + 1].content
    BY <2>1 DEF EndedSoFar
  <2> HIDE DEF was, new
  <2>7. \A i \in 1..Len(now) :
          now[i].content \in package.image[now[i].id + 1].content
    BY <2>2, <2>5, <2>6
  <2>8. /\ sink'[c].ended = now
        /\ index'[c] = index[c] + 1
        /\ pc'[c] # "idle"
        /\ package' = package
    BY <1>1, <1>4, <1>5, <1>6, <1>8 DEF was, new
  <2> HIDE DEF now
  <2>9. QED
    BY <1>9, <2>4, <2>7, <2>8 DEF EndedSoFar, EndedBelow
<1>14. \A d \in Callers \ {c} : SameCall(d)
  BY DEF IInv, TypeOK, EndEntry, Goto, SameCall
<1>15. QED
  BY <1>7, <1>8, <1>10, <1>11, <1>12, <1>13, <1>14, OneCallSteps
     DEF CallInvariant

\* The end of an entry that is not.
LEMMA EndSkipKeeps ==
  ASSUME IInv, NEW c \in Callers, EndSkip(c)
  PROVE  IInv'
<1>1. /\ CallInvariant(c)
      /\ pc[c] = "skip" /\ pc[c] \in Active
      /\ index[c] \in Nat
      /\ index[c] < Len(package.image)
      /\ index[c] \notin Chosen(c).selected
  BY DEF IInv, TypeOK, EndSkip, Active, CallInvariant, WithinImage, SelectionFits
<1>2. /\ pc' \in [Callers -> Location] /\ pc'[c] = "header"
      /\ index' \in [Callers -> Nat] /\ index'[c] = index[c] + 1
  BY <1>1 DEF IInv, TypeOK, EndSkip, Goto, Location, Active
<1>3. TypeOK'
  BY <1>2 DEF IInv, TypeOK, EndSkip, SourceTypeOK, sourceVars
<1>4. UNCHANGED <<package, selection, phase, contents, sink>>
  BY DEF EndSkip
<1>5. Chosen(c)' = Chosen(c)
  BY <1>4 DEF Chosen
<1>6. WithinImage(c)'
  <2>1. Len(package.image) \in Nat
    BY <1>1, Decoded
  <2>2. QED
    BY <1>1, <1>2, <1>4, <2>1 DEF CallInvariant, WithinImage, PhaseFits, Decoding
<1>7. PhaseFits(c)' /\ SinkFits(c)'
  BY <1>1, <1>2, <1>4 DEF CallInvariant, PhaseFits, SinkFits, Decoding
<1>8. SelectionFits(c)'
  BY <1>1, <1>2, <1>4, <1>5 DEF CallInvariant, SelectionFits, Active
<1>9. EndedSoFar(c)'
  <2> DEFINE was == sink[c].ended
  <2>1. EndedSoFar(c)
    BY <1>1 DEF CallInvariant
  <2>2. sink[c] \in Recording
    BY DEF IInv, TypeOK, Recording
  <2>3. /\ \A i \in 1..Len(was) : was[i].id < index[c]
        /\ \A id \in 0..(index[c] - 1) :
             id \in Chosen(c).selected <=> \E i \in 1..Len(was) : was[i].id = id
    BY <1>1, <2>1 DEF EndedSoFar
  <2>4. \A i \in 1..Len(was) : was[i].id \in Nat
    BY <2>2, EndedEntries
  <2>5. /\ \A i \in 1..Len(was) : was[i].id < index[c] + 1
        /\ \A id \in 0..((index[c] + 1) - 1) :
             id \in Chosen(c).selected <=> \E i \in 1..Len(was) : was[i].id = id
    <3> HIDE DEF was
    <3>1. ~ \E i \in 1..Len(was) : was[i].id = index[c]
      BY <1>1, <2>3, <2>4
    <3>2. \A id \in 0..((index[c] + 1) - 1) : id \in 0..(index[c] - 1) \/ id = index[c]
      BY <1>1
    <3>3. QED
      BY <1>1, <2>3, <2>4, <3>1, <3>2
  <2>6. \A i, j \in 1..Len(was) : i < j => was[i].id < was[j].id
    BY <2>1 DEF EndedSoFar
  <2>7. \A i \in 1..Len(was) :
          was[i].content \in package.image[was[i].id + 1].content
    BY <2>1 DEF EndedSoFar
  <2>8. /\ sink'[c].ended = was
        /\ index'[c] = index[c] + 1
        /\ pc'[c] # "idle"
        /\ package' = package
    BY <1>2, <1>4
  <2> HIDE DEF was
  <2>9. QED
    BY <1>5, <2>5, <2>6, <2>7, <2>8 DEF EndedSoFar
<1>10. \A d \in Callers \ {c} : SameCall(d)
  BY DEF IInv, TypeOK, EndSkip, Goto, SameCall
<1>11. QED
  BY <1>3, <1>4, <1>6, <1>7, <1>8, <1>9, <1>10, OneCallSteps DEF CallInvariant

\* The reader is closed and the second verification begins.
LEMMA CloseReaderKeeps ==
  ASSUME IInv, NEW c \in Callers, CloseReader(c)
  PROVE  IInv'
<1>1. /\ CallInvariant(c)
      /\ pc[c] = "close" /\ pc[c] \in Active
      /\ index[c] = Len(package.image)
  BY DEF IInv, CloseReader, Active, CallInvariant, WithinImage
<1>2. /\ pc' \in [Callers -> Location] /\ pc'[c] = "verify"
      /\ phase' \in [Callers -> {"pre", "post"}] /\ phase'[c] = "post"
  BY DEF IInv, TypeOK, CloseReader, Goto, Location, Active
<1>3. TypeOK'
  BY <1>2 DEF IInv, TypeOK, CloseReader, SourceTypeOK, sourceVars
<1>4. UNCHANGED <<package, selection, index, contents, sink>>
  BY DEF CloseReader
<1>5. WithinImage(c)' /\ PhaseFits(c)' /\ SinkFits(c)'
  BY <1>1, <1>2, <1>4
     DEF CallInvariant, WithinImage, PhaseFits, SinkFits, Decoding
<1>6. SelectionFits(c)'
  BY <1>1, <1>2, <1>4 DEF CallInvariant, SelectionFits
<1>7. EndedSoFar(c)'
  BY <1>1, <1>2, <1>4, EndedCopied DEF CallInvariant
<1>8. \A d \in Callers \ {c} : SameCall(d)
  BY DEF IInv, TypeOK, CloseReader, Goto, SameCall
<1>9. QED
  BY <1>3, <1>4, <1>5, <1>6, <1>7, <1>8, OneCallSteps DEF CallInvariant

\* An edit of the file concerns no call.
LEMMA EditSourceKeeps ==
  ASSUME IInv, EditSource
  PROVE  IInv'
<1>1. SourceTypeOK'
  BY EditType DEF IInv, TypeOK, EditSource
<1>2. TypeOK'
  BY <1>1 DEF IInv, TypeOK, EditSource, callVars
<1>3. \A d \in Callers : SameCall(d)
  BY DEF EditSource, callVars, SameCall
<1>4. QED
  BY <1>2, <1>3, Frame DEF IInv, EditSource

\* A step of others.
LEMMA StutterKeeps ==
  ASSUME IInv, UNCHANGED vars
  PROVE  IInv'
<1>1. TypeOK'
  BY DEF IInv, TypeOK, SourceTypeOK, vars, callVars, sourceVars
<1>2. \A d \in Callers : SameCall(d)
  BY DEF vars, callVars, SameCall
<1>3. QED
  BY <1>1, <1>2, Frame DEF IInv, vars

\* Every step of a call keeps its invariant.
LEMMA StepKeeps ==
  ASSUME IInv, NEW c \in Callers, Step(c)
  PROVE  IInv'
<1>1. CASE VerifyStamp(c)
  BY <1>1, VerifyStampKeeps
<1>2. CASE HashChunk(c)
  BY <1>2, HashChunkKeeps
<1>3. CASE HashDone(c)
  BY <1>3, HashDoneKeeps
<1>4. CASE VerifySealed(c)
  BY <1>4, VerifySealedKeeps
<1>5. CASE FillBuffer(c)
  BY <1>5, FillBufferKeeps
<1>6. CASE NextHeader(c)
  BY <1>6, NextHeaderKeeps
<1>7. CASE EndOfArchive(c)
  BY <1>7, EndOfArchiveKeeps
<1>8. CASE Begin(c)
  BY <1>8, BeginKeeps
<1>9. CASE WriteBlock(c)
  BY <1>9, WriteBlockKeeps
<1>10. CASE EndEntry(c)
  BY <1>10, EndEntryKeeps
<1>11. CASE SkipData(c)
  BY <1>11, SkipDataKeeps
<1>12. CASE EndSkip(c)
  BY <1>12, EndSkipKeeps
<1>13. CASE CloseReader(c)
  BY <1>13, CloseReaderKeeps
<1>14. CASE \/ HashTruncated(c) \/ SourceTruncated(c) \/ PayloadExceeds(c)
            \/ PayloadRejected(c) \/ SinkThrows(c) \/ PayloadTruncated(c)
  BY <1>14, FailureKeeps
<1>15. QED
  BY <1>1, <1>2, <1>3, <1>4, <1>5, <1>6, <1>7, <1>8, <1>9, <1>10, <1>11,
     <1>12, <1>13, <1>14 DEF Step

\* Every step of anybody keeps the invariant of every call.
LEMMA NextKeeps ==
  ASSUME IInv, [Next]_vars
  PROVE  IInv'
<1>1. ASSUME NEW c \in Callers, NEW s \in Selections, Replay(c, s)
      PROVE  IInv'
  BY <1>1, ReplayKeeps
<1>2. ASSUME NEW c \in Callers, Step(c)
      PROVE  IInv'
  BY <1>2, StepKeeps
<1>3. ASSUME NEW c \in Callers, Fault(c)
      PROVE  IInv'
  BY <1>3, FailureKeeps
<1>4. CASE EditSource
  BY <1>4, EditSourceKeeps
<1>5. CASE Terminated \/ UNCHANGED vars
  BY <1>5, StutterKeeps DEF Terminated
<1>6. QED
  BY <1>1, <1>2, <1>3, <1>4, <1>5 DEF Next

\* The invariant holds of calls that have not begun, whatever was done to the
\* file before.
LEMMA CallsEstablish ==
  ASSUME SourceTypeOK, package \in Packages, InitCalls
  PROVE  IInv
<1>1. NewSink \in Recording /\ NewHash \in [offset : Nat, blocks : Seq(Block)]
      /\ NewReader \in Reader
  BY DEF NewSink, Recording, NewHash, NewReader, Reader
<1>2. TypeOK
  BY <1>1, FaultsAssumption DEF InitCalls, TypeOK, Recording, Location
<1>3. ASSUME NEW c \in Callers
      PROVE  CallInvariant(c)
  <2>1. /\ pc[c] = "idle" /\ phase[c] = "pre" /\ index[c] = 0
        /\ sink[c].open = {} /\ sink[c].ended = <<>>
        /\ Len(package.image) \in Nat
    BY PackagesAssumption DEF InitCalls, NewSink
  <2>2. WithinImage(c)
    BY <2>1 DEF WithinImage
  <2>3. PhaseFits(c) /\ SinkFits(c) /\ SelectionFits(c)
    BY <2>1 DEF PhaseFits, SinkFits, SelectionFits, Active
  <2>4. EndedSoFar(c)
    BY <2>1 DEF EndedSoFar, Active
  <2>5. QED
    BY <2>2, <2>3, <2>4 DEF CallInvariant
<1>4. QED
  BY <1>2, <1>3 DEF IInv

\* The invariant holds at first.
LEMMA InitEstablishes ==
  ASSUME Init
  PROVE  IInv
<1>1. package \in Packages /\ InitCalls
  BY DEF Init
<1>2. package.digest \in Seq(Block) /\ package.stamp.mtime \in MTimes
  BY <1>1, PackagesAssumption
<1>3. /\ file = package.digest /\ mtime = package.stamp.mtime
      /\ edits = 0 /\ reverted = FALSE
      /\ past = [i \in 1..MaxLength |-> {}]
  BY DEF Init, SourceInit
<1>4. edits \in 0..MaxEdits /\ past \in [1..MaxLength -> SUBSET SUBSET Block]
  BY <1>3, BoundsAssumption
<1>5. SourceTypeOK
  BY <1>2, <1>3, <1>4 DEF SourceTypeOK
<1>6. QED
  BY <1>1, <1>5, CallsEstablish

-----------------------------------------------------------------------------
(***************************************************************************)
(* What follows for every reachable state.                                 *)
(***************************************************************************)

\* The position of every call in the image, what its sink has open and what
\* its sink has seen ended always fit together.
THEOREM Invariance == Spec => []IInv
<1>1. Init => IInv
  BY InitEstablishes
<1>2. IInv /\ [Next]_vars => IInv'
  BY NextKeeps
<1>3. QED
  BY <1>1, <1>2, PTL DEF Spec

\* Type correctness.
THEOREM TypeCorrect == Spec => []TypeOK
<1>1. IInv => TypeOK
  BY DEF IInv
<1>2. QED
  BY <1>1, Invariance, PTL

\* Integrity: whatever is done to the file, and however many calls run, what a
\* sink was given for an entry that was ended is the content inspected for it.
THEOREM Integrity == Spec => []EndedIsSealed
<1>1. ASSUME IInv, NEW c \in Callers, NEW i \in DOMAIN sink[c].ended
      PROVE  \E e \in EntryAt(package.image, sink[c].ended[i].id) :
               sink[c].ended[i].content \in e.content
  <2> DEFINE id == sink[c].ended[i].id
  <2>1. sink[c] \in Recording
    BY <1>1 DEF IInv, TypeOK, Recording
  <2>2. i \in 1..Len(sink[c].ended) /\ id \in Nat
    BY <2>1, EndedEntries
  <2>3. /\ id \in Nat
        /\ id < index[c]
        /\ sink[c].ended[i].content \in package.image[id + 1].content
    BY <1>1, <2>2 DEF IInv, CallInvariant, EndedSoFar
  <2>4. id < Len(package.image)
    <3>1. index[c] \in Nat /\ package \in Packages /\ WithinImage(c)
      BY <1>1 DEF IInv, TypeOK, CallInvariant
    <3>2. Len(package.image) \in Nat
      BY <3>1, PackagesAssumption
    <3> HIDE DEF id
    <3>3. QED
      BY <2>3, <3>1, <3>2 DEF WithinImage
  <2>5. QED
    BY <2>3, <2>4 DEF EntryAt
<1>2. IInv => EndedIsSealed
  BY <1>1 DEF EndedIsSealed
<1>3. QED
  BY <1>2, Invariance, PTL

\* Once a call verifies for the second time, the sink has everything.
LEMMA PostIsComplete ==
  ASSUME IInv, NEW c \in Callers, phase[c] = "post",
         pc[c] \in Active \union {"returned"}
  PROVE  /\ EndedIds(sink[c]) = Chosen(c).selected
         /\ \A i, j \in DOMAIN sink[c].ended :
              i < j => sink[c].ended[i].id < sink[c].ended[j].id
         /\ sink[c].open = {}
<1> DEFINE ended == sink[c].ended
<1>1. /\ index[c] = Len(package.image)
      /\ sink[c].open = {}
      /\ EndedSoFar(c)
  BY DEF IInv, CallInvariant, PhaseFits, WithinImage, SinkFits, Active, Decoding
<1>2. PICK s \in Selections : selection[c] = {s} /\ s.imageSize = Len(package.image)
  BY DEF IInv, CallInvariant, SelectionFits
<1>3. Chosen(c) = s
  BY <1>2 DEF Chosen
<1>4. /\ Chosen(c).selected \subseteq Nat
      /\ \A id \in Chosen(c).selected : id < Len(package.image)
  BY <1>2, <1>3, SelectionsAssumption
<1>5. /\ Len(package.image) \in Nat
      /\ DOMAIN ended = 1..Len(ended)
      /\ \A i \in 1..Len(ended) : ended[i].id \in Nat
  <2>1. sink[c] \in Recording
    BY DEF IInv, TypeOK, Recording
  <2>2. Len(package.image) \in Nat
    BY PackagesAssumption DEF IInv, TypeOK
  <2>3. QED
    BY <2>1, <2>2, EndedEntries
<1>6. /\ \A i \in 1..Len(ended) : ended[i].id < Len(package.image)
      /\ \A i, j \in 1..Len(ended) : i < j => ended[i].id < ended[j].id
      /\ \A id \in 0..(Len(package.image) - 1) :
           id \in Chosen(c).selected <=> \E i \in 1..Len(ended) : ended[i].id = id
  BY <1>1 DEF EndedSoFar
<1>7. EndedIds(sink[c]) = {ended[i].id : i \in 1..Len(ended)}
  BY <1>5 DEF EndedIds
<1> HIDE DEF ended
<1>8. {ended[i].id : i \in 1..Len(ended)} = Chosen(c).selected
  BY <1>4, <1>5, <1>6
<1>9. QED
  BY <1>1, <1>5, <1>6, <1>7, <1>8 DEF ended

\* Completeness: a call that returned has ended the selected entries, each once
\* and in archive order, and nothing else.
THEOREM Completeness == Spec => []ReturnedIsComplete
<1>1. ASSUME IInv, NEW c \in Callers, pc[c] = "returned"
      PROVE  phase[c] = "post"
  BY <1>1 DEF IInv, CallInvariant, PhaseFits
<1>2. IInv => ReturnedIsComplete
  BY <1>1, PostIsComplete DEF ReturnedIsComplete
<1>3. QED
  BY <1>2, Invariance, PTL

-----------------------------------------------------------------------------
(***************************************************************************)
(* What a step of a call may touch.                                        *)
(***************************************************************************)

\* A step of call c leaves the variables of call d alone.
Untouched(d) ==
  /\ pc'[d] = pc[d]
  /\ selection'[d] = selection[d]
  /\ phase'[d] = phase[d]
  /\ hash'[d] = hash[d]
  /\ reader'[d] = reader[d]
  /\ index'[d] = index[d]
  /\ replayed'[d] = replayed[d]
  /\ total'[d] = total[d]
  /\ contents'[d] = contents[d]
  /\ sink'[d] = sink[d]
  /\ error'[d] = error[d]
  /\ quiet'[d] = quiet[d]
  /\ genuine'[d] = genuine[d]

\* What a step of a call does, whichever step it is: it touches its own
\* variables only, and of these the hash, the sink, the ghost and the phase in
\* a few of its steps.
LEMMA StepEffects ==
  ASSUME TypeOK, NEW c \in Callers, Step(c) \/ Fault(c)
  PROVE  /\ UNCHANGED <<sourceVars, package, selection, quiet>>
         /\ \A d \in Callers \ {c} : Untouched(d)
         /\ pc[c] \in Active /\ pc'[c] \in Active \union Finished
         /\ VerifyStamp(c) \/ HashChunk(c) \/ hash'[c] = hash[c]
         /\ FillBuffer(c) \/ genuine'[c] = genuine[c]
         /\ Begin(c) \/ WriteBlock(c) \/ EndEntry(c) \/ sink'[c] = sink[c]
         /\ EndEntry(c) \/ replayed'[c] = replayed[c]
         /\ CloseReader(c) \/ phase'[c] = phase[c]
         /\ pc'[c] \in {"hash", "reverify"} =>
              VerifyStamp(c) \/ pc[c] \in {"hash", "reverify"}
         /\ pc'[c] = "returned" =>
              pc[c] = "reverify" /\ phase[c] = "post" /\ SealHolds(c)
         /\ \/ Begin(c) \/ WriteBlock(c)
            \/ total'[c] = total[c] /\ contents'[c] = contents[c]
         /\ pc'[c] = "data" => Begin(c) \/ pc[c] = "data"
<1>1. CASE VerifyStamp(c)
  BY <1>1 DEF VerifyStamp, Throw, Goto, TypeOK, Untouched, Active, Finished
<1>2. CASE HashChunk(c)
  BY <1>2 DEF HashChunk, TypeOK, Untouched, Active, Finished
<1>3. CASE HashDone(c)
  BY <1>3 DEF HashDone, Goto, TypeOK, Untouched, Active, Finished
<1>4. CASE VerifySealed(c)
  BY <1>4 DEF VerifySealed, Throw, Goto, TypeOK, Untouched, Active, Finished
<1>5. CASE FillBuffer(c)
  BY <1>5 DEF FillBuffer, Advance, Starving, TypeOK, Untouched, Active, Finished
<1>6. CASE NextHeader(c)
  BY <1>6 DEF NextHeader, HeaderReady, Throw, Goto, TypeOK, Untouched, Active, Finished
<1>7. CASE EndOfArchive(c)
  BY <1>7 DEF EndOfArchive, HeaderReady, Throw, Goto, TypeOK, Untouched, Active, Finished
<1>8. CASE Begin(c)
  BY <1>8 DEF Begin, Goto, TypeOK, Untouched, Active, Finished
<1>9. CASE WriteBlock(c)
  BY <1>9 DEF WriteBlock, BlockReady, TypeOK, Untouched, Active, Finished
<1>10. CASE EndEntry(c)
  BY <1>10 DEF EndEntry, PayloadRead, Goto, TypeOK, Untouched, Active, Finished
<1>11. CASE SkipData(c)
  BY <1>11 DEF SkipData, TypeOK, Untouched, Active, Finished
<1>12. CASE EndSkip(c)
  BY <1>12 DEF EndSkip, Goto, TypeOK, Untouched, Active, Finished
<1>13. CASE CloseReader(c)
  BY <1>13 DEF CloseReader, Goto, TypeOK, Untouched, Active, Finished
<1>14. CASE HashTruncated(c)
  BY <1>14 DEF HashTruncated, Throw, TypeOK, Untouched, Active, Finished
<1>15. CASE SourceTruncated(c) \/ PayloadTruncated(c)
  BY <1>15 DEF SourceTruncated, PayloadTruncated, Starving, Throw, TypeOK,
               Untouched, Active, Finished
<1>16. CASE PayloadExceeds(c)
  BY <1>16 DEF PayloadExceeds, BlockReady, Throw, TypeOK, Untouched, Active, Finished
<1>17. CASE PayloadRejected(c)
  BY <1>17 DEF PayloadRejected, PayloadRead, Throw, TypeOK, Untouched, Active, Finished
<1>18. CASE SinkThrows(c)
  BY <1>18 DEF SinkThrows, BlockReady, PayloadRead, Throw, TypeOK, Untouched,
               Active, Finished
<1>19. CASE Fault(c)
  BY <1>19 DEF Fault, Throw, TypeOK, Untouched, Active, Finished
<1>20. QED
  BY <1>1, <1>2, <1>3, <1>4, <1>5, <1>6, <1>7, <1>8, <1>9, <1>10, <1>11, <1>12,
     <1>13, <1>14, <1>15, <1>16, <1>17, <1>18, <1>19 DEF Step

-----------------------------------------------------------------------------
(***************************************************************************)
(* Delivered content is content of the selection.                          *)
(***************************************************************************)

\* What validate has found stays so for the whole call, and every id a sink
\* has seen ended is one of the selection.
SelectionKept(c) ==
  /\ pc[c] \in Active \union {"returned"} \/ sink[c].ended # <<>> =>
       /\ Chosen(c) \in Selections
       /\ ValidFor(Chosen(c), package.image)
  /\ \A i \in 1..Len(sink[c].ended) : sink[c].ended[i].id \in Chosen(c).selected

\* A step that delivers nothing and leaves the selection alone delivers
\* nothing wrong.
LEMMA SelectionCopied ==
  ASSUME NEW d \in Callers, SelectionKept(d), package' = package,
         selection'[d] = selection[d], sink'[d].ended = sink[d].ended,
         pc[d] \in Active \/ pc'[d] = pc[d]
  PROVE  SelectionKept(d)'
<1>1. Chosen(d)' = Chosen(d)
  BY DEF Chosen
<1>2. QED
  BY <1>1 DEF SelectionKept

\* A call starts with a sink that was given nothing.
LEMMA ReplaySelects ==
  ASSUME IInv, NEW c \in Callers, NEW s \in Selections, Replay(c, s)
  PROVE  SelectionKept(c)'
<1>1. /\ selection'[c] = {s}
      /\ sink' = sink
      /\ package' = package
      /\ pc'[c] \in Active => ValidFor(s, package.image)
      /\ pc'[c] # "returned"
  BY DEF IInv, TypeOK, Replay, Goto, Throw, Active
<1>2. sink[c].ended = <<>>
  BY DEF IInv, CallInvariant, EndedSoFar, Replay
<1>3. Chosen(c)' = s
  BY <1>1 DEF Chosen
<1>4. QED
  BY <1>1, <1>2, <1>3 DEF SelectionKept

\* An entry that ends at the sink is a selected one.
LEMMA EndEntrySelects ==
  ASSUME IInv, NEW c \in Callers, SelectionKept(c), EndEntry(c)
  PROVE  SelectionKept(c)'
<1> DEFINE was == sink[c].ended
           new == [id |-> index[c], content |-> sink[c].written]
<1>1. /\ pc[c] = "data" /\ pc[c] \in Active
      /\ package' = package /\ selection' = selection
      /\ sink'[c] = SinkEnd(sink[c], ExpectedEntry(c).id)
      /\ sink[c] \in Recording
  BY DEF IInv, TypeOK, EndEntry, PayloadRead, Active, Recording
<1>2. /\ index[c] \in Chosen(c).selected
      /\ index[c] < Len(package.image)
      /\ index[c] \in Nat
      /\ package \in Packages
  BY <1>1 DEF IInv, TypeOK, CallInvariant, SelectionFits, WithinImage
<1>3. ExpectedEntry(c).id = index[c]
  BY <1>1, <1>2, Decoded
<1>4. sink'[c].ended = Append(was, new)
  BY <1>1, <1>2, <1>3, SinkBeginEndSteps
<1>5. was \in Seq([id : Nat, content : Seq(Block)])
  BY <1>1 DEF Recording
<1>6. Chosen(c)' = Chosen(c)
  BY <1>1 DEF Chosen
<1>7. \A i \in 1..Len(was) : was[i].id \in Chosen(c).selected
  BY DEF SelectionKept
<1> HIDE DEF was
<1>8. \A i \in 1..Len(Append(was, new)) : Append(was, new)[i].id \in Chosen(c).selected
  BY <1>2, <1>5, <1>7
<1>9. QED
  BY <1>1, <1>4, <1>6, <1>8 DEF SelectionKept

\* No step delivers what was not selected.
LEMMA SelectionKeptByNext ==
  ASSUME IInv, [Next]_vars, NEW d \in Callers, SelectionKept(d)
  PROVE  SelectionKept(d)'
<1>1. ASSUME NEW c \in Callers, NEW s \in Selections, Replay(c, s)
      PROVE  SelectionKept(d)'
  <2>1. CASE c = d
    BY <1>1, <2>1, ReplaySelects
  <2>2. CASE c # d
    BY <1>1, <2>2, SelectionCopied DEF Replay, Goto, Throw, IInv, TypeOK
  <2>3. QED
    BY <2>1, <2>2
<1>2. ASSUME NEW c \in Callers, Step(c) \/ Fault(c)
      PROVE  SelectionKept(d)'
  <2>1. /\ package' = package /\ selection' = selection
        /\ \A e \in Callers \ {c} : Untouched(e)
        /\ pc[c] \in Active
        /\ Begin(c) \/ WriteBlock(c) \/ EndEntry(c) \/ sink'[c] = sink[c]
    BY <1>2, StepEffects DEF IInv
  <2>2. CASE c # d
    BY <2>1, <2>2, SelectionCopied DEF Untouched
  <2>3. CASE c = d /\ EndEntry(c)
    BY <2>3, EndEntrySelects
  <2>4. CASE c = d /\ (Begin(c) \/ WriteBlock(c))
    <3>1. sink'[c].ended = sink[c].ended
      BY <2>4 DEF IInv, TypeOK, Begin, WriteBlock, SinkBegin, SinkWrite
    <3>2. QED
      BY <2>1, <2>4, <3>1, SelectionCopied
  <2>5. CASE c = d /\ sink'[c] = sink[c]
    BY <2>1, <2>5, SelectionCopied
  <2>6. QED
    BY <2>1, <2>2, <2>3, <2>4, <2>5
<1>3. CASE EditSource \/ Terminated \/ UNCHANGED vars
  BY <1>3, SelectionCopied DEF EditSource, Terminated, vars, callVars
<1>4. QED
  BY <1>1, <1>2, <1>3 DEF Next

\* A call delivers what its selection names: the same ids with the same content,
\* so a selection of another archive delivers nothing the other did not hold.
THEOREM Delivery == Spec => []DeliveredIsSelected
<1> DEFINE Kept == \A c \in Callers : SelectionKept(c)
<1>1. Init => Kept
  BY DEF Init, InitCalls, SelectionKept, NewSink, Active
<1>2. IInv /\ Kept /\ [Next]_vars => Kept'
  BY SelectionKeptByNext
<1>3. ASSUME IInv, Kept, NEW c \in Callers, NEW i \in DOMAIN sink[c].ended
      PROVE  \E j \in DOMAIN Chosen(c).entries :
               LET named == Chosen(c).entries[j]
               IN  sink[c].ended[i] = [id |-> named.id, content |-> named.content]
  <2> DEFINE ended == sink[c].ended
             id == ended[i].id
  <2>1. sink[c] \in Recording
    BY <1>3 DEF IInv, TypeOK, Recording
  <2>2. i \in 1..Len(ended) /\ id \in Nat /\ ended # <<>>
    BY <2>1, EndedEntries
  <2>3. /\ Chosen(c) \in Selections
        /\ ValidFor(Chosen(c), package.image)
        /\ id \in Chosen(c).selected
    BY <1>3, <2>2 DEF SelectionKept
  <2>4. PICK j \in DOMAIN Chosen(c).entries : Chosen(c).entries[j].id = id
    BY <2>3, SelectedAssumption
  <2>5. ended[i].content \in package.image[id + 1].content
    BY <1>3, <2>2 DEF IInv, CallInvariant, EndedSoFar
  <2>6. package.image[id + 1].content = {Chosen(c).entries[j].content}
    BY <2>3, <2>4 DEF ValidFor, EntryAt
  <2>7. ended[i] = [id |-> ended[i].id, content |-> ended[i].content]
    <3>1. ended[i] \in [id : Nat, content : Seq(Block)]
      BY <2>1, <2>2, EndedEntries
    <3>2. QED
      BY <3>1
  <2>8. QED
    BY <2>4, <2>5, <2>6, <2>7
<1>4. IInv /\ Kept => DeliveredIsSelected
  BY <1>3 DEF DeliveredIsSelected
<1> HIDE DEF Kept
<1>5. QED
  BY <1>1, <1>2, <1>4, Invariance, PTL DEF Spec

-----------------------------------------------------------------------------
(***************************************************************************)
(* Every hash is a hash of as many blocks as its offset says.              *)
(***************************************************************************)

HashCounts(c) == hash[c].offset = Len(hash[c].blocks)

\* What one pread adds to the hash of a call.
LEMMA HashChunkGrows ==
  ASSUME IInv, NEW c \in Callers, HashCounts(c), HashChunk(c)
  PROVE  Grown(hash[c], hash'[c], package.stamp.size)
<1>1. /\ file \in Seq(Block)
      /\ package.stamp.size \in Nat
      /\ hash[c] \in [offset : Nat, blocks : Seq(Block)]
      /\ hash[c].offset < package.stamp.size
  BY PackagesAssumption DEF IInv, TypeOK, SourceTypeOK, HashChunk
<1>2. PICK blocks \in HashPread(c) \ {<<>>} :
        hash'[c] = [offset |-> hash[c].offset + Len(blocks),
                    blocks |-> hash[c].blocks \o blocks]
  BY DEF IInv, TypeOK, HashChunk
<1>3. blocks \in Pread(hash[c].offset,
                       Least(package.stamp.size - hash[c].offset, Chunk)) \ {<<>>}
  BY <1>2 DEF HashPread
<1>4. hash[c].offset = Len(hash[c].blocks)
  BY DEF HashCounts
<1>5. package.stamp.size - hash[c].offset \in Nat
  BY <1>1
<1>6. QED
  BY <1>1, <1>2, <1>3, <1>4, HashGrows

\* The offset of a hash pass counts the blocks hashed.
LEMMA HashCountsKept ==
  ASSUME IInv, [Next]_vars, NEW d \in Callers, HashCounts(d)
  PROVE  HashCounts(d)'
<1>1. ASSUME NEW c \in Callers, Step(c) \/ Fault(c)
      PROVE  HashCounts(d)'
  <2>1. /\ \A e \in Callers \ {c} : Untouched(e)
        /\ VerifyStamp(c) \/ HashChunk(c) \/ hash'[c] = hash[c]
    BY <1>1, StepEffects DEF IInv
  <2>2. CASE c # d
    BY <2>1, <2>2 DEF Untouched, HashCounts
  <2>3. CASE c = d /\ VerifyStamp(c)
    BY <2>3 DEF IInv, TypeOK, VerifyStamp, FreshHash, NewHash, HashCounts
  <2>4. CASE c = d /\ HashChunk(c)
    BY <2>4, HashChunkGrows DEF Grown, HashCounts
  <2>5. CASE c = d /\ hash'[c] = hash[c]
    BY <2>5 DEF HashCounts
  <2>6. QED
    BY <2>1, <2>2, <2>3, <2>4, <2>5
<1>2. CASE UNCHANGED hash
  BY <1>2 DEF HashCounts
<1>3. QED
  BY <1>1, <1>2 DEF Next, Replay, EditSource, Terminated, vars, callVars

-----------------------------------------------------------------------------
(***************************************************************************)
(* A stale source is refused before the sink hears anything.               *)
(***************************************************************************)

Stale == Stamp # package.stamp \/ file # package.digest

EarlyError == {"source_changed_error", "selection_error"}

\* A call on a stale source that is left alone is still in its first
\* verification, which hashes what the file holds, or has been refused.
Refused(c) ==
  /\ pc[c] = "idle" => sink[c] = NewSink
  /\ quiet[c] /\ Stale =>
       /\ pc[c] \in {"verify", "hash", "reverify", "failed"}
       /\ phase[c] = "pre"
       /\ sink[c] = NewSink
       /\ pc[c] = "failed" /\ faults = 0 => error[c] \subseteq EarlyError
       /\ pc[c] \in {"hash", "reverify"} =>
            /\ Stamp = package.stamp
            /\ hash[c].offset <= Len(file)
            /\ \A k \in 1..hash[c].offset : hash[c].blocks[k] = file[k]
       /\ pc[c] = "reverify" => hash[c].offset >= package.stamp.size

\* Where such a call stands, few steps are possible.
LEMMA EarlySteps ==
  ASSUME NEW c \in Callers, pc[c] \in {"verify", "hash", "reverify"}, Step(c)
  PROVE  \/ VerifyStamp(c) \/ HashChunk(c) \/ HashTruncated(c)
         \/ HashDone(c) \/ VerifySealed(c)
BY DEF Step, FillBuffer, SourceTruncated, Starving, NextHeader, EndOfArchive,
       HeaderReady, Begin, WriteBlock, PayloadExceeds, BlockReady, EndEntry,
       PayloadRejected, PayloadRead, SinkThrows, SkipData, EndSkip,
       PayloadTruncated, CloseReader

\* The second comparison of a first verification catches what the first one
\* could not see: the blocks hashed are those of the file.
LEMMA StaleSealFails ==
  ASSUME IInv, NEW c \in Callers, HashCounts(c), Refused(c), quiet[c], Stale,
         pc[c] = "reverify"
  PROVE  ~SealHolds(c)
<1>1. SUFFICES ASSUME SealHolds(c)
               PROVE  FALSE
  OBVIOUS
<1>2. /\ Len(file) = package.stamp.size
      /\ hash[c].offset = Len(file)
      /\ \A k \in 1..Len(file) : hash[c].blocks[k] = file[k]
  <2>1. /\ hash[c].offset \in Nat
        /\ Len(file) \in Nat
        /\ package.stamp = Stamp
    BY <1>1 DEF IInv, TypeOK, SourceTypeOK, SealHolds
  <2>2. package.stamp.size = Len(file)
    BY <2>1 DEF Stamp
  <2>3. QED
    BY <2>1, <2>2 DEF Refused
<1>3. /\ hash[c].blocks = package.digest
      /\ Len(package.digest) = Len(file)
      /\ package.digest \in Seq(Block)
      /\ file \in Seq(Block)
  BY <1>1, <1>2, PackagesAssumption DEF IInv, TypeOK, SourceTypeOK, SealHolds, HashCounts
<1>4. file = package.digest
  BY <1>2, <1>3
<1>5. QED
  BY <1>1, <1>4 DEF Stale, SealHolds

\* A step before the sealed bytes are confirmed, when the source was stale.
LEMMA EarlyStepRefused ==
  ASSUME IInv, NEW c \in Callers, HashCounts(c), Refused(c), Step(c)
  PROVE  Refused(c)'
<1>1. /\ UNCHANGED <<sourceVars, package, quiet>>
      /\ pc[c] \in Active /\ pc'[c] # "idle"
      /\ HashCounts(c)'
  BY StepEffects, HashCountsKept DEF IInv, Active, Finished, Next
<1>2. Stale' = Stale /\ Stamp' = Stamp
  BY <1>1 DEF Stale, Stamp, sourceVars
<1>3. SUFFICES ASSUME quiet[c], Stale
               PROVE  Refused(c)'
  BY <1>1, <1>2 DEF Refused
<1>4. /\ pc[c] \in {"verify", "hash", "reverify"}
      /\ phase[c] = "pre"
      /\ sink[c] = NewSink
  BY <1>1, <1>3 DEF Refused, Active
<1>5. CASE VerifyStamp(c)
  <2>1. /\ hash'[c] = NewHash
        /\ UNCHANGED <<phase, sink, faults>>
        /\ \/ pc'[c] = "hash" /\ Stamp = package.stamp
           \/ pc'[c] = "failed" /\ error'[c] = {"source_changed_error"}
    BY <1>5 DEF IInv, TypeOK, VerifyStamp, FreshHash, Goto, Throw
  <2>2. Len(file) \in Nat
    BY DEF IInv, TypeOK, SourceTypeOK
  <2>3. QED
    BY <1>1, <1>2, <1>4, <2>1, <2>2 DEF Refused, NewHash, sourceVars, EarlyError
<1>6. CASE HashChunk(c)
  <2>1. /\ UNCHANGED <<pc, phase, sink, faults, error>>
        /\ pc[c] = "hash"
    BY <1>6 DEF HashChunk
  <2>2. /\ Stamp = package.stamp
        /\ \A k \in 1..hash[c].offset : hash[c].blocks[k] = file[k]
    BY <1>3, <2>1 DEF Refused
  <2>3. /\ hash'[c].offset <= Len(file)
        /\ \A k \in 1..hash'[c].offset : hash'[c].blocks[k] = file[k]
    <3>1. hash[c].offset \in Nat /\ hash'[c].offset \in Nat
      BY <1>6, HashChunkGrows DEF Grown, IInv, TypeOK
    <3>2. QED
      BY <1>6, <2>2, <3>1, HashChunkGrows DEF Grown
  <2>4. QED
    BY <1>1, <1>2, <1>4, <2>1, <2>2, <2>3 DEF Refused, sourceVars
<1>7. CASE HashTruncated(c)
  BY <1>1, <1>2, <1>4, <1>7
     DEF HashTruncated, Throw, IInv, TypeOK, Refused, EarlyError
<1>8. CASE HashDone(c)
  BY <1>1, <1>2, <1>3, <1>4, <1>8
     DEF HashDone, Goto, IInv, TypeOK, Refused, sourceVars
<1>9. CASE VerifySealed(c)
  <2>1. ~SealHolds(c)
    BY <1>3, <1>9, StaleSealFails DEF VerifySealed
  <2>2. /\ pc'[c] = "failed" /\ error'[c] = {"source_changed_error"}
        /\ UNCHANGED <<phase, sink>>
    BY <1>9, <2>1 DEF VerifySealed, Throw, IInv, TypeOK
  <2>3. QED
    BY <1>4, <2>2 DEF Refused, EarlyError
<1>10. QED
  BY <1>4, <1>5, <1>6, <1>7, <1>8, <1>9, EarlySteps

\* A call on a stale source stays refused.
LEMMA RefusedKept ==
  ASSUME IInv, [Next]_vars, NEW d \in Callers, HashCounts(d), Refused(d)
  PROVE  Refused(d)'
<1>1. ASSUME NEW s \in Selections, Replay(d, s)
      PROVE  Refused(d)'
  <2>1. /\ UNCHANGED <<sourceVars, package, phase, sink>>
        /\ pc[d] = "idle"
        /\ \/ pc'[d] = "verify"
           \/ pc'[d] = "failed" /\ error'[d] = {"selection_error"}
    BY <1>1 DEF Replay, Goto, Throw, IInv, TypeOK
  <2>2. phase[d] = "pre" /\ sink[d] = NewSink
    BY <2>1 DEF IInv, CallInvariant, PhaseFits, Refused
  <2>3. QED
    BY <2>1, <2>2 DEF Refused, EarlyError
<1>2. CASE Step(d)
  BY <1>2, EarlyStepRefused
<1>3. CASE Fault(d)
  <2>1. /\ UNCHANGED <<sourceVars, package, quiet, phase, sink>>
        /\ pc'[d] = "failed"
        /\ faults' # 0
    BY <1>3 DEF Fault, Throw, IInv, TypeOK
  <2>2. Stale' = Stale
    BY <2>1 DEF Stale, Stamp, sourceVars
  <2>3. QED
    BY <2>1, <2>2 DEF Refused
<1>4. CASE EditSource
  BY <1>4 DEF EditSource, callVars, Refused
<1>5. ASSUME NEW c \in Callers \ {d},
             Step(c) \/ Fault(c) \/ \E s \in Selections : Replay(c, s)
      PROVE  Refused(d)'
  <2>1. UNCHANGED <<sourceVars, package>> /\ Untouched(d)
    <3>1. CASE Step(c) \/ Fault(c)
      BY <3>1, StepEffects DEF IInv
    <3>2. CASE \E s \in Selections : Replay(c, s)
      <4>1. /\ quiet \in [Callers -> BOOLEAN]
            /\ pc \in [Callers -> Location]
            /\ selection \in [Callers -> SUBSET Selections]
            /\ error \in [Callers -> SUBSET (ErrorKind \union {"sink_exception"})]
        BY DEF IInv, TypeOK
      <4>2. quiet'[d] = quiet[d]
        BY <3>2, <4>1 DEF Replay
      <4>3. QED
        BY <3>2, <4>1, <4>2 DEF Replay, Goto, Throw, Untouched
    <3>3. QED
      BY <1>5, <3>1, <3>2
  <2>2. Stale' = Stale /\ Stamp' = Stamp
    BY <2>1 DEF Stale, Stamp, sourceVars
  <2>3. faults' = 0 => faults = 0
    <3>1. faults \in Nat
      BY FaultsAssumption DEF IInv, TypeOK
    <3>2. faults' \in {faults, faults + 1}
      BY <1>5 DEF Fault, Replay, Step, VerifyStamp, HashChunk, HashTruncated,
                  HashDone, VerifySealed, FillBuffer, SourceTruncated, NextHeader,
                  EndOfArchive, Begin, WriteBlock, PayloadExceeds, EndEntry,
                  PayloadRejected, SinkThrows, SkipData, EndSkip,
                  PayloadTruncated, CloseReader
    <3>3. QED
      BY <3>1, <3>2
  <2>4. QED
    BY <2>1, <2>2, <2>3 DEF Refused, Untouched, sourceVars
<1>6. CASE Terminated \/ UNCHANGED vars
  BY <1>6 DEF Terminated, vars, callVars, sourceVars, Refused, Stale, Stamp
<1>7. QED
  BY <1>1, <1>2, <1>3, <1>4, <1>5, <1>6 DEF Next

\* A source that had changed when the call began, in its bytes or its stamp,
\* and was left alone since, never reaches the sink, and the call ends with
\* source_changed_error even if the stamp was restored.
THEOREM Refusal == Spec => []StaleSourceIsRefused
<1> DEFINE Kept == \A c \in Callers : HashCounts(c) /\ Refused(c)
<1>1. Init => Kept
  BY DEF Init, InitCalls, HashCounts, Refused, NewHash
<1>2. IInv /\ Kept /\ [Next]_vars => Kept'
  BY HashCountsKept, RefusedKept
<1>3. Kept => StaleSourceIsRefused
  BY DEF Refused, StaleSourceIsRefused, Stale, EarlyError
<1> HIDE DEF Kept
<1>4. QED
  BY <1>1, <1>2, <1>3, Invariance, PTL DEF Spec

-----------------------------------------------------------------------------
(***************************************************************************)
(* A call that returns has decoded what was sealed.                        *)
(***************************************************************************)

\* The file has held every block of the digest where the digest has it.
SealedSeen ==
  \A i \in 1..Len(package.digest) : Seen(i, {package.digest[i]})

\* Some position has lost the block that was sealed there, and a second
\* verification under way has not found it there either.
Lost(c) ==
  \E i \in 1..Len(package.digest) :
    /\ Gone(i, {package.digest[i]})
    /\ pc[c] \in {"hash", "reverify"} /\ i <= hash[c].offset =>
         hash[c].blocks[i] # package.digest[i]

\* A call that has decoded a block that is not the sealed one will not return.
Doubted(c) == ~genuine[c] /\ ~reverted => pc[c] # "returned" /\ Lost(c)

\* The sealed digest has the sealed size, within the bound of the file.
LEMMA DigestWithin ==
  ASSUME TypeOK
  PROVE  /\ package.digest \in Seq(Block)
         /\ package.stamp.size \in Nat
         /\ Len(package.digest) = package.stamp.size
         /\ \A i \in 1..Len(package.digest) : i \in 1..MaxLength
<1>1. /\ package \in Packages
      /\ package.stamp \in [size : Nat, mtime : MTimes]
      /\ package.digest \in Seq(Block)
  BY PackagesAssumption DEF TypeOK
<1>2. Len(package.digest) = package.stamp.size /\ Len(package.digest) <= MaxLength
  BY <1>1, SealedAssumption
<1>3. QED
  BY <1>1, <1>2, BoundsAssumption

\* A step of a call leaves the file alone, and any step leaves the package.
LEMMA SourceSteps ==
  ASSUME TypeOK, [Next]_vars
  PROVE  /\ Edit \/ UNCHANGED sourceVars
         /\ package' = package
<1>1. ASSUME NEW c \in Callers, Step(c) \/ Fault(c)
      PROVE  UNCHANGED <<sourceVars, package>>
  BY <1>1, StepEffects
<1>2. QED
  BY <1>1 DEF Next, EditSource, Replay, Terminated, vars

\* The sealed blocks stay seen.
LEMMA SealedSeenKept ==
  ASSUME TypeOK, [Next]_vars, SealedSeen
  PROVE  SealedSeen'
<1>1. (Edit \/ UNCHANGED sourceVars) /\ package' = package
  BY SourceSteps
<1>2. ASSUME NEW i \in 1..Len(package.digest)
      PROVE  Seen(i, {package.digest[i]})'
  <2>1. i \in 1..MaxLength /\ Seen(i, {package.digest[i]}) /\ SourceTypeOK
    BY DigestWithin DEF SealedSeen, TypeOK
  <2>2. PICK cell : cell = {package.digest[i]}
    OBVIOUS
  <2>3. Seen(i, cell)'
    BY <1>1, <2>1, <2>2, EditHistory
  <2>4. QED
    BY <1>1, <2>2, <2>3 DEF Seen
<1>3. QED
  BY <1>1, <1>2 DEF SealedSeen

\* An edit may bring the block back, which the ghost then records; what the
\* verification has read stays read.
LEMMA LostStays ==
  ASSUME TypeOK, [Next]_vars, NEW c \in Callers, Lost(c),
         pc'[c] \in {"hash", "reverify"} =>
           pc[c] \in {"hash", "reverify"} /\ hash'[c] = hash[c]
  PROVE  reverted' \/ Lost(c)'
<1>1. (Edit \/ UNCHANGED sourceVars) /\ package' = package
  BY SourceSteps
<1>2. PICK i \in 1..Len(package.digest) :
        /\ Gone(i, {package.digest[i]})
        /\ pc[c] \in {"hash", "reverify"} /\ i <= hash[c].offset =>
             hash[c].blocks[i] # package.digest[i]
  BY DEF Lost
<1>3. PICK cell : cell = {package.digest[i]}
  OBVIOUS
<1>4. i \in 1..MaxLength /\ SourceTypeOK
  BY DigestWithin DEF TypeOK
<1>5. Gone(i, cell)' \/ reverted'
  BY <1>1, <1>2, <1>3, <1>4, EditHistory
<1>6. QED
  BY <1>1, <1>2, <1>3, <1>5 DEF Lost, Gone

\* A pread that returns something else than the sealed blocks has met a
\* position that lost its block.
LEMMA StrangeBlock ==
  ASSUME TypeOK, SealedSeen, NEW c \in Callers, FillBuffer(c),
         genuine[c], ~genuine'[c]
  PROVE  Lost(c)'
<1> DEFINE offset == reader[c].offset
<1>1. /\ offset \in Nat /\ package.stamp.size \in Nat
      /\ offset < package.stamp.size
      /\ file \in Seq(Block)
      /\ package.digest \in Seq(Block)
      /\ Len(package.digest) = package.stamp.size
      /\ pc[c] \notin {"hash", "reverify"}
  <2>1. reader[c] \in Reader
    BY DEF TypeOK
  <2>2. reader[c].offset \in Nat
    BY <2>1 DEF Reader
  <2>3. ~(reader[c].offset >= package.stamp.size)
    BY DEF FillBuffer, Drained
  <2>4. pc[c] \notin {"hash", "reverify"} /\ file \in Seq(Block)
    BY DEF TypeOK, SourceTypeOK, FillBuffer, Starving
  <2>5. QED
    BY <2>2, <2>3, <2>4, DigestWithin
<1>2. PICK blocks \in ReadSource(reader[c], package.stamp.size) \ {<<>>} :
        genuine' = [genuine EXCEPT ![c] =
          @ /\ blocks = SubSeq(package.digest, reader[c].offset + 1,
                               reader[c].offset + Len(blocks))]
  BY DEF FillBuffer
<1> HIDE DEF offset
<1>3. PICK request \in Nat :
        request <= package.stamp.size - offset /\ blocks \in Pread(offset, request)
  <2>1. PICK asked : asked = Least(package.stamp.size - offset, Chunk)
    OBVIOUS
  <2>2. asked \in Nat /\ asked <= package.stamp.size - offset
    BY <1>1, <2>1, ChunkAssumption DEF Least
  <2>3. blocks \in Pread(offset, asked)
    BY <1>2, <2>1 DEF ReadSource, offset
  <2>4. QED
    BY <2>2, <2>3
<1>4. /\ blocks \in Seq(Block)
      /\ offset + Len(blocks) <= Len(package.digest)
  BY <1>1, <1>3, PreadType
<1>5. \A k \in 1..Len(blocks) :
        offset + k <= Len(file) /\ blocks[k] = file[offset + k]
  BY <1>1, <1>3, PreadBlocks
<1>6. blocks # SubSeq(package.digest, offset + 1, offset + Len(blocks))
  BY <1>2 DEF TypeOK, offset
<1>7. PICK k \in 1..Len(blocks) : blocks[k] # package.digest[offset + k]
  <2>1. SUFFICES ASSUME \A k \in 1..Len(blocks) : blocks[k] = package.digest[offset + k]
                 PROVE  FALSE
    OBVIOUS
  <2>2. PICK other : other = SubSeq(package.digest, offset + 1, offset + Len(blocks))
    OBVIOUS
  <2>3. /\ other \in Seq(Block) /\ Len(other) = Len(blocks)
        /\ \A k \in 1..Len(blocks) : other[k] = package.digest[offset + k]
    BY <1>1, <1>4, <2>2
  <2>4. blocks = other
    BY <1>4, <2>1, <2>3
  <2>5. QED
    BY <1>6, <2>2, <2>4
<1>8. /\ offset + k \in 1..Len(package.digest)
      /\ offset + k <= Len(file)
      /\ file[offset + k] # package.digest[offset + k]
  BY <1>1, <1>4, <1>5, <1>7
<1>9. Gone(offset + k, {package.digest[offset + k]})
  BY <1>8 DEF SealedSeen, Seen, Gone, Cell
<1>10. UNCHANGED <<sourceVars, package, pc>>
  BY DEF FillBuffer
<1>11. QED
  BY <1>1, <1>8, <1>9, <1>10 DEF Lost, Gone, Cell, sourceVars

\* A call that has met a strange block will not return.
LEMMA DoubtedKept ==
  ASSUME IInv, SealedSeen, [Next]_vars,
         NEW d \in Callers, HashCounts(d), Doubted(d)
  PROVE  Doubted(d)'
<1>1. TypeOK /\ SourceTypeOK
  BY DEF IInv, TypeOK
<1>2. reverted => reverted'
  BY <1>1, SourceSteps, RevertedStays
<1>3. ASSUME pc'[d] = pc[d] \/ pc[d] = "idle", genuine'[d] = genuine[d],
             hash'[d] = hash[d], pc'[d] \notin {"hash", "reverify", "returned"} \/ pc'[d] = pc[d]
      PROVE  Doubted(d)'
  BY <1>1, <1>2, <1>3, LostStays DEF Doubted
<1>4. ASSUME NEW c \in Callers, Step(c) \/ Fault(c)
      PROVE  Doubted(d)'
  <2>1. /\ UNCHANGED <<sourceVars, package>>
        /\ \A e \in Callers \ {c} : Untouched(e)
        /\ pc[c] \in Active
        /\ VerifyStamp(c) \/ HashChunk(c) \/ hash'[c] = hash[c]
        /\ FillBuffer(c) \/ genuine'[c] = genuine[c]
        /\ pc'[c] \in {"hash", "reverify"} =>
             VerifyStamp(c) \/ pc[c] \in {"hash", "reverify"}
        /\ pc'[c] = "returned" => pc[c] = "reverify" /\ SealHolds(c)
    BY <1>1, <1>4, StepEffects
  <2>2. CASE c # d
    BY <1>3, <2>1, <2>2 DEF Untouched
  <2>3. CASE c = d /\ FillBuffer(d)
    <3>1. pc' = pc /\ hash' = hash /\ pc[d] \in {"header", "data", "skip"}
      BY <2>3 DEF FillBuffer, Starving
    <3>2. CASE genuine[d]
      BY <1>1, <2>3, <3>1, <3>2, StrangeBlock DEF Doubted
    <3>3. CASE ~genuine[d]
      BY <1>1, <1>2, <3>1, <3>3, LostStays DEF Doubted
    <3>4. QED
      BY <3>2, <3>3
  <2>4. CASE c = d /\ ~FillBuffer(d)
    <3>1. SUFFICES ASSUME ~genuine[d], ~reverted
                   PROVE  pc'[d] # "returned" /\ Lost(d)'
      BY <1>2, <2>1, <2>4 DEF Doubted
    <3>2. PICK i \in 1..Len(package.digest) :
            /\ Gone(i, {package.digest[i]})
            /\ pc[d] \in {"hash", "reverify"} /\ i <= hash[d].offset =>
                 hash[d].blocks[i] # package.digest[i]
      BY <3>1 DEF Doubted, Lost
    <3>3. Gone(i, {package.digest[i]})'
      BY <2>1, <3>2 DEF Gone, Cell, sourceVars
    <3>4. pc'[d] # "returned"
      BY <1>1, <2>1, <2>4, <3>2, DigestWithin DEF SealHolds, HashCounts
    <3>5. CASE VerifyStamp(d)
      <4>1. hash'[d].offset = 0
        BY <1>1, <3>5 DEF VerifyStamp, FreshHash, NewHash, TypeOK
      <4>2. ~(i <= hash'[d].offset)
        BY <4>1
      <4>3. QED
        BY <2>1, <3>3, <3>4, <4>2 DEF Lost
    <3>6. CASE HashChunk(d)
      <4>1. Grown(hash[d], hash'[d], package.stamp.size)
        BY <3>6, HashChunkGrows
      <4>2. pc' = pc /\ pc[d] = "hash"
        BY <3>6 DEF HashChunk
      <4>3. ASSUME i <= hash'[d].offset
            PROVE  hash'[d].blocks[i] # package.digest[i]
        <5>1. hash[d].offset \in Nat /\ hash'[d].offset \in Nat /\ Len(file) \in Nat
          <6>1. hash[d] \in [offset : Nat, blocks : Seq(Block)] /\ file \in Seq(Block)
            BY <1>1 DEF TypeOK, SourceTypeOK
          <6>2. hash'[d] \in [offset : Nat, blocks : Seq(Block)]
            BY <4>1 DEF Grown
          <6>3. QED
            BY <6>1, <6>2
        <5>2. CASE i <= hash[d].offset
          BY <3>2, <4>1, <4>2, <5>1, <5>2 DEF Grown
        <5>3. CASE ~(i <= hash[d].offset)
          <6>1. i <= Len(file) /\ hash'[d].blocks[i] = file[i]
            BY <4>1, <4>3, <5>1, <5>3 DEF Grown
          <6>2. QED
            BY <3>2, <6>1 DEF Gone, Cell
        <5>4. QED
          BY <5>2, <5>3
      <4>4. QED
        BY <2>1, <3>3, <3>4, <4>3 DEF Lost
    <3>7. CASE ~VerifyStamp(d) /\ ~HashChunk(d)
      BY <2>1, <2>4, <3>2, <3>3, <3>4, <3>7 DEF Lost
    <3>8. QED
      BY <3>5, <3>6, <3>7
  <2>5. QED
    BY <2>2, <2>3, <2>4
<1>5. ASSUME NEW c \in Callers, NEW s \in Selections, Replay(c, s)
      PROVE  Doubted(d)'
  <2>1. /\ pc'[d] = pc[d] \/ (pc[d] = "idle" /\ pc'[d] \in {"verify", "failed"})
        /\ genuine' = genuine /\ hash' = hash
    BY <1>1, <1>5 DEF Replay, Goto, Throw, TypeOK
  <2>2. QED
    BY <1>3, <2>1
<1>6. CASE EditSource \/ Terminated \/ UNCHANGED vars
  BY <1>3, <1>6 DEF EditSource, Terminated, vars, callVars
<1>7. QED
  BY <1>4, <1>5, <1>6 DEF Next

\* A call returns only if every block it decoded, of selected and of skipped
\* entries, was the sealed one, unless some block was changed and changed back.
THEOREM Genuineness == Spec => []AcceptedIsGenuine
<1> DEFINE Kept == /\ SealedSeen
                   /\ \A c \in Callers : HashCounts(c) /\ Doubted(c)
<1>1. Init => Kept
  <2>1. SUFFICES ASSUME Init
                 PROVE  Kept
    OBVIOUS
  <2>2. SealedSeen
    BY <2>1 DEF Init, SourceInit, SealedSeen, Seen, Cell
  <2>3. QED
    BY <2>1, <2>2 DEF Init, InitCalls, HashCounts, NewHash, Doubted
<1>2. IInv /\ Kept /\ [Next]_vars => Kept'
  <2>1. SUFFICES ASSUME IInv, Kept, [Next]_vars
                 PROVE  Kept'
    OBVIOUS
  <2>2. SealedSeen'
    BY <2>1, SealedSeenKept DEF IInv
  <2>3. QED
    BY <2>1, <2>2, HashCountsKept, DoubtedKept
<1>3. Kept => AcceptedIsGenuine
  BY DEF Doubted, AcceptedIsGenuine
<1> HIDE DEF Kept
<1>4. QED
  BY <1>1, <1>2, <1>3, Invariance, PTL DEF Spec

-----------------------------------------------------------------------------
(***************************************************************************)
(* Every call of replay implements PayloadContract: the initial states map *)
(* to initial states of the contract, and every step of any call or editor *)
(* to a step of the contract of each call, or to a stutter.                *)
(***************************************************************************)

\* What the sink of a call was given so far is counted in total.
Counted(c) == pc[c] = "data" => total[c] = Len(contents[c])

\* The total of a payload is kept with every block.
LEMMA CountedKept ==
  ASSUME IInv, [Next]_vars, NEW d \in Callers, Counted(d)
  PROVE  Counted(d)'
<1>1. ASSUME NEW c \in Callers, Step(c) \/ Fault(c)
      PROVE  Counted(d)'
  <2>1. /\ \A e \in Callers \ {c} : Untouched(e)
        /\ \/ Begin(c) \/ WriteBlock(c)
           \/ total'[c] = total[c] /\ contents'[c] = contents[c]
        /\ pc'[c] = "data" => Begin(c) \/ pc[c] = "data"
    BY <1>1, StepEffects DEF IInv
  <2>2. CASE c # d
    BY <2>1, <2>2 DEF Untouched, Counted
  <2>3. CASE c = d /\ Begin(c)
    BY <2>3 DEF IInv, TypeOK, Begin, Counted
  <2>4. CASE c = d /\ WriteBlock(c)
    <3>1. /\ contents[c] \in Seq(Block) /\ pc[c] = "data"
          /\ total'[c] = total[c] + 1
          /\ contents'[c] = Append(contents[c], Head(reader[c].buffer))
      BY <2>4 DEF IInv, TypeOK, WriteBlock, BlockReady
    <3>2. Len(contents'[c]) = Len(contents[c]) + 1
      BY <3>1
    <3>3. QED
      BY <2>4, <3>1, <3>2 DEF Counted
  <2>5. CASE c = d /\ ~Begin(c) /\ ~WriteBlock(c)
    BY <2>1, <2>5 DEF Counted
  <2>6. QED
    BY <2>2, <2>3, <2>4, <2>5
<1>2. ASSUME NEW c \in Callers, NEW s \in Selections, Replay(c, s)
      PROVE  Counted(d)'
  BY <1>2 DEF IInv, TypeOK, Replay, Goto, Throw, Counted
<1>3. CASE EditSource \/ Terminated \/ UNCHANGED vars
  BY <1>3 DEF EditSource, Terminated, vars, callVars, Counted
<1>4. QED
  BY <1>1, <1>2, <1>3 DEF Next

-----------------------------------------------------------------------------
(***************************************************************************)
(* Each step of a call, as a step of its contract.                         *)
(***************************************************************************)

Named(c) == UNION {s.selected : s \in selection[c]}

\* While a call runs it has one selection, within the image.
LEMMA NamedIsSelected ==
  ASSUME IInv, NEW c \in Callers, pc[c] \in Active
  PROVE  /\ Named(c) = Chosen(c).selected
         /\ \A id \in Named(c) : id \in Nat /\ id < Len(package.image)
<1>1. /\ selection[c] = {Chosen(c)}
      /\ Chosen(c) \in Selections
      /\ Chosen(c).imageSize = Len(package.image)
  BY Decoded
<1>2. Named(c) = Chosen(c).selected
  BY <1>1 DEF Named
<1>3. QED
  BY <1>1, <1>2, SelectionsAssumption

\* The contract and replay mean the same sink.
LEMMA SameSink ==
  ASSUME NEW c \in Callers
  PROVE  /\ Contract(c)!NewSink = NewSink
         /\ \A s : Contract(c)!EndedIds(s) = EndedIds(s)
         /\ \A s, id : Contract(c)!SinkBegin(s, id) = SinkBegin(s, id)
         /\ \A s, block : Contract(c)!SinkWrite(s, block) = SinkWrite(s, block)
         /\ \A s, id : Contract(c)!SinkEnd(s, id) = SinkEnd(s, id)
BY DEF Contract!NewSink, NewSink, Contract!EndedIds, EndedIds,
       Contract!SinkBegin, SinkBegin, Contract!SinkWrite, SinkWrite,
       Contract!SinkEnd, SinkEnd

\* A step that leaves status, selection and sink of a call alone is not
\* seen.
LEMMA Stutters ==
  ASSUME NEW d \in Callers, package' = package, selection'[d] = selection[d],
         sink'[d] = sink[d],
         pc'[d] = pc[d] \/ (pc[d] \in Active /\ pc'[d] \in Active)
  PROVE  Contract(d)!Step
<1>1. Status(d)' = Status(d)
  BY DEF Status
<1>2. QED
  BY <1>1 DEF Contract!Step, Contract!contractVars

\* replay() starts the contract, or fails at once.
LEMMA ReplayStarts ==
  ASSUME IInv, NEW c \in Callers, NEW s \in Selections, Replay(c, s)
  PROVE  Contract(c)!Step
<1>1. /\ pc[c] = "idle" /\ selection'[c] = {s}
      /\ package' = package /\ sink' = sink
      /\ \/ pc'[c] = "verify" /\ ValidFor(s, package.image)
         \/ pc'[c] = "failed"
  BY DEF IInv, TypeOK, Replay, Goto, Throw
<1>2. Status(c) = "idle" /\ Status(c)' \in {"running", "failed"}
  BY <1>1 DEF Status, Active
<1>3. Status(c)' = "running" => ValidFor(s, package.image)
  BY <1>1 DEF Status, Active
<1>4. UNION {t.selected : t \in selection'[c]} = s.selected
  BY <1>1
<1>5. ValidFor(s, package.image) => s.selected \subseteq 0..(Len(package.image) - 1)
  <2>1. Len(package.image) \in Nat
    BY PackagesAssumption DEF IInv, TypeOK
  <2>2. QED
    BY <2>1, SelectionsAssumption DEF ValidFor
<1>6. Contract(c)!Start
  BY <1>1, <1>2, <1>3, <1>4, <1>5 DEF Contract!Start
<1>7. QED
  BY <1>6 DEF Contract!Step, Contract!Next

\* The sink begins an entry.
LEMMA BeginBegins ==
  ASSUME IInv, NEW c \in Callers, Begin(c)
  PROVE  Contract(c)!Step
<1> DEFINE id == index[c]
<1>1. /\ CallInvariant(c)
      /\ pc[c] = "begin" /\ pc[c] \in Active
      /\ pc'[c] = "data"
      /\ package' = package /\ selection' = selection
      /\ id \in Nat
      /\ sink[c] \in Recording
      /\ sink'[c] = SinkBegin(sink[c], ExpectedEntry(c).id)
  BY DEF IInv, TypeOK, Recording, Begin, Goto, Active
<1>2. /\ id < Len(package.image)
      /\ id \in Chosen(c).selected
      /\ sink[c].open = {}
      /\ \A i \in 1..Len(sink[c].ended) : sink[c].ended[i].id < id
      /\ \A other \in 0..(id - 1) :
           other \in Chosen(c).selected
             <=> \E i \in 1..Len(sink[c].ended) : sink[c].ended[i].id = other
  BY <1>1 DEF CallInvariant, WithinImage, SelectionFits, SinkFits, EndedSoFar
<1>3. ExpectedEntry(c).id = id
  BY <1>1, <1>2, Decoded
<1>4. /\ Named(c) = Chosen(c).selected
      /\ \A other \in Named(c) : other \in Nat
  BY <1>1, NamedIsSelected
<1>5. /\ DOMAIN sink[c].ended = 1..Len(sink[c].ended)
      /\ \A i \in 1..Len(sink[c].ended) : sink[c].ended[i].id \in Nat
  BY <1>1, EndedEntries
<1>6. id \in Named(c) \ EndedIds(sink[c])
  <2>1. \A i \in 1..Len(sink[c].ended) : sink[c].ended[i].id # id
    BY <1>1, <1>2, <1>5
  <2>2. QED
    BY <1>2, <1>4, <1>5, <2>1 DEF EndedIds
<1>7. ASSUME NEW other \in Named(c), other < id
      PROVE  other \in EndedIds(sink[c])
  <2>1. other \in 0..(id - 1)
    BY <1>1, <1>4, <1>7
  <2>2. PICK i \in 1..Len(sink[c].ended) : sink[c].ended[i].id = other
    BY <1>2, <1>4, <2>1
  <2>3. QED
    BY <1>5, <2>2 DEF EndedIds
<1>8. Status(c) = "running" /\ Status(c)' = "running"
  BY <1>1 DEF Status, Active
<1> HIDE DEF id
<1>9. Contract(c)!Begin(id)
  BY <1>1, <1>2, <1>3, <1>6, <1>7, <1>8, SameSink
     DEF Contract!Begin, Named
<1>10. QED
  BY <1>6, <1>9 DEF Contract!Step, Contract!Next, Named

\* The sink is given a block.
LEMMA WriteWrites ==
  ASSUME IInv, NEW c \in Callers, Counted(c), WriteBlock(c)
  PROVE  Contract(c)!Step
<1> DEFINE id == index[c]
           block == Head(reader[c].buffer)
<1>1. /\ CallInvariant(c)
      /\ pc[c] = "data" /\ pc[c] \in Active
      /\ pc' = pc
      /\ package' = package /\ selection' = selection
      /\ package \in Packages
      /\ id \in Nat
      /\ contents[c] \in Seq(Block)
      /\ sink'[c] = SinkWrite(sink[c], block)
      /\ Fits(c)
  BY DEF IInv, TypeOK, WriteBlock, BlockReady, Active
<1>2. block \in Block
  <2>1. reader[c] \in Reader /\ reader[c].buffer # <<>>
    BY DEF IInv, TypeOK, WriteBlock, BlockReady, Buffered
  <2>2. reader[c].buffer \in Seq(Block)
    BY <2>1 DEF Reader
  <2>3. QED
    BY <2>1, <2>2
<1> HIDE DEF block
<1>3. /\ id < Len(package.image)
      /\ id \in Chosen(c).selected
      /\ sink[c].open = {id}
      /\ sink[c].written = contents[c]
  BY <1>1 DEF CallInvariant, WithinImage, SelectionFits, SinkFits
<1>4. Named(c) = Chosen(c).selected
  BY <1>1, NamedIsSelected
<1>5. Len(sink[c].written) < package.image[id + 1].size
  <2>1. package.image[id + 1].size \in Nat
    <3>1. id + 1 \in 1..Len(package.image)
      BY <1>1, <1>3, PackagesAssumption
    <3>2. QED
      BY <1>1, <3>1, SealedAssumption
  <2>2. total[c] = Len(contents[c]) /\ Len(contents[c]) \in Nat
    BY <1>1 DEF Counted
  <2>3. 1 <= package.image[id + 1].size - total[c]
    BY <1>1 DEF Fits, ExpectedEntry
  <2> HIDE DEF id
  <2>4. QED
    BY <1>3, <2>1, <2>2, <2>3
<1>6. Status(c) = "running" /\ Status(c)' = "running"
  BY <1>1 DEF Status
<1> HIDE DEF id
<1>7. Contract(c)!Write(id)
  BY <1>1, <1>2, <1>3, <1>5, <1>6, SameSink
     DEF Contract!Write
<1>8. QED
  BY <1>3, <1>4, <1>7 DEF Contract!Step, Contract!Next, Named

\* The sink ends an entry.
LEMMA EndEnds ==
  ASSUME IInv, NEW c \in Callers, EndEntry(c)
  PROVE  Contract(c)!Step
<1> DEFINE id == index[c]
<1>1. /\ CallInvariant(c)
      /\ pc[c] = "data" /\ pc[c] \in Active
      /\ pc'[c] = "header"
      /\ package' = package /\ selection' = selection
      /\ package \in Packages
      /\ id \in Nat
      /\ sink'[c] = SinkEnd(sink[c], ExpectedEntry(c).id)
      /\ PayloadError(c) = {}
  BY DEF IInv, TypeOK, EndEntry, PayloadRead, Goto, Active
<1>2. /\ id < Len(package.image)
      /\ id \in Chosen(c).selected
      /\ sink[c].open = {id}
      /\ sink[c].written = contents[c]
  BY <1>1 DEF CallInvariant, WithinImage, SelectionFits, SinkFits
<1>3. ExpectedEntry(c).id = id
  BY <1>1, <1>2, Decoded
<1>4. Named(c) = Chosen(c).selected
  BY <1>1, NamedIsSelected
<1>5. package.image[id + 1].content = {sink[c].written}
  <2>1. id + 1 \in 1..Len(package.image)
    BY <1>1, <1>2, PackagesAssumption
  <2>2. \A d, e \in package.image[id + 1].content : d = e
    BY <1>1, <2>1, SealedAssumption
  <2>3. contents[c] \in package.image[id + 1].content
    BY <1>1 DEF PayloadError, ExpectedEntry
  <2>4. QED
    BY <1>2, <2>2, <2>3
<1>6. Status(c) = "running" /\ Status(c)' = "running"
  BY <1>1 DEF Status, Active
<1> HIDE DEF id
<1>7. Contract(c)!End(id)
  BY <1>1, <1>2, <1>3, <1>5, <1>6, SameSink
     DEF Contract!End
<1>8. QED
  BY <1>2, <1>4, <1>7 DEF Contract!Step, Contract!Next, Named

\* The other steps of a call are silent, or end it.
LEMMA OthersEnd ==
  ASSUME IInv, NEW c \in Callers, pc[c] \in Active,
         pc'[c] \in Active \union Finished,
         UNCHANGED <<package, selection>>, sink'[c] = sink[c],
         pc'[c] = "returned" => phase[c] = "post"
  PROVE  Contract(c)!Step
<1>1. CASE pc'[c] \in Active
  BY <1>1, Stutters
<1>2. CASE pc'[c] = "failed"
  <2>1. Status(c) = "running" /\ Status(c)' = "failed"
    BY <1>2 DEF Status, Active
  <2>2. Contract(c)!Throw
    BY <2>1 DEF Contract!Throw
  <2>3. QED
    BY <2>2 DEF Contract!Step, Contract!Next
<1>3. CASE pc'[c] = "returned"
  <2>1. Status(c) = "running" /\ Status(c)' = "returned"
    BY <1>3 DEF Status, Active
  <2>2. EndedIds(sink[c]) = Named(c) /\ sink[c].open = {}
    BY <1>3, PostIsComplete, NamedIsSelected
  <2>3. Contract(c)!Return
    BY <2>1, <2>2, SameSink
     DEF Contract!Return, Named
  <2>4. QED
    BY <2>3 DEF Contract!Step, Contract!Next
<1>4. QED
  BY <1>1, <1>2, <1>3 DEF Finished

\* Every step is a step of the contract of each call, or a stutter.
LEMMA NextIsContractStep ==
  ASSUME IInv, [Next]_vars, NEW d \in Callers, Counted(d)
  PROVE  Contract(d)!Step
<1>1. ASSUME NEW c \in Callers, NEW s \in Selections, Replay(c, s)
      PROVE  Contract(d)!Step
  <2>1. CASE c = d
    BY <1>1, <2>1, ReplayStarts
  <2>2. CASE c # d
    BY <1>1, <2>2, Stutters DEF IInv, TypeOK, Replay, Goto, Throw
  <2>3. QED
    BY <2>1, <2>2
<1>2. ASSUME NEW c \in Callers, Step(c) \/ Fault(c)
      PROVE  Contract(d)!Step
  <2>1. /\ UNCHANGED <<package, selection>>
        /\ \A e \in Callers \ {c} : Untouched(e)
        /\ pc[c] \in Active /\ pc'[c] \in Active \union Finished
        /\ Begin(c) \/ WriteBlock(c) \/ EndEntry(c) \/ sink'[c] = sink[c]
        /\ pc'[c] = "returned" => phase[c] = "post"
    BY <1>2, StepEffects DEF IInv
  <2>2. CASE c # d
    BY <2>1, <2>2, Stutters DEF Untouched
  <2>3. CASE c = d /\ (Begin(c) \/ WriteBlock(c) \/ EndEntry(c))
    BY <2>3, BeginBegins, WriteWrites, EndEnds
  <2>4. CASE c = d /\ sink'[c] = sink[c]
    BY <2>1, <2>4, OthersEnd
  <2>5. QED
    BY <2>1, <2>2, <2>3, <2>4
<1>3. CASE EditSource \/ Terminated \/ UNCHANGED vars
  BY <1>3, Stutters DEF EditSource, Terminated, vars, callVars
<1>4. QED
  BY <1>1, <1>2, <1>3 DEF Next

\* Refinement: each call of replay keeps the promise made to its sink.
THEOREM Implementation == Spec => KeepsContract
<1> DEFINE AllCounted == \A c \in Callers : Counted(c)
           AllStart == \A c \in Callers : Contract(c)!Init
           AllStep == \A c \in Callers : Contract(c)!Step
<1>1. Init => AllStart
  BY SameSink DEF Init, InitCalls, Contract!Init, Status, Active
<1>2. Init => AllCounted
  BY DEF Init, InitCalls, Counted
<1>3. IInv /\ AllCounted /\ [Next]_vars => AllCounted'
  BY CountedKept
<1>4. IInv /\ AllCounted /\ [Next]_vars => AllStep
  BY NextIsContractStep
<1>5. KeepsContract <=> AllStart /\ [][AllStep]_vars
  BY DEF KeepsContract
<1> HIDE DEF AllCounted, AllStart, AllStep
<1>6. QED
  BY <1>1, <1>2, <1>3, <1>4, <1>5, Invariance, PTL DEF Spec

=============================================================================
