------------------------ MODULE LibarchiveOpenProofs ------------------------
(***************************************************************************)
(* Proofs about LibarchiveOpen, in three parts.                            *)
(*                                                                         *)
(* 1. What holds whatever is done to the file: the type invariant, and     *)
(*    that a package returned is consistent in itself.                     *)
(* 2. What needs the history of the file: unless a block was changed and   *)
(*    changed back, the receipt names the bytes that the file held when    *)
(*    the first hash was accepted, and the image is what those bytes mean. *)
(*    So open implements InspectionContract.  Either the call has met      *)
(*    nothing but the bytes it hashed first, or some position has lost its *)
(*    block for good and the second hash will tell.                        *)
(* 3. What holds when nobody disturbs the call: it returns exactly the     *)
(*    image the file holds, and otherwise throws the exception that the    *)
(*    file deserves, however the payload callback splits its reads.  Every *)
(*    prefix that libarchive has delivered is whole, so the first entry    *)
(*    that is not decides the same exception as the reference.             *)
(***************************************************************************)
EXTENDS LibarchiveOpen, ArchiveMeaningProofs

-----------------------------------------------------------------------------
(***************************************************************************)
(* Operators.                                                              *)
(***************************************************************************)

\* The image constructed has the entries in their order, numbered, and is
\* valid; there is one, or one exception.
LEMMA Constructed ==
  ASSUME NEW list
  PROVE  /\ Construct(list).error \subseteq ErrorKind
         /\ Succeeds(Construct(list)) =>
              LET numbered == [n \in 1..Len(list) |-> [list[n] EXCEPT !.id = n - 1]]
              IN  Construct(list).value = {numbered} /\ ValidImage(numbered)
BY DEF Construct, Succeeds, Ok, Fail, ErrorKind

\* The receipt constructor refuses an empty image and keeps what it is given.
LEMMA ReceiptKeeps ==
  ASSUME NEW backend, NEW d, NEW identity, NEW count,
         NEW r, r = Receipt(backend, d, identity, count)
  PROVE  /\ r.error \subseteq ErrorKind
         /\ r.error = {} =>
              \E sealed : /\ r.value = {sealed}
                          /\ sealed.archiveDigest = d
                          /\ sealed.imageIdentity = identity
                          /\ sealed.entryCount = count
<1>1. CASE count = 0
  BY <1>1 DEF Receipt, Fail, ErrorKind
<1>2. CASE count # 0
  <2> DEFINE sealed == [backend |-> backend, archiveDigest |-> d,
                        imageIdentity |-> identity, entryCount |-> count]
  <2>1. r.error = {} /\ r.value = {sealed}
    BY <1>2 DEF Receipt, Ok
  <2>2. /\ sealed.archiveDigest = d
        /\ sealed.imageIdentity = identity
        /\ sealed.entryCount = count
    OBVIOUS
  <2>3. QED
    BY <2>1, <2>2
<1>3. QED
  BY <1>1, <1>2

\* A sequence is one over its own elements, and appending keeps it so.
LEMMA AppendOwn ==
  ASSUME NEW s, s \in Seq({s[n] : n \in 1..Len(s)}), NEW e
  PROVE  /\ Append(s, e) \in Seq({Append(s, e)[n] : n \in 1..Len(Append(s, e))})
         /\ Len(Append(s, e)) = Len(s) + 1
         /\ Len(s) \in Nat
         /\ \A n \in 1..Len(s) : Append(s, e)[n] = s[n]
         /\ Append(s, e)[Len(s) + 1] = e
<1> DEFINE Own == {s[n] : n \in 1..Len(s)}
           t == Append(s, e)
<1>1. s \in Seq(Own \union {e})
  <2>1. /\ DOMAIN s = 1..Len(s) /\ Len(s) \in Nat
        /\ s \in [1..Len(s) -> Own]
    OBVIOUS
  <2>2. s \in [1..Len(s) -> Own \union {e}]
    BY <2>1
  <2>3. QED
    BY <2>1, <2>2
<1>2. /\ t \in Seq(Own \union {e})
      /\ Len(t) = Len(s) + 1
      /\ Len(s) \in Nat
      /\ \A n \in 1..Len(s) : t[n] = s[n]
      /\ t[Len(s) + 1] = e
  <2> HIDE DEF Own
  <2>1. QED
    BY <1>1
<1> HIDE DEF t, Own
<1>3. t \in Seq({t[n] : n \in 1..Len(t)})
  BY <1>2
<1>4. QED
  BY <1>2, <1>3 DEF t

-----------------------------------------------------------------------------
(***************************************************************************)
(* The type invariant.                                                     *)
(***************************************************************************)

\* The initial states are well typed.
LEMMA InitType == Init => TypeOK
<1>1. SUFFICES ASSUME Init
               PROVE  TypeOK
  OBVIOUS
<1>2. SourceTypeOK
  <2>1. PICK blocks \in Archives, time \in MTimes : SourceInit(blocks, time)
    BY <1>1 DEF Init
  <2>2. QED
    <3>1. file \in Seq(Block) /\ mtime \in MTimes
      BY <2>1, ArchivesAssumption DEF SourceInit
    <3>2. edits \in 0..MaxEdits
      BY <2>1, BoundsAssumption DEF SourceInit
    <3>3. past \in [1..MaxLength -> SUBSET SUBSET Block]
      BY <2>1 DEF SourceInit
    <3>4. reverted \in BOOLEAN
      BY <2>1 DEF SourceInit
    <3>5. QED
      BY <3>1, <3>2, <3>3, <3>4 DEF SourceTypeOK
<1>3. QED
  BY <1>1, <1>2, RequestsAssumption, FaultsAssumption
     DEF Init, InitOpen, TypeOK, SourceTypeOK, NewHash, NewReader, Reader, ErrorKind

\* What a step leaves alone, and what errors it may end with.
LEMMA StepType ==
  ASSUME TypeOK, Step
  PROVE  TypeOK'
<1>1. /\ file \in Seq(Block) /\ mtime \in MTimes
      /\ before.size \in Nat
      /\ hash \in [offset : Nat, blocks : Seq(Block)]
      /\ reader \in Reader
  BY DEF TypeOK, SourceTypeOK
<1>2. UNCHANGED sourceVars /\ SourceTypeOK'
  BY DEF TypeOK, SourceTypeOK, sourceVars, Step, ReadStamp, HashChunk, HashTruncated,
         HashDone, FirstDigest, FillBuffer, InputEnds, NextHeader, EndOfArchive,
         ReadBlock, SealEntry, WrongSize, SkipData, EndSkip, ConstructImage,
         VerifyStamp, SealPackage
<1>3. CASE ReadStamp
  BY <1>1, <1>2, <1>3 DEF ReadStamp, Stamp, TypeOK, Active
<1>4. CASE HashChunk
  <2>1. PICK blocks \in HashPread \ {<<>>} :
          hash' = [offset |-> hash.offset + Len(blocks), blocks |-> hash.blocks \o blocks]
    BY <1>4 DEF HashChunk
  <2>2. Least(before.size - hash.offset, Chunk) \in Nat
    BY <1>1, <1>4, ChunkAssumption DEF HashChunk, Least
  <2>3. blocks \in Seq(Block)
    BY <1>1, <2>2, PreadType DEF HashPread
  <2>4. hash' \in [offset : Nat, blocks : Seq(Block)]
    BY <1>1, <2>1, <2>3
  <2>5. QED
    BY <1>2, <1>4, <2>4 DEF HashChunk, TypeOK
<1>5. CASE HashTruncated \/ HashDone \/ InputEnds \/ EndOfArchive \/ WrongSize
  BY <1>2, <1>5 DEF HashTruncated, HashDone, InputEnds, EndOfArchive, WrongSize,
                    Throw, TypeOK, Active, Finished, ErrorKind
<1>6. CASE FirstDigest
  BY <1>1, <1>2, <1>6 DEF FirstDigest, FirstError, Throw, TypeOK, Active, Finished, ErrorKind
<1>7. CASE FillBuffer
  <2>1. PICK blocks \in ReadSource(reader, before.size) \ {<<>>} :
          reader' = Refill(reader, blocks)
    BY <1>7 DEF FillBuffer
  <2>2. reader.offset \in Nat /\ reader.offset < before.size
    BY <1>1, <1>7 DEF FillBuffer, Drained, Reader
  <2>3. Least(before.size - reader.offset, Chunk) \in Nat
    BY <1>1, <2>2, ChunkAssumption DEF Least
  <2>4. blocks \in Seq(Block)
    BY <1>1, <2>2, <2>3, PreadType DEF ReadSource
  <2>5. reader' \in Reader
    BY <1>1, <2>1, <2>4, ReaderSteps
  <2>6. QED
    BY <1>2, <1>7, <2>5 DEF FillBuffer, TypeOK
<1>8. CASE NextHeader
  <2>1. Buffered(reader)
    BY <1>8 DEF NextHeader, HeaderStatus
  <2>2. reader' \in Reader
    BY <1>1, <1>8, <2>1, ReaderSteps DEF NextHeader
  <2>3. \/ \E kind \in ErrorKind : Throw(kind)
        \/ pc' \in {"data", "skip"} /\ error' = error
    BY <1>8, NormalizedHeader DEF NextHeader
  <2>4. QED
    BY <1>2, <1>8, <2>2, <2>3 DEF NextHeader, Throw, TypeOK, Active, Finished
<1>9. CASE ReadBlock
  <2>1. reader.buffer # <<>> /\ reader.left > 0 /\ reader.buffer \in Seq(Block)
    BY <1>1, <1>9 DEF ReadBlock, BlockReady, Buffered, Reader
  <2>2. reader' \in Reader
    BY <1>1, <1>9, <2>1, ReaderSteps DEF ReadBlock, Buffered
  <2>3. contents' \in Seq(Block)
    BY <1>9, <2>1 DEF ReadBlock, TypeOK
  <2>4. QED
    BY <1>2, <1>9, <2>2, <2>3 DEF ReadBlock, TypeOK
<1>10. CASE SealEntry \/ EndSkip
  BY <1>2, <1>10 DEF SealEntry, EndSkip, TypeOK, Active
<1>11. CASE SkipData
  BY <1>1, <1>2, <1>11, ReaderSteps DEF SkipData, TypeOK
<1>12. CASE ConstructImage
  <2>1. (\E kind \in ErrorKind : Throw(kind)) \/ (pc' = "verify" /\ error' = error)
    BY <1>12, Constructed DEF ConstructImage
  <2>2. QED
    BY <1>2, <1>12, <2>1 DEF ConstructImage, Throw, TypeOK, Active, Finished
<1>13. CASE VerifyStamp
  <2>1. hash' \in [offset : Nat, blocks : Seq(Block)]
    BY <1>13 DEF VerifyStamp, NewHash
  <2>2. \/ pc' = "hash" /\ error' = error
        \/ pc' = "failed" /\ error' = {"source_changed_error"}
    BY <1>13 DEF VerifyStamp, Throw
  <2>3. QED
    BY <1>2, <1>13, <2>1, <2>2 DEF VerifyStamp, TypeOK, Active, Finished, ErrorKind
<1>14. CASE SealPackage
  <2>1. SealError \subseteq ErrorKind
    BY ReceiptKeeps DEF SealError, SealedReceipt, ErrorKind
  <2>2. QED
    BY <1>2, <1>14, <2>1 DEF SealPackage, Throw, TypeOK, Active, Finished
<1>15. QED
  BY <1>3, <1>4, <1>5, <1>6, <1>7, <1>8, <1>9, <1>10, <1>11, <1>12, <1>13, <1>14 DEF Step

\* Every step, an edit or a fault as well, keeps the types.
LEMMA NextType ==
  ASSUME TypeOK, [Next]_vars
  PROVE  TypeOK'
<1>1. CASE EditSource
  BY <1>1, EditType DEF EditSource, openVars, TypeOK
<1>2. ASSUME NEW expected \in Requests, Open(expected)
      PROVE  TypeOK'
  BY <1>2 DEF Open, TypeOK, SourceTypeOK, sourceVars, Active
<1>3. CASE Step
  BY <1>3, StepType
<1>4. CASE Fault
  BY <1>4, FaultsAssumption
     DEF Fault, Throw, TypeOK, SourceTypeOK, sourceVars, Finished, ErrorKind
<1>5. CASE Terminated \/ UNCHANGED vars
  BY <1>5 DEF Terminated, vars, openVars, sourceVars, TypeOK, SourceTypeOK
<1>6. QED
  BY <1>1, <1>2, <1>3, <1>4, <1>5 DEF Next

\* Type correctness of open.
THEOREM TypeCorrect == Spec => []TypeOK
BY InitType, NextType, PTL DEF Spec

-----------------------------------------------------------------------------
(***************************************************************************)
(* The package returned is consistent in itself.                           *)
(***************************************************************************)

\* How one pread changes the hash.
LEMMA HashChunkGrows ==
  ASSUME TypeOK, HashFits, HashChunk
  PROVE  Grown(hash, hash', before.size)
<1>1. /\ file \in Seq(Block)
      /\ before.size \in Nat
      /\ hash \in [offset : Nat, blocks : Seq(Block)]
      /\ hash.offset < before.size
      /\ hash.offset = Len(hash.blocks)
  BY DEF TypeOK, SourceTypeOK, HashChunk, HashFits
<1>2. PICK blocks \in HashPread \ {<<>>} :
        hash' = [offset |-> hash.offset + Len(blocks), blocks |-> hash.blocks \o blocks]
  BY DEF HashChunk
<1>3. blocks \in Pread(hash.offset, Least(before.size - hash.offset, Chunk)) \ {<<>>}
  BY <1>2 DEF HashPread
<1>4. QED
  BY <1>1, <1>2, <1>3, HashGrows

\* A call that throws before it returns leaves no receipt behind.
LEMMA FailureKeeps ==
  ASSUME IInv, TypeOK', pc \notin Finished, pc' = "failed",
         UNCHANGED <<before, request, digest, entries>>,
         hash' = hash \/ hash' = NewHash, receipt' = {},
         phase' = phase \/ pc \in Decoding
  PROVE  IInv'
<1>1. HashFits'
  BY DEF IInv, HashFits, NewHash
<1>2. EntriesFit'
  BY DEF IInv, EntriesFit, ContentFits
<1>3. DigestFits' /\ PhaseFits' /\ ImageFits' /\ ReceiptFits'
  BY DEF IInv, DigestFits, PhaseFits, ImageFits, ReceiptFits, Decoding
<1>4. QED
  BY <1>1, <1>2, <1>3 DEF IInv

\* So does one that goes on and touches neither entries nor image.
LEMMA ProgressKeeps ==
  ASSUME IInv, TypeOK', pc \notin Finished, pc' \notin Finished,
         UNCHANGED <<phase, request, before, hash, digest, entries, image, receipt>>,
         \/ pc' = pc /\ current' = current
         \/ pc = "idle" /\ pc' = "open"
         \/ pc = "hash" /\ pc' = "reverify" /\ hash.offset >= before.size
         \/ pc = "header" /\ pc' = "close"
         \/ /\ pc = "header" /\ pc' \in {"data", "skip"}
            /\ \E e \in current' : current' = {e} /\ DOMAIN e = AllFields /\ e.content = {}
  PROVE  IInv'
<1>1. before.size \in Nat /\ hash.offset \in Nat
  BY DEF IInv, TypeOK
<1>2. HashFits'
  BY <1>1 DEF IInv, HashFits
<1>3. PhaseFits'
  BY DEF IInv, PhaseFits, Decoding
<1>4. DigestFits'
  BY DEF IInv, DigestFits, Decoding
<1>5. EntriesFit'
  BY DEF IInv, EntriesFit, ContentFits
<1>6. ImageFits' /\ ReceiptFits'
  BY DEF IInv, ImageFits, ReceiptFits, ContentFits, Finished
<1>7. QED
  BY <1>2, <1>3, <1>4, <1>5, <1>6 DEF IInv

\* An entry is appended whose content has the declared size.
LEMMA AppendKeeps ==
  ASSUME IInv, TypeOK', NEW e, DOMAIN e = AllFields, ContentFits(e),
         pc \in {"data", "skip"}, pc' = "header", entries' = Append(entries, e),
         UNCHANGED <<phase, request, before, hash, digest, image, receipt>>
  PROVE  IInv'
<1>1. EntriesFit'
  <2>1. /\ entries \in Seq({entries[n] : n \in 1..Len(entries)})
        /\ \A n \in 1..Len(entries) : DOMAIN entries[n] = AllFields /\ ContentFits(entries[n])
    BY DEF IInv, EntriesFit
  <2>2. /\ entries' \in Seq({entries'[n] : n \in 1..Len(entries')})
        /\ Len(entries') = Len(entries) + 1
        /\ Len(entries) \in Nat
        /\ \A n \in 1..Len(entries) : entries'[n] = entries[n]
        /\ entries'[Len(entries) + 1] = e
    BY <2>1, AppendOwn
  <2>3. ASSUME NEW n \in 1..Len(entries')
        PROVE  DOMAIN entries'[n] = AllFields /\ ContentFits(entries'[n])
    <3>1. n \in 1..Len(entries) \/ n = Len(entries) + 1
      BY <2>2
    <3>2. QED
      BY <2>1, <2>2, <3>1
  <2>4. QED
    BY <2>2, <2>3 DEF EntriesFit, ContentFits
<1>2. HashFits' /\ PhaseFits' /\ DigestFits' /\ ImageFits' /\ ReceiptFits'
  BY DEF IInv, HashFits, PhaseFits, DigestFits, ImageFits, ReceiptFits, Decoding
<1>3. QED
  BY <1>1, <1>2 DEF IInv

\* While a payload is read or skipped, there is one entry, without content.
LEMMA CurrentIsEntry ==
  ASSUME IInv, pc \in {"data", "skip"}
  PROVE  current = {Current} /\ DOMAIN Current = AllFields /\ Current.content = {}
BY DEF IInv, EntriesFit, Current

\* The digest accepted has the size of the stamp and is the one asked for.
LEMMA FirstDigestKeeps ==
  ASSUME IInv, TypeOK', FirstDigest
  PROVE  IInv'
<1>1. CASE pc' = "failed"
  <2>1. EntriesFit'
    BY <1>1 DEF FirstDigest, IInv, EntriesFit, ContentFits
  <2>2. QED
    BY <1>1, <2>1 DEF FirstDigest, IInv, HashFits, PhaseFits, DigestFits, ImageFits,
                      ReceiptFits, Decoding
<1>2. CASE pc' # "failed"
  <2>1. /\ pc' = "header" /\ digest' = {hash.blocks}
        /\ pc = "reverify" /\ phase = "pre"
        /\ UNCHANGED <<phase, request, before, hash, entries, image, receipt>>
        /\ FirstError = {}
    BY <1>2 DEF FirstDigest, Throw
  <2>2. request \in {{}, {hash.blocks}}
    BY <2>1 DEF FirstError
  <2>3. Len(hash.blocks) = before.size
    BY <2>1 DEF IInv, HashFits
  <2>4. EntriesFit'
    BY <2>1 DEF IInv, EntriesFit, ContentFits
  <2>5. DigestFits'
    BY <2>1, <2>2, <2>3 DEF DigestFits
  <2>6. HashFits' /\ PhaseFits' /\ ImageFits' /\ ReceiptFits'
    BY <2>1 DEF IInv, HashFits, PhaseFits, ImageFits, ReceiptFits
  <2>7. QED
    BY <2>4, <2>5, <2>6 DEF IInv
<1>3. QED
  BY <1>1, <1>2

\* The image constructed is valid, and its contents have the declared
\* sizes.
LEMMA ConstructImageKeeps ==
  ASSUME IInv, TypeOK', ConstructImage
  PROVE  IInv'
<1>1. /\ pc = "close" /\ phase' = "post"
      /\ UNCHANGED <<request, before, hash, digest, entries, receipt>>
      /\ image' = Construct(entries).value
      /\ pc' = "failed" \/ (pc' = "verify" /\ Succeeds(Construct(entries)))
  BY DEF ConstructImage, Throw
<1>2. CASE pc' = "failed"
  BY <1>1, <1>2, FailureKeeps DEF IInv, ReceiptFits, Finished, Decoding
<1>3. CASE pc' = "verify"
  <2> DEFINE numbered == [n \in 1..Len(entries) |-> [entries[n] EXCEPT !.id = n - 1]]
  <2>1. image' = {numbered} /\ ValidImage(numbered)
    BY <1>1, <1>3, Constructed
  <2>2. ASSUME NEW n \in DOMAIN numbered
        PROVE  ContentFits(numbered[n])
    <3>1. /\ numbered[n] = [entries[n] EXCEPT !.id = n - 1]
          /\ DOMAIN entries[n] = AllFields
          /\ ContentFits(entries[n])
      BY DEF IInv, EntriesFit
    <3>2. numbered[n].content = entries[n].content /\ numbered[n].size = entries[n].size
      BY <3>1 DEF AllFields
    <3>3. QED
      BY <3>1, <3>2 DEF ContentFits
  <2> HIDE DEF numbered
  <2>3. ImageFits'
    BY <2>1, <2>2 DEF ImageFits, ContentFits
  <2>4. EntriesFit'
    BY <1>1, <1>3 DEF IInv, EntriesFit, ContentFits
  <2>5. HashFits' /\ PhaseFits' /\ DigestFits' /\ ReceiptFits'
    BY <1>1, <1>3 DEF IInv, HashFits, PhaseFits, DigestFits, ReceiptFits, Decoding
  <2>6. QED
    BY <2>3, <2>4, <2>5 DEF IInv
<1>4. QED
  BY <1>1, <1>2, <1>3

\* The receipt sealed names the digest, the identity and the length of the
\* image.
LEMMA SealPackageKeeps ==
  ASSUME IInv, TypeOK', SealPackage
  PROVE  IInv'
<1>1. /\ pc = "reverify" /\ phase = "post"
      /\ UNCHANGED <<phase, request, before, hash, digest, entries, image>>
      /\ \/ pc' = "failed" /\ receipt' = {}
         \/ /\ pc' = "returned" /\ SealError = {}
            /\ receipt' = SealedReceipt.value
  BY DEF SealPackage, Throw
<1>2. CASE pc' = "failed"
  BY <1>1, <1>2, FailureKeeps DEF Finished
<1>3. CASE pc' = "returned"
  <2>1. PICK i : image = {i}
    BY <1>1 DEF IInv, ImageFits
  <2>2. SealsAgree /\ SealedReceipt.error = {}
    BY <1>1, <1>3 DEF SealError
  <2>3. digest = {hash.blocks}
    BY <2>2 DEF SealsAgree
  <2>4. SealedReceipt = Receipt(ValueOf(ParseBackend(BackendIdentity)), hash.blocks,
                                Identify(i), Len(i))
    BY <2>1 DEF SealedReceipt
  <2>5. PICK sealed : /\ receipt' = {sealed}
                      /\ sealed.archiveDigest = hash.blocks
                      /\ sealed.imageIdentity = Identify(i)
                      /\ sealed.entryCount = Len(i)
    <3>1. \E sealed : /\ SealedReceipt.value = {sealed}
                      /\ sealed.archiveDigest = hash.blocks
                      /\ sealed.imageIdentity = Identify(i)
                      /\ sealed.entryCount = Len(i)
      BY <2>2, <2>4, ReceiptKeeps
    <3>2. QED
      BY <1>1, <1>3, <3>1
  <2>6. ReceiptFits'
    BY <1>1, <1>3, <2>1, <2>3, <2>5 DEF ReceiptFits
  <2>7. EntriesFit'
    BY <1>1, <1>3 DEF IInv, EntriesFit, ContentFits
  <2>8. HashFits' /\ PhaseFits' /\ DigestFits' /\ ImageFits'
    BY <1>1, <1>3 DEF IInv, HashFits, PhaseFits, DigestFits, ImageFits, ContentFits, Decoding
  <2>9. QED
    BY <2>6, <2>7, <2>8 DEF IInv
<1>4. QED
  BY <1>1, <1>2, <1>3

\* Every step of the call keeps the invariant.
LEMMA StepKeeps ==
  ASSUME IInv, TypeOK', Step
  PROVE  IInv'
<1>1. CASE ReadStamp
  <2>1. EntriesFit'
    BY <1>1 DEF ReadStamp, IInv, EntriesFit, ContentFits
  <2>2. before'.size \in Nat
    BY DEF TypeOK
  <2>3. HashFits'
    BY <1>1, <2>2 DEF ReadStamp, IInv, HashFits, NewHash
  <2>4. phase = "pre"
    BY <1>1 DEF ReadStamp, IInv, PhaseFits
  <2>5. PhaseFits' /\ DigestFits' /\ ImageFits' /\ ReceiptFits'
    BY <1>1, <2>4 DEF ReadStamp, IInv, PhaseFits, DigestFits, ImageFits, ReceiptFits, Decoding
  <2>6. QED
    BY <2>1, <2>3, <2>5 DEF IInv
<1>2. CASE HashChunk
  <2>1. Grown(hash, hash', before.size)
    BY <1>2, HashChunkGrows DEF IInv
  <2>2. HashFits'
    BY <1>2, <2>1 DEF HashChunk, HashFits, Grown
  <2>3. EntriesFit'
    BY <1>2 DEF HashChunk, IInv, EntriesFit, ContentFits
  <2>4. ImageFits'
    BY <1>2 DEF HashChunk, IInv, ImageFits, ContentFits
  <2>5. PhaseFits' /\ DigestFits' /\ ReceiptFits'
    BY <1>2 DEF HashChunk, IInv, PhaseFits, DigestFits, ReceiptFits, Decoding
  <2>6. QED
    BY <2>2, <2>3, <2>4, <2>5 DEF IInv
<1>3. CASE HashTruncated \/ InputEnds \/ WrongSize
  <2>1. /\ pc \notin Finished /\ pc' = "failed"
        /\ UNCHANGED <<phase, before, request, digest, entries, hash, receipt>>
    BY <1>3 DEF HashTruncated, InputEnds, Starving, WrongSize, BlockReady, PayloadRead,
                Throw, Finished
  <2>2. QED
    BY <2>1, FailureKeeps DEF IInv, ReceiptFits, Finished
<1>4. CASE HashDone
  BY <1>4, ProgressKeeps DEF HashDone, Finished
<1>5. CASE FirstDigest
  BY <1>5, FirstDigestKeeps
<1>6. CASE FillBuffer \/ ReadBlock \/ SkipData
  <2>1. pc \notin Finished
    BY <1>6 DEF FillBuffer, Starving, ReadBlock, BlockReady, SkipData, Finished
  <2>2. QED
    BY <1>6, <2>1, ProgressKeeps DEF FillBuffer, ReadBlock, SkipData
<1>7. CASE NextHeader
  <2>1. /\ pc = "header"
        /\ UNCHANGED <<phase, request, before, hash, digest, entries, image, receipt>>
        /\ \/ pc' = "failed"
           \/ /\ pc' \in {"data", "skip"}
              /\ \E e \in current' : current' = NormalizeEntry(CurrentHeader(reader)).value
    BY <1>7 DEF NextHeader, HeaderReady, Throw
  <2>2. CASE pc' = "failed"
    BY <2>1, <2>2, FailureKeeps DEF IInv, ReceiptFits, Finished
  <2>3. CASE pc' \in {"data", "skip"}
    <3>1. \E e \in current' : current' = {e} /\ DOMAIN e = AllFields /\ e.content = {}
      BY <2>1, <2>3, NormalizedHeader DEF Ok
    <3>2. QED
      BY <2>1, <2>3, <3>1, ProgressKeeps DEF Finished
  <2>4. QED
    BY <2>1, <2>2, <2>3
<1>8. CASE EndOfArchive
  <2>1. /\ pc = "header" /\ pc' \in {"failed", "close"}
        /\ UNCHANGED <<phase, request, before, hash, digest, entries, image, receipt>>
    BY <1>8 DEF EndOfArchive, HeaderReady, Throw
  <2>2. QED
    BY <2>1, FailureKeeps, ProgressKeeps DEF IInv, ReceiptFits, Finished
<1>9. CASE SealEntry
  <2>1. /\ pc = "data" /\ pc' = "header"
        /\ entries' = Append(entries, [Current EXCEPT !.content = {contents}])
        /\ UNCHANGED <<phase, request, before, hash, digest, image, receipt>>
        /\ Len(contents) = Current.size
    BY <1>9 DEF SealEntry, PayloadRead, Complete
  <2>2. DOMAIN Current = AllFields
    BY <2>1, CurrentIsEntry
  <2>3. PICK e : e = [Current EXCEPT !.content = {contents}]
    OBVIOUS
  <2>4. DOMAIN e = AllFields /\ e.content = {contents} /\ e.size = Current.size
    BY <2>2, <2>3 DEF AllFields
  <2>5. ContentFits(e)
    BY <2>1, <2>4 DEF ContentFits
  <2>6. QED
    BY <2>1, <2>3, <2>4, <2>5, AppendKeeps
<1>10. CASE EndSkip
  <2>1. /\ pc = "skip" /\ pc' = "header"
        /\ entries' = Append(entries, Current)
        /\ UNCHANGED <<phase, request, before, hash, digest, image, receipt>>
    BY <1>10 DEF EndSkip
  <2>2. DOMAIN Current = AllFields /\ ContentFits(Current)
    BY <2>1, CurrentIsEntry DEF ContentFits
  <2>3. QED
    BY <2>1, <2>2, AppendKeeps
<1>11. CASE ConstructImage
  BY <1>11, ConstructImageKeeps
<1>12. CASE VerifyStamp
  <2>1. /\ pc = "verify" /\ hash' = NewHash
        /\ UNCHANGED <<phase, request, before, digest, entries, image, receipt>>
        /\ pc' \in {"failed", "hash"}
    BY <1>12 DEF VerifyStamp, Throw
  <2>2. CASE pc' = "failed"
    BY <2>1, <2>2, FailureKeeps DEF IInv, ReceiptFits, Finished
  <2>3. CASE pc' = "hash"
    <3>1. before.size \in Nat
      BY DEF IInv, TypeOK
    <3>2. HashFits'
      BY <2>1, <2>3, <3>1 DEF HashFits, NewHash
    <3>3. EntriesFit' /\ ImageFits'
      BY <2>1, <2>3 DEF IInv, EntriesFit, ImageFits, ContentFits
    <3>4. PhaseFits' /\ DigestFits' /\ ReceiptFits'
      BY <2>1, <2>3 DEF IInv, PhaseFits, DigestFits, ReceiptFits, Decoding
    <3>5. QED
      BY <3>2, <3>3, <3>4 DEF IInv
  <2>4. QED
    BY <2>1, <2>2, <2>3
<1>13. CASE SealPackage
  BY <1>13, SealPackageKeeps
<1>14. QED
  BY <1>1, <1>2, <1>3, <1>4, <1>5, <1>6, <1>7, <1>8, <1>9, <1>10, <1>11, <1>12, <1>13 DEF Step

\* So does every step of anybody.
LEMMA NextKeeps ==
  ASSUME IInv, [Next]_vars
  PROVE  IInv'
<1>1. TypeOK'
  BY NextType DEF IInv
<1>2. ASSUME NEW expected \in Requests, Open(expected)
      PROVE  IInv'
  <2>1. EntriesFit'
    BY <1>2 DEF Open, IInv, EntriesFit, ContentFits
  <2>2. QED
    BY <1>1, <1>2, <2>1 DEF Open, IInv, HashFits, PhaseFits, DigestFits, ImageFits,
                            ReceiptFits, Decoding
<1>3. CASE Step
  BY <1>1, <1>3, StepKeeps
<1>4. CASE Fault
  <2>1. /\ pc \notin Finished /\ pc' = "failed"
        /\ UNCHANGED <<phase, before, request, digest, entries, hash, receipt>>
    BY <1>4 DEF Fault, Throw, Active, Finished
  <2>2. QED
    BY <1>1, <2>1, FailureKeeps DEF IInv, ReceiptFits, Finished
<1>5. CASE UNCHANGED openVars
  <2>1. EntriesFit' /\ ImageFits'
    BY <1>5 DEF openVars, IInv, EntriesFit, ImageFits, ContentFits
  <2>2. QED
    BY <1>1, <1>5, <2>1 DEF openVars, IInv, HashFits, PhaseFits, DigestFits,
                            ReceiptFits, Decoding
<1>6. QED
  BY <1>2, <1>3, <1>4, <1>5 DEF Next, EditSource, Terminated, vars

\* The inductive invariant of open.
THEOREM Invariance == Spec => []IInv
<1>1. Init => IInv
  <2>1. SUFFICES ASSUME Init
                 PROVE  IInv
    OBVIOUS
  <2>2. EntriesFit
    BY <2>1 DEF Init, InitOpen, EntriesFit
  <2>3. QED
    BY <2>1, <2>2, InitType DEF Init, InitOpen, IInv, HashFits, NewHash, PhaseFits,
       DigestFits, ImageFits, ReceiptFits, Decoding
<1>2. IInv /\ [Next]_vars => IInv'
  BY NextKeeps
<1>3. QED
  BY <1>1, <1>2, PTL DEF Spec

\* The package returned is consistent in itself, whatever was done to the file.
THEOREM Soundness == Spec => []ReceiptIsSound
<1>1. ASSUME IInv, NEW r \in receipt, NEW i \in image
      PROVE  /\ Inspect = Ok([image |-> i, receipt |-> r])
             /\ request \in {{}, {r.archiveDigest}}
             /\ Len(r.archiveDigest) = before.size
             /\ ValidImage(i)
             /\ \A n \in DOMAIN i : \A d \in i[n].content : Len(d) = i[n].size
  <2>1. /\ pc = "returned" /\ phase = "post"
        /\ receipt = {r} /\ image = {i}
        /\ digest = {r.archiveDigest}
        /\ r.imageIdentity = Identify(i) /\ r.entryCount = Len(i)
        /\ ValidImage(i)
        /\ \A n \in DOMAIN i : ContentFits(i[n])
    BY <1>1 DEF IInv, ReceiptFits, PhaseFits, ImageFits
  <2>2. Inspect = Ok([image |-> i, receipt |-> r])
    BY <2>1 DEF Inspect, InspectedImage
  <2>3. request \in {{}, {r.archiveDigest}} /\ Len(r.archiveDigest) = before.size
    BY <1>1, <2>1 DEF IInv, DigestFits
  <2>4. QED
    BY <2>1, <2>2, <2>3 DEF ContentFits
<1>2. IInv => ReceiptIsSound
  BY <1>1 DEF ReceiptIsSound
<1>3. QED
  BY <1>2, Invariance, PTL

-----------------------------------------------------------------------------
(***************************************************************************)
(* The invariant.                                                          *)
(***************************************************************************)

\* The first digest has been accepted, and the call goes on or has returned.
Accepted == pc # "failed" /\ (pc \in Decoding \/ phase = "post")

\* Before that nothing was decoded.
Fresh ==
  phase = "pre" /\ pc \in {"idle", "open", "hash", "reverify"} =>
    reader = NewReader /\ entries = <<>> /\ snapshot = {}

\* Every block hashed in a pass was at its position.
HashSeen ==
  pc \in {"hash", "reverify"} =>
    /\ hash.offset <= MaxLength
    /\ \A i \in 1..hash.offset : Seen(i, {hash.blocks[i]})

\* So was every block of the digest d, once it is accepted.
DigestSeen(d) ==
  /\ d \in Seq(Block)
  /\ Len(d) = before.size
  /\ Len(d) <= MaxLength
  /\ \A i \in 1..Len(d) : Seen(i, {d[i]})

\* Some position has lost its block, and a second hash has not found it.
Lost(d) ==
  \E i \in 1..Len(d) :
    /\ Gone(i, {d[i]})
    /\ pc \in {"hash", "reverify"} /\ i <= hash.offset => hash.blocks[i] # d[i]

\* How many blocks libarchive has taken from its buffer.
Consumed == Position(reader)

\* The callback has delivered the blocks of d.
BufferMatches(d) == Delivers(d, reader)

\* The entry being read is the one whose header is at position h of d.
ReadsEntry(d, h) ==
  /\ d[h] \in DOMAIN RawHeader
  /\ NormalizeEntry(RawHeader[d[h]]) = Ok(Current)
  /\ Consumed + reader.left = h + RawHeader[d[h]].stored
  /\ pc = "data" => Current.type = "regular" /\ contents = SubSeq(d, h + 1, Consumed)
  /\ pc = "skip" => Current.type # "regular"

\* What was decoded is what d means.
Decodes(d) ==
  /\ pc \in {"header", "data", "skip"} => BufferMatches(d)
  /\ pc = "header" => ListedUpTo(d, entries, Consumed + 1)
  /\ pc \in {"data", "skip"} =>
       \E h \in 1..Consumed : ListedUpTo(d, entries, h) /\ ReadsEntry(d, h)
  /\ pc = "close" => d # <<>> /\ EntriesFrom(d)[1] = Ok(entries)
  /\ phase = "post" => image = Decode(d).value /\ Succeeds(Decode(d))

Certain(d) == snapshot = {d} /\ Decodes(d)

Doubtful(d) == pc # "returned" /\ Lost(d)

Bound(d) == digest = {d} /\ DigestSeen(d) /\ (reverted \/ Doubtful(d) \/ Certain(d))

Binding ==
  /\ Len(file) <= MaxLength
  /\ Fresh
  /\ HashSeen
  /\ Accepted => \E d \in digest : Bound(d)

-----------------------------------------------------------------------------
(***************************************************************************)
(* The file and what was seen of it.                                       *)
(***************************************************************************)

\* Which steps touch the file: an edit and nothing else.
LEMMA SourceSteps ==
  ASSUME [Next]_vars
  PROVE  \/ Edit /\ UNCHANGED openVars
         \/ UNCHANGED sourceVars
BY DEF Next, EditSource, Open, Step, Fault, Terminated, vars, sourceVars,
       ReadStamp, HashChunk, HashTruncated, HashDone, FirstDigest, FillBuffer,
       InputEnds, NextHeader, EndOfArchive, ReadBlock, SealEntry, WrongSize,
       SkipData, EndSkip, ConstructImage, VerifyStamp, SealPackage

\* An edit does not make the file longer than its bound.
LEMMA EditLength ==
  ASSUME SourceTypeOK, Edit, Len(file) <= MaxLength
  PROVE  Len(file') <= MaxLength
<1>1. file \in Seq(Block) /\ MaxLength \in Nat
  BY BoundsAssumption DEF SourceTypeOK
<1>2. CASE Overwrite
  <2>1. PICK i \in DOMAIN file, b \in Block : file' = [file EXCEPT ![i] = b]
    BY <1>2 DEF Overwrite, Install
  <2>2. Len(file') = Len(file)
    BY <1>1, <2>1
  <2>3. QED
    BY <2>2
<1>3. CASE Truncate
  <2>1. PICK n \in 0..(Len(file) - 1) : file' = SubSeq(file, 1, n)
    BY <1>3 DEF Truncate, Install
  <2>2. n \in Nat /\ n <= Len(file) /\ Len(SubSeq(file, 1, n)) = n
    BY <1>1, <2>1
  <2>3. QED
    BY <1>1, <2>1, <2>2
<1>4. CASE Extend
  <2>1. PICK b \in Block : file' = Append(file, b)
    BY <1>4 DEF Extend, Install
  <2>2. Len(file) < MaxLength
    BY <1>4 DEF Extend
  <2>3. QED
    BY <1>1, <2>1, <2>2
<1>5. CASE Touch
  BY <1>5 DEF Touch, Install
<1>6. QED
  BY <1>2, <1>3, <1>4, <1>5 DEF Edit

\* No step makes the file longer than its bound.
LEMMA LengthKept ==
  ASSUME TypeOK, Len(file) <= MaxLength, [Next]_vars
  PROVE  Len(file') <= MaxLength
BY SourceSteps, EditLength DEF TypeOK, sourceVars

\* What was seen stays seen.
LEMMA SeenKept ==
  ASSUME TypeOK, [Next]_vars, NEW i \in 1..MaxLength, NEW cell, Seen(i, cell)
  PROVE  Seen(i, cell)'
<1>1. SourceTypeOK /\ (Edit \/ UNCHANGED sourceVars)
  BY SourceSteps DEF TypeOK
<1>2. QED
  BY <1>1, EditHistory

\* What is gone stays gone, or the file has reverted.
LEMMA GoneKept ==
  ASSUME TypeOK, [Next]_vars, NEW i \in 1..MaxLength, NEW cell, Gone(i, cell)
  PROVE  Gone(i, cell)' \/ reverted'
<1>1. SourceTypeOK /\ (Edit \/ UNCHANGED sourceVars)
  BY SourceSteps DEF TypeOK
<1>2. QED
  BY <1>1, EditHistory

\* No step undoes that the file has reverted.
LEMMA RevertedKept ==
  ASSUME TypeOK, [Next]_vars, reverted
  PROVE  reverted'
BY SourceSteps, RevertedStays DEF TypeOK

\* The blocks of the digest stay seen.
LEMMA DigestSeenKept ==
  ASSUME TypeOK, [Next]_vars, NEW d, DigestSeen(d), before'.size = before.size
  PROVE  DigestSeen(d)'
<1>1. ASSUME NEW i \in 1..Len(d)
      PROVE  Seen(i, {d[i]})'
  <2>1. i \in 1..MaxLength /\ Seen(i, {d[i]})
    BY BoundsAssumption DEF DigestSeen
  <2>2. PICK cell : cell = {d[i]}
    OBVIOUS
  <2>3. Seen(i, cell)'
    BY <2>1, <2>2, SeenKept
  <2>4. QED
    BY <2>2, <2>3
<1>2. QED
  BY <1>1 DEF DigestSeen

\* A loss is not made good, unless by changing the block back.
LEMMA LostKept ==
  ASSUME TypeOK, [Next]_vars, NEW d, DigestSeen(d), Lost(d),
         pc' \in {"hash", "reverify"} =>
           \/ hash' = NewHash
           \/ pc \in {"hash", "reverify"} /\ hash' = hash
  PROVE  Lost(d)' \/ reverted'
<1>1. PICK i \in 1..Len(d) :
        /\ Gone(i, {d[i]})
        /\ pc \in {"hash", "reverify"} /\ i <= hash.offset => hash.blocks[i] # d[i]
  BY DEF Lost
<1>2. i \in 1..MaxLength
  BY BoundsAssumption DEF DigestSeen
<1>3. PICK cell : cell = {d[i]}
  OBVIOUS
<1>4. Gone(i, cell)' \/ reverted'
  BY <1>1, <1>2, <1>3, GoneKept
<1>5. pc' \in {"hash", "reverify"} /\ i <= hash'.offset => hash'.blocks[i] # d[i]
  BY <1>1 DEF NewHash
<1>6. QED
  BY <1>3, <1>4, <1>5 DEF Lost

-----------------------------------------------------------------------------
(***************************************************************************)
(* A hash pass.                                                            *)
(***************************************************************************)

\* What is hashed next is what the file holds.
LEMMA HashChunkSeen ==
  ASSUME TypeOK, HashFits, Len(file) <= MaxLength, HashSeen, HashChunk
  PROVE  HashSeen'
<1>1. Grown(hash, hash', before.size)
  BY HashChunkGrows
<1>2. /\ hash.offset \in Nat /\ hash'.offset \in Nat /\ Len(file) \in Nat
      /\ hash'.offset <= Len(file)
      /\ pc = "hash"
      /\ UNCHANGED sourceVars
  BY <1>1, BoundsAssumption DEF Grown, TypeOK, SourceTypeOK, HashChunk
<1>3. MaxLength \in Nat
  BY BoundsAssumption
<1>4. ASSUME NEW k \in 1..hash'.offset
      PROVE  Seen(k, {hash.blocks[k]})'
  <2>1. CASE k <= hash.offset
    <3>1. hash'.blocks[k] = hash.blocks[k] /\ Seen(k, {hash.blocks[k]})
      BY <1>1, <1>2, <2>1 DEF Grown, HashSeen
    <3>2. QED
      BY <1>2, <3>1 DEF Seen, Cell, sourceVars
  <2>2. CASE ~(k <= hash.offset)
    <3>1. hash'.blocks[k] = file[k] /\ k <= Len(file)
      BY <1>1, <1>2, <2>2 DEF Grown
    <3>2. QED
      BY <1>2, <3>1 DEF Seen, Cell, sourceVars
  <2>3. QED
    BY <2>1, <2>2
<1>5. hash'.offset <= MaxLength
  BY <1>2, <1>3
<1>6. QED
  BY <1>4, <1>5 DEF HashSeen

\* A second hash does not find what is lost.
LEMMA HashChunkLost ==
  ASSUME TypeOK, HashFits, NEW d, d \in Seq(Block), Lost(d), HashChunk
  PROVE  Lost(d)'
<1>1. Grown(hash, hash', before.size)
  BY HashChunkGrows
<1>2. /\ hash.offset \in Nat /\ hash'.offset \in Nat /\ Len(file) \in Nat
      /\ pc = "hash"
      /\ UNCHANGED sourceVars
  BY <1>1 DEF Grown, TypeOK, SourceTypeOK, HashChunk
<1>3. PICK i \in 1..Len(d) :
        /\ Gone(i, {d[i]})
        /\ pc \in {"hash", "reverify"} /\ i <= hash.offset => hash.blocks[i] # d[i]
  BY DEF Lost
<1>4. Gone(i, {d[i]})'
  BY <1>2, <1>3 DEF Gone, Cell, sourceVars
<1>5. ASSUME i <= hash'.offset
      PROVE  hash'.blocks[i] # d[i]
  <2>1. CASE i <= hash.offset
    BY <1>1, <1>2, <1>3, <2>1 DEF Grown
  <2>2. CASE ~(i <= hash.offset)
    <3>1. i <= Len(file) /\ hash'.blocks[i] = file[i]
      BY <1>1, <1>2, <1>5, <2>2 DEF Grown
    <3>2. QED
      BY <1>3, <3>1 DEF Gone, Cell
  <2>3. QED
    BY <2>1, <2>2
<1>6. QED
  BY <1>4, <1>5 DEF Lost

\* When the first digest is accepted, the file holds it, or has lost some of
\* it already.
LEMMA FirstDigestBinds ==
  ASSUME IInv, Binding, FirstDigest, pc' # "failed"
  PROVE  \E d \in digest' : Bound(d)'
<1>1. /\ digest' = {hash.blocks} /\ snapshot' = {file}
      /\ pc = "reverify" /\ pc' = "header"
      /\ phase = "pre" /\ phase' = "pre"
      /\ Stamp = before
      /\ UNCHANGED <<sourceVars, before, reader, entries>>
  BY DEF FirstDigest, FirstError, Throw
<1>2. PICK d : d = hash.blocks
  OBVIOUS
<1>3. /\ d \in Seq(Block) /\ file \in Seq(Block)
      /\ Len(d) = before.size /\ Len(file) = Len(d)
      /\ hash.offset = Len(d)
  BY <1>1, <1>2 DEF IInv, TypeOK, SourceTypeOK, HashFits, Stamp
<1>4. DigestSeen(d)
  BY <1>1, <1>2, <1>3 DEF Binding, HashSeen, DigestSeen
<1>5. DigestSeen(d)'
  BY <1>1, <1>4 DEF DigestSeen, Seen, Cell, sourceVars
<1>6. CASE file = d
  <2>1. reader = NewReader /\ entries = <<>>
    BY <1>1 DEF Binding, Fresh
  <2>2. BufferMatches(d)' /\ Consumed' = 0
    BY <1>1, <1>3, <2>1 DEF BufferMatches, Delivers, NewReader, Consumed, Position
  <2>3. ListedUpTo(d, entries', Consumed' + 1)
    BY <1>1, <1>3, <2>1, <2>2, NothingListed
  <2>4. Decodes(d)'
    BY <1>1, <2>2, <2>3 DEF Decodes
  <2>5. QED
    BY <1>1, <1>2, <1>5, <1>6, <2>4 DEF Bound, Certain
<1>7. CASE file # d
  <2>1. PICK i \in 1..Len(d) : file[i] # d[i]
    BY <1>3, <1>7, SeqEqual
  <2>2. Gone(i, {d[i]})'
    BY <1>1, <1>3, <1>4, <2>1 DEF DigestSeen, Seen, Gone, Cell, sourceVars
  <2>3. Doubtful(d)'
    BY <1>1, <2>2 DEF Doubtful, Lost
  <2>4. QED
    BY <1>1, <1>2, <1>5, <2>3 DEF Bound
<1>8. QED
  BY <1>6, <1>7

\* The call does not return when something was lost.
LEMMA LossIsNoticed ==
  ASSUME IInv, NEW d, digest = {d}, DigestSeen(d), Lost(d), pc = "reverify"
  PROVE  ~SealsAgree
<1>1. hash.offset = before.size /\ Len(d) = before.size
  BY DEF IInv, HashFits, DigestSeen
<1>2. PICK i \in 1..Len(d) : hash.blocks[i] # d[i]
  BY <1>1 DEF Lost, DigestSeen
<1>3. QED
  BY <1>2 DEF SealsAgree

-----------------------------------------------------------------------------
(***************************************************************************)
(* Decoding.                                                               *)
(***************************************************************************)

\* What the callback delivers are the blocks of the digest, or one is lost.
LEMMA FillBinds ==
  ASSUME TypeOK, NEW d, DigestSeen(d), Certain(d), FillBuffer, phase = "pre"
  PROVE  Lost(d)' \/ Certain(d)'
<1>1. /\ reader \in Reader /\ reader.offset \in Nat /\ reader.buffer \in Seq(Block)
      /\ before.size \in Nat /\ reader.offset < before.size
      /\ reader.buffer = <<>>
      /\ file \in Seq(Block) /\ d \in Seq(Block) /\ Len(d) = before.size
      /\ pc \in {"header", "data", "skip"}
      /\ UNCHANGED <<sourceVars, pc, phase, current, contents, entries, snapshot>>
  BY DEF TypeOK, SourceTypeOK, Reader, FillBuffer, Starving, Drained, Buffered, DigestSeen
<1>2. PICK blocks \in ReadSource(reader, before.size) \ {<<>>} :
        reader' = Refill(reader, blocks)
  BY DEF FillBuffer
<1>3. PICK asked \in Nat : /\ asked <= before.size - reader.offset
                           /\ blocks \in Pread(reader.offset, asked)
  <2>1. PICK asked : asked = Least(before.size - reader.offset, Chunk)
    OBVIOUS
  <2>2. asked \in Nat /\ asked <= before.size - reader.offset
    BY <1>1, <2>1, ChunkAssumption DEF Least
  <2>3. blocks \in Pread(reader.offset, asked)
    BY <1>2, <2>1 DEF ReadSource
  <2>4. QED
    BY <2>2, <2>3
<1>4. PICK offset \in Nat : offset = reader.offset
  BY <1>1
<1>5. /\ blocks \in Seq(Block)
      /\ offset + Len(blocks) <= Len(d)
      /\ \A k \in 1..Len(blocks) :
           offset + k <= Len(file) /\ blocks[k] = file[offset + k]
  BY <1>1, <1>3, <1>4, PreadType, PreadBlocks
<1>6. /\ reader'.offset = offset + Len(blocks)
      /\ reader'.buffer = blocks
      /\ reader'.left = reader.left
  BY <1>1, <1>2, <1>4, <1>5 DEF Refill, Reader
<1>7. CASE \E k \in 1..Len(blocks) : blocks[k] # d[offset + k]
  <2>1. PICK k \in 1..Len(blocks) : blocks[k] # d[offset + k]
    BY <1>7
  <2>2. PICK i \in 1..Len(d) : i = offset + k
    BY <1>1, <1>5
  <2>3. i <= Len(file) /\ file[i] # d[i]
    BY <1>5, <2>1, <2>2
  <2>4. Gone(i, {d[i]})
    BY <2>3 DEF DigestSeen, Seen, Gone, Cell
  <2>5. QED
    BY <1>1, <2>4 DEF Lost, Gone, Cell, sourceVars
<1>8. CASE \A k \in 1..Len(blocks) : blocks[k] = d[offset + k]
  <2>1. Consumed = offset /\ Consumed' = offset
    BY <1>1, <1>4, <1>5, <1>6 DEF Consumed, Position
  <2>2. BufferMatches(d)'
    BY <1>1, <1>2, <1>4, <1>5, <1>8, RefillDelivers DEF BufferMatches
  <2>3. \A h : ReadsEntry(d, h) => ReadsEntry(d, h)'
    BY <1>1, <1>6, <2>1 DEF ReadsEntry, Current
  <2>4. Decodes(d)'
    BY <1>1, <2>1, <2>2, <2>3 DEF Certain, Decodes
  <2>5. QED
    BY <1>1, <2>4 DEF Certain
<1>9. QED
  BY <1>7, <1>8

\* The reader and its buffer, while blocks of d are decoded.
LEMMA BufferWithin ==
  ASSUME TypeOK, NEW d, d \in Seq(Block), BufferMatches(d)
  PROVE  /\ reader \in Reader
         /\ reader.offset \in Nat /\ reader.left \in Nat
         /\ reader.buffer \in Seq(Block)
         /\ Consumed \in Nat /\ Consumed <= Len(d)
         /\ reader.buffer # <<>> =>
              /\ Consumed + 1 <= Len(d)
              /\ Head(reader.buffer) = d[Consumed + 1]
<1>1. reader \in Reader
  BY DEF TypeOK
<1>2. /\ reader.offset \in Nat /\ reader.left \in Nat
      /\ reader.buffer \in Seq(Block)
  BY <1>1 DEF Reader
<1>3. QED
  BY <1>1, <1>2, DeliveredNext DEF BufferMatches, Consumed

\* Taking blocks from the front of the buffer leaves the rest in place.
LEMMA BufferDrops ==
  ASSUME TypeOK, NEW d, d \in Seq(Block), BufferMatches(d),
         NEW n \in Nat, n <= Len(reader.buffer),
         reader'.offset = reader.offset,
         reader'.buffer = SubSeq(reader.buffer, n + 1, Len(reader.buffer))
  PROVE  BufferMatches(d)' /\ Consumed' = Consumed + n
BY DropDelivers DEF TypeOK, BufferMatches, Consumed

\* The buffer loses its first block.
LEMMA BufferDropsHead ==
  ASSUME TypeOK, NEW d, d \in Seq(Block), BufferMatches(d), reader.buffer # <<>>,
         reader'.offset = reader.offset, reader'.buffer = Tail(reader.buffer)
  PROVE  BufferMatches(d)' /\ Consumed' = Consumed + 1
BY DropHeadDelivers DEF TypeOK, BufferMatches, Consumed

\* The header read is that of the position reached.
LEMMA NextHeaderBinds ==
  ASSUME TypeOK, NEW d, DigestSeen(d), Certain(d), NextHeader, pc' # "failed",
         phase = "pre"
  PROVE  Certain(d)'
<1>1. /\ pc = "header" /\ pc' \in {"data", "skip"}
      /\ reader' = TakeHeader(reader)
      /\ contents' = <<>>
      /\ UNCHANGED <<phase, entries, snapshot>>
      /\ reader.buffer # <<>> /\ Head(reader.buffer) \in DOMAIN RawHeader
  BY DEF NextHeader, HeaderReady, HeaderStatus, Buffered, Throw
<1>2. PICK e : /\ current' = NormalizeEntry(CurrentHeader(reader)).value
               /\ e \in current'
               /\ pc' = IF e.type = "regular" THEN "data" ELSE "skip"
  BY <1>1 DEF NextHeader, Throw
<1>3. NormalizeEntry(CurrentHeader(reader)) = Ok(e) /\ current' = {e}
  BY <1>2, NormalizedHeader DEF Ok
<1>4. Current' = e
  BY <1>3 DEF Current
<1>5. d \in Seq(Block) /\ BufferMatches(d) /\ ListedUpTo(d, entries, Consumed + 1)
  BY <1>1 DEF DigestSeen, Certain, Decodes
<1>6. PICK h \in Nat : /\ h = Consumed + 1 /\ h <= Len(d) /\ Consumed \in Nat
                       /\ Head(reader.buffer) = d[h]
                       /\ reader \in Reader
  BY <1>1, <1>5, BufferWithin
<1>7. /\ reader'.offset = reader.offset
      /\ reader'.buffer = Tail(reader.buffer)
      /\ reader'.left = RawHeader[d[h]].stored
  BY <1>1, <1>6 DEF TakeHeader, CurrentHeader, Reader
<1>8. BufferMatches(d)' /\ Consumed' = h
  BY <1>1, <1>5, <1>6, <1>7, BufferDropsHead
<1>9. h \in 1..h /\ SubSeq(d, h + 1, h) = <<>>
  BY <1>5, <1>6
<1>10. ReadsEntry(d, h)'
  BY <1>1, <1>2, <1>3, <1>4, <1>6, <1>7, <1>8, <1>9 DEF ReadsEntry, CurrentHeader
<1>11. Decodes(d)'
  BY <1>1, <1>5, <1>6, <1>8, <1>9, <1>10 DEF Decodes
<1>12. QED
  BY <1>1, <1>11 DEF Certain

\* What is being read, and where.
LEMMA Reading ==
  ASSUME TypeOK, NEW d, DigestSeen(d), Certain(d), pc \in {"data", "skip"}
  PROVE  /\ d \in Seq(Block) /\ BufferMatches(d)
         /\ Consumed \in Nat /\ Consumed <= Len(d)
         /\ reader \in Reader /\ reader.left \in Nat /\ reader.buffer \in Seq(Block)
         /\ \E h \in 1..Consumed :
              /\ ListedUpTo(d, entries, h)
              /\ ReadsEntry(d, h)
              /\ h \in 1..Len(d)
              /\ d[h] \in DOMAIN RawHeader
              /\ RawHeader[d[h]].stored \in Nat
<1>1. d \in Seq(Block) /\ BufferMatches(d)
  BY DEF DigestSeen, Certain, Decodes
<1>2. PICK h \in 1..Consumed : ListedUpTo(d, entries, h) /\ ReadsEntry(d, h)
  BY DEF Certain, Decodes
<1>3. Consumed \in Nat /\ Consumed <= Len(d) /\ Len(d) \in Nat
  BY <1>1, BufferWithin
<1>4. h \in 1..Len(d)
  BY <1>2, <1>3
<1>5. d[h] \in DOMAIN RawHeader
  BY <1>2 DEF ReadsEntry
<1>6. QED
  BY <1>1, <1>2, <1>3, <1>4, <1>5, BufferWithin, ReaderAssumption

\* The payload block read is the next one of d.
LEMMA ReadBlockBinds ==
  ASSUME TypeOK, NEW d, DigestSeen(d), Certain(d), ReadBlock, phase = "pre"
  PROVE  Certain(d)'
<1>1. /\ pc = "data" /\ reader.left > 0 /\ reader.buffer # <<>>
      /\ contents' = Append(contents, Head(reader.buffer))
      /\ reader' = TakeBlock(reader)
      /\ UNCHANGED <<phase, pc, current, entries, snapshot>>
  BY DEF ReadBlock, BlockReady, Buffered
<1>2. PICK h \in 1..Consumed :
        /\ ListedUpTo(d, entries, h) /\ ReadsEntry(d, h)
        /\ RawHeader[d[h]].stored \in Nat
  BY <1>1, Reading
<1>3. PICK c \in Nat : c = Consumed
  BY <1>1, Reading
<1>4. /\ d \in Seq(Block) /\ BufferMatches(d) /\ reader \in Reader
      /\ reader.left \in Nat
      /\ c + 1 <= Len(d)
      /\ Head(reader.buffer) = d[c + 1]
  BY <1>1, <1>3, Reading, BufferWithin
<1>5. /\ reader'.offset = reader.offset
      /\ reader'.buffer = Tail(reader.buffer)
      /\ reader'.left = reader.left - 1
  BY <1>1, <1>4 DEF TakeBlock, Reader
<1>6. BufferMatches(d)' /\ Consumed' = c + 1
  BY <1>1, <1>3, <1>4, <1>5, BufferDropsHead
<1>7. contents' = SubSeq(d, h + 1, c + 1)
  <2>1. contents = SubSeq(d, h + 1, c)
    BY <1>1, <1>2, <1>3 DEF ReadsEntry
  <2>2. SubSeq(d, h + 1, c) \in Seq(Block) /\ d[c + 1] \in Block
    BY <1>2, <1>3, <1>4
  <2>3. SubSeq(d, h + 1, c + 1) = SubSeq(d, h + 1, (c + 1) - 1) \o <<d[c + 1]>>
    BY <1>2, <1>3, <1>4, SubSeqRecursiveSecond
  <2>4. QED
    BY <1>1, <1>3, <1>4, <2>1, <2>2, <2>3, AppendIsConcat
<1>8. h \in 1..(c + 1) /\ (c + 1) + (reader.left - 1) = c + reader.left
  BY <1>2, <1>3, <1>4
<1>9. ReadsEntry(d, h)'
  BY <1>1, <1>2, <1>3, <1>5, <1>6, <1>7, <1>8 DEF ReadsEntry, Current
<1>10. Decodes(d)'
  BY <1>1, <1>2, <1>6, <1>8, <1>9 DEF Decodes
<1>11. QED
  BY <1>1, <1>10 DEF Certain

\* The payload of a regular file is complete: its entry is the one of d.
LEMMA SealEntryBinds ==
  ASSUME TypeOK, NEW d, DigestSeen(d), Certain(d), SealEntry, phase = "pre"
  PROVE  Certain(d)'
<1>1. /\ pc = "data" /\ pc' = "header" /\ reader.left = 0
      /\ Len(contents) = Current.size
      /\ entries' = Append(entries, [Current EXCEPT !.content = {contents}])
      /\ UNCHANGED <<phase, reader, snapshot>>
  BY DEF SealEntry, PayloadRead, Complete
<1>2. PICK h \in 1..Consumed :
        /\ ListedUpTo(d, entries, h) /\ ReadsEntry(d, h)
        /\ h \in 1..Len(d) /\ d[h] \in DOMAIN RawHeader
        /\ RawHeader[d[h]].stored \in Nat
  BY <1>1, Reading
<1>3. PICK stored \in Nat : stored = RawHeader[d[h]].stored
  BY <1>2
<1>4. PICK c \in Nat : c = Consumed /\ c <= Len(d)
  BY <1>1, Reading
<1>5. /\ d \in Seq(Block) /\ BufferMatches(d)
      /\ Current.type = "regular" /\ contents = SubSeq(d, h + 1, c)
      /\ NormalizeEntry(RawHeader[d[h]]) = Ok(Current)
  BY <1>1, <1>2, <1>4, Reading DEF ReadsEntry
<1>6. c = h + stored /\ h \in Nat
  BY <1>1, <1>2, <1>3, <1>4 DEF ReadsEntry
<1>7. Current.size = stored
  <2>1. d \in Seq(Block) /\ h + 1 \in Nat /\ h + 1 >= 1 /\ c \in Nat /\ c <= Len(d)
    BY <1>4, <1>5, <1>6
  <2>2. Len(SubSeq(d, h + 1, c)) = IF h + 1 <= c THEN c - (h + 1) + 1 ELSE 0
    BY <2>1
  <2>3. Len(SubSeq(d, h + 1, c)) = stored
    BY <1>3, <1>6, <2>2
  <2>4. QED
    BY <1>1, <1>5, <2>3
<1>8. PICK e : e = [Current EXCEPT !.content = {contents}]
  OBVIOUS
<1>9. EntryOf(d, h) = Ok(e)
  <2>1. h + RawHeader[d[h]].stored <= Len(d)
    BY <1>3, <1>4, <1>6
  <2>2. contents = SubSeq(d, h + 1, h + RawHeader[d[h]].stored)
    BY <1>3, <1>5, <1>6
  <2>3. QED
    BY <1>2, <1>3, <1>5, <1>7, <1>8, <2>1, <2>2, EntryWhole, ZenonT(30)
<1>10. ListedUpTo(d, entries', c + 1)
  <2>1. h + 1 + RawHeader[d[h]].stored = c + 1
    BY <1>3, <1>6
  <2>2. QED
    BY <1>1, <1>2, <1>5, <1>8, <1>9, <2>1, EntryListed
<1>11. BufferMatches(d)' /\ Consumed' = c
  BY <1>1, <1>4, <1>5 DEF BufferMatches, Consumed
<1>12. Decodes(d)'
  BY <1>1, <1>10, <1>11 DEF Decodes
<1>13. QED
  BY <1>1, <1>12 DEF Certain

\* Blocks skipped are those of the payload.
LEMMA SkipDataBinds ==
  ASSUME TypeOK, NEW d, DigestSeen(d), Certain(d), SkipData, phase = "pre"
  PROVE  Certain(d)'
<1>1. /\ pc = "skip" /\ reader' = SkipBlocks(reader)
      /\ UNCHANGED <<phase, pc, current, entries, snapshot>>
  BY DEF SkipData
<1>2. PICK h \in 1..Consumed :
        /\ ListedUpTo(d, entries, h) /\ ReadsEntry(d, h)
        /\ RawHeader[d[h]].stored \in Nat
  BY <1>1, Reading
<1>3. PICK c \in Nat, left \in Nat : c = Consumed /\ left = reader.left
  BY <1>1, Reading
<1>4. /\ d \in Seq(Block) /\ BufferMatches(d)
      /\ reader \in Reader /\ reader.buffer \in Seq(Block)
  BY <1>1, Reading
<1>5. PICK n \in Nat : /\ n = Least(reader.left, Len(reader.buffer))
                       /\ n <= left /\ n <= Len(reader.buffer)
  BY <1>3, <1>4 DEF Least
<1>6. /\ reader'.offset = reader.offset
      /\ reader'.buffer = SubSeq(reader.buffer, n + 1, Len(reader.buffer))
      /\ reader'.left = left - n
  BY <1>1, <1>3, <1>4, <1>5 DEF SkipBlocks, Reader
<1>7. BufferMatches(d)' /\ Consumed' = c + n
  BY <1>3, <1>4, <1>5, <1>6, BufferDrops
<1>8. h \in 1..(c + n) /\ (c + n) + (left - n) = c + left
  BY <1>2, <1>3, <1>5
<1>9. ReadsEntry(d, h)'
  BY <1>1, <1>2, <1>3, <1>6, <1>7, <1>8 DEF ReadsEntry, Current
<1>10. Decodes(d)'
  BY <1>1, <1>2, <1>7, <1>8, <1>9 DEF Decodes
<1>11. QED
  BY <1>1, <1>10 DEF Certain

\* A normalized header has no content to remove.
LEMMA EmptyContent ==
  ASSUME NEW raw
  PROVE  [NormalizedEntry(raw) EXCEPT !.content = {}] = NormalizedEntry(raw)
<1> DEFINE type == CHOOSE t \in NormalizedType(raw) : TRUE
<1>1. PICK path, size, symlink, hardlink, device, attributes, uid, gid, nsec :
        /\ path = ValueOf(ParsePath(CHOOSE text \in raw.path : TRUE))
        /\ attributes = raw.attributes /\ uid = raw.uid /\ gid = raw.gid
        /\ size = IF type = "regular" THEN raw.size ELSE 0
        /\ nsec = raw.nsec
        /\ symlink = IF type = "symlink" THEN raw.symlink ELSE {}
        /\ hardlink = {ValueOf(ParsePath(text)) : text \in raw.hardlink}
        /\ device = IF type \in DeviceType THEN {raw.rdev} ELSE {}
  BY Zenon
<1>2. NormalizedEntry(raw) =
        [id |-> 0, path |-> path, type |-> type, attributes |-> attributes,
         uid |-> uid, gid |-> gid, size |-> size, nsec |-> nsec,
         symlink |-> symlink, hardlink |-> hardlink, device |-> device,
         content |-> {}]
  BY <1>1, Zenon DEF NormalizedEntry
<1> HIDE DEF type
<1>3. QED
  BY <1>2

\* An entry that is no regular file is the one of d.
LEMMA EndSkipBinds ==
  ASSUME TypeOK, NEW d, DigestSeen(d), Certain(d), EndSkip, phase = "pre"
  PROVE  Certain(d)'
<1>1. /\ pc = "skip" /\ pc' = "header" /\ reader.left = 0
      /\ entries' = Append(entries, Current)
      /\ UNCHANGED <<phase, reader, snapshot>>
  BY DEF EndSkip
<1>2. PICK h \in 1..Consumed :
        /\ ListedUpTo(d, entries, h) /\ ReadsEntry(d, h)
        /\ h \in 1..Len(d) /\ d[h] \in DOMAIN RawHeader
        /\ RawHeader[d[h]].stored \in Nat
  BY <1>1, Reading
<1>3. PICK stored \in Nat : stored = RawHeader[d[h]].stored
  BY <1>2
<1>4. PICK c \in Nat : c = Consumed /\ c <= Len(d)
  BY <1>1, Reading
<1>5. /\ d \in Seq(Block) /\ BufferMatches(d)
      /\ Current.type # "regular"
      /\ NormalizeEntry(RawHeader[d[h]]) = Ok(Current)
      /\ c = h + stored
  BY <1>1, <1>2, <1>3, <1>4, Reading DEF ReadsEntry
<1>6. [Current EXCEPT !.content = {}] = Current
  <2>1. Current \in NormalizeEntry(RawHeader[d[h]]).value
    BY <1>5 DEF Ok
  <2>2. Current = NormalizedEntry(RawHeader[d[h]])
    BY <2>1 DEF NormalizeEntry, Ok
  <2>3. QED
    BY <2>2, EmptyContent
<1>7. EntryOf(d, h) = Ok(Current)
  <2>1. h + RawHeader[d[h]].stored <= Len(d)
    BY <1>3, <1>4, <1>5
  <2>2. EntryOf(d, h) = Ok([Current EXCEPT !.content = {}])
    BY <1>2, <1>5, <2>1, EntryWhole
  <2>3. QED
    BY <1>6, <2>2
<1>8. ListedUpTo(d, entries', c + 1)
  <2>1. h + 1 + RawHeader[d[h]].stored = c + 1
    BY <1>2, <1>3, <1>5
  <2>2. QED
    BY <1>1, <1>2, <1>5, <1>7, <2>1, EntryListed
<1>9. BufferMatches(d)' /\ Consumed' = c
  BY <1>1, <1>4, <1>5 DEF BufferMatches, Consumed
<1>10. Decodes(d)'
  BY <1>1, <1>8, <1>9 DEF Decodes
<1>11. QED
  BY <1>1, <1>10 DEF Certain

\* The archive ends where d does.
LEMMA EndOfArchiveBinds ==
  ASSUME TypeOK, NEW d, DigestSeen(d), Certain(d), EndOfArchive, pc' # "failed",
         phase = "pre"
  PROVE  Certain(d)'
<1>1. /\ pc = "header" /\ pc' = "close"
      /\ HeaderStatus(reader) = "EOF"
      /\ Buffered(reader) \/ Drained(reader, before.size)
      /\ UNCHANGED <<phase, entries, snapshot>>
  BY DEF EndOfArchive, HeaderReady, Throw
<1>2. /\ d \in Seq(Block) /\ BufferMatches(d) /\ Len(d) = before.size
      /\ ListedUpTo(d, entries, Consumed + 1)
  BY <1>1 DEF DigestSeen, Certain, Decodes
<1>3. PICK c \in Nat : c = Consumed /\ c <= Len(d)
  BY <1>2, BufferWithin
<1>4. c + 1 \in 1..(Len(d) + 1)
  BY <1>2, <1>3
<1>5. (c = Len(d) \/ d[c + 1] = EndMark) /\ d # <<>>
  <2>1. CASE reader.buffer # <<>>
    <3>1. Head(reader.buffer) = EndMark
      BY <1>1, <2>1 DEF HeaderStatus, Buffered
    <3>2. c + 1 <= Len(d) /\ d[c + 1] = EndMark
      BY <1>2, <1>3, <2>1, <3>1, BufferWithin
    <3>3. d # <<>>
      BY <1>2, <1>3, <3>2
    <3>4. QED
      BY <3>2, <3>3
  <2>2. CASE reader.buffer = <<>>
    <3>1. PICK offset \in Nat : offset = reader.offset
      BY <1>2, BufferWithin
    <3>2. offset # 0 /\ offset >= before.size
      BY <1>1, <2>2, <3>1 DEF HeaderStatus, Buffered, Drained
    <3>3. offset <= Len(d) /\ c = offset
      BY <1>2, <1>3, <2>2, <3>1 DEF BufferMatches, Delivers, Consumed, Position
    <3>4. QED
      BY <1>2, <3>2, <3>3
  <2>3. QED
    BY <2>1, <2>2
<1>6. EntriesFrom(d)[1] = Ok(entries)
  <2>1. c + 1 = Len(d) + 1 \/ d[c + 1] = EndMark
    BY <1>5
  <2>2. QED
    BY <1>2, <1>3, <1>4, <2>1, AllListed
<1>7. Decodes(d)'
  BY <1>1, <1>5, <1>6 DEF Decodes
<1>8. QED
  BY <1>1, <1>7 DEF Certain

\* The image is constructed from the entries of d.
LEMMA ConstructImageBinds ==
  ASSUME NEW d, Certain(d), ConstructImage, pc' # "failed"
  PROVE  Certain(d)'
<1>1. /\ pc = "close" /\ pc' = "verify" /\ phase' = "post"
      /\ image' = Construct(entries).value /\ Succeeds(Construct(entries))
      /\ snapshot' = snapshot
  BY DEF ConstructImage, Throw
<1>2. d # <<>> /\ EntriesFrom(d)[1] = Ok(entries)
  BY <1>1 DEF Certain, Decodes
<1>3. Succeeds(Ok(entries)) /\ ValueOf(Ok(entries)) = entries
  BY DEF Succeeds, ValueOf, Ok
<1>4. Decode(d) = Construct(entries)
  BY <1>2, <1>3 DEF Decode
<1>5. Decodes(d)'
  BY <1>1, <1>4 DEF Decodes
<1>6. QED
  BY <1>1, <1>5 DEF Certain

-----------------------------------------------------------------------------
(***************************************************************************)
(* The invariant is kept.                                                  *)
(***************************************************************************)

\* The steps of a call whose first digest has been accepted.
AcceptedStep ==
  \/ HashChunk \/ HashDone \/ FillBuffer
  \/ NextHeader \/ EndOfArchive \/ ReadBlock \/ SealEntry \/ SkipData \/ EndSkip
  \/ ConstructImage \/ VerifyStamp \/ SealPackage

\* Once the first digest is accepted, it and the stamp are fixed, and only
\* these steps go on.
LEMMA AcceptedBefore ==
  ASSUME IInv, [Next]_vars, Accepted', ~FirstDigest
  PROVE  /\ Accepted
         /\ UNCHANGED <<digest, before>>
         /\ AcceptedStep \/ UNCHANGED openVars
<1>1. CASE Step
  <2>1. CASE ReadStamp \/ HashTruncated \/ InputEnds \/ WrongSize
    BY <2>1 DEF ReadStamp, HashTruncated, InputEnds, WrongSize, Throw, Accepted,
                Decoding, IInv, PhaseFits
  <2>2. CASE HashChunk \/ HashDone
    BY <2>2 DEF HashChunk, HashDone, AcceptedStep, Accepted, Decoding
  <2>3. CASE FillBuffer \/ NextHeader \/ EndOfArchive \/ ReadBlock \/ SealEntry
             \/ SkipData \/ EndSkip
    BY <2>3 DEF FillBuffer, Starving, NextHeader, HeaderReady, EndOfArchive, ReadBlock,
                BlockReady, SealEntry, PayloadRead, SkipData, EndSkip, AcceptedStep,
                Accepted, Decoding
  <2>4. CASE ConstructImage \/ VerifyStamp \/ SealPackage
    BY <2>4 DEF ConstructImage, VerifyStamp, SealPackage, AcceptedStep, Accepted,
                Decoding, IInv, PhaseFits
  <2>5. QED
    BY <1>1, <2>1, <2>2, <2>3, <2>4 DEF Step
<1>2. CASE Fault \/ \E expected \in Requests : Open(expected)
  BY <1>2 DEF Fault, Throw, Open, Accepted, Decoding, IInv, PhaseFits
<1>3. CASE EditSource \/ Terminated \/ UNCHANGED vars
  BY <1>3 DEF EditSource, Terminated, vars, openVars, Accepted, Decoding
<1>4. QED
  BY <1>1, <1>2, <1>3 DEF Next

\* A loss is kept by every step, and keeps the call from returning.
LEMMA DoubtKept ==
  ASSUME IInv, [Next]_vars, NEW d, digest = {d}, DigestSeen(d), Doubtful(d),
         AcceptedStep \/ UNCHANGED openVars
  PROVE  reverted' \/ Doubtful(d)'
<1>1. TypeOK /\ HashFits /\ d \in Seq(Block)
  BY DEF IInv, DigestSeen
<1>2. pc # "returned" /\ Lost(d)
  BY DEF Doubtful
<1>3. CASE HashChunk
  <2>1. Lost(d)'
    BY <1>1, <1>2, <1>3, HashChunkLost
  <2>2. QED
    BY <1>3, <2>1 DEF Doubtful, HashChunk
<1>4. CASE SealPackage
  <2>1. ~SealsAgree
    BY <1>2, <1>4, LossIsNoticed DEF SealPackage
  <2>2. pc' = "failed"
    BY <1>4, <2>1 DEF SealPackage, SealError, Throw
  <2>3. Lost(d)' \/ reverted'
    BY <1>1, <1>2, <2>2, LostKept
  <2>4. QED
    BY <2>2, <2>3 DEF Doubtful
<1>5. CASE (AcceptedStep /\ ~HashChunk /\ ~SealPackage) \/ UNCHANGED openVars
  <2>1. /\ pc' # "returned"
        /\ pc' \in {"hash", "reverify"} =>
             \/ hash' = NewHash
             \/ pc \in {"hash", "reverify"} /\ hash' = hash
    BY <1>2, <1>5
       DEF AcceptedStep, openVars, HashDone, FillBuffer, NextHeader, EndOfArchive,
           ReadBlock, SealEntry, SkipData, EndSkip, ConstructImage, VerifyStamp,
           Starving, HeaderReady, BlockReady, PayloadRead, Throw
  <2>2. Lost(d)' \/ reverted'
    BY <1>1, <1>2, <2>1, LostKept
  <2>3. QED
    BY <2>1, <2>2 DEF Doubtful
<1>6. QED
  BY <1>3, <1>4, <1>5

\* What was decoded stays what d means, or the file has lost some block of d.
LEMMA CertaintyKept ==
  ASSUME IInv, [Next]_vars, NEW d, DigestSeen(d), Certain(d), Accepted, pc' # "failed",
         AcceptedStep \/ UNCHANGED openVars
  PROVE  Doubtful(d)' \/ Certain(d)'
<1>1. TypeOK
  BY DEF IInv
<1>2. pc \in Decoding => phase = "pre"
  BY DEF IInv, PhaseFits
<1>3. CASE FillBuffer
  <2>1. phase = "pre" /\ pc' # "returned"
    BY <1>2, <1>3 DEF FillBuffer, Starving, Decoding
  <2>2. QED
    BY <1>1, <1>3, <2>1, FillBinds DEF Doubtful
<1>4. CASE NextHeader
  BY <1>1, <1>2, <1>4, NextHeaderBinds DEF NextHeader, HeaderReady, Decoding
<1>5. CASE EndOfArchive
  BY <1>1, <1>2, <1>5, EndOfArchiveBinds DEF EndOfArchive, HeaderReady, Decoding
<1>6. CASE ReadBlock
  BY <1>1, <1>2, <1>6, ReadBlockBinds DEF ReadBlock, BlockReady, Decoding
<1>7. CASE SealEntry
  BY <1>1, <1>2, <1>7, SealEntryBinds DEF SealEntry, PayloadRead, Decoding
<1>8. CASE SkipData
  BY <1>1, <1>2, <1>8, SkipDataBinds DEF SkipData, Decoding
<1>9. CASE EndSkip
  BY <1>1, <1>2, <1>9, EndSkipBinds DEF EndSkip, Decoding
<1>10. CASE ConstructImage
  BY <1>10, ConstructImageBinds
<1>11. CASE HashChunk \/ HashDone \/ VerifyStamp \/ SealPackage
  <2>1. /\ pc' \in {"hash", "reverify", "returned"}
        /\ UNCHANGED <<phase, image, snapshot>>
    BY <1>11 DEF HashChunk, HashDone, VerifyStamp, SealPackage, Throw
  <2>2. Decodes(d)'
    BY <2>1 DEF Certain, Decodes
  <2>3. QED
    BY <2>1, <2>2 DEF Certain
<1>12. CASE UNCHANGED openVars
  <2>1. /\ UNCHANGED <<pc, phase, reader, current, contents, entries, image, snapshot>>
        /\ Consumed' = Consumed
    BY <1>12 DEF openVars, Consumed
  <2>2. BufferMatches(d) => BufferMatches(d)'
    BY <2>1 DEF BufferMatches
  <2>3. \A h : ReadsEntry(d, h) => ReadsEntry(d, h)'
    BY <2>1 DEF ReadsEntry, Current
  <2>4. Decodes(d)'
    BY <2>1, <2>2, <2>3 DEF Certain, Decodes
  <2>5. QED
    BY <2>1, <2>4 DEF Certain
<1>13. QED
  BY <1>3, <1>4, <1>5, <1>6, <1>7, <1>8, <1>9, <1>10, <1>11, <1>12 DEF AcceptedStep

\* The digest stays bound to what was decoded.
LEMMA BoundKept ==
  ASSUME IInv, Binding, [Next]_vars, Accepted'
  PROVE  \E d \in digest' : Bound(d)'
<1>1. CASE FirstDigest
  BY <1>1, FirstDigestBinds DEF Accepted
<1>2. CASE ~FirstDigest
  <2>1. /\ Accepted /\ UNCHANGED <<digest, before>>
        /\ AcceptedStep \/ UNCHANGED openVars
    BY <1>2, AcceptedBefore
  <2>2. PICK d \in digest : Bound(d)
    BY <2>1 DEF Binding
  <2>3. /\ digest = {d} /\ DigestSeen(d)
        /\ reverted \/ Doubtful(d) \/ Certain(d)
    BY <2>2 DEF Bound
  <2>4. DigestSeen(d)'
    BY <2>1, <2>3, DigestSeenKept DEF IInv
  <2>5. reverted' \/ Doubtful(d)' \/ Certain(d)'
    <3>1. CASE reverted
      BY <3>1, RevertedKept DEF IInv
    <3>2. CASE Doubtful(d)
      BY <2>1, <2>3, <3>2, DoubtKept
    <3>3. CASE Certain(d)
      BY <2>1, <2>3, <3>3, CertaintyKept DEF Accepted
    <3>4. QED
      BY <2>3, <3>1, <3>2, <3>3
  <2>6. QED
    BY <2>1, <2>3, <2>4, <2>5 DEF Bound
<1>3. QED
  BY <1>1, <1>2

\* Nothing is decoded before the first digest is accepted.
LEMMA FreshKept ==
  ASSUME IInv, Fresh, [Next]_vars
  PROVE  Fresh'
BY DEF Fresh, Next, EditSource, Open, Step, Fault, Terminated, vars, openVars, Throw,
       ReadStamp, HashChunk, HashTruncated, HashDone, FirstDigest, FillBuffer,
       Starving, InputEnds, NextHeader, HeaderReady, EndOfArchive, ReadBlock,
       BlockReady, SealEntry, WrongSize, SkipData, EndSkip, ConstructImage,
       VerifyStamp, SealPackage, IInv, PhaseFits, Decoding

\* What a pass has hashed stays seen.
LEMMA HashSeenKept ==
  ASSUME IInv, Len(file) <= MaxLength, HashSeen, [Next]_vars
  PROVE  HashSeen'
<1>1. CASE HashChunk
  BY <1>1, HashChunkSeen DEF IInv
<1>2. ASSUME hash' = hash, pc \in {"hash", "reverify"}
      PROVE  HashSeen'
  <2>1. TypeOK /\ hash.offset <= MaxLength /\ hash.offset \in Nat
    BY <1>2 DEF IInv, TypeOK, HashSeen
  <2>2. ASSUME NEW i \in 1..hash.offset
        PROVE  Seen(i, {hash.blocks[i]})'
    <3>1. i \in 1..MaxLength /\ Seen(i, {hash.blocks[i]})
      BY <1>2, <2>1, BoundsAssumption DEF HashSeen
    <3>2. PICK cell : cell = {hash.blocks[i]}
      OBVIOUS
    <3>3. Seen(i, cell)'
      BY <2>1, <3>1, <3>2, SeenKept
    <3>4. QED
      BY <1>2, <3>2, <3>3 DEF Seen
  <2>3. QED
    BY <1>2, <2>1, <2>2 DEF HashSeen
<1>3. ASSUME hash' = NewHash
      PROVE  HashSeen'
  BY <1>3, BoundsAssumption DEF NewHash, HashSeen
<1>4. ASSUME ~HashChunk, pc' \in {"hash", "reverify"}
      PROVE  hash' = NewHash \/ (hash' = hash /\ pc \in {"hash", "reverify"})
  BY <1>4 DEF Next, EditSource, Open, Step, Fault, Terminated, vars, openVars, Throw,
       ReadStamp, HashTruncated, HashDone, FirstDigest, FillBuffer,
       Starving, InputEnds, NextHeader, HeaderReady, EndOfArchive, ReadBlock,
       BlockReady, SealEntry, WrongSize, SkipData, EndSkip, ConstructImage,
       VerifyStamp, SealPackage, IInv, HashFits
<1>5. CASE pc' \notin {"hash", "reverify"}
  BY <1>5 DEF HashSeen
<1>6. QED
  BY <1>1, <1>2, <1>3, <1>4, <1>5

\* The inductive invariant behind the binding of receipt and image.
THEOREM BindingInvariance == Spec => []Binding
<1>1. Init => Binding
  <2>1. SUFFICES ASSUME Init
                 PROVE  Binding
    OBVIOUS
  <2>2. Len(file) <= MaxLength
    BY <2>1, ArchivesAssumption DEF Init, SourceInit
  <2>3. Fresh /\ HashSeen /\ ~Accepted
    BY <2>1 DEF Init, InitOpen, Fresh, HashSeen, Accepted, Decoding
  <2>4. QED
    BY <2>2, <2>3 DEF Binding
<1>2. IInv /\ Binding /\ [Next]_vars => Binding'
  <2>1. SUFFICES ASSUME IInv, Binding, [Next]_vars
                 PROVE  Binding'
    OBVIOUS
  <2>2. Len(file') <= MaxLength
    BY <2>1, LengthKept DEF Binding, IInv
  <2>3. Fresh' /\ HashSeen'
    BY <2>1, FreshKept, HashSeenKept DEF Binding
  <2>4. Accepted' => \E d \in digest' : Bound(d)'
    BY <2>1, BoundKept
  <2>5. QED
    BY <2>2, <2>3, <2>4 DEF Binding
<1>3. QED
  BY <1>1, <1>2, Invariance, PTL DEF Spec

\* The image returned is what the bytes of the receipt mean, even if the file
\* was edited at any moment of the call, unless some block was changed and
\* changed back.
THEOREM ReceiptBinding == Spec => []ReceiptBindsImage
<1>1. ASSUME IInv, Binding, ~reverted, NEW r \in receipt
      PROVE  image = Decode(r.archiveDigest).value
  <2>1. /\ pc = "returned" /\ phase = "post"
        /\ receipt = {r} /\ digest = {r.archiveDigest}
    BY <1>1 DEF IInv, ReceiptFits, PhaseFits
  <2>2. PICK d \in digest : Bound(d)
    BY <1>1, <2>1 DEF Binding, Accepted
  <2>3. Certain(d) /\ d = r.archiveDigest
    BY <1>1, <2>1, <2>2 DEF Bound, Doubtful
  <2>4. QED
    BY <2>1, <2>3 DEF Certain, Decodes
<1>2. IInv /\ Binding => ReceiptBindsImage
  BY <1>1 DEF ReceiptBindsImage
<1>3. QED
  BY <1>2, Invariance, BindingInvariance, PTL

-----------------------------------------------------------------------------
(***************************************************************************)
(* open implements the contract of an inspection: every step is a step of  *)
(* the contract, or a stutter.                                             *)
(***************************************************************************)

Status == IF pc \in {"idle"} \union Finished THEN pc ELSE "running"

Result == {[digest |-> r.archiveDigest, image |-> CHOOSE i \in image : TRUE] : r \in receipt}

\* Most steps before the end are not seen.
LEMMA ProgressStutters ==
  ASSUME IInv, UNCHANGED <<sourceVars, snapshot>>, receipt' = {},
         pc \in Active, pc' \in Active
  PROVE  UNCHANGED Promise!contractVars
<1>1. receipt = {}
  BY DEF IInv, ReceiptFits, Active
<1>2. Status' = Status
  BY DEF Status, Active, Finished
<1>3. Result' = Result
  BY <1>1 DEF Result
<1>4. UNCHANGED <<file, reverted, Status, snapshot, Result>>
  BY <1>2, <1>3 DEF sourceVars
<1>5. QED
  BY <1>4 DEF Promise!contractVars, Status, Result

\* A call that throws fails.
LEMMA ThrowFails ==
  ASSUME IInv, UNCHANGED <<sourceVars, snapshot>>, receipt' = {},
         pc \in Active, pc' = "failed"
  PROVE  Promise!Fail
<1>1. receipt = {}
  BY DEF IInv, ReceiptFits, Active
<1>2. Status = "running" /\ Status' = "failed"
  BY DEF Status, Active, Finished
<1>3. Result' = Result
  BY <1>1 DEF Result
<1>4. QED
  BY <1>2, <1>3 DEF Promise!Fail, Status, Result, sourceVars

\* Accepting the first digest is the moment the call looks at the file.
LEMMA FirstDigestLooks ==
  ASSUME IInv, Binding, FirstDigest
  PROVE  Promise!Look \/ Promise!Fail
<1>1. pc = "reverify" /\ receipt = {} /\ receipt' = receipt /\ snapshot = {}
      /\ UNCHANGED <<sourceVars, image>>
  BY DEF FirstDigest, IInv, ReceiptFits, Binding, Fresh
<1>2. CASE pc' = "failed"
  <2>1. FirstError # {}
    BY <1>1, <1>2 DEF FirstDigest
  <2>2. snapshot' = {}
    BY <2>1 DEF FirstDigest
  <2>3. QED
    BY <1>1, <1>2, <2>2, ThrowFails DEF Active
<1>3. CASE pc' # "failed"
  <2>1. pc' = "header" /\ snapshot' = {file}
    BY <1>3 DEF FirstDigest, Throw
  <2>2. Status = "running" /\ Status' = Status
    BY <1>1, <2>1 DEF Status, Finished
  <2>3. Result' = Result
    BY <1>1 DEF Result
  <2>4. QED
    BY <1>1, <2>1, <2>2, <2>3 DEF Promise!Look, Status, Result, sourceVars
<1>4. QED
  BY <1>2, <1>3

\* Sealing the package returns what was looked at, and what it means.
LEMMA SealReturns ==
  ASSUME IInv, Binding, IInv', SealPackage
  PROVE  Promise!Return \/ Promise!Fail
<1>1. /\ pc = "reverify" /\ phase = "post"
      /\ UNCHANGED <<sourceVars, digest, image, snapshot>>
      /\ pc' \in {"returned", "failed"}
  BY DEF SealPackage, Throw
<1>2. CASE pc' = "failed"
  BY <1>1, <1>2, ThrowFails DEF IInv, ReceiptFits, Active
<1>3. CASE pc' = "returned"
  <2>1. SealsAgree
    BY <1>3 DEF SealPackage, SealError, Throw
  <2>2. PICK r : receipt' = {r} /\ digest' = {r.archiveDigest}
    BY <1>3 DEF IInv, ReceiptFits
  <2>3. PICK i : image = {i}
    BY <1>1 DEF IInv, ImageFits
  <2>4. reverted \/ (snapshot = {r.archiveDigest} /\ Decode(r.archiveDigest).value = {i})
    <3>1. PICK d \in digest : Bound(d)
      BY <1>1 DEF Binding, Accepted
    <3>2. digest = {d} /\ d = r.archiveDigest
      BY <1>1, <2>2, <3>1 DEF Bound
    <3>3. ~Doubtful(d)
      BY <1>1, <2>1, <3>1, <3>2, LossIsNoticed DEF Bound, Doubtful
    <3>4. reverted \/ Certain(d)
      BY <3>1, <3>3 DEF Bound
    <3>5. QED
      BY <1>1, <2>3, <3>2, <3>4 DEF Certain, Decodes
  <2>5. PICK result : result = [digest |-> r.archiveDigest, image |-> i]
    OBVIOUS
  <2>6. Result' = {result}
    BY <1>1, <2>2, <2>3, <2>5 DEF Result
  <2>7. Status = "running" /\ Status' = "returned"
    BY <1>1, <1>3 DEF Status, Finished
  <2>8. reverted \/ (snapshot = {result.digest} /\ Decode(result.digest).value = {result.image})
    BY <2>4, <2>5
  <2>9. QED
    BY <1>1, <2>6, <2>7, <2>8 DEF Promise!Return, Status, Result, sourceVars
<1>4. QED
  BY <1>1, <1>2, <1>3

\* Every step of open is one of the contract.
LEMMA NextIsPromised ==
  ASSUME IInv, Binding, IInv', [Next]_vars
  PROVE  [Promise!Next]_(Promise!contractVars)
<1>1. CASE EditSource
  <2>1. /\ reverted => reverted'
        /\ UNCHANGED <<Status, snapshot, Result>>
    BY <1>1, RevertedStays DEF EditSource, openVars, Status, Result, IInv, TypeOK
  <2>2. Promise!Edit
    BY <2>1 DEF Promise!Edit, Status, Result
  <2>3. QED
    BY <2>2 DEF Promise!Next
<1>2. ASSUME NEW expected \in Requests, Open(expected)
      PROVE  Promise!Next
  <2>1. /\ Status = "idle" /\ Status' = "running"
        /\ UNCHANGED <<sourceVars, snapshot, Result>>
    BY <1>2 DEF Open, Status, Finished, Result
  <2>2. Promise!Start
    BY <2>1 DEF Promise!Start, Status, Result, sourceVars
  <2>3. QED
    BY <2>2 DEF Promise!Next
<1>3. CASE FirstDigest
  BY <1>3, FirstDigestLooks DEF Promise!Next
<1>4. CASE SealPackage
  BY <1>4, SealReturns DEF Promise!Next
<1>5. CASE Fault \/ (Step /\ ~FirstDigest /\ ~SealPackage)
  <2>1. UNCHANGED <<sourceVars, snapshot, receipt>> /\ pc \in Active
    BY <1>5 DEF Fault, Step, ReadStamp, HashChunk, HashTruncated, HashDone, FillBuffer,
       Starving, InputEnds, NextHeader, HeaderReady, EndOfArchive, ReadBlock,
       BlockReady, PayloadRead, SealEntry, WrongSize, SkipData, EndSkip,
       ConstructImage, VerifyStamp, Active
  <2>2. pc' \in Active \union {"failed"}
    BY <1>5, <2>1 DEF Fault, Step, ReadStamp, HashChunk, HashTruncated, HashDone, FillBuffer,
       InputEnds, NextHeader, EndOfArchive, ReadBlock, SealEntry, WrongSize, SkipData,
       EndSkip, ConstructImage, VerifyStamp, Throw, Active
  <2>3. receipt' = {}
    BY <2>1 DEF IInv, ReceiptFits, Active
  <2>4. QED
    BY <2>1, <2>2, <2>3, ProgressStutters, ThrowFails DEF Promise!Next
<1>6. CASE Terminated \/ UNCHANGED vars
  <2>1. UNCHANGED <<file, reverted, Status, snapshot, Result>>
    BY <1>6 DEF Terminated, vars, openVars, sourceVars, Status, Result
  <2>2. QED
    BY <2>1 DEF Promise!contractVars, Status, Result
<1>7. QED
  BY <1>1, <1>2, <1>3, <1>4, <1>5, <1>6 DEF Next

\* open is as good as atomic: it looks at the file once, and returns the digest
\* and the image of what it saw, or fails.
THEOREM Implementation == Spec => InspectsAtomically
<1>1. Init => Promise!Init
  BY DEF Init, InitOpen, SourceInit, Promise!Init
<1>2. IInv /\ Binding /\ IInv' /\ [Next]_vars => [Promise!Next]_(Promise!contractVars)
  BY NextIsPromised
<1>3. QED
  BY <1>1, <1>2, Invariance, BindingInvariance, PTL DEF Spec, InspectsAtomically, Promise!Spec

-----------------------------------------------------------------------------
(***************************************************************************)
(* What the reference says of an archive that cannot be read.              *)
(***************************************************************************)

\* A header that does not normalize throws one exception.
LEMMA HeaderFault ==
  ASSUME NEW blocks \in Seq(Block), NEW h \in 1..Len(blocks),
         NEW kind \in NormalizeEntry(RawHeader[blocks[h]]).error
  PROVE  EntryOf(blocks, h).error = {kind}
<1>1. \A raw : \A k \in NormalizeError(raw) : NormalizeError(raw) = {k}
  BY DEF NormalizeError
<1>2. NormalizeEntry(RawHeader[blocks[h]]).error = {kind}
  BY <1>1 DEF NormalizeEntry, Ok
<1>3. QED
  BY <1>2 DEF EntryOf, EntryOfHeader, Succeeds

\* What a fault of the payload makes of the entry.
LEMMA PayloadDecides ==
  ASSUME NEW blocks \in Seq(Block), NEW h \in 1..Len(blocks),
         NEW e, NormalizeEntry(RawHeader[blocks[h]]) = Ok(e),
         NEW kind, PayloadFault(blocks, h, e) = {kind}
  PROVE  EntryOf(blocks, h).error = {kind}
<1>1. /\ ValueOf(NormalizeEntry(RawHeader[blocks[h]])) = e
      /\ Succeeds(NormalizeEntry(RawHeader[blocks[h]]))
  BY DEF ValueOf, Ok, Succeeds
<1>2. QED
  BY <1>1 DEF EntryOf, EntryOfHeader

-----------------------------------------------------------------------------
(***************************************************************************)
(* The invariant of a call that nobody disturbs.                           *)
(***************************************************************************)

Calm == edits = 0 /\ faults = 0

\* The exception of a call that fails.
Deserved ==
  IF request \in {{}, {file}}
    THEN Decode(file).error
    ELSE {"complete_archive_digest_mismatch_error"}

\* Every hash pass hashes the file.
HashesFile ==
  pc \in {"hash", "reverify"} => \A k \in 1..hash.offset : hash.blocks[k] = file[k]

Undisturbed ==
  Calm =>
    /\ ~reverted
    /\ pc \notin {"idle", "open"} => before = Stamp
    /\ HashesFile
    /\ Accepted => digest = {file} /\ Certain(file)
    /\ pc = "data" => Len(contents) <= Current.size
    /\ pc = "failed" => error = Deserved

-----------------------------------------------------------------------------
(***************************************************************************)
(* The invariant is kept.                                                  *)
(***************************************************************************)

\* Nothing has disturbed the call before, if nothing has after a step.
LEMMA CalmBefore ==
  ASSUME TypeOK, [Next]_vars, Calm'
  PROVE  Calm /\ UNCHANGED sourceVars /\ ~Fault /\ Stamp' = Stamp
<1>1. edits \in Nat /\ faults \in Nat
  BY BoundsAssumption, FaultsAssumption DEF TypeOK, SourceTypeOK
<1>2. ~Edit
  <2>1. SUFFICES ASSUME Edit
                 PROVE  FALSE
    OBVIOUS
  <2>2. PICK blocks : Install(blocks)
    BY <2>1 DEF Edit, Overwrite, Truncate, Extend, Touch
  <2>3. edits' = edits + 1
    BY <2>2 DEF Install
  <2>4. QED
    BY <1>1, <2>3 DEF Calm
<1>3. ~Fault
  BY <1>1 DEF Calm, Fault
<1>4. UNCHANGED sourceVars
  BY <1>2, SourceSteps
<1>5. faults' = faults
  BY <1>3 DEF Next, EditSource, Open, Step, Terminated, vars, openVars,
       ReadStamp, HashChunk, HashTruncated, HashDone, FirstDigest, FillBuffer,
       InputEnds, NextHeader, EndOfArchive, ReadBlock, SealEntry, WrongSize,
       SkipData, EndSkip, ConstructImage, VerifyStamp, SealPackage
<1>6. QED
  BY <1>3, <1>4, <1>5 DEF Calm, sourceVars, Stamp

\* The file holds what it holds.
LEMMA FileSeen ==
  ASSUME IInv, Binding, before = Stamp
  PROVE  /\ DigestSeen(file) /\ file \in Seq(Block)
         /\ ~Lost(file)
<1>1. file \in Seq(Block) /\ Len(file) <= MaxLength /\ Len(file) = before.size
  BY DEF IInv, TypeOK, SourceTypeOK, Binding, Stamp
<1>2. DigestSeen(file)
  BY <1>1 DEF DigestSeen, Seen, Cell
<1>3. ~Lost(file)
  <2>1. ASSUME NEW i \in 1..Len(file)
        PROVE  ~Gone(i, {file[i]})
    BY <1>1 DEF Gone, Cell
  <2>2. QED
    BY <2>1 DEF Lost
<1>4. QED
  BY <1>1, <1>2, <1>3

\* A hash pass that has ended has hashed the file.
LEMMA FileHashed ==
  ASSUME IInv, HashesFile, before = Stamp, pc = "reverify"
  PROVE  hash.blocks = file
<1>1. /\ hash.offset = Len(hash.blocks) /\ hash.offset = before.size
      /\ hash.blocks \in Seq(Block) /\ file \in Seq(Block)
      /\ before.size = Len(file)
  BY DEF IInv, TypeOK, SourceTypeOK, HashFits, Stamp
<1>2. \A k \in 1..Len(file) : hash.blocks[k] = file[k]
  BY <1>1 DEF HashesFile
<1>3. QED
  BY <1>1, <1>2, SeqEqual

\* Every step keeps that the blocks hashed so far are those of the file, as long
\* as the file is left alone.
LEMMA HashesFileKept ==
  ASSUME IInv, HashesFile, [Next]_vars, file' = file
  PROVE  HashesFile'
<1>1. CASE HashChunk
  <2>1. Grown(hash, hash', before.size) /\ pc = "hash"
    BY <1>1, HashChunkGrows DEF IInv, HashChunk
  <2>2. hash.offset \in Nat /\ hash'.offset \in Nat
    BY <2>1 DEF IInv, TypeOK, Grown
  <2>3. ASSUME NEW k \in 1..hash'.offset
        PROVE  hash'.blocks[k] = file[k]
    <3>1. CASE k <= hash.offset
      BY <2>1, <2>2, <3>1 DEF Grown, HashesFile
    <3>2. CASE ~(k <= hash.offset)
      BY <2>1, <2>2, <3>2 DEF Grown
    <3>3. QED
      BY <3>1, <3>2
  <2>4. QED
    BY <2>3 DEF HashesFile
<1>2. ASSUME ~HashChunk, pc' \in {"hash", "reverify"}
      PROVE  hash' = NewHash \/ (hash' = hash /\ pc \in {"hash", "reverify"})
  BY <1>2 DEF Next, EditSource, Open, Step, Fault, Terminated, vars, openVars, Throw,
       ReadStamp, HashTruncated, HashDone, FirstDigest, FillBuffer,
       Starving, InputEnds, NextHeader, HeaderReady, EndOfArchive, ReadBlock,
       BlockReady, SealEntry, WrongSize, SkipData, EndSkip, ConstructImage,
       VerifyStamp, SealPackage, IInv, HashFits
<1>3. CASE ~HashChunk
  BY <1>2, <1>3 DEF HashesFile, NewHash
<1>4. QED
  BY <1>1, <1>3

\* What is accepted is the file, and what is decoded is what it means.
LEMMA AcceptedKept ==
  ASSUME IInv, Binding, Binding', Undisturbed, [Next]_vars, Calm', Accepted'
  PROVE  digest' = {file} /\ Certain(file)'
<1>1. /\ Calm /\ UNCHANGED sourceVars /\ Stamp' = Stamp
      /\ ~reverted /\ ~reverted'
  BY CalmBefore DEF IInv, Undisturbed, sourceVars
<1>2. CASE FirstDigest
  <2>1. /\ pc = "reverify" /\ digest' = {hash.blocks} /\ pc' = "header"
        /\ before = Stamp
    BY <1>1, <1>2 DEF FirstDigest, Throw, Accepted, Undisturbed
  <2>2. digest' = {file}
    BY <1>1, <2>1, FileHashed DEF Undisturbed
  <2>3. PICK d \in digest' : Bound(d)'
    BY DEF Binding
  <2>4. d = file /\ (Doubtful(d)' \/ Certain(d)')
    BY <1>1, <2>2, <2>3 DEF Bound
  <2>5. ~Doubtful(file)'
    BY <1>1, <2>1, FileSeen DEF Doubtful, Lost, Gone, Cell, sourceVars
  <2>6. QED
    BY <1>1, <2>2, <2>4, <2>5 DEF sourceVars
<1>3. CASE ~FirstDigest
  <2>1. /\ Accepted /\ UNCHANGED <<digest, before>>
        /\ AcceptedStep \/ UNCHANGED openVars
    BY <1>3, AcceptedBefore
  <2>2. before = Stamp /\ digest = {file} /\ Certain(file)
    BY <1>1, <2>1 DEF Undisturbed, Accepted, Decoding, IInv, PhaseFits
  <2>3. PICK d : d = file
    OBVIOUS
  <2>4. DigestSeen(d) /\ Certain(d) /\ pc' # "failed"
    BY <2>2, <2>3, FileSeen DEF Accepted
  <2>5. Doubtful(d)' \/ Certain(d)'
    BY <2>1, <2>4, CertaintyKept
  <2>6. ~Doubtful(d)'
    BY <1>1, <2>3 DEF Doubtful, Lost, Gone, Cell, sourceVars, IInv, TypeOK, SourceTypeOK
  <2>7. QED
    BY <1>1, <2>1, <2>2, <2>3, <2>5, <2>6 DEF sourceVars
<1>4. QED
  BY <1>2, <1>3

-----------------------------------------------------------------------------
(***************************************************************************)
(* Every failure of a call that nobody disturbs is deserved.               *)
(***************************************************************************)

\* What holds while the file is decoded.
LEMMA DecodingFile ==
  ASSUME IInv, Binding, Undisturbed, Calm, pc \in Decoding
  PROVE  /\ before = Stamp /\ TypeOK /\ phase = "pre"
         /\ DigestSeen(file) /\ Certain(file) /\ file \in Seq(Block)
         /\ before.size = Len(file)
         /\ Deserved = Decode(file).error
<1>1. phase = "pre" /\ before = Stamp /\ digest = {file} /\ Certain(file)
  BY DEF Undisturbed, Accepted, Decoding, IInv, PhaseFits
<1>2. request \in {{}, {file}}
  BY <1>1 DEF IInv, DigestFits
<1>3. QED
  BY <1>1, <1>2, FileSeen DEF Deserved, IInv, Stamp

\* The payload of a regular file has a declared size.
LEMMA DeclaredSize ==
  ASSUME IInv, Binding, Undisturbed, Calm, pc = "data"
  PROVE  Current.size \in Nat
<1>1. TypeOK /\ DigestSeen(file) /\ Certain(file)
  BY DecodingFile DEF Decoding
<1>2. PICK h \in 1..Consumed : ReadsEntry(file, h) /\ file[h] \in DOMAIN RawHeader
  BY <1>1, Reading
<1>3. NormalizeEntry(RawHeader[file[h]]) = Ok(Current) /\ Current.type = "regular"
  BY <1>2 DEF ReadsEntry
<1>4. RawHeader[file[h]].size \in Int
  BY <1>2, SizesAssumption
<1>5. QED
  BY <1>3, <1>4, RegularSize

\* The entry being read has a payload that is too long, too short or cut off.
LEMMA FaultyPayload ==
  ASSUME IInv, Binding, Undisturbed, Calm, InputEnds \/ WrongSize, pc # "header"
  PROVE  error' = Deserved
<1>1. pc \in {"data", "skip"} /\ pc \in Decoding
  BY DEF InputEnds, Starving, WrongSize, BlockReady, PayloadRead, Decoding
<1>2. /\ TypeOK /\ DigestSeen(file) /\ Certain(file) /\ file \in Seq(Block)
      /\ before.size = Len(file)
      /\ Deserved = Decode(file).error
  BY <1>1, DecodingFile
<1>3. PICK h \in 1..Consumed :
        /\ ListedUpTo(file, entries, h) /\ ReadsEntry(file, h)
        /\ h \in 1..Len(file) /\ file[h] \in DOMAIN RawHeader
        /\ RawHeader[file[h]].stored \in Nat
  BY <1>1, <1>2, Reading
<1>4. PICK stored \in Nat : stored = RawHeader[file[h]].stored
  BY <1>3
<1>5. PICK c \in Nat, left \in Nat : c = Consumed /\ left = reader.left /\ c <= Len(file)
  BY <1>1, <1>2, Reading
<1>6. PICK size, length :
        /\ size = Current.size
        /\ length = Len(PayloadAt(file, h))
  OBVIOUS
<1>7. c + left = h + stored /\ h \in Nat /\ h <= c
  BY <1>3, <1>4, <1>5 DEF ReadsEntry
<1>8. length = IF h + stored <= Len(file) THEN stored ELSE Len(file) - h
  BY <1>3, <1>4, <1>6, PayloadLength, <1>2
<1>9. NormalizeEntry(RawHeader[file[h]]) = Ok(Current)
  BY <1>3 DEF ReadsEntry
<1>10. pc = "data" => /\ Current.type = "regular"
                      /\ size \in Nat
                      /\ Len(contents) = c - h
                      /\ c - h <= size
  <2>1. SUFFICES ASSUME pc = "data"
                 PROVE  /\ Current.type = "regular"
                        /\ size \in Nat
                        /\ Len(contents) = c - h
                        /\ c - h <= size
    OBVIOUS
  <2>2. Current.type = "regular" /\ contents = SubSeq(file, h + 1, c)
    BY <1>3, <1>5, <2>1 DEF ReadsEntry
  <2>3. Len(SubSeq(file, h + 1, c)) = c - h
    BY <1>2, <1>5, <1>7
  <2>4. size \in Nat
    BY <1>6, <2>1, DeclaredSize
  <2>5. Len(contents) <= size
    BY <1>6, <2>1 DEF Undisturbed
  <2>6. QED
    BY <2>2, <2>3, <2>4, <2>5
<1>11. pc = "skip" => Current.type # "regular"
  BY <1>3 DEF ReadsEntry
<1>12. ASSUME NEW kind, PayloadFault(file, h, Current) = {kind}, error' = {kind}
       PROVE  error' = Deserved
  <2>1. EntryOf(file, h).error = {kind}
    BY <1>2, <1>3, <1>9, <1>12, PayloadDecides, SMTT(30)
  <2>2. ~Succeeds(EntryOf(file, h))
    BY <2>1 DEF Succeeds
  <2>3. Decode(file).error = {kind}
    BY <1>2, <1>3, <2>1, <2>2, EntryDecides
  <2>4. QED
    BY <1>2, <1>12, <2>3
<1>13. CASE InputEnds
  <2>1. reader.offset \in Nat /\ reader.offset <= Len(file) /\ reader.buffer = <<>>
    BY <1>1, <1>2, <1>13, Reading
       DEF InputEnds, Starving, Buffered, BufferMatches, Delivers, Reader
  <2>2. Drained(reader, before.size)
    BY <1>2, <1>13, <2>1, PreadSome DEF InputEnds, ReadSource, Drained
  <2>3. c = Len(file) /\ left > 0
    BY <1>1, <1>2, <1>5, <1>13, <2>1, <2>2
       DEF Drained, Consumed, Position, InputEnds, Starving
  <2>4. length = Len(file) - h /\ length < stored /\ length = c - h
    BY <1>2, <1>4, <1>5, <1>7, <1>8, <2>3
  <2>5. PayloadFault(file, h, Current) = {"archive_error"}
    <3>1. ~(Current.type = "regular" /\ length > size)
      BY <1>1, <1>5, <1>7, <1>10, <1>11, <2>4
    <3>2. QED
      BY <1>4, <1>6, <2>4, <3>1 DEF PayloadFault
  <2>6. error' = {"archive_error"}
    BY <1>13 DEF InputEnds, Throw
  <2>7. QED
    BY <1>12, <2>5, <2>6
<1>14. CASE WrongSize
  <2>1. pc = "data" /\ error' = {"declared_size_mismatch_error"}
    BY <1>14 DEF WrongSize, BlockReady, PayloadRead, Throw
  <2>2. CASE BlockReady /\ ~Fits
    <3>1. left > 0 /\ c + 1 <= Len(file)
      BY <1>1, <1>2, <1>5, <2>2, Reading, BufferWithin DEF BlockReady, Buffered
    <3>2. size = c - h
      BY <1>5, <1>6, <1>7, <1>10, <2>1, <2>2, SMTT(30) DEF Fits
    <3>3. length > size
      BY <1>2, <1>4, <1>5, <1>7, <1>8, <3>1, <3>2, SMTT(30)
    <3>4. PayloadFault(file, h, Current) = {"declared_size_mismatch_error"}
      BY <1>6, <1>10, <2>1, <3>3 DEF PayloadFault
    <3>5. QED
      BY <1>12, <2>1, <3>4
  <2>3. CASE PayloadRead /\ ~Complete
    <3>1. left = 0 /\ c - h # size
      BY <1>5, <1>6, <1>10, <2>3 DEF PayloadRead, Complete
    <3>2. /\ length = stored /\ ~(length < stored)
          /\ length < size /\ ~(length > size)
      BY <1>2, <1>4, <1>5, <1>7, <1>8, <1>10, <2>1, <3>1, SMTT(30)
    <3>3. PayloadFault(file, h, Current) = {"declared_size_mismatch_error"}
      BY <1>4, <1>6, <1>10, <2>1, <3>2 DEF PayloadFault
    <3>4. QED
      BY <1>12, <2>1, <3>3
  <2>4. QED
    BY <1>14, <2>2, <2>3 DEF WrongSize
<1>15. QED
  BY <1>13, <1>14

\* Where a header is due, there is one that does not normalize, or none.
LEMMA FaultyHeader ==
  ASSUME IInv, Binding, Undisturbed, Calm, pc = "header",
         InputEnds \/ NextHeader \/ EndOfArchive, pc' = "failed"
  PROVE  error' = Deserved
<1>1. /\ TypeOK /\ DigestSeen(file) /\ Certain(file) /\ file \in Seq(Block)
      /\ before.size = Len(file)
      /\ Deserved = Decode(file).error
  BY DecodingFile DEF Decoding
<1>2. BufferMatches(file) /\ ListedUpTo(file, entries, Consumed + 1)
  BY <1>1 DEF Certain, Decodes
<1>3. PICK c \in Nat : /\ c = Consumed /\ c <= Len(file)
                       /\ reader.buffer # <<>> =>
                            c + 1 \in 1..Len(file) /\ Head(reader.buffer) = file[c + 1]
  BY <1>1, <1>2, BufferWithin
<1>4. PICK offset \in Nat : offset = reader.offset /\ offset <= Len(file)
  BY <1>1, <1>2, BufferWithin DEF BufferMatches, Delivers
<1>5. ~InputEnds
  BY <1>1, <1>4, PreadSome DEF InputEnds, ReadSource, Drained
<1>6. CASE NextHeader
  <2>1. reader.buffer # <<>> /\ Head(reader.buffer) \in DOMAIN RawHeader
    BY <1>6 DEF NextHeader, HeaderStatus, Buffered
  <2>2. PICK kind \in NormalizeEntry(RawHeader[file[c + 1]]).error : error' = {kind}
    BY <1>3, <1>6, <2>1 DEF NextHeader, Throw, CurrentHeader
  <2>3. EntryOf(file, c + 1).error = {kind}
    BY <1>1, <1>3, <2>1, <2>2, HeaderFault, ZenonT(30)
  <2>4. ~Succeeds(EntryOf(file, c + 1))
    BY <2>3 DEF Succeeds
  <2>5. QED
    BY <1>1, <1>2, <1>3, <2>1, <2>2, <2>3, <2>4, EntryDecides
<1>7. CASE EndOfArchive
  <2>1. /\ HeaderStatus(reader) \notin {"OK", "EOF"} /\ error' = {"archive_error"}
        /\ Buffered(reader) \/ Drained(reader, before.size)
    BY <1>7 DEF EndOfArchive, HeaderReady, Throw
  <2>2. CASE reader.buffer # <<>>
    <3>1. file[c + 1] \notin DOMAIN RawHeader /\ file[c + 1] # EndMark
      BY <1>3, <2>1, <2>2 DEF HeaderStatus, Buffered
    <3>2. QED
      BY <1>1, <1>2, <1>3, <2>1, <2>2, <3>1, StrayDecides
  <2>3. CASE reader.buffer = <<>>
    <3>1. offset = 0 /\ offset >= before.size
      BY <1>4, <2>1, <2>3 DEF HeaderStatus, Buffered, Drained
    <3>2. file = <<>>
      BY <1>1, <3>1
    <3>3. QED
      BY <1>1, <2>1, <3>2 DEF Decode, Fail
  <2>4. QED
    BY <2>2, <2>3
<1>8. QED
  BY <1>5, <1>6, <1>7

\* The image is what Decode constructs, valid or not.
LEMMA ConstructImageDecides ==
  ASSUME IInv, Binding, Undisturbed, Calm, ConstructImage
  PROVE  /\ Deserved = Decode(file).error
         /\ pc' = "failed" => error' = Decode(file).error
<1>1. pc = "close" /\ pc \in Decoding
  BY DEF ConstructImage, Decoding
<1>2. /\ Certain(file) /\ Deserved = Decode(file).error
  BY <1>1, DecodingFile
<1>3. file # <<>> /\ EntriesFrom(file)[1] = Ok(entries)
  BY <1>1, <1>2 DEF Certain, Decodes
<1>4. Succeeds(Ok(entries)) /\ ValueOf(Ok(entries)) = entries
  BY DEF Succeeds, ValueOf, Ok
<1>5. Decode(file) = Construct(entries)
  BY <1>3, <1>4 DEF Decode
<1>6. \A kind \in Construct(entries).error : Construct(entries).error = {kind}
  BY DEF Construct, Ok, Fail
<1>7. QED
  BY <1>2, <1>5, <1>6 DEF ConstructImage, Throw

\* Nothing keeps the package from being sealed.
LEMMA NothingToRefuse ==
  ASSUME IInv, Binding, Undisturbed, Calm, pc = "reverify", phase = "post"
  PROVE  SealError = {}
<1>1. before = Stamp /\ digest = {file} /\ Certain(file)
  BY DEF Undisturbed, Accepted
<1>2. hash.blocks = file
  BY <1>1, FileHashed DEF Undisturbed
<1>3. file \in Seq(Block)
  BY <1>1, FileSeen
<1>4. image = Decode(file).value /\ Succeeds(Decode(file))
  BY <1>1 DEF Certain, Decodes
<1>5. Succeeds(EntriesFrom(file)[1]) /\ Decode(file) = Construct(ValueOf(EntriesFrom(file)[1]))
  <2>1. ~Succeeds(Fail("archive_error"))
    BY DEF Succeeds, Fail
  <2>2. QED
    BY <1>4, <2>1 DEF Decode
<1>6. PICK list \in Seq(EntriesOf(file)) : EntriesFrom(file)[1] = Ok(list)
  BY <1>3, <1>5, EntriesListed
<1>7. Decode(file) = Construct(list)
  BY <1>5, <1>6 DEF ValueOf, Ok
<1>8. PICK i : i = [n \in 1..Len(list) |-> [list[n] EXCEPT !.id = n - 1]]
  OBVIOUS
<1>9. image = {i} /\ ValidImage(i)
  BY <1>1, <1>4, <1>7, <1>8, Constructed
<1>10. Len(i) # 0
  <2>1. i # <<>>
    BY <1>9 DEF ValidImage
  <2>2. Len(i) = Len(list) /\ i \in Seq({i[n] : n \in 1..Len(list)})
    BY <1>6, <1>8
  <2>3. QED
    BY <2>1, <2>2
<1>11. SealedReceipt.error = {}
  BY <1>9, <1>10 DEF SealedReceipt, Receipt, Ok
<1>12. QED
  BY <1>1, <1>2, <1>11 DEF SealError, SealsAgree

\* A call that fails undisturbed fails for what its file deserves.
LEMMA FailureDeserved ==
  ASSUME IInv, Binding, Undisturbed, [Next]_vars, Calm', pc # "failed", pc' = "failed"
  PROVE  error' = Deserved
<1>1. /\ Calm /\ ~Fault
      /\ Step
  <2>1. Calm /\ ~Fault
    BY CalmBefore DEF IInv
  <2>2. ~(EditSource \/ Terminated \/ UNCHANGED vars)
    BY DEF EditSource, Terminated, vars, openVars
  <2>3. ~(\E expected \in Requests : Open(expected))
    BY DEF Open
  <2>4. QED
    BY <2>1, <2>2, <2>3 DEF Next
<1>2. pc \notin {"idle", "open"} => before = Stamp
  BY <1>1 DEF Undisturbed
<1>3. ~HashTruncated
  <2>1. SUFFICES ASSUME HashTruncated
                 PROVE  FALSE
    OBVIOUS
  <2>2. /\ hash.offset \in Nat /\ file \in Seq(Block)
        /\ before.size \in Nat
        /\ hash.offset < before.size
        /\ before.size = Len(file)
        /\ <<>> \in HashPread
    BY <1>2, <2>1 DEF HashTruncated, IInv, TypeOK, SourceTypeOK, Stamp
  <2>3. QED
    BY <2>2, PreadSome DEF HashPread
<1>4. ~VerifyStamp
  BY <1>2 DEF VerifyStamp, Throw
<1>5. ~SealPackage
  <2>1. SUFFICES ASSUME SealPackage
                 PROVE  FALSE
    OBVIOUS
  <2>2. SealError = {}
    BY <1>1, <2>1, NothingToRefuse DEF SealPackage
  <2>3. QED
    BY <2>1, <2>2 DEF SealPackage, Throw
<1>6. CASE FirstDigest
  <2>1. pc = "reverify" /\ before = Stamp
    BY <1>2, <1>6 DEF FirstDigest
  <2>2. hash.blocks = file
    BY <1>1, <2>1, FileHashed DEF Undisturbed
  <2>3. PICK kind \in FirstError : error' = {kind}
    BY <1>6 DEF FirstDigest, Throw
  <2>4. QED
    BY <2>1, <2>2, <2>3 DEF FirstError, Deserved
<1>7. CASE InputEnds \/ WrongSize \/ NextHeader \/ EndOfArchive
  BY <1>1, <1>7, FaultyPayload, FaultyHeader
     DEF NextHeader, EndOfArchive, HeaderReady, WrongSize, BlockReady, PayloadRead
<1>8. CASE ConstructImage
  BY <1>1, <1>8, ConstructImageDecides
<1>9. CASE \/ ReadStamp \/ HashChunk \/ HashDone \/ FillBuffer
           \/ ReadBlock \/ SealEntry \/ SkipData \/ EndSkip
  BY <1>9 DEF ReadStamp, HashChunk, HashDone, FillBuffer, ReadBlock, SealEntry,
              SkipData, EndSkip
<1>10. QED
  BY <1>1, <1>3, <1>4, <1>5, <1>6, <1>7, <1>8, <1>9 DEF Step

\* What a payload has so far is within its declared size.
LEMMA ContentWithin ==
  ASSUME IInv, [Next]_vars, pc' = "data",
         pc = "data" => Current.size \in Nat /\ Len(contents) <= Current.size
  PROVE  Len(contents') <= Current'.size
<1>1. CASE NextHeader
  <2>1. contents' = <<>>
    BY <1>1 DEF NextHeader
  <2>2. PICK e : /\ NormalizeEntry(CurrentHeader(reader)) = Ok(e)
                 /\ current' = {e} /\ e.type = "regular"
    <3>1. PICK e : /\ current' = NormalizeEntry(CurrentHeader(reader)).value
                   /\ e \in current'
                   /\ pc' = IF e.type = "regular" THEN "data" ELSE "skip"
      BY <1>1 DEF NextHeader, Throw
    <3>2. NormalizeEntry(CurrentHeader(reader)) = Ok(e)
      BY <3>1, NormalizedHeader
    <3>3. NormalizeEntry(CurrentHeader(reader)).value = {e}
      BY <3>2 DEF Ok
    <3>4. e.type = "regular"
      BY <3>1
    <3>5. current' = {e}
      BY <3>1, <3>3
    <3>6. QED
      BY <3>2, <3>4, <3>5
  <2>3. Current' = e
    BY <2>2 DEF Current
  <2>4. CurrentHeader(reader).size \in Int
    BY <1>1, SizesAssumption DEF NextHeader, HeaderStatus, CurrentHeader
  <2>5. e.size \in Nat
    BY <2>2, <2>4, RegularSize
  <2>6. QED
    BY <2>1, <2>3, <2>5
<1>2. CASE ReadBlock
  <2>1. /\ contents \in Seq(Block) /\ contents' = Append(contents, Head(reader.buffer))
        /\ pc = "data" /\ 1 <= Current.size - Len(contents) /\ Current' = Current
    BY <1>2 DEF ReadBlock, BlockReady, Fits, Current, IInv, TypeOK
  <2>2. Len(contents') = Len(contents) + 1 /\ Len(contents) \in Nat
    BY <2>1
  <2>3. QED
    BY <2>1, <2>2
<1>3. CASE ~NextHeader /\ ~ReadBlock
  <2>1. pc = "data" /\ UNCHANGED <<contents, current>>
    BY <1>3 DEF Next, EditSource, Open, Step, Fault, Terminated, vars, openVars, Throw,
       ReadStamp, HashChunk, HashTruncated, HashDone, FirstDigest, FillBuffer,
       Starving, InputEnds, HeaderReady, EndOfArchive, PayloadRead,
       BlockReady, SealEntry, WrongSize, SkipData, EndSkip, ConstructImage,
       VerifyStamp, SealPackage
  <2>2. QED
    BY <2>1 DEF Current
<1>4. QED
  BY <1>1, <1>2, <1>3

\* Every step of an undisturbed open leaves what it has read in agreement
\* with the reference.
LEMMA UndisturbedKept ==
  ASSUME IInv, IInv', Binding, Binding', Undisturbed, [Next]_vars
  PROVE  Undisturbed'
<1>1. SUFFICES ASSUME Calm'
               PROVE  /\ ~reverted'
                      /\ pc' \notin {"idle", "open"} => before' = Stamp'
                      /\ HashesFile'
                      /\ Accepted' => digest' = {file'} /\ Certain(file)'
                      /\ pc' = "data" => Len(contents') <= Current'.size
                      /\ pc' = "failed" => error' = Deserved'
  BY DEF Undisturbed
<1>2. /\ Calm /\ UNCHANGED sourceVars /\ Stamp' = Stamp /\ ~Fault
      /\ file' = file /\ ~reverted'
  BY <1>1, CalmBefore DEF IInv, Undisturbed, sourceVars
<1>3. pc' \notin {"idle", "open"} => before' = Stamp'
  BY <1>2 DEF Undisturbed, Next, EditSource, Open, Step, Terminated, vars, openVars, Throw,
       ReadStamp, HashChunk, HashTruncated, HashDone, FirstDigest, FillBuffer,
       Starving, InputEnds, NextHeader, HeaderReady, EndOfArchive, ReadBlock,
       BlockReady, PayloadRead, SealEntry, WrongSize, SkipData, EndSkip,
       ConstructImage, VerifyStamp, SealPackage
<1>4. HashesFile'
  BY <1>2, HashesFileKept DEF Undisturbed
<1>5. Accepted' => digest' = {file'} /\ Certain(file)'
  BY <1>1, <1>2, AcceptedKept
<1>6. pc' = "data" => Len(contents') <= Current'.size
  BY <1>2, DeclaredSize, ContentWithin DEF Undisturbed
<1>7. pc' = "failed" => error' = Deserved'
  <2>1. SUFFICES ASSUME pc' = "failed"
                 PROVE  error' = Deserved'
    OBVIOUS
  <2>2. CASE pc # "failed"
    <3>1. error' = Deserved /\ Step
      BY <1>1, <1>2, <2>1, <2>2, FailureDeserved
         DEF Next, EditSource, Open, Terminated, vars, openVars
    <3>2. request' = request
      BY <3>1 DEF Step, ReadStamp, HashChunk, HashTruncated, HashDone, FirstDigest,
         FillBuffer, InputEnds, NextHeader, EndOfArchive, ReadBlock, SealEntry,
         WrongSize, SkipData, EndSkip, ConstructImage, VerifyStamp, SealPackage
    <3>3. QED
      BY <1>2, <3>1, <3>2 DEF Deserved
  <2>3. CASE pc = "failed"
    <3>1. UNCHANGED openVars
      BY <1>2, <2>3 DEF Next, EditSource, Open, Step, Terminated, vars,
         ReadStamp, HashChunk, HashTruncated, HashDone, FirstDigest, FillBuffer,
         Starving, InputEnds, NextHeader, HeaderReady, EndOfArchive, ReadBlock,
         BlockReady, PayloadRead, SealEntry, WrongSize, SkipData, EndSkip,
         ConstructImage, VerifyStamp, SealPackage
    <3>2. error = Deserved
      BY <1>2, <2>3 DEF Undisturbed
    <3>3. QED
      BY <1>2, <3>1, <3>2 DEF openVars, Deserved
  <2>4. QED
    BY <2>2, <2>3
<1>8. QED
  BY <1>2, <1>3, <1>4, <1>5, <1>6, <1>7

\* The inductive invariant behind the verdict of open.
THEOREM UndisturbedInvariance == Spec => []Undisturbed
<1>1. Init => Undisturbed
  BY DEF Init, InitOpen, SourceInit, Undisturbed, HashesFile, Accepted, Decoding
<1>2. IInv /\ IInv' /\ Binding /\ Binding' /\ Undisturbed /\ [Next]_vars => Undisturbed'
  BY UndisturbedKept
<1>3. QED
  BY <1>1, <1>2, Invariance, BindingInvariance, PTL DEF Spec

\* With no edit and no failing call, open returns exactly when the file is an
\* archive with the digest asked for, with the image it holds, and otherwise
\* throws what that file deserves, however the reads are split.
THEOREM Verdict == Spec => []UndisturbedVerdict
<1>1. IInv /\ Undisturbed => UndisturbedVerdict
  <2>1. SUFFICES ASSUME IInv, Undisturbed, edits = 0, faults = 0
                 PROVE  /\ pc = "returned" => /\ request \in {{}, {file}}
                                              /\ image = Decode(file).value
                                              /\ Succeeds(Decode(file))
                        /\ pc = "failed" => error = Deserved
    BY DEF UndisturbedVerdict, Deserved
  <2>2. ASSUME pc = "returned"
        PROVE  /\ request \in {{}, {file}}
               /\ image = Decode(file).value
               /\ Succeeds(Decode(file))
    <3>1. phase = "post" /\ Accepted
      BY <2>1, <2>2 DEF IInv, PhaseFits, Accepted
    <3>2. digest = {file} /\ Certain(file)
      BY <2>1, <3>1 DEF Undisturbed, Calm
    <3>3. QED
      BY <2>1, <3>1, <3>2 DEF IInv, DigestFits, Certain, Decodes
  <2>3. QED
    BY <2>1, <2>2 DEF Undisturbed, Calm
<1>2. QED
  BY <1>1, Invariance, UndisturbedInvariance, PTL

=============================================================================
