--------------------------- MODULE LibarchiveOpen ---------------------------
(***************************************************************************)
(* libarchive_backend::open: stamp and hash the source, decode it into an  *)
(* image, check the stamp and hash it again, and only then seal stamp,     *)
(* receipt and image in a package.  The steps are those between two        *)
(* accesses to the file, which others may edit at any time.                *)
(***************************************************************************)
EXTENDS ArchiveMeaning, InspectionReceipt

CONSTANTS
  Archives,   \* the contents the file may have at first
  Requests,   \* the expected digests a caller may ask for; absent when {}
  MaxFaults   \* bound on failing system calls and libarchive calls

ASSUME FaultsAssumption == MaxFaults \in Nat

\* A caller may leave the digest open; the bounded file can hold each archive.
ASSUME RequestsAssumption == {} \in Requests
ASSUME ArchivesAssumption ==
  \A blocks \in Archives : blocks \in Seq(Block) /\ Len(blocks) <= MaxLength

VARIABLES
  pc,        \* where the call stands
  phase,     \* before ("pre") or after ("post") decoding
  request,   \* the expected archive digest, if the caller gave one
  before,    \* the stamp read first
  hash,      \* hash_source: offset, and the blocks hashed so far
  digest,    \* archive_digest, absent until the first pass has ended
  reader,    \* the archive reader
  current,   \* the entry being read, absent between entries
  contents,  \* its content hash; the length is its byte count
  entries,   \* the entries read so far
  image,     \* the constructed image, absent before
  receipt,   \* the receipt, absent until the call returns
  error,     \* the exception that ended the call, absent if none
  faults,    \* how many system and libarchive calls failed
  snapshot   \* ghost: the file when the first digest was accepted

openVars == <<pc, phase, request, before, hash, digest, reader, current,
              contents, entries, image, receipt, error, faults, snapshot>>
vars == <<sourceVars, openVars>>

Active == {"open", "hash", "reverify", "header", "data", "skip", "close", "verify"}
Finished == {"returned", "failed"}

NewHash == [offset |-> 0, blocks |-> <<>>]

InitOpen ==
  /\ pc = "idle"
  /\ phase = "pre"
  /\ request = {}
  /\ before = [size |-> 0, mtime |-> mtime]
  /\ hash = NewHash
  /\ digest = {}
  /\ reader = NewReader
  /\ current = {}
  /\ contents = <<>>
  /\ entries = <<>>
  /\ image = {}
  /\ receipt = {}
  /\ error = {}
  /\ faults = 0
  /\ snapshot = {}

Throw(kind) == pc' = "failed" /\ error' = {kind}

-----------------------------------------------------------------------------
\* open(request): open_source succeeds.
Open(expected) ==
  /\ pc = "idle"
  /\ pc' = "open"
  /\ request' = expected
  /\ UNCHANGED <<sourceVars, phase, before, hash, digest, reader, current,
                 contents, entries, image, receipt, error, faults, snapshot>>

\* read_source_stamp.
ReadStamp ==
  /\ pc = "open"
  /\ pc' = "hash"
  /\ before' = Stamp
  /\ UNCHANGED <<sourceVars, phase, request, hash, digest, reader, current,
                 contents, entries, image, receipt, error, faults, snapshot>>

\* One pread of hash_source.
HashPread == Pread(hash.offset, Least(before.size - hash.offset, Chunk))

HashChunk ==
  /\ pc = "hash"
  /\ hash.offset < before.size
  /\ \E blocks \in HashPread \ {<<>>} :
       hash' = [offset |-> hash.offset + Len(blocks),
                blocks |-> hash.blocks \o blocks]
  /\ UNCHANGED <<sourceVars, pc, phase, request, before, digest, reader,
                 current, contents, entries, image, receipt, error, faults, snapshot>>

\* No bytes before the size in the stamp.  (Variant: nothing is made of it.)
HashTruncatedUnnoticed == FALSE

HashTruncated ==
  /\ pc = "hash"
  /\ hash.offset < before.size
  /\ <<>> \in HashPread
  /\ Throw("source_changed_error")
  /\ UNCHANGED <<sourceVars, phase, request, before, hash, digest, reader,
                 current, contents, entries, image, receipt, faults, snapshot>>

HashDone ==
  /\ pc = "hash"
  /\ hash.offset >= before.size
  /\ pc' = "reverify"
  /\ UNCHANGED <<sourceVars, phase, request, before, hash, digest, reader,
                 current, contents, entries, image, receipt, error, faults, snapshot>>

\* verify_source after the first hash, then the caller's assertion.
FirstError ==
  IF Stamp # before THEN {"source_changed_error"}
  ELSE IF request \notin {{}, {hash.blocks}}
    THEN {"complete_archive_digest_mismatch_error"}
  ELSE {}

FirstDigest ==
  /\ pc = "reverify"
  /\ phase = "pre"
  /\ digest' = {hash.blocks}
  /\ \/ \E kind \in FirstError : Throw(kind)
     \/ FirstError = {} /\ pc' = "header" /\ UNCHANGED error
  /\ snapshot' = IF FirstError = {} THEN {file} ELSE {}
  /\ UNCHANGED <<sourceVars, phase, request, before, hash, reader, current,
                 contents, entries, image, receipt, faults>>

Starving ==
  /\ ~Buffered(reader)
  /\ pc = "header" \/ (pc \in {"data", "skip"} /\ reader.left > 0)

FillBuffer ==
  /\ Starving
  /\ ~Drained(reader, before.size)
  /\ \E blocks \in ReadSource(reader, before.size) \ {<<>>} :
       reader' = Refill(reader, blocks)
  /\ UNCHANGED <<sourceVars, pc, phase, request, before, hash, digest, current,
                 contents, entries, image, receipt, error, faults, snapshot>>

\* The source was truncated below its stamp, or ends inside a payload.
InputEnds ==
  /\ Starving
  /\ \/ ~Drained(reader, before.size) /\ <<>> \in ReadSource(reader, before.size)
     \/ Drained(reader, before.size) /\ pc # "header"
  /\ Throw("archive_error")
  /\ UNCHANGED <<sourceVars, phase, request, before, hash, digest, reader,
                 current, contents, entries, image, receipt, faults, snapshot>>

HeaderReady ==
  /\ pc = "header"
  /\ Buffered(reader) \/ Drained(reader, before.size)

\* The next header is normalized; the payload of a regular file is read, that
\* of anything else skipped.
NextHeader ==
  /\ HeaderReady
  /\ HeaderStatus(reader) = "OK"
  /\ reader' = TakeHeader(reader)
  /\ contents' = <<>>
  /\ LET actual == NormalizeEntry(CurrentHeader(reader))
     IN  /\ current' = actual.value
         /\ \/ \E kind \in actual.error : Throw(kind)
            \/ \E e \in actual.value :
                 /\ pc' = IF e.type = "regular" THEN "data" ELSE "skip"
                 /\ UNCHANGED error
  /\ UNCHANGED <<sourceVars, phase, request, before, hash, digest, entries,
                 image, receipt, faults, snapshot>>

\* The end mark, or a block that is no header.
EndOfArchive ==
  /\ HeaderReady
  /\ HeaderStatus(reader) # "OK"
  /\ \/ HeaderStatus(reader) = "FATAL" /\ Throw("archive_error")
     \/ HeaderStatus(reader) = "EOF" /\ pc' = "close" /\ UNCHANGED error
  /\ UNCHANGED <<sourceVars, phase, request, before, hash, digest, reader,
                 current, contents, entries, image, receipt, faults, snapshot>>

Current == CHOOSE e \in current : TRUE

BlockReady == pc = "data" /\ reader.left > 0 /\ Buffered(reader)

Fits == 1 <= Current.size - Len(contents)

\* archive_read_data returned a block within the declared size.
ReadBlock ==
  /\ BlockReady
  /\ Fits
  /\ contents' = Append(contents, Head(reader.buffer))
  /\ reader' = TakeBlock(reader)
  /\ UNCHANGED <<sourceVars, pc, phase, request, before, hash, digest, current,
                 entries, image, receipt, error, faults, snapshot>>

\* archive_read_data has no more, and the declared size was read.  (Variant:
\* a payload may be short.)
PayloadRead == pc = "data" /\ reader.left = 0

CompleteOrShort == TRUE

Complete == Len(contents) = Current.size

\* The payload is complete, or longer or shorter than declared.
SealEntry ==
  /\ PayloadRead
  /\ Complete
  /\ entries' = Append(entries, [Current EXCEPT !.content = {contents}])
  /\ current' = {}
  /\ pc' = "header"
  /\ UNCHANGED <<sourceVars, phase, request, before, hash, digest, reader,
                 contents, image, receipt, error, faults, snapshot>>

WrongSize ==
  /\ \/ BlockReady /\ ~Fits
     \/ PayloadRead /\ ~Complete
  /\ Throw("declared_size_mismatch_error")
  /\ UNCHANGED <<sourceVars, phase, request, before, hash, digest, reader,
                 current, contents, entries, image, receipt, faults, snapshot>>

SkipData ==
  /\ pc = "skip"
  /\ reader.left > 0
  /\ Buffered(reader)
  /\ reader' = SkipBlocks(reader)
  /\ UNCHANGED <<sourceVars, pc, phase, request, before, hash, digest, current,
                 contents, entries, image, receipt, error, faults, snapshot>>

EndSkip ==
  /\ pc = "skip"
  /\ reader.left = 0
  /\ entries' = Append(entries, Current)
  /\ current' = {}
  /\ pc' = "header"
  /\ UNCHANGED <<sourceVars, phase, request, before, hash, digest, reader,
                 contents, image, receipt, error, faults, snapshot>>

\* The reader is closed and the image constructed, or found invalid.
ConstructImage ==
  /\ pc = "close"
  /\ phase' = "post"
  /\ LET result == Construct(entries)
     IN  /\ image' = result.value
         /\ \/ \E kind \in result.error : Throw(kind)
            \/ Succeeds(result) /\ pc' = "verify" /\ UNCHANGED error
  /\ UNCHANGED <<sourceVars, request, before, hash, digest, reader, current,
                 contents, entries, receipt, faults, snapshot>>

\* verify_source after decoding; a second hash starts from the beginning.
VerifyStamp ==
  /\ pc = "verify"
  /\ \/ Stamp = before /\ pc' = "hash" /\ UNCHANGED error
     \/ Stamp # before /\ Throw("source_changed_error")
  /\ hash' = NewHash
  /\ UNCHANGED <<sourceVars, phase, request, before, digest, reader, current,
                 contents, entries, image, receipt, faults, snapshot>>

\* verify_source a last time, and the two digests must agree.  (Variant: only
\* the stamps must.)
SealsAgreeByStamp == Stamp = before

SealsAgree == Stamp = before /\ digest = {hash.blocks}

SealedReceipt ==
  LET sealed == CHOOSE i \in image : TRUE
  IN  Receipt(ValueOf(ParseBackend(BackendIdentity)), hash.blocks,
              Identify(sealed), Len(sealed))

SealError == IF SealsAgree THEN SealedReceipt.error ELSE {"source_changed_error"}

SealPackage ==
  /\ pc = "reverify"
  /\ phase = "post"
  /\ receipt' = IF SealError = {} THEN SealedReceipt.value ELSE {}
  /\ \/ SealError = {} /\ pc' = "returned" /\ UNCHANGED error
     \/ \E kind \in SealError : Throw(kind)
  /\ UNCHANGED <<sourceVars, phase, request, before, hash, digest, reader,
                 current, contents, entries, image, faults, snapshot>>

\* open, fstat, pread or a libarchive call fails, or the source is no
\* regular file; or SHA-256 fails where bytes or records are hashed: the
\* source, a payload, the image, and the receipt once the digests agree.
Fault ==
  /\ faults < MaxFaults
  /\ faults' = faults + 1
  /\ \/ pc \in Active /\ Throw("archive_error")
     \/ pc \in {"hash", "data", "close"} /\ Throw("digest_error")
     \/ pc = "reverify" /\ phase = "post" /\ SealsAgree /\ Throw("digest_error")
  /\ UNCHANGED <<sourceVars, phase, request, before, hash, digest, reader,
                 current, contents, entries, image, receipt, snapshot>>

\* archive_backend::inspect, once open has ended: the pair of image and
\* receipt, or what open has thrown.
Inspect ==
  IF pc = "failed" THEN [error |-> error, value |-> {}]
  ELSE InspectedImage(CHOOSE i \in image : TRUE, CHOOSE r \in receipt : TRUE)

EditSource == Edit /\ UNCHANGED openVars

Terminated == pc \in Finished /\ edits = MaxEdits /\ UNCHANGED vars

Init == (\E blocks \in Archives : \E time \in MTimes : SourceInit(blocks, time)) /\ InitOpen

Step ==
  \/ ReadStamp \/ HashChunk \/ HashTruncated \/ HashDone \/ FirstDigest
  \/ FillBuffer \/ InputEnds \/ NextHeader \/ EndOfArchive
  \/ ReadBlock \/ SealEntry \/ WrongSize \/ SkipData \/ EndSkip
  \/ ConstructImage \/ VerifyStamp \/ SealPackage

Next ==
  \/ EditSource
  \/ \E expected \in Requests : Open(expected)
  \/ Step
  \/ Fault
  \/ Terminated

Spec == Init /\ [][Next]_vars

-----------------------------------------------------------------------------
TypeOK ==
  /\ SourceTypeOK
  /\ pc \in {"idle"} \union Active \union Finished
  /\ phase \in {"pre", "post"}
  /\ request \in Requests
  /\ before \in [size : Nat, mtime : MTimes]
  /\ hash \in [offset : Nat, blocks : Seq(Block)]
  /\ digest \subseteq Seq(Block)
  /\ reader \in Reader
  /\ contents \in Seq(Block)
  /\ error \subseteq ErrorKind
  /\ faults \in 0..MaxFaults

\* The inductive invariant behind the soundness of the receipt: what each pass
\* over the file has established by the time the next one starts.
Decoding == {"header", "data", "skip", "close"}

HashFits ==
  /\ hash.offset = Len(hash.blocks)
  /\ pc \in {"idle", "open"} => hash = NewHash
  /\ pc \in {"hash", "reverify"} => hash.offset <= before.size
  /\ pc = "reverify" => hash.offset = before.size

PhaseFits ==
  /\ pc \in {"idle", "open"} \union Decoding => phase = "pre"
  /\ pc \in {"verify", "returned"} => phase = "post"

DigestFits ==
  pc \in Decoding \/ phase = "post" =>
    \A d \in digest : Len(d) = before.size /\ request \in {{}, {d}}

ContentFits(e) == \A d \in e.content : Len(d) = e.size

EntriesFit ==
  /\ entries \in Seq({entries[n] : n \in 1..Len(entries)})
  /\ \A n \in 1..Len(entries) : DOMAIN entries[n] = AllFields /\ ContentFits(entries[n])
  /\ pc \in {"data", "skip"} =>
       \E e \in current : current = {e} /\ DOMAIN e = AllFields /\ e.content = {}

ImageFits ==
  phase = "post" /\ pc # "failed" =>
    \E i \in image : /\ image = {i}
                     /\ ValidImage(i)
                     /\ \A n \in DOMAIN i : ContentFits(i[n])

ReceiptFits ==
  /\ pc # "returned" => receipt = {}
  /\ pc = "returned" =>
       \E r \in receipt :
         /\ receipt = {r}
         /\ digest = {r.archiveDigest}
         /\ \A i \in image : r.imageIdentity = Identify(i) /\ r.entryCount = Len(i)

IInv ==
  /\ TypeOK
  /\ HashFits /\ PhaseFits /\ DigestFits
  /\ EntriesFit /\ ImageFits /\ ReceiptFits

\* Nobody edits and no call below fails: open returns exactly when the file
\* is an archive with the digest asked for, with the image it holds, and
\* otherwise throws what that file deserves, however the reads are split.
UndisturbedVerdict ==
  (edits = 0 /\ faults = 0) =>
    /\ pc = "returned" => /\ request \in {{}, {file}}
                          /\ image = Decode(file).value
                          /\ Succeeds(Decode(file))
    /\ pc = "failed" => error = IF request \in {{}, {file}}
                                  THEN Decode(file).error
                                  ELSE {"complete_archive_digest_mismatch_error"}

\* The receipt binds the image to the bytes hashed: the image is what those
\* bytes mean, even if the file was edited at any moment of the call, unless
\* some block was changed and changed back.
ReceiptBindsImage ==
  ~reverted => \A r \in receipt : image = Decode(r.archiveDigest).value

\* Whatever was done to the file, changed back or not, the package returned is
\* consistent in itself: inspect() accepts the pair of image and receipt, the
\* receipt has the digest asked for, and content agrees with declared sizes.
ReceiptIsSound ==
  \A r \in receipt : \A i \in image :
    /\ Inspect = Ok([image |-> i, receipt |-> r])
    /\ request \in {{}, {r.archiveDigest}}
    /\ Len(r.archiveDigest) = before.size
    /\ ValidImage(i)
    /\ \A n \in DOMAIN i : \A d \in i[n].content : Len(d) = i[n].size

\* open is as good as atomic: unless some block was changed and changed back,
\* a receipt names the bytes the file held at one moment of the call, all of
\* them at once, and the image is theirs, although three passes over the file
\* were made and others edited it in between.
Promise == INSTANCE InspectionContract WITH
  Meaning <- LAMBDA blocks : Decode(blocks).value,
  status  <- IF pc \in {"idle"} \union Finished THEN pc ELSE "running",
  result  <- {[digest |-> r.archiveDigest, image |-> CHOOSE i \in image : TRUE] : r \in receipt}

InspectsAtomically == Promise!Spec

=============================================================================
