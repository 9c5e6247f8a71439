-------------------------- MODULE LibarchiveReplay --------------------------
(***************************************************************************)
(* package_archive::replay of the libarchive backend: verify the retained  *)
(* source against the inspected stamp and digest, decode it again through  *)
(* a fresh reader, hand the payload of the selected entries to the sink,   *)
(* and verify the source once more.                                        *)
(*                                                                         *)
(* Callers run replay calls at the same time on one package; each has the  *)
(* locals of one activation, and they share the descriptor and the sealed  *)
(* package only.  A step is what happens between two accesses to the file, *)
(* or between two calls of the sink.                                       *)
(***************************************************************************)
EXTENDS LibarchiveReader, EntrySelection, PayloadSink

CONSTANTS
  Callers,    \* the concurrent calls of replay
  Packages,   \* the packages that may have been opened: stamp, digest, image
  Selections, \* the selections callers hold, of this image or of another
  MaxFaults   \* bound on failing system calls and libarchive calls

ASSUME FaultsAssumption == MaxFaults \in Nat

\* What open seals: ids are the positions in the image.
ASSUME PackagesAssumption ==
  \A p \in Packages :
    /\ p.stamp \in [size : Nat, mtime : MTimes]
    /\ p.digest \in Seq(Block)
    /\ Len(p.image) \in Nat
    /\ \A i \in 1..Len(p.image) : p.image[i].id = i - 1

\* The digest is that of a file of the size in the stamp (hash_source reads no
\* more and no less), which the bounded file can hold; an entry has a natural
\* size and at most one content.
ASSUME SealedAssumption ==
  \A p \in Packages :
    /\ Len(p.digest) = p.stamp.size
    /\ Len(p.digest) <= MaxLength
    /\ \A i \in 1..Len(p.image) : /\ p.image[i].size \in Nat
                                  /\ \A d, e \in p.image[i].content : d = e

\* What from_ids returns: ids within the image it was given, and the entries of
\* these ids, sorted by id, none twice.
ASSUME SelectionsAssumption ==
  \A s \in Selections : /\ s.imageSize \in Nat
                        /\ \A id \in s.selected : id \in Nat /\ id < s.imageSize

ASSUME SelectedAssumption ==
  \A s \in Selections :
    /\ \A id \in s.selected : \E j \in DOMAIN s.entries : s.entries[j].id = id
    /\ Len(s.entries) \in Nat /\ DOMAIN s.entries = 1..Len(s.entries)
    /\ \A j \in DOMAIN s.entries : s.entries[j].id \in s.selected
    /\ \A i, j \in DOMAIN s.entries : i < j => s.entries[i].id < s.entries[j].id

VARIABLES
  package,    \* the sealed members of the package: stamp, digest, image
  pc,         \* where each call stands
  selection,  \* its argument, absent before the call
  phase,      \* verifying before ("pre") or after ("post") decoding
  hash,       \* hash_source: offset, and the blocks hashed so far
  reader,     \* its archive reader
  index,      \* the ordinal of the current entry
  replayed,   \* how many selected entries were completed
  total,      \* payload blocks of the current entry emitted so far
  contents,   \* the content hash of the current entry: the blocks hashed
  sink,       \* what a recording sink has seen
  error,      \* the exception that ended the call, absent if none
  faults,     \* how many system and libarchive calls failed
  quiet,      \* ghost: the file was not edited since the call began
  genuine     \* ghost: every block decoded was the sealed one

callVars == <<pc, selection, phase, hash, reader, index, replayed, total,
              contents, sink, error, genuine>>
vars == <<sourceVars, package, callVars, faults, quiet>>

\* Where a call may stand.
Active == {"verify", "hash", "reverify", "header", "begin", "data", "skip", "close"}
Finished == {"returned", "failed"}
Location == {"idle"} \union Active \union Finished

NewHash == [offset |-> 0, blocks |-> <<>>]

InitCalls ==
  /\ pc = [c \in Callers |-> "idle"]
  /\ selection = [c \in Callers |-> {}]
  /\ phase = [c \in Callers |-> "pre"]
  /\ hash = [c \in Callers |-> NewHash]
  /\ reader = [c \in Callers |-> NewReader]
  /\ index = [c \in Callers |-> 0]
  /\ replayed = [c \in Callers |-> 0]
  /\ total = [c \in Callers |-> 0]
  /\ contents = [c \in Callers |-> <<>>]
  /\ sink = [c \in Callers |-> NewSink]
  /\ error = [c \in Callers |-> {}]
  /\ faults = 0
  /\ quiet = [c \in Callers |-> FALSE]
  /\ genuine = [c \in Callers |-> TRUE]

-----------------------------------------------------------------------------
\* The selection of call c, once it has begun.
Chosen(c) == CHOOSE s \in selection[c] : TRUE

\* The inspected entry at the current ordinal, absent past the end.
Expected(c) == EntryAt(package.image, index[c])

ExpectedEntry(c) == package.image[index[c] + 1]

Goto(c, location) == pc' = [pc EXCEPT ![c] = location]

\* An exception leaves replay.
Throw(c, kind) ==
  /\ pc' = [pc EXCEPT ![c] = "failed"]
  /\ error' = [error EXCEPT ![c] = {kind}]

\* replay(selection, sink) is called; selection.validate comes first.
Replay(c, s) ==
  /\ pc[c] = "idle"
  /\ selection' = [selection EXCEPT ![c] = {s}]
  /\ quiet' = [quiet EXCEPT ![c] = TRUE]
  /\ IF ValidFor(s, package.image)
       THEN Goto(c, "verify") /\ UNCHANGED error
       ELSE Throw(c, "selection_error")
  /\ UNCHANGED <<sourceVars, package, phase, hash, reader, index, replayed,
                 total, contents, sink, faults, genuine>>

\* Every hash starts from the beginning.  (Variant: the context is reused.)
StaleHash(c) == hash[c]

FreshHash(c) == NewHash

\* verify_source, before the bytes are hashed.
VerifyStamp(c) ==
  /\ pc[c] = "verify"
  /\ IF Stamp = package.stamp
       THEN Goto(c, "hash") /\ UNCHANGED error
       ELSE Throw(c, "source_changed_error")
  /\ hash' = [hash EXCEPT ![c] = FreshHash(c)]
  /\ UNCHANGED <<sourceVars, package, selection, phase, reader, index, replayed,
                 total, contents, sink, faults, quiet, genuine>>

\* One pread of hash_source.
HashPread(c) ==
  Pread(hash[c].offset, Least(package.stamp.size - hash[c].offset, Chunk))

HashChunk(c) ==
  /\ pc[c] = "hash"
  /\ hash[c].offset < package.stamp.size
  /\ \E blocks \in HashPread(c) \ {<<>>} :
       hash' = [hash EXCEPT ![c] = [offset |-> @.offset + Len(blocks),
                                    blocks |-> @.blocks \o blocks]]
  /\ UNCHANGED <<sourceVars, package, pc, selection, phase, reader, index,
                 replayed, total, contents, sink, error, faults, quiet, genuine>>

\* No bytes before the size in the stamp: the source was truncated.
\* (Variant: nothing is made of it.)
HashTruncatedUnnoticed(c) == FALSE

HashTruncated(c) ==
  /\ pc[c] = "hash"
  /\ hash[c].offset < package.stamp.size
  /\ <<>> \in HashPread(c)
  /\ Throw(c, "source_changed_error")
  /\ UNCHANGED <<sourceVars, package, selection, phase, hash, reader, index,
                 replayed, total, contents, sink, faults, quiet, genuine>>

HashDone(c) ==
  /\ pc[c] = "hash"
  /\ hash[c].offset >= package.stamp.size
  /\ Goto(c, "reverify")
  /\ UNCHANGED <<sourceVars, package, selection, phase, hash, reader, index,
                 replayed, total, contents, sink, error, faults, quiet, genuine>>

\* verify_source again, then the digests are compared.  (Variant: only the
\* stamp is.)
SealHoldsByStamp(c) == Stamp = package.stamp

SealHolds(c) == Stamp = package.stamp /\ hash[c].blocks = package.digest

\* Decoding starts after the first verification, and the call returns after
\* the second.
VerifySealed(c) ==
  /\ pc[c] = "reverify"
  /\ IF SealHolds(c)
       THEN /\ Goto(c, IF phase[c] = "pre" THEN "header" ELSE "returned")
            /\ UNCHANGED error
       ELSE Throw(c, "source_changed_error")
  /\ UNCHANGED <<sourceVars, package, selection, phase, hash, reader, index,
                 replayed, total, contents, sink, faults, quiet, genuine>>

\* The reader needs a block that is not buffered.
Starving(c) ==
  /\ ~Buffered(reader[c])
  /\ pc[c] = "header" \/ (pc[c] \in {"data", "skip"} /\ reader[c].left > 0)

\* Each reader has an offset of its own.  (Variant: the calls share the file
\* offset of the descriptor, as with read(2).)
AdvanceShared(c, blocks) ==
  [d \in Callers |->
     IF d = c THEN Refill(reader[d], blocks)
              ELSE [reader[d] EXCEPT !.offset = @ + Len(blocks)]]

Advance(c, blocks) == [reader EXCEPT ![c] = Refill(@, blocks)]

\* libarchive calls read_source.
FillBuffer(c) ==
  /\ Starving(c)
  /\ ~Drained(reader[c], package.stamp.size)
  /\ \E blocks \in ReadSource(reader[c], package.stamp.size) \ {<<>>} :
       /\ reader' = Advance(c, blocks)
       /\ genuine' = [genuine EXCEPT ![c] =
            @ /\ blocks = SubSeq(package.digest, reader[c].offset + 1,
                                 reader[c].offset + Len(blocks))]
  /\ UNCHANGED <<sourceVars, package, pc, selection, phase, hash, index,
                 replayed, total, contents, sink, error, faults, quiet>>

\* A source that was truncated below its stamp is an archive error here.
SourceTruncated(c) ==
  /\ Starving(c)
  /\ ~Drained(reader[c], package.stamp.size)
  /\ <<>> \in ReadSource(reader[c], package.stamp.size)
  /\ Throw(c, "archive_error")
  /\ UNCHANGED <<sourceVars, package, selection, phase, hash, reader, index,
                 replayed, total, contents, sink, faults, quiet, genuine>>

\* archive_read_next_header may answer.
HeaderReady(c) ==
  /\ pc[c] = "header"
  /\ Buffered(reader[c]) \/ Drained(reader[c], package.stamp.size)

\* What replay finds wrong with a header: nothing when it normalizes to the
\* inspected entry of the same ordinal.
HeaderError(c) ==
  LET actual == NormalizeEntry(CurrentHeader(reader[c]))
  IN  IF Expected(c) = {} THEN {"source_changed_error"}
      ELSE IF ~Succeeds(actual) THEN actual.error
      ELSE IF ~SameEntryHeader([ValueOf(actual) EXCEPT !.id = index[c]],
                               ExpectedEntry(c))
        THEN {"source_changed_error"}
      ELSE {}

NextHeader(c) ==
  /\ HeaderReady(c)
  /\ HeaderStatus(reader[c]) = "OK"
  /\ reader' = [reader EXCEPT ![c] = TakeHeader(@)]
  /\ \/ \E kind \in HeaderError(c) : Throw(c, kind)
     \/ /\ HeaderError(c) = {}
        /\ Goto(c, IF Contains(Chosen(c), ExpectedEntry(c).id) THEN "begin" ELSE "skip")
        /\ UNCHANGED error
  /\ UNCHANGED <<sourceVars, package, selection, phase, hash, index, replayed,
                 total, contents, sink, faults, quiet, genuine>>

\* No further header: a read error, or the end, where the counts must agree.
\* (Variant: they are not compared.)
CountsIgnored(c) == TRUE

CountsAgree(c) ==
  /\ index[c] = Len(package.image)
  /\ replayed[c] = SelectionSize(Chosen(c))

EndError(c) ==
  IF HeaderStatus(reader[c]) = "FATAL" THEN {"archive_error"}
  ELSE IF ~CountsAgree(c) THEN {"source_changed_error"}
  ELSE {}

EndOfArchive(c) ==
  /\ HeaderReady(c)
  /\ HeaderStatus(reader[c]) # "OK"
  /\ \/ \E kind \in EndError(c) : Throw(c, kind)
     \/ EndError(c) = {} /\ Goto(c, "close") /\ UNCHANGED error
  /\ UNCHANGED <<sourceVars, package, selection, phase, hash, reader, index,
                 replayed, total, contents, sink, faults, quiet, genuine>>

\* sink.begin returns; the content hash and the byte count start afresh.
Begin(c) ==
  /\ pc[c] = "begin"
  /\ sink' = [sink EXCEPT ![c] = SinkBegin(@, ExpectedEntry(c).id)]
  /\ total' = [total EXCEPT ![c] = 0]
  /\ contents' = [contents EXCEPT ![c] = <<>>]
  /\ Goto(c, "data")
  /\ UNCHANGED <<sourceVars, package, selection, phase, hash, reader, index,
                 replayed, error, faults, quiet, genuine>>

\* A payload block is at hand: archive_read_data has returned it.
BlockReady(c) == pc[c] = "data" /\ reader[c].left > 0 /\ Buffered(reader[c])

\* It fits the declared size of the entry.  (Variant: one block too many does.)
FitsOneMore(c) == total[c] <= ExpectedEntry(c).size

Fits(c) == 1 <= ExpectedEntry(c).size - total[c]

\* sink.write takes it.
WriteBlock(c) ==
  LET block == Head(reader[c].buffer)
  IN  /\ BlockReady(c)
      /\ Fits(c)
      /\ reader' = [reader EXCEPT ![c] = TakeBlock(@)]
      /\ sink' = [sink EXCEPT ![c] = SinkWrite(@, block)]
      /\ contents' = [contents EXCEPT ![c] = Append(@, block)]
      /\ total' = [total EXCEPT ![c] = @ + 1]
      /\ UNCHANGED <<sourceVars, package, pc, selection, phase, hash, index,
                     replayed, error, faults, quiet, genuine>>

PayloadExceeds(c) ==
  /\ BlockReady(c)
  /\ ~Fits(c)
  /\ Throw(c, "declared_size_mismatch_error")
  /\ UNCHANGED <<sourceVars, package, selection, phase, hash, reader, index,
                 replayed, total, contents, sink, faults, quiet, genuine>>

\* The payload is complete: what replay finds wrong with it.  (Variant: the
\* content is not compared.)
PayloadErrorBySize(c) ==
  IF total[c] # ExpectedEntry(c).size THEN {"declared_size_mismatch_error"} ELSE {}

PayloadError(c) ==
  IF total[c] # ExpectedEntry(c).size THEN {"declared_size_mismatch_error"}
  ELSE IF ExpectedEntry(c).content = {} THEN {"source_changed_error"}
  ELSE IF contents[c] \notin ExpectedEntry(c).content
    THEN {"regular_payload_digest_mismatch_error"}
  ELSE {}

PayloadRead(c) == pc[c] = "data" /\ reader[c].left = 0

\* sink.end is called for an entry whose payload was accepted, and returns.
EndEntry(c) ==
  /\ PayloadRead(c)
  /\ PayloadError(c) = {}
  /\ sink' = [sink EXCEPT ![c] = SinkEnd(@, ExpectedEntry(c).id)]
  /\ replayed' = [replayed EXCEPT ![c] = @ + 1]
  /\ index' = [index EXCEPT ![c] = @ + 1]
  /\ Goto(c, "header")
  /\ UNCHANGED <<sourceVars, package, selection, phase, hash, reader, total,
                 contents, error, faults, quiet, genuine>>

PayloadRejected(c) ==
  /\ PayloadRead(c)
  /\ \E kind \in PayloadError(c) : Throw(c, kind)
  /\ UNCHANGED <<sourceVars, package, selection, phase, hash, reader, index,
                 replayed, total, contents, sink, faults, quiet, genuine>>

\* begin, write or end throws; the exception propagates unchanged.
SinkThrows(c) ==
  /\ \/ pc[c] = "begin"
     \/ BlockReady(c) /\ Fits(c)
     \/ PayloadRead(c) /\ PayloadError(c) = {}
  /\ Throw(c, "sink_exception")
  /\ UNCHANGED <<sourceVars, package, selection, phase, hash, reader, index,
                 replayed, total, contents, sink, faults, quiet, genuine>>

\* archive_read_data_skip over an entry that is not selected.
SkipData(c) ==
  /\ pc[c] = "skip"
  /\ reader[c].left > 0
  /\ Buffered(reader[c])
  /\ reader' = [reader EXCEPT ![c] = SkipBlocks(@)]
  /\ UNCHANGED <<sourceVars, package, pc, selection, phase, hash, index,
                 replayed, total, contents, sink, error, faults, quiet, genuine>>

EndSkip(c) ==
  /\ pc[c] = "skip"
  /\ reader[c].left = 0
  /\ index' = [index EXCEPT ![c] = @ + 1]
  /\ Goto(c, "header")
  /\ UNCHANGED <<sourceVars, package, selection, phase, hash, reader, replayed,
                 total, contents, sink, error, faults, quiet, genuine>>

\* The archive ends inside a payload: archive_read_data, or the skip, fails.
PayloadTruncated(c) ==
  /\ Starving(c)
  /\ pc[c] # "header"
  /\ Drained(reader[c], package.stamp.size)
  /\ Throw(c, "archive_error")
  /\ UNCHANGED <<sourceVars, package, selection, phase, hash, reader, index,
                 replayed, total, contents, sink, faults, quiet, genuine>>

\* archive_read_close, and on to the second verification.
CloseReader(c) ==
  /\ pc[c] = "close"
  /\ phase' = [phase EXCEPT ![c] = "post"]
  /\ Goto(c, "verify")
  /\ UNCHANGED <<sourceVars, package, selection, hash, reader, index, replayed,
                 total, contents, sink, error, faults, quiet, genuine>>

\* fstat, pread or a libarchive call fails, or SHA-256 where bytes are hashed.
Fault(c) ==
  /\ faults < MaxFaults
  /\ faults' = faults + 1
  /\ \/ pc[c] \in Active \ {"begin"} /\ Throw(c, "archive_error")
     \/ pc[c] \in {"hash", "data"} /\ Throw(c, "digest_error")
  /\ UNCHANGED <<sourceVars, package, selection, phase, hash, reader, index,
                 replayed, total, contents, sink, quiet, genuine>>

\* Somebody edits the file.
EditSource ==
  /\ Edit
  /\ quiet' = [c \in Callers |-> FALSE]
  /\ UNCHANGED <<package, callVars, faults>>

\* Every call has ended and nobody edits the file any more.
Terminated ==
  /\ \A c \in Callers : pc[c] \in Finished
  /\ edits = MaxEdits
  /\ UNCHANGED vars

Init ==
  /\ package \in Packages
  /\ SourceInit(package.digest, package.stamp.mtime)
  /\ InitCalls

\* What a call does once it is under way.
Step(c) ==
  \/ VerifyStamp(c) \/ HashChunk(c) \/ HashTruncated(c) \/ HashDone(c)
  \/ VerifySealed(c) \/ FillBuffer(c) \/ SourceTruncated(c) \/ NextHeader(c) \/ EndOfArchive(c)
  \/ Begin(c) \/ WriteBlock(c) \/ PayloadExceeds(c)
  \/ EndEntry(c) \/ PayloadRejected(c) \/ SinkThrows(c)
  \/ SkipData(c) \/ EndSkip(c) \/ PayloadTruncated(c) \/ CloseReader(c)

Next ==
  \/ EditSource
  \/ \E c \in Callers : \/ \E s \in Selections : Replay(c, s)
                        \/ Step(c)
                        \/ Fault(c)
  \/ Terminated

Spec == Init /\ [][Next]_vars

-----------------------------------------------------------------------------
\* Type correctness of the calls and of the sealed package.
TypeOK ==
  /\ SourceTypeOK
  /\ package \in Packages
  /\ pc \in [Callers -> Location]
  /\ selection \in [Callers -> SUBSET Selections]
  /\ phase \in [Callers -> {"pre", "post"}]
  /\ hash \in [Callers -> [offset : Nat, blocks : Seq(Block)]]
  /\ reader \in [Callers -> Reader]
  /\ index \in [Callers -> Nat]
  /\ replayed \in [Callers -> Nat]
  /\ total \in [Callers -> Nat]
  /\ contents \in [Callers -> Seq(Block)]
  /\ sink \in [Callers -> [open : SUBSET Nat, written : Seq(Block),
                           ended : Seq([id : Nat, content : Seq(Block)])]]
  /\ error \in [Callers -> SUBSET (ErrorKind \union {"sink_exception"})]
  /\ faults \in 0..MaxFaults
  /\ quiet \in [Callers -> BOOLEAN]
  /\ genuine \in [Callers -> BOOLEAN]

\* The inductive invariant behind the two properties below.  Where a call
\* stands determines its position in the image, what the sink has open, and
\* which of the selected entries it has ended.
Decoding == {"header", "begin", "data", "skip"}

WithinImage(c) ==
  /\ index[c] <= Len(package.image)
  /\ pc[c] \in {"begin", "data", "skip"} => index[c] < Len(package.image)
  /\ pc[c] = "close" \/ phase[c] = "post" => index[c] = Len(package.image)

PhaseFits(c) ==
  /\ pc[c] \in Decoding \union {"idle", "close"} => phase[c] = "pre"
  /\ pc[c] = "returned" => phase[c] = "post"
  /\ pc[c] \in {"idle", "verify", "hash", "reverify"} /\ phase[c] = "pre"
       => index[c] = 0

SelectionFits(c) ==
  /\ pc[c] \in Active \union {"returned"} =>
       \E s \in Selections : selection[c] = {s} /\ s.imageSize = Len(package.image)
  /\ pc[c] \in {"begin", "data"} => index[c] \in Chosen(c).selected
  /\ pc[c] = "skip" => index[c] \notin Chosen(c).selected

SinkFits(c) ==
  /\ pc[c] \notin {"data", "failed"} => sink[c].open = {}
  /\ pc[c] = "data" => /\ sink[c].open = {index[c]}
                       /\ sink[c].written = contents[c]

EndedSoFar(c) ==
  /\ pc[c] = "idle" => sink[c].ended = <<>>
  /\ \A i \in 1..Len(sink[c].ended) :
       /\ sink[c].ended[i].id < index[c]
       /\ sink[c].ended[i].content
            \in package.image[sink[c].ended[i].id + 1].content
  /\ \A i, j \in 1..Len(sink[c].ended) :
       i < j => sink[c].ended[i].id < sink[c].ended[j].id
  /\ pc[c] \in Active \union {"returned"} =>
       \A id \in 0..(index[c] - 1) :
         (id \in Chosen(c).selected
            <=> \E i \in 1..Len(sink[c].ended) : sink[c].ended[i].id = id)

CallInvariant(c) ==
  /\ WithinImage(c)
  /\ PhaseFits(c)
  /\ SelectionFits(c)
  /\ SinkFits(c)
  /\ EndedSoFar(c)

IInv == TypeOK /\ \A c \in Callers : CallInvariant(c)

\* Every entry a sink has seen ended is a regular entry of the inspected image
\* and was written exactly the content it had when the archive was inspected,
\* whatever was done to the file in between.
EndedIsSealed ==
  \A c \in Callers : \A i \in DOMAIN sink[c].ended :
    \E e \in EntryAt(package.image, sink[c].ended[i].id) :
      sink[c].ended[i].content \in e.content

\* A call that returns has ended each selected entry, each once and in archive
\* order, and nothing else.
ReturnedIsComplete ==
  \A c \in Callers : pc[c] = "returned" =>
    /\ EndedIds(sink[c]) = Chosen(c).selected
    /\ \A i, j \in DOMAIN sink[c].ended :
         i < j => sink[c].ended[i].id < sink[c].ended[j].id
    /\ sink[c].open = {}

\* What a sink has seen ended is what the selection it was called for names: the
\* same entry with the same content, so a selection of another archive delivers
\* nothing that the other archive did not hold.
DeliveredIsSelected ==
  \A c \in Callers : \A i \in DOMAIN sink[c].ended :
    \E j \in DOMAIN Chosen(c).entries :
      LET named == Chosen(c).entries[j]
      IN  sink[c].ended[i] = [id |-> named.id, content |-> named.content]

\* A source that had already changed, in its bytes or in its stamp, when the
\* call began, and was left alone since, never reaches the sink: the call ends
\* with source_changed_error, even if the stamp was restored.
StaleSourceIsRefused ==
  \A c \in Callers :
    (quiet[c] /\ (Stamp # package.stamp \/ file # package.digest)) =>
      /\ sink[c] = NewSink
      /\ pc[c] # "returned"
      /\ pc[c] = "failed" /\ faults = 0 =>
           error[c] \subseteq {"source_changed_error", "selection_error"}

\* Without an edit, a failing call below or an exception of the sink, a replay
\* of a selection of this image does not fail: decoding again agrees with the
\* inspection however the reads are split.
NoSpuriousFailure ==
  \A c \in Callers :
    (edits = 0 /\ faults = 0 /\ pc[c] = "failed") =>
      \/ error[c] = {"sink_exception"}
      \/ error[c] = {"selection_error"} /\ ~ValidFor(Chosen(c), package.image)

\* A call returns only if every block it decoded, of selected and of skipped
\* entries, was the sealed one, unless some block was changed and changed back.
AcceptedIsGenuine ==
  \A c \in Callers : (pc[c] = "returned" /\ ~reverted) => genuine[c]

\* REPLAY.md: "In-place changes affecting the retained source stamp are
\* reported as source_changed_error".
StampChangeIsReported ==
  [][\A c \in Callers :
       (pc[c] \in Active /\ pc'[c] = "failed" /\ faults' = 0
          /\ Stamp # package.stamp /\ error'[c] # {"sink_exception"})
         => error'[c] = {"source_changed_error"}]_vars

-----------------------------------------------------------------------------
\* How a call appears to the owner of its sink.
Status(c) == IF pc[c] \in Active THEN "running" ELSE pc[c]

Contract(c) ==
  INSTANCE PayloadContract WITH
    image    <- package.image,
    selected <- UNION {s.selected : s \in selection[c]},
    sink     <- sink[c],
    status   <- Status(c)

\* Each call keeps the promise made to its sink: it implements PayloadContract
\* (the conjunction over the calls of Contract(c)!Spec, with the quantifier
\* inside the box).
KeepsContract ==
  /\ \A c \in Callers : Contract(c)!Init
  /\ [][\A c \in Callers : Contract(c)!Step]_vars

=============================================================================
