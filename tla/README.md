# A TLA+ development of libpkgimage

libpkgimage reads a package archive (a possibly compressed tar file), turns its
headers into a validated, immutable *image*, binds that image to the exact
bytes it came from with a *receipt*, and later *replays* the payload of
selected regular files to a *sink*. The file stays open between the two, and
other processes may write to it at any time. This directory models that
machinery, model-checks it with TLC, and proves its central promises with
TLAPS.

Paths below are relative to the root of the repository.

## The system

| component | source | state it keeps | operations |
|---|---|---|---|
| libarchive backend, inspection | `src/libarchive_backend.cpp` `open`, `inspect_source` | locals of one call: stamp, two digests, entries | `open(request)` |
| libarchive backend, replay | `src/libarchive_backend.cpp` `libarchive_package::replay` | sealed members of the package; locals per call: reader, ordinal, counts, hashes | `replay(selection, sink)` |
| archive reader | `reader_context`, `read_source`, libarchive | offset, buffered bytes, rest of the current payload | read callback, next header, read data, skip data, close |
| retained source | one descriptor, `read_source_stamp` | the file: bytes and modification time | `fstat`, `pread`; edits by others |
| package image | `src/package_image.cpp` | entries, identity (immutable) | construct, entry, find, identity |
| package entry, normalization | `src/package_entry.cpp`, `normalize_entry` | a value | normalize, compare |
| package path | `src/package_path.cpp` | a value | parse, filename, parent, is_ancestor_of |
| entry selection | `src/entry_selection.cpp` | a value: identity and size of the image, ids, entries | from_ids, all_regular, contains, validate |
| payload sink | `include/libpkgimage/payload_sink.h` | the consumer's | begin, write, end |
| inspection receipt | `src/inspection_receipt.cpp` | a value | construct, pair with an image |
| backend interface | `src/archive_backend.cpp` | none | open, inspect (forwarding) |
| digests | `src/digest.cpp` | values | `string`, `parse` |
| identity writer, SHA-256 | `src/identity_writer.cpp`, `src/sha256.cpp` | a hash context | write a field, update, finish |
| errors | `include/libpkgimage/error.h` | values | exception classes |

Interactions. A consumer calls `open`; the backend drives libarchive, which
calls back `read_source`, which reads the retained descriptor with `pread`.
`open` returns a package whose members never change again. Consumers make
selections from its image and call `replay`, possibly from several threads;
each call has a reader of its own and calls the sink synchronously. All calls
share the descriptor, and with every other process of the machine they share
the file.

What is hard here is not in any one function. It is the file that changes
between two accesses of `open` or `replay`, an edit that hides behind a restored
modification time, reads that return less than was asked for, a failure after
half a payload was delivered, two replays over one descriptor, skipped payloads
that are covered only by the last verification, and loops that end only because
a count of zero is treated as an error. The hazards of `PROJECT.json` name the
lines.

What makes the components correct:

- *open*: returns a package exactly for the archives that deserve one, and the
  receipt names bytes whose meaning is the image;
- *replay*: an entry that was ended had the inspected content; a call that
  returned delivered the whole selection in order; a stale source never reaches
  the sink; nothing fails without a cause; every call ends;
- *the pair*: what `open` accepts, `replay` accepts, however reads are split;
- *image, entry, selection*: validation accepts what DESIGN.md describes, and
  identities tell images and receipts apart;
- *path, digest text*: a value has one spelling, parsing finds it or refuses the
  text, and ancestry is what climbing by `parent` meets.

## Modules

| module | models |
|---|---|
| `Outcome` | exceptions as values: `Ok(v)`, `Fail(kind)`; optionals are sets of at most one element |
| `PackagePath` | `package_path::parse` on the pieces between separators |
| `PathScan` | `package_path` character by character: the scan of `parse`, `filename`, `parent`, `is_ancestor_of` |
| `PackageEntry` | raw headers, `normalize_entry` with the order of its checks, `same_entry_header`, `operator==` |
| `PackageImage` | `validate_entry`, `construct`, `entry`, `find`, `identify` by the fields it writes |
| `IdentityWriter` | `identity_writer`, and the bytes `identify` and `identify_receipt` write with it |
| `ImageConstruction` | the loops of `package_image::construct` and `identify`, and the receipts issued for the images |
| `DigestText` | `string` and `parse` of a digest |
| `EntrySelection` | `entry_selection` |
| `InspectionReceipt` | backend identity, receipt and inspected image |
| `ArchiveSource` | the file, its stamp, positional reads, the edits others make |
| `LibarchiveReader` | `read_source` and what libarchive does with the blocks it gets |
| `PayloadSink` | a sink that records what it is told |
| `LibarchiveOpen` | `libarchive_backend::open` |
| `LibarchiveReplay` | any number of concurrent calls of `replay` on one package |
| `PackageArchive` | `open` followed by `replay` calls over the same file (EXTENDS the first, INSTANCEs the second on what the first sealed) |
| `ArchiveMeaning` | reference: what a sequence of blocks means, read as a whole |
| `InspectionContract` | reference: inspection as one look at the whole file |
| `PayloadContract` | reference: what one call of `replay` owes its sink |
| `ArchiveMeaningProofs` | lemmas about the source, the reader and the reference meaning |
| `LibarchiveOpenProofs` | theorems about `LibarchiveOpen`: its invariant, the binding of image and receipt, the refinement, the verdict |
| `LibarchiveReplayProofs`, `ReplayVerdictProofs` | theorems about `LibarchiveReplay`: its invariant, what a call owes to history and to its sink, the refinement; the verdict |
| `PackageArchiveProofs` | theorems about `open` and `replay` composed, and about what selections are made of |
| `PathScanProofs` | theorems about paths |
| `DigestTextProofs` | theorems about digest texts |
| `ImageConstructionProofs` | theorems about construction, lookups and identities |
| `ArchiveSamples`, `MCOpen`, `MCReplay`, `MCArchive`, `MCPathScan`, `MCConstruction`, `MCDigest` | instances for TLC |

How state and actions correspond to the code:

- *The file* is a sequence of blocks. A block is at once the unit of reading
  and the unit libarchive delivers: a block of an archive is a header, an end
  mark, or a block of payload, and `RawHeader` says what libarchive reports for
  a header (a block that is neither makes `archive_read_next_header` fail when
  it is found where a header should be). Compression and byte layout are
  abstracted by this. `Chunk` bounds one read, like the 64 KiB buffers of the
  code; `Pread` may return any shorter, non-empty prefix.
- *The stamp* is size and modification time. Device and inode are left out:
  `fstat` of a descriptor that stays open always names the same ones. A
  modification time is any member of `MTimes` after any edit, so an edit may
  leave the old one in place or restore it.
- *A digest* is the sequence that was hashed; SHA-256 is taken as free of
  collisions. `hash` holds the offset and the blocks hashed so far.
- *A step* is what a thread does between two accesses to the file or two calls
  of the sink. `HashChunk`, `FillBuffer` are single `pread`s; `VerifyStamp`,
  `FirstDigest`, `VerifySealed`, `SealPackage` are the comparisons of stamps
  and digests; `NextHeader`, `ReadBlock`/`WriteBlock`, `SkipData`,
  `EndOfArchive` are the calls of libarchive and what the code does with their
  results; `Begin`, `WriteBlock`, `EndEntry` return from the sink and
  `SinkThrows` does not. `Fault` is a failing system, libarchive or SHA-256
  call, up to `MaxFaults`; SHA-256 also hashes the image's record and, after the
  last comparison of `open`, the receipt's.
- *`pc`, `phase`*: where a call stands, and whether it verifies before or after
  decoding. The other per-call variables are the locals of the function, by
  their names where they have one.
- *Ghosts*: `past`/`reverted` (some position of the file went back to an earlier
  content), `snapshot` (the file when the first digest was accepted), `quiet`
  (no edit since the call began), `genuine` (all blocks decoded were the sealed
  ones). No action reads them.
- A system call that `EINTR` interrupts is made again at once; the attempt reads
  nothing, and such a loop is part of one step.

The values of the library, which are immutable once made, have modules of their
own:

- *Paths.* The archive modules take a path text as the pieces between its
  separators and a path as the sequence of its components (`PackagePath`).
  `PathScan` has the text as characters, `begin` and `components` as the loops
  of `parse` have them, one step per iteration (`ScanComponent`, then
  `JoinComponent`, `EndJoin`), and a caller that replaces the path by its parent
  until there is none (`Climb`). `origin` is the path that was parsed,
  `ancestors` what `parent` returned. Its properties compare it with
  `PackagePath` (`Names` gives the piece that stands there for a sequence of
  characters) and with what a canonical path is.
- *Identities.* `Identify` of `PackageImage` is the tuple of the recorded fields,
  which is what all archive modules compare. `ImageConstruction` constructs
  images loop by loop and writes the bytes (`IdentityWriter`): `Admit` is one
  iteration of the loop that numbers, validates and indexes, `ResolveLink` one
  of the loop over hardlinks, `WriteEntry` one of `identify`. SHA-256 is an
  oracle: `hashed` lists the records asked for so far, and a digest is the
  position of its record, written as 32 bytes where it is a field itself.
- *Digest texts.* `DigestText` prints a digest, lets the text be damaged by up to
  `MaxDamage` symbols, and parses what is left, tag by tag and byte by byte.
- *`archive_backend::inspect`* is the operator `Inspect` of `LibarchiveOpen`: it
  has no state between `open` and the pairing.

An edit (`Overwrite`, `Truncate`, `Extend`, `Touch`) may happen between any two
steps, up to `MaxEdits`.

## Runs

| run | question | bounds |
|---|---|---|
| `replay_one` | one call: type invariant, the inductive invariant, integrity (`EndedIsSealed`), selections of other archives (`DeliveredIsSelected`), stale sources, no failure without a cause, contract with the sink | archive of 7 blocks (two files, a directory, end mark), 4 selections, one edit, one fault, reads of 1 to 3 blocks |
| `replay_edits` | completeness; a call that returns has decoded sealed blocks only | 5 blocks (two files; the second, which ends the archive, is selected), two edits |
| `replay_two` | two calls at once do not disturb each other | the same archive, one edit |
| `replay_reported` | the sentence of REPLAY.md on stamp changes (expected to fail) | as `replay_one`, no fault |
| `open_undisturbed` | `open` against the reference meaning, result and exception | every file of up to 4 blocks over 9 headers, two payload blocks and the end mark, at most one failing call |
| `open_edits` | the receipt binds the image to the bytes hashed; a package is consistent in itself; `open` implements `InspectionContract` | 5 blocks, two edits |
| `archive_undisturbed` | round trip: open, then replay any selection that `from_ids` can make of the image | every file of up to 4 blocks, and one of 6 with three regular files |
| `archive_edits` | what was delivered is what the receipted bytes hold | 4 blocks, two edits, one modification time |
| `archive_live` | `open` ends, and so does the `replay` after it | 5 blocks (a file, a hardlink with a payload to skip, end mark), one edit, one fault in each call |
| `path_scan` | the scan agrees with the definition on pieces; every path a caller can hold is canonical; ancestors are what `parent` leads to; parent and filename put together are the path | every text of up to 6 characters over two letters, `.`, `/` and one unsafe character; compared with every path of up to 4 |
| `image_construction` | construction agrees with `Construct`; equal identities mean equal objects; lookups agree | two images and a receipt or one image and two receipts, from about 100 vectors of up to two entries |
| `digest_text` | what was printed is read back; one text per digest | digests of two bytes, up to two damaged symbols |

Why these bounds. Four blocks hold two files, or a file with a payload of two
blocks and what follows it, so every order of two headers, a missing or extra
payload block and an end mark anywhere occur; a chunk smaller than the file
makes payloads and headers straddle reads. One edit at any moment separates any
two accesses; two edits are the least with which a change can be undone, hence
with which the two hash passes can be deceived, and `reverted` tells exactly
those behaviours apart. In `archive_edits` the only modification time is the
worst case: it never betrays an edit, so all detection rests on digests. Where
edits are the question the runs restrict headers to those that a wrong step
would confuse (same path, other sizes).

In the `archive_*` runs a consumer asks `from_ids` for every vector of ids up to
one past the last entry, as long as the image or shorter: in any order, with
repetitions and with entries that have no payload, which are refused, and the
empty one. No selection is lost by these bounds (`EverySelection`). Three
regular files are the least of which a proper part can have two; they need six
blocks, so that one file is added to those of up to four.

`open_undisturbed` compares `open` with `Decode`, which shares `NormalizeEntry`
and `Construct` with it: the order of passes, reads and payload checks is what
it can find wrong. The loops of `construct` are compared with `Construct` by
`image_construction`.

Six characters hold `a/../b`, `a//b/.` and every other way two components, a
separator too many and a dot can meet. The vectors of `image_construction`
differ in one field each, with values on both sides of a byte or half-word
(255, 256, 65536) and a negative time, so that a field left out or narrowed
makes two of them collide; pairs of entries put duplicates and hardlinks in
both orders. A digest of two bytes has every position a longer one has: first
byte, last byte, high and low half; two symbols suffice to lose, swap or repeat
a tag.

Properties with the ghost `reverted` are conditional on no block returning to
an earlier content. Without the condition they are false, as they must be for
a library that hashes, decodes and hashes again: an edit between the passes
that is undone in time is seen by neither. BACKENDS.md says as much ("not a
claim that a mutable open regular file has become adversarially immutable").
`EndedIsSealed`, `DeliveredIsSelected`, `ReturnedIsComplete`, `ReceiptIsSound`
and the contract hold without it.

Fairness is assumed in `archive_live` only: weak fairness of the steps of
`open` and of each call of `replay`. A thread that is inside a call of the
library keeps running, and a sink returns or throws; the calls have no lock to
wait for and their loops are over a file whose size they have fixed in the
stamp. Nothing is assumed of consumers, editors or faults: a package may never
be replayed.

`InspectsAtomically` is a refinement. `InspectionContract` looks at the file
once, at a moment of its choice, and returns what it saw; `LibarchiveOpen`
makes three passes. The mapping hides all of its variables but the file, and
takes the acceptance of the first digest for the look (`snapshot`): as long as
no block goes back to an earlier content, two equal passes prove that the file
held still in between. `KeepsContract` is the other refinement, of
`PayloadContract` by each call of `replay`.

Deadlock is checked in every run: a state without a successor would be a call
that can neither proceed nor fail. `Terminated` (`AllDone`) is the stuttering
of a system in which every call has ended.

Every property of a passing run has a mutant in `PROJECT.json`: a plausible bug
(an operator marked *Variant* in its module) under which TLC finds the property
violated.

### A disagreement between documentation and code

`replay_reported` shows that REPLAY.md:142 ("In-place changes affecting the
retained source stamp are reported as `source_changed_error`") is stronger than
the code. The stamp is compared before and after decoding, not when decoding
fails: a file truncated while replay decodes it makes `read_source` report
"package archive source was truncated", and `replay` throws `archive_error`
(other edits surface as `manifest_error`, `declared_size_mismatch_error` or a
payload digest mismatch). `StaleSourceIsRefused` is the part of the sentence
that holds: a change made before the call, and left alone since, is reported so.

## Proofs

TLAPS proves the following for every value of the constants: any file and
archive, any number of replay calls, any packages and selections, any bounds on
edits, faults and reads; any texts and damages, any vectors of entries, any
backends and digests.

| module | theorem | statement |
|---|---|---|
| `LibarchiveReplayProofs` | `Invariance` | `Spec => []IInv` |
| | `TypeCorrect` | `Spec => []TypeOK` |
| | `Integrity` | `Spec => []EndedIsSealed` |
| | `Completeness` | `Spec => []ReturnedIsComplete` |
| | `Delivery` | `Spec => []DeliveredIsSelected` |
| | `Refusal` | `Spec => []StaleSourceIsRefused` |
| | `Genuineness` | `Spec => []AcceptedIsGenuine` |
| | `Implementation` | `Spec => KeepsContract`: each call implements `PayloadContract` |
| `ReplayVerdictProofs` | `Verdict` | `Spec => []NoSpuriousFailure`, if sealed images are what the sealed bytes mean |
| `LibarchiveOpenProofs` | `Invariance` | `Spec => []IInv` |
| | `TypeCorrect` | `Spec => []TypeOK` |
| | `Soundness` | `Spec => []ReceiptIsSound` |
| | `BindingInvariance` | `Spec => []Binding` |
| | `ReceiptBinding` | `Spec => []ReceiptBindsImage` |
| | `Implementation` | `Spec => InspectsAtomically`: `open` implements `InspectionContract` |
| | `UndisturbedInvariance` | `Spec => []Undisturbed` |
| | `Verdict` | `Spec => []UndisturbedVerdict` |
| `PackageArchiveProofs` | `ArchiveOpens` | `ArchiveSpec => Spec`: whatever is replayed meanwhile, an archive is opened as `LibarchiveOpen` says |
| | `ArchiveInvariance` | `ArchiveSpec => []ArchiveInv` |
| | `Receipted` | `ArchiveSpec => []DeliveredIsReceipted` |
| | `Replayable` | `ArchiveSpec => []RoundTrip` |
| `PathScanProofs` | `Invariance` | `Spec => []IInv` |
| | `Canonicity` | `Spec => []HeldPathIsCanonical` |
| | `Ancestry` | `Spec => []AncestorsAreParents` |
| | `Splitting` | `Spec => []ParentAndFilename` |
| | `Scanning` | `Spec => []ScanAgreesWithPieces` |
| `DigestTextProofs` | `Invariance` | `Spec => []IInv` |
| | `Canonical` | `Spec => []ParsedIsCanonical` |
| | `ReadsBack` | `Spec => []PrintedParsesBack` |
| `ImageConstructionProofs` | `Invariance` | `Spec => []IInv` |
| | `Agreement` | `Spec => []ConstructionAgrees` |
| | `Lookup` | `Spec => []FindAgreesWithIds` |
| | `Records` | `Spec => [](Recorded /\ Writing)` |
| | `Naming` | `Spec => []IdentityNamesOneObject` |

Every theorem that is listed with a property states a property of a run:
the run shows it on a small instance, the theorem for every one.
`ArchiveMeaningProofs` holds the lemmas that `open` and `replay` rest on: that
the recursive reference decoding is what its recursion says
(`EntriesEquation`), what `Pread` returns, what an edit leaves of the history of
a position, and what libarchive takes from a buffer that holds blocks of a given
sequence (`Delivers`).

### Assumptions

All are on constants, stated where these are declared, and evaluated by TLC for
the instances it checks.

- `ChunkAssumption`, `BoundsAssumption`, `FaultsAssumption`: a chunk is not empty,
  bounds are naturals. `ReaderAssumption`: a header block is not the end mark
  and stores a natural number of blocks.
- `PackagesAssumption`, `SealedAssumption` (replay): what `open` seals. The id of
  an entry is its position (`construct` assigns it); the digest is of a file as
  long as the stamp says (`hash_source` hashes that many bytes or throws); sizes
  are naturals (`std::uint64_t`), and a content is at most one digest
  (`std::optional`).
- `SelectionsAssumption`, `SelectedAssumption` (replay): what
  `entry_selection::from_ids` returns, whose entries are sorted by id and
  unique. Where `PackageArchive` instantiates replay none of these four is
  assumed: packages and selections are there all that can be sealed and made
  (`Sealable`, `Makeable`), and `SealablePackages`, `SealableSealed`,
  `MakeableSelections` and `MakeableSelected` prove what replay asks of them.
- `RequestsAssumption`, `ArchivesAssumption` (open): a caller may leave the
  expected digest open; the archives a file may start as fit the bound on its
  length.
- `SizesAssumption` (meaning): a header declares a signed size (`la_int64_t`);
  `normalize_entry` refuses the negative ones.
- `Meant`, the hypothesis of the verdict of `replay` alone: the sealed image is
  what the sealed bytes mean. It is what `open` establishes (`ReceiptBinding`,
  `ReceiptIsSound`). It is not an assumption of `LibarchiveReplay`: a package
  whose file was edited and edited back while it was opened need not satisfy it,
  and every other theorem about `replay` holds for such packages too.
  `MCReplay` states it of the packages it instantiates; for the composition it
  is the lemma `SealableMeans`.
- `TextsAssumption` (paths): a text is a sequence of characters.
  `NamesAssumption`: the function `Names`, which takes a piece of a text to what
  the archive modules have for it, knows every piece of the texts and tells the
  four things `parse` asks of one (empty, `.`, `..`, unsafe).
- `DigestAssumption` (digest texts): a digest is a vector of `DigestSize` bytes,
  at least one.
- `ManifestsAssumption` (construction): a manifest is a vector of entries, of a
  length that fits `std::size_t`; what a valid entry holds fits the C++ types of
  the members (`Writable`). Entries that are not valid are not restricted.
- `DigestsAssumption` (construction): digests are numbers of 32 bytes, the
  positions that stand for them included; a backend name that is accepted has
  bytes. `TextBytesAssumption`: different texts have different bytes, a length
  fits eight bytes, and the two labels that begin a record are among the texts.

### The arguments

*Replay, integrity and completeness.* `EndedIsSealed` is not inductive: that an
entry may be ended because its content was compared needs that what the sink
was given *is* what was hashed (`SinkFits`), and that the entry compared is the
one that was begun. `ReturnedIsComplete` needs to know, at every position of
the archive, which selected entries have been ended so far (`EndedSoFar`), that
decoding ends at the end of the image before the call enters its second
verification (`WithinImage`, `PhaseFits`), and that the selection is one of an
image of this size (`SelectionFits`). `IInv` is their conjunction for every
call, with `TypeOK`. A step of one call leaves what the invariant says of other
calls alone, so each action is proved for the call that takes it;
`EndEntryKeeps` carries the weight. These theorems say nothing of quiet files
or of faithful reads: integrity holds against every edit.

*Replay, history.* `StepEffects` says once what a step of a call may touch; each
further conjunct is then proved where it is touched. `SelectionKept` keeps what
`validate` found (`Delivery`). For `Refusal`, `Refused` says that a call on a
stale source that is left alone is still in its first verification, with the
stamp it compared still in place, and that what it hashed is the beginning of
the file as it is; a pass over such a file ends at the length in the stamp, so
the second comparison must fail (`StaleSealFails`). For `Genuineness`, `Doubted`
says that if a block decoded was not the sealed one, and no block was changed
back, then some position has lost its sealed block for good, and the hash being
taken has found another block there or has still to read it: the call will not
return.
`Counted` adds that `total` is the length of what was hashed; with it each step
is a step of `PayloadContract` or stutters (`NextIsContractStep`).

*Meaning.* `EntriesFrom` is a recursive function over positions, defined by
`CHOOSE`. That such a function exists (`EntriesEquation`) is an induction over
the remaining length. It is done by a least element of a set of positions
(`LeastNatural`), which well-foundedness gives without an operator parameter.
`ListedUpTo(d, list, h)` says that the entries of `d` before position `h` are
`list`. It grows entry by entry
(`EntryDecides`, `StrayDecides`), which is how a loop over the archive is
related to the recursion from its front.

*Open, binding.* `ReceiptBindsImage` is about three passes over a file that may
change at any time. `Binding` says, once the first digest is accepted: either
some block was changed back; or some position has lost the block that the digest
saw, and the second pass has found another block there or has still to read it
(`Doubtful`); or the digest is the file of that moment and nothing decoded so
far differs from it (`Certain`): the buffer holds its blocks, `ListedUpTo` gives
the entries, and the payload read is a part of it. When the second digest
agrees, `Doubtful` is impossible, and the image is the meaning of the digest. The same invariant
gives the refinement: at the acceptance of the first digest the look of
`InspectionContract` is taken, every other step stutters or fails, and sealing
the package returns what the look deserves.

*Verdicts.* Without an edit or a fault, the exception of `open` is the one the
file deserves (`Deserved`): `Undisturbed` says what each pass has established,
and at each place an exception leaves the call a lemma shows which one the
reference gives for this archive. That of `replay` goes the other way:
`InStep` says that before a header as many entries are listed as the index
says, and inside an entry what is left of its payload is what the archive still
stores. So a header that is read is the inspected one (`HeaderCalm`), a payload
fits and ends as declared (`PayloadInStep`), no read returns nothing
(`ReadsSomething`), and where the archive ends as many entries were ended as
were selected (`AllCounted`, which counts two ascending sequences through one
set by a bijection). Only the sink, and `validate`, are left to fail a call.

*The pair.* `PackageArchiveProofs` takes the theorems of the two halves together.
For `open`, calls of `replay` do nothing but stutter (`StepsOfOpen`), so all that
is proved of `LibarchiveOpen` holds of the composition. For `replay`, the package
that was sealed is one of `Sealable`, the packages whose image is the meaning of
the digest, and its selections are in `Makeable`, those that `from_ids` makes of
any ids for one of these images; consumers can make every one of their package
(`EverySelection`: accepted ids are distinct and within the image, so that they
are no more than its entries). `Replaying` is an instance of
`LibarchiveReplay` over all of these, which satisfies its assumptions. An
instance has operators of its own, equal to those of the other one only by
proof: that is what the lemmas called `Same...` are. `ArchiveInv` says that the
calls are idle until a package is sealed and that from then on, unless a block
went back to an earlier content, they satisfy replay's invariant and what a
calm call satisfies besides (`Ready`), with a selection the package accepts
(`Offered`). `DeliveredIsReceipted` follows because an entry that was ended had
the content of the image, which is the one the receipted bytes mean
(`EndedIsMeant`); `RoundTrip` because the entries that were ended and those that
were selected are two ascending sequences of the same entries
(`ReturnedInOrder`, `AscendingEqual`).

*Paths.* `Scanned` says that the components found so far are plain: not empty,
without separator or unsafe character, and neither `.` nor `..`. `JoinedSoFar`
says that joined by single separators they make a canonical value, and `Climbed`
that the path a caller holds is a prefix of the one that was parsed and the
ancestors met are exactly the prefixes that end before the separators behind it
(`AncestorsFrom`). A text is canonical when no piece between
two separators is empty, `.` or `..`; what stands before a separator of a canonical text is
canonical again (`ParentCanonical`), so `parent` never leaves the set that
`parse` can return, and where `is_ancestor_of` looks at a single character it
sees what climbing finds.

*Paths, the scan.* `ScanAgreesWithPieces` compares a loop over positions with a
definition that has none: `SplitUpTo` splits a text character by character,
`KeptPieces` goes through the pieces. Both are recursive functions, whose
equations are proved first (`SplitIs`, `KeptIs`). `SplitRun` and `ScannedPiece` say that
what the loop reads up to the next separator is the piece the split ends there,
`UnsafeIs` and `FirstPieceIs` that the checks made before the scan on single
characters are the ones the definition makes on pieces, `PieceMore` that a
joined component is a piece of the path. `PiecesFit` is the invariant: the
pieces that have ended before `begin` make the components found so far, and what
has been joined has these as its pieces.

*Digest texts.* While a text is parsed, it is the tags read so far followed by
`input` (`ReadSoFar`), and each byte of `value` is spelled by the two symbols of
`input` at its place as `string` spells it (`Spelled`). So a text that is
accepted is the one that the parsed digest prints (`ParsedIsCanonical`); a text
that was not damaged stays the one that was printed, and no step refuses it
(`Undamaged`).

*Construction.* `Admitted(n)` relates the three things one iteration of the loop
changes: the first n entries carry their positions as ids, are valid, and are
exactly the paths `byPath` holds. `Resolves` is the same for the loop over
hardlinks. A vector refused anywhere is no image according to `ValidImage`
(`Refused`), one that reaches the end is, and since `byPath` has as many paths
as there are entries no path is there twice, hence `find` and ids agree.

*Identities.* That two images with the same identity are the same image is a
statement about bytes: the record that is hashed must tell where each field
ends. `Delimits(p, q)` says so of two encodings: if their bytes, followed by
anything, are equal, the encodings are, and so is what follows. Integers of a
fixed width delimit because a big-endian number that fits its width is told by
its bytes (`SameBytes`); texts because their length precedes them; an optional
field because a flag does; a concatenation of such fields because its parts do
(`EntriesTold`, `ImagesTold`, `ReceiptsTold`), and the label in front tells images
from receipts (`KindsTold`). A path is spelled as its components with a separator
behind each, and a plain component has no separator, so different paths have
different bytes. `Recorded` and `Writing` bring this to the behaviour: what the
writer holds is the record of the entries so far, each object was given the
position of its record, and no record is listed twice. Inductions over lengths
are done with a least element (`LeastNumber`), and that the recursive functions
for the bytes of a number and for a joined sequence exist is proved the same way
(`CanShift`, `CanJoin`). A narrower integer, a field left out or a length
forgotten would break one of these lemmas.

The inductive invariants of `open` and `replay` are model-checked as well (`IInv`
in `open_edits` and in `replay_one`). Those of the values were checked on the
instances of their runs before they were proved.

### Only model-checked

- Liveness (`OpenEnds`, `CallsEnd`): fairness and ENABLED are beyond the prover.
- `StampChangeIsReported`, which is false.

## Not modelled

- OpenSSL and libarchive themselves; compression filters; the byte layout of
  tar. `LibarchiveReader` is what `src/` relies on.
- Resolution of the pathname in `open_source`: everything after it goes through
  the descriptor.
- The text of messages. The order of paths (`operator<`) and of digests, which
  the library does not use.
- SHA-256 as a function: digests are equal when what was hashed is.
- Destroying a package while a call of `replay` runs on it: the owner must not.
- Allocation failure, build files, manual pages.

## Plan

1. *Done*: the source, the reader, `open`, `replay`, their composition and its
   liveness, the contracts of inspection and of the sink, the values (paths,
   images and their records, receipts, digest texts), and the theorems above:
   every safety property and every refinement that a run finds true.
2. *Left to TLC*: liveness.
