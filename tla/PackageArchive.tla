--------------------------- MODULE PackageArchive ---------------------------
(***************************************************************************)
(* A package from open to replay: libarchive_backend::open, and then any   *)
(* number of replay calls on the package it returned, over one file that   *)
(* others may edit all along.  The replay calls work on the stamp, digest  *)
(* and image that open has sealed; they never write them.                  *)
(***************************************************************************)
EXTENDS LibarchiveOpen, EntrySelection, PayloadSink

CONSTANT Callers   \* the calls of replay

VARIABLES
  callPc, selection, callPhase, callHash, callReader, index, replayed, total,
  callContents, sink, callError, callFaults, quiet, genuine

replayVars == <<callPc, selection, callPhase, callHash, callReader, index,
                replayed, total, callContents, sink, callError, callFaults,
                quiet, genuine>>
allVars == <<vars, replayVars>>

TheOnly(set) == CHOOSE x \in set : TRUE

\* The members of libarchive_package, once open has returned.
SealedPackage ==
  [stamp  |-> before,
   digest |-> IF receipt = {} THEN <<>> ELSE TheOnly(receipt).archiveDigest,
   image  |-> IF image = {} THEN <<>> ELSE TheOnly(image)]

Calls == INSTANCE LibarchiveReplay WITH
  package <- SealedPackage, Packages <- {}, Selections <- {},
  pc <- callPc, phase <- callPhase, hash <- callHash, reader <- callReader,
  contents <- callContents, error <- callError, faults <- callFaults

\* The ids that a consumer may ask for: any, in any order, those included that
\* are out of range, repeated or of no regular entry, which from_ids refuses.
\* A longer vector repeats an id, and a larger id is out of range as well.
IdVectors(entryCount) == UNION {[1..n -> 0..entryCount] : n \in 0..entryCount}

\* The selections a consumer makes of the package: every regular entry, or what
\* from_ids makes of the ids asked for, be it all, some or none of them.
ConsumerSelections ==
  LET sealed == SealedPackage.image
      made   == {AllRegular(sealed)} \union
                {FromIds(sealed, ids) : ids \in IdVectors(Len(sealed))}
  IN  UNION {r.value : r \in made}

OpenStep ==
  /\ Step \/ Fault \/ (\E expected \in Requests : Open(expected))
  /\ UNCHANGED replayVars

CallReplay(c) ==
  /\ pc = "returned"
  /\ UNCHANGED openVars
  /\ \E s \in ConsumerSelections : Calls!Replay(c, s)

CallStep(c) == UNCHANGED openVars /\ (Calls!Step(c) \/ Calls!Fault(c))

EditAny == UNCHANGED openVars /\ Calls!EditSource

AllDone ==
  /\ pc = "failed" \/ (pc = "returned" /\ \A c \in Callers : callPc[c] \in Finished)
  /\ edits = MaxEdits
  /\ UNCHANGED allVars

ArchiveInit == Init /\ Calls!InitCalls

ArchiveNext ==
  \/ OpenStep
  \/ \E c \in Callers : CallReplay(c) \/ CallStep(c)
  \/ EditAny
  \/ AllDone

ArchiveSpec == ArchiveInit /\ [][ArchiveNext]_allVars

\* A thread inside open or replay keeps running it, and a sink that is called
\* returns or throws.  Consumers, editors and faults owe nothing.
FairArchiveSpec ==
  /\ ArchiveSpec
  /\ WF_allVars(Step /\ UNCHANGED replayVars)
  /\ \A c \in Callers : WF_allVars(UNCHANGED openVars /\ Calls!Step(c))

-----------------------------------------------------------------------------
\* What open accepted, replay accepts too: undisturbed, a replay of a package
\* fails only by its sink, and the sink has then been given the content that
\* the file holds for the selected entries.
RoundTrip ==
  (edits = 0 /\ faults = 0 /\ callFaults = 0) =>
    \A c \in Callers :
      /\ callPc[c] = "failed" => callError[c] = {"sink_exception"}
      /\ callPc[c] = "returned" =>
           LET meant == ValueOf(Decode(file))
           IN  sink[c].ended =
                 [i \in DOMAIN Calls!Chosen(c).entries |->
                    LET id == Calls!Chosen(c).entries[i].id
                    IN  [id |-> id, content |-> TheOnly(meant[id + 1].content)]]

\* What a sink has seen ended is what the bytes named by the receipt hold for
\* that entry, even if the file was edited during open, between the calls or
\* during replay, unless some block was changed and changed back.
DeliveredIsReceipted ==
  ~reverted =>
    \A c \in Callers : \A i \in DOMAIN sink[c].ended :
      LET meant == Decode(SealedPackage.digest)
          seen  == sink[c].ended[i]
      IN  Succeeds(meant) /\ ValueOf(meant)[seen.id + 1].content = {seen.content}

\* A call of open returns or throws, whatever is done to the file: no loop
\* waits for bytes that a truncated file will never have.
OpenEnds == (pc # "idle") ~> (pc \in Finished)

\* So does every call of replay.
CallsEnd == \A c \in Callers : (callPc[c] # "idle") ~> (callPc[c] \in Finished)

=============================================================================
