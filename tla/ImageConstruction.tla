------------------------- MODULE ImageConstruction -------------------------
(***************************************************************************)
(* package_image::construct step by step, and the receipts issued for the  *)
(* images it seals.  A consumer constructs images and receipts one after   *)
(* another, from any entries whatever; each gets an identity, the SHA-256  *)
(* of its canonical record.                                                *)
(*                                                                         *)
(* SHA-256 is an oracle that gives each new record a new number: `hashed'  *)
(* lists the records asked for, and the digest of one is its position.     *)
(* The digests of contents and archives are numbers of their own domains.  *)
(***************************************************************************)
EXTENDS IdentityWriter

CONSTANTS
  Manifests,      \* the entries an image may be constructed from
  Backends,       \* the texts given for a backend
  ArchiveDigests,
  MaxImages,      \* bound on the number of images, made before any receipt
  MaxObjects      \* bound on the number of images and receipts

\* A package_entry, whose members are these fields, and a vector of them.
IsEntry(e) == e = [f \in AllFields |-> e[f]]

IsVector(v) == v \in Seq({v[i] : i \in DOMAIN v}) /\ \A i \in DOMAIN v : IsEntry(v[i])

ASSUME ManifestsAssumption ==
  \A m \in Manifests : /\ IsVector(m) /\ Fits(Len(m), 8)
                       /\ \A i \in DOMAIN m : ValidEntry(m[i]) => Writable(m[i])

\* Digests have 32 bytes, those of this module's oracle included.
ASSUME DigestsAssumption ==
  /\ \A digest \in ArchiveDigests \union {MaxImages, MaxObjects} : Fits(digest, 32)
  /\ \A text \in Backends : Succeeds(ParseBackend(text)) => text \in DOMAIN TextBytes

VARIABLES
  pc,        \* where construct() stands, "idle" between calls
  given,     \* its argument, whose ids it sets
  index,     \* the loop variable
  byPath,    \* by_path: the index of each path
  writer,    \* the identity writer
  hashed,    \* the records that have been hashed
  objects,   \* the images and receipts made so far
  error      \* the exception that ended the last call, absent if none

constructionVars == <<pc, given, index, byPath, writer, hashed, objects, error>>

Entry == given[index + 1]

Throw(kind) == pc' = "failed" /\ error' = {kind}

\* The digest of a record, and the records hashed once it is known.
HashedWith(record) ==
  IF \E n \in DOMAIN hashed : hashed[n] = record THEN hashed ELSE Append(hashed, record)

DigestOf(record) ==
  CHOOSE n \in DOMAIN HashedWith(record) : HashedWith(record)[n] = record

-----------------------------------------------------------------------------
\* construct(entries).
Begin(entries) ==
  /\ pc = "idle"
  /\ Len(objects) < MaxImages /\ \A n \in DOMAIN objects : objects[n].kind = "image"
  /\ given' = entries
  /\ index' = 0
  /\ byPath' = <<>>
  /\ \/ entries = <<>> /\ Throw("manifest_error")
     \/ entries # <<>> /\ pc' = "admit" /\ UNCHANGED error
  /\ UNCHANGED <<writer, hashed, objects>>

\* The entry gets its position as its id.  (Variant: it keeps the id it had.)
KeepsId(e) == e

Numbered(e) == [e EXCEPT !.id = index]

Admissible(e) == ValidEntry(e) /\ e.path \notin DOMAIN byPath

\* One iteration of the first loop.
Admit ==
  /\ pc = "admit"
  /\ index < Len(given)
  /\ given' = [given EXCEPT ![index + 1] = Numbered(@)]
  /\ \/ /\ Admissible(Numbered(Entry))
        /\ byPath' = [path \in DOMAIN byPath \union {Entry.path} |->
                        IF path = Entry.path THEN index ELSE byPath[path]]
        /\ index' = index + 1
        /\ UNCHANGED <<pc, error>>
     \/ /\ ~Admissible(Numbered(Entry))
        /\ Throw("manifest_error")
        /\ UNCHANGED <<index, byPath>>
  /\ UNCHANGED <<writer, hashed, objects>>

AllAdmitted ==
  /\ pc = "admit"
  /\ index = Len(given)
  /\ pc' = "link"
  /\ index' = 0
  /\ UNCHANGED <<given, byPath, writer, hashed, objects, error>>

\* A hardlink resolves to a regular entry.  (Variant: to any entry.)
ResolvesToAny(e) == e.hardlink \subseteq DOMAIN byPath

Resolves(e) ==
  \A target \in e.hardlink : /\ target \in DOMAIN byPath
                             /\ given[byPath[target] + 1].type = "regular"

\* One iteration of the second loop.
ResolveLink ==
  /\ pc = "link"
  /\ index < Len(given)
  /\ \/ Resolves(Entry) /\ index' = index + 1 /\ UNCHANGED <<pc, error>>
     \/ ~Resolves(Entry) /\ Throw("manifest_error") /\ UNCHANGED index
  /\ UNCHANGED <<given, byPath, writer, hashed, objects>>

\* What an update of a hash does to a call: it goes on, or throws.
WriteBytes(context, bytes) ==
  LET result == Update(context, bytes)
  IN  \/ \E w \in result.value : writer' = w /\ pc' = "write" /\ UNCHANGED error
      \/ \E kind \in result.error : Throw(kind) /\ UNCHANGED writer

\* identify begins with a new writer.
BeginRecord ==
  /\ pc = "link"
  /\ index = Len(given)
  /\ index' = 0
  /\ WriteBytes(NewContext, ImageHeader(Len(given)))
  /\ UNCHANGED <<given, byPath, hashed, objects>>

WriteEntry ==
  /\ pc = "write"
  /\ index < Len(given)
  /\ index' = index + 1
  /\ WriteBytes(writer, EntryBytes(Entry))
  /\ UNCHANGED <<given, byPath, hashed, objects>>

SealImage ==
  /\ pc = "write"
  /\ index = Len(given)
  /\ \E w \in FinishContext(writer).value : writer' = w
  /\ pc' = "idle"
  /\ hashed' = HashedWith(writer.bytes)
  /\ objects' = Append(objects, [kind |-> "image", value |-> given,
                                 identity |-> DigestOf(writer.bytes)])
  /\ UNCHANGED <<given, index, byPath, error>>

\* A receipt is made for an image, an archive and a number of entries: by
\* open for those of the package, by others for what they like.
IssueReceipt(text, archiveDigest, image, entryCount) ==
  LET backend == ParseBackend(text)
      receipt == Receipt(ValueOf(backend), archiveDigest, image.identity, entryCount)
      record  == ReceiptBytes(ValueOf(receipt))
  IN  /\ pc = "idle"
      /\ Len(objects) < MaxObjects
      /\ \/ /\ Succeeds(backend) /\ Succeeds(receipt)
            /\ hashed' = HashedWith(record)
            /\ objects' = Append(objects, [kind |-> "receipt", value |-> ValueOf(receipt),
                                           identity |-> DigestOf(record)])
            /\ UNCHANGED <<pc, error>>
         \/ /\ ~(Succeeds(backend) /\ Succeeds(receipt))
            /\ Throw("invalid_receipt_error")
            /\ UNCHANGED <<hashed, objects>>
      /\ UNCHANGED <<given, index, byPath, writer>>

Images == {objects[n] : n \in {m \in DOMAIN objects : objects[m].kind = "image"}}

Issue ==
  \E text \in Backends : \E digest \in ArchiveDigests : \E image \in Images :
    \E entryCount \in {0, 1, Len(image.value)} :
      IssueReceipt(text, digest, image, entryCount)

Stopped ==
  /\ pc = "failed" \/ (pc = "idle" /\ Len(objects) = MaxObjects)
  /\ UNCHANGED constructionVars

Init ==
  /\ pc = "idle"
  /\ given = <<>>
  /\ index = 0
  /\ byPath = <<>>
  /\ writer = NewContext
  /\ hashed = <<>>
  /\ objects = <<>>
  /\ error = {}

Next ==
  \/ \E entries \in Manifests : Begin(entries)
  \/ Admit \/ AllAdmitted \/ ResolveLink \/ BeginRecord \/ WriteEntry \/ SealImage
  \/ Issue
  \/ Stopped

Spec == Init /\ [][Next]_constructionVars

-----------------------------------------------------------------------------
\* The loops of construct() arrive at what Construct says of the whole vector,
\* image or exception, wherever duplicates and hardlink targets stand in it.
ConstructionAgrees ==
  /\ pc = "write" => Construct(given) = Ok(given)
  /\ (pc = "failed" /\ error # {"invalid_receipt_error"}) =>
       error = Construct(given).error

\* Two objects have one identity exactly when they are equal: the canonical
\* record leaves out no field and narrows none, no two sequences of optional
\* fields and texts share a record, and no receipt has the record of an image.
\* So Identify, the fields recorded, may stand for the identity of an image.
SameObject(m, n) ==
  /\ m.kind = n.kind
  /\ m.kind = "receipt" => m.value = n.value
  /\ m.kind = "image" =>
       /\ Len(m.value) = Len(n.value)
       /\ \A i \in DOMAIN m.value : SameEntry(m.value[i], n.value[i])

IdentityNamesOneObject ==
  /\ \A m, n \in DOMAIN objects :
       objects[m].identity = objects[n].identity <=> SameObject(objects[m], objects[n])
  /\ \A m, n \in Images :
       m.identity = n.identity <=> Identify(m.value) = Identify(n.value)

\* Looking an entry of an image up by its path and by its id leads to the same
\* entry: paths and ids name the entries of an image one by one.
FindAgreesWithIds ==
  \A image \in Images : \A i \in DOMAIN image.value :
    LET e == image.value[i]
    IN  FindEntry(image.value, e.path) = {e} /\ EntryAt(image.value, e.id) = {e}

=============================================================================
