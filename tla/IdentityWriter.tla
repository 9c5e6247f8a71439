--------------------------- MODULE IdentityWriter ---------------------------
(***************************************************************************)
(* identity_writer, and the canonical byte records that package images and *)
(* inspection receipts are identified by.  Integers are written big-endian *)
(* in a fixed width, text behind its length.                               *)
(*                                                                         *)
(* PackageImage represents an identity by the fields that are recorded;    *)
(* here are the bytes.  A digest is a number, standing for its 32 bytes,   *)
(* so here the content of an entry is such a number.                       *)
(***************************************************************************)
EXTENDS InspectionReceipt

CONSTANT TextBytes   \* the bytes of names, link texts, backends and labels

Byte == 0..255

ImageLabel   == "libpkgimage.package-image.v1"
ReceiptLabel == "libpkgimage.archive-inspection-receipt.v1"

\* A number without its lowest bytes, none to `width' of them.
Shifted(value, width) ==
  LET shifted[k \in 0..width] == IF k = 0 THEN value ELSE shifted[k - 1] \div 256
  IN  shifted

\* The low `width' bytes of a number, in two's complement, highest first.
BigEndian(value, width) == [i \in 1..width |-> Shifted(value, width)[width - i] % 256]

\* The values of an unsigned and a signed type of that width.
Fits(value, width)       == value \in Nat /\ Shifted(value, width)[width] = 0
FitsSigned(value, width) == value \in Int /\ Shifted(value, width)[width - 1] \in -128..127

\* Different texts have different bytes.
ASSUME TextBytesAssumption ==
  /\ \A text \in DOMAIN TextBytes : /\ TextBytes[text] \in Seq(Byte)
                                   /\ Fits(Len(TextBytes[text]), 8)
  /\ \A s, t \in DOMAIN TextBytes : TextBytes[s] = TextBytes[t] => s = t
  /\ {ImageLabel, ReceiptLabel} \subseteq DOMAIN TextBytes

U8(value)  == BigEndian(value, 1)
U16(value) == BigEndian(value, 2)

\* (Variant: the high half is lost.)
U32LowHalf(value) == U16(0) \o U16(value)

U32(value) == BigEndian(value, 4)
U64(value) == BigEndian(value, 8)
I64(value) == U64(value)

LengthPrefixed(bytes) == U64(Len(bytes)) \o bytes

\* Representation version, algorithm and size; then the digest itself.
DigestField(digest) == U16(1) \o U16(1) \o U16(32) \o BigEndian(digest, 32)

\* sha256_context: what was hashed so far, and whether it was finalized.
NewContext == [bytes |-> <<>>, finished |-> FALSE]

Update(context, bytes) ==
  IF context.finished THEN Fail("digest_error")
                      ELSE Ok([context EXCEPT !.bytes = @ \o bytes])

FinishContext(context) ==
  IF context.finished THEN Fail("digest_error")
                      ELSE Ok([context EXCEPT !.finished = TRUE])

-----------------------------------------------------------------------------
\* The first n of some sequences, one after another.
Joined(parts) ==
  LET upTo[n \in 0..Len(parts)] == IF n = 0 THEN <<>> ELSE upTo[n - 1] \o parts[n]
  IN  upTo

\* The spelling of a path: its components joined by '/'.
PathParts(path) ==
  [n \in 1..Len(path) |-> (IF n = 1 THEN <<>> ELSE <<47>>) \o TextBytes[path[n]]]

PathBytes(path) == Joined(PathParts(path))[Len(path)]

IsPath(path) ==
  /\ path # <<>> /\ path \in Seq(DOMAIN TextBytes)
  /\ \A i \in DOMAIN path : \A k \in DOMAIN TextBytes[path[i]] : TextBytes[path[i]][k] # 47
  /\ Fits(Len(PathBytes(path)), 8)

\* entry_type_code.
EntryTypeCode ==
  [regular |-> 1, directory |-> 2, symlink |-> 3, hardlink |-> 4, fifo |-> 5,
   character_device |-> 6, block_device |-> 7]

\* write_optional_string and its like: a flag, and the value as it is written,
\* if there is one.
Optional(written) ==
  IF written = {} THEN U8(0) ELSE U8(1) \o CHOOSE bytes \in written : TRUE

\* An entry whose members have values of their types.
AtMostOne(set) == \A s, t \in set : s = t

Writable(e) ==
  /\ IsPath(e.path)
  /\ e.type \in DOMAIN EntryTypeCode
  /\ e.attributes = [mode |-> e.attributes.mode, mtime |-> e.attributes.mtime]
  /\ Fits(e.attributes.mode, 4) /\ FitsSigned(e.attributes.mtime, 8)
  /\ Fits(e.uid, 8) /\ Fits(e.gid, 8) /\ Fits(e.size, 8) /\ Fits(e.nsec, 4)
  /\ AtMostOne(e.symlink) /\ e.symlink \subseteq DOMAIN TextBytes
  /\ AtMostOne(e.hardlink) /\ \A path \in e.hardlink : IsPath(path)
  /\ AtMostOne(e.device)
  /\ \A d \in e.device : /\ d = [major |-> d.major, minor |-> d.minor]
                         /\ Fits(d.major, 8) /\ Fits(d.minor, 8)
  /\ AtMostOne(e.content) /\ \A digest \in e.content : Fits(digest, 32)

ImageHeader(entryCount) == LengthPrefixed(TextBytes[ImageLabel]) \o U64(entryCount)

EntryBytes(e) ==
  U64(e.id) \o LengthPrefixed(PathBytes(e.path)) \o U8(EntryTypeCode[e.type])
  \o U32(e.attributes.mode) \o U64(e.uid) \o U64(e.gid)
  \o Optional(IF e.type = "regular" THEN {U64(e.size)} ELSE {})
  \o I64(e.attributes.mtime) \o U32(e.nsec)
  \o Optional({LengthPrefixed(TextBytes[text]) : text \in e.symlink})
  \o Optional({LengthPrefixed(PathBytes(path)) : path \in e.hardlink})
  \o Optional({U64(d.major) \o U64(d.minor) : d \in e.device})
  \o Optional({DigestField(digest) : digest \in e.content})

\* identify_receipt; schema_version_ is 1.
ReceiptBytes(r) ==
  LengthPrefixed(TextBytes[ReceiptLabel]) \o U32(1)
  \o LengthPrefixed(TextBytes[r.backend]) \o DigestField(r.archiveDigest)
  \o DigestField(r.imageIdentity) \o U64(r.entryCount)

=============================================================================
