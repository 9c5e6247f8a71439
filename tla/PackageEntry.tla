---------------------------- MODULE PackageEntry ----------------------------
(***************************************************************************)
(* Package entries, and how the libarchive backend derives one from a raw  *)
(* archive header.                                                         *)
(*                                                                         *)
(* A raw header is what libarchive reports: a record with the fields path, *)
(* filetype, attributes (permission bits and mtime seconds, which nothing  *)
(* checks: any value, until IdentityWriter writes it), nsec, uid, gid,     *)
(* size, symlink, hardlink, rdev, and stored, the number of payload blocks *)
(* archive_read_data delivers for it.  path and hardlink are optional path *)
(* texts, symlink an optional link text.                                   *)
(***************************************************************************)
EXTENDS PackagePath, Integers

EntryType == {"regular", "directory", "symlink", "hardlink", "fifo",
              "character_device", "block_device"}

DeviceType == {"character_device", "block_device"}

MaxNanoseconds == 999999999

\* Link texts: the empty one and those with a NUL, LF or CR are invalid.
ValidLinkText(text) == text # "" /\ text \notin LineUnsafe

\* normalize_entry_type: a hardlink whatever the file type says.
NormalizedType(raw) ==
  IF raw.hardlink # {} THEN {"hardlink"} ELSE {raw.filetype} \intersect EntryType

\* The first exception normalize_entry throws for a header, if it throws.
NormalizeError(raw) ==
  LET type == NormalizedType(raw)
  IN  IF raw.path = {}
        THEN {"manifest_error"}
      ELSE IF \E text \in raw.path : ~Succeeds(ParsePath(text))
        THEN {"path_error"}
      ELSE IF \/ raw.nsec \notin 0..MaxNanoseconds
              \/ type = {}
              \/ raw.uid < 0
              \/ raw.gid < 0
              \/ type = {"regular"} /\ raw.size < 0
              \/ type = {"symlink"} /\ raw.symlink = {}
        THEN {"manifest_error"}
      ELSE IF \E text \in raw.hardlink : ~Succeeds(ParsePath(text))
        THEN {"path_error"}
      ELSE IF /\ type \subseteq DeviceType
              /\ raw.rdev.major < 0 \/ raw.rdev.minor < 0
        THEN {"manifest_error"}
      ELSE {}

\* The entry of a header that normalize_entry accepts; its content identity
\* is still absent, and its id is 0 until the caller sets it.
NormalizedEntry(raw) ==
  LET type == CHOOSE t \in NormalizedType(raw) : TRUE
  IN  [id         |-> 0,
       path       |-> ValueOf(ParsePath(CHOOSE text \in raw.path : TRUE)),
       type       |-> type,
       attributes |-> raw.attributes,
       uid        |-> raw.uid,
       gid        |-> raw.gid,
       size       |-> IF type = "regular" THEN raw.size ELSE 0,
       nsec       |-> raw.nsec,
       symlink    |-> IF type = "symlink" THEN raw.symlink ELSE {},
       hardlink   |-> {ValueOf(ParsePath(text)) : text \in raw.hardlink},
       device     |-> IF type \in DeviceType THEN {raw.rdev} ELSE {},
       content    |-> {}]

NormalizeEntry(raw) ==
  IF NormalizeError(raw) = {}
    THEN Ok(NormalizedEntry(raw))
    ELSE [error |-> NormalizeError(raw), value |-> {}]

\* operator== of package_entry.
AllFields == {"id", "path", "type", "attributes", "uid", "gid", "size",
              "nsec", "symlink", "hardlink", "device", "content"}

SameEntry(left, right) == \A f \in AllFields : left[f] = right[f]

\* The fields same_entry_header compares: every field but content.  (Variant:
\* the content as well.)
HeaderFields == {"id", "path", "type", "attributes", "uid", "gid", "size",
                 "nsec", "symlink", "hardlink", "device"}

\* same_entry_header.
SameEntryHeader(actual, expected) ==
  \A f \in HeaderFields : actual[f] = expected[f]

=============================================================================
