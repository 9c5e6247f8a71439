---------------------------- MODULE PackageImage ----------------------------
(***************************************************************************)
(* package_image: the sealed, validated manifest of one archive.           *)
(*                                                                         *)
(* An image is the sequence of its entries; entry ids count from 0.  A     *)
(* SHA-256 value is represented by the value that was hashed (no two       *)
(* inputs collide), so a content digest is the sequence of payload blocks  *)
(* and the identity of an image the sequence of records identify() writes. *)
(***************************************************************************)
EXTENDS PackageEntry

\* validate_entry.
ValidEntry(e) ==
  /\ (e.type = "symlink") <=> (e.symlink # {})
  /\ \A text \in e.symlink : ValidLinkText(text)
  /\ (e.type = "hardlink") <=> (e.hardlink # {})
  /\ e.path \notin e.hardlink
  /\ e.type # "regular" => e.size = 0
  /\ (e.type = "regular") <=> (e.content # {})
  /\ (e.type \in DeviceType) <=> (e.device # {})
  /\ e.nsec <= MaxNanoseconds

\* What construct() checks after it has assigned the ids.  Hardlinks are
\* resolved once every path is known, so a target may come later.
ValidImage(image) ==
  /\ image # <<>>
  /\ \A i \in DOMAIN image : ValidEntry(image[i])
  /\ \A i, j \in DOMAIN image : image[i].path = image[j].path => i = j
  /\ \A i \in DOMAIN image : \A target \in image[i].hardlink :
       \E j \in DOMAIN image : /\ image[j].path = target
                               /\ image[j].type = "regular"

\* package_image::construct.
Construct(entries) ==
  LET image == [i \in 1..Len(entries) |-> [entries[i] EXCEPT !.id = i - 1]]
  IN  IF ValidImage(image) THEN Ok(image) ELSE Fail("manifest_error")

\* package_image::entry: absent when the id is out of range.
EntryAt(image, id) == IF id < Len(image) THEN {image[id + 1]} ELSE {}

\* package_image::find: the first entry of that path, absent if there is none.
FindEntry(image, path) ==
  LET at == {i \in DOMAIN image : image[i].path = path}
  IN  {image[i] : i \in {j \in at : \A k \in at : j <= k}}

\* identify: what is written for each entry, the size of a regular file only.
IdentityRecord(e) ==
  <<e.id, e.path, e.type, e.attributes, e.uid, e.gid,
    IF e.type = "regular" THEN {e.size} ELSE {},
    e.nsec, e.symlink, e.hardlink, e.device, e.content>>

Identify(image) ==
  <<Len(image), [i \in DOMAIN image |-> IdentityRecord(image[i])]>>

=============================================================================
