------------------------- MODULE InspectionReceipt -------------------------
(***************************************************************************)
(* archive_inspection_receipt, which binds the digest of an archive to the *)
(* identity of the image it was found to hold, and the checked pair of     *)
(* image and receipt that inspect() returns.                               *)
(***************************************************************************)
EXTENDS PackageImage

BackendIdentity == "libpkgimage.libarchive.tar.v1"

\* archive_backend_identity::parse.
ParseBackend(text) ==
  IF text = "" \/ text \in LineUnsafe THEN Fail("invalid_receipt_error") ELSE Ok(text)

\* The archive_inspection_receipt constructor.
Receipt(backend, archiveDigest, imageIdentity, entryCount) ==
  IF entryCount = 0
    THEN Fail("invalid_receipt_error")
    ELSE Ok([backend |-> backend, archiveDigest |-> archiveDigest,
             imageIdentity |-> imageIdentity, entryCount |-> entryCount])

\* The inspected_package_image constructor.
InspectedImage(image, receipt) ==
  IF \/ receipt.imageIdentity # Identify(image)
     \/ receipt.entryCount # Len(image)
    THEN Fail("invalid_receipt_error")
    ELSE Ok([image |-> image, receipt |-> receipt])

=============================================================================
