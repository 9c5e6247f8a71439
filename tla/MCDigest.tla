------------------------------ MODULE MCDigest ------------------------------
(***************************************************************************)
(* Digests of two bytes, and texts up to two symbols away from theirs.     *)
(***************************************************************************)
EXTENDS DigestText

SampleDigests == {<<0, 255>>, <<175, 250>>, <<16, 1>>}

SampleSymbols == {":", "v1", "v2", "sha256", "md5", "0", "a", "A", "g"}

=============================================================================
