------------------------------ MODULE Outcome ------------------------------
(***************************************************************************)
(* The result of an operation of the library that may throw.               *)
(*                                                                         *)
(* A C++ function that returns a value or throws an exception of error.h   *)
(* is modelled by an operator whose value is Ok(v) or Fail(e), where e     *)
(* names the class of the exception.  std::optional and nullable pointers  *)
(* are sets of at most one element.                                        *)
(***************************************************************************)

\* The exception classes of the library that its own code throws.
ErrorKind == {"path_error", "manifest_error", "selection_error",
              "digest_error", "invalid_digest_error",
              "unsupported_digest_algorithm_error",
              "invalid_receipt_error", "archive_error",
              "source_changed_error", "declared_size_mismatch_error",
              "complete_archive_digest_mismatch_error",
              "regular_payload_digest_mismatch_error"}

Ok(v) == [error |-> {}, value |-> {v}]

Fail(e) == [error |-> {e}, value |-> {}]

Succeeds(r) == r.error = {}

\* The value of an outcome that succeeds.
ValueOf(r) == CHOOSE v \in r.value : TRUE

=============================================================================
