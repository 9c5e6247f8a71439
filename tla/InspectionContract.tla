------------------------- MODULE InspectionContract -------------------------
(***************************************************************************)
(* What inspecting an archive promises: the call looks at the whole file   *)
(* at one moment between its start and its end, and if it returns, then    *)
(* with the digest and the image of what it saw.  Others edit the file at  *)
(* any time.  The promise is void once some block of the file has returned *)
(* to an earlier content, which no comparison of digests can notice.       *)
(***************************************************************************)
CONSTANT Meaning(_)   \* the images a content of the file has, at most one

VARIABLES
  file,      \* the content of the file
  reverted,  \* some block has returned to an earlier content
  status,    \* "idle", "running", "returned" or "failed"
  snapshot,  \* what the call has looked at, absent before
  result     \* digest and image, absent unless it has returned

contractVars == <<file, reverted, status, snapshot, result>>

Init ==
  /\ reverted = FALSE
  /\ status = "idle"
  /\ snapshot = {}
  /\ result = {}

Start ==
  /\ status = "idle"
  /\ status' = "running"
  /\ UNCHANGED <<file, reverted, snapshot, result>>

Look ==
  /\ status = "running"
  /\ snapshot = {}
  /\ snapshot' = {file}
  /\ UNCHANGED <<file, reverted, status, result>>

Return ==
  /\ status = "running"
  /\ status' = "returned"
  /\ \E r \in result' :
       /\ result' = {r}
       /\ reverted \/ (snapshot = {r.digest} /\ Meaning(r.digest) = {r.image})
  /\ UNCHANGED <<file, reverted, snapshot>>

Fail ==
  /\ status = "running"
  /\ status' = "failed"
  /\ UNCHANGED <<file, reverted, snapshot, result>>

Edit ==
  /\ reverted => reverted'
  /\ UNCHANGED <<status, snapshot, result>>

Next == Start \/ Look \/ Return \/ Fail \/ Edit

Spec == Init /\ [][Next]_contractVars

=============================================================================
