-------------------------- MODULE PayloadContract --------------------------
(***************************************************************************)
(* What one call of package_archive::replay promises its sink, whatever    *)
(* happens to the file meanwhile:                                          *)
(*                                                                         *)
(*   - the selected entries come in archive order and none is passed over; *)
(*   - begin, then blocks within the declared size, then end;              *)
(*   - end is called only when exactly the inspected content was written;  *)
(*   - the call returns only when every selected entry was ended;          *)
(*   - it may fail at any moment, and the sink hears nothing afterwards.   *)
(***************************************************************************)
EXTENDS PayloadSink, Naturals

CONSTANT Block   \* what a payload is made of

VARIABLES
  image,     \* the inspected image
  selected,  \* the ids of the selected entries
  sink,      \* what the sink has been told
  status     \* "idle", "running", "returned" or "failed"

contractVars == <<image, selected, sink, status>>

Init ==
  /\ selected = {}
  /\ sink = NewSink
  /\ status = "idle"

\* The caller hands over a selection; the call may reject it at once.
Start ==
  /\ status = "idle"
  /\ status' \in {"running", "failed"}
  /\ selected' \subseteq 0..(Len(image) - 1) \/ status' = "failed"
  /\ UNCHANGED <<image, sink>>

Begin(id) ==
  /\ status = "running"
  /\ sink.open = {}
  /\ id \in selected \ EndedIds(sink)
  /\ \A other \in selected : other < id => other \in EndedIds(sink)
  /\ sink' = SinkBegin(sink, id)
  /\ UNCHANGED <<image, selected, status>>

Write(id) ==
  /\ status = "running"
  /\ sink.open = {id}
  /\ Len(sink.written) < image[id + 1].size
  /\ \E block \in Block : sink' = SinkWrite(sink, block)
  /\ UNCHANGED <<image, selected, status>>

End(id) ==
  /\ status = "running"
  /\ sink.open = {id}
  /\ image[id + 1].content = {sink.written}
  /\ sink' = SinkEnd(sink, id)
  /\ UNCHANGED <<image, selected, status>>

Return ==
  /\ status = "running"
  /\ sink.open = {}
  /\ EndedIds(sink) = selected
  /\ status' = "returned"
  /\ UNCHANGED <<image, selected, sink>>

Throw ==
  /\ status = "running"
  /\ status' = "failed"
  /\ UNCHANGED <<image, selected, sink>>

Next ==
  \/ Start \/ Return \/ Throw
  \/ \E id \in selected : Begin(id) \/ Write(id) \/ End(id)

Step == [Next]_contractVars

Spec == Init /\ [][Next]_contractVars

=============================================================================
