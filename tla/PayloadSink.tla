---------------------------- MODULE PayloadSink ----------------------------
(***************************************************************************)
(* payload_sink: the consumer of replayed payload.  The library sees an    *)
(* interface with three calls; this is a sink that records what it was     *)
(* told: the entry it has open, what was written for it since begin, and   *)
(* every entry that was ended, with what had been written for it.          *)
(***************************************************************************)
EXTENDS Sequences

NewSink == [open |-> {}, written |-> <<>>, ended |-> <<>>]

SinkBegin(s, id) == [open |-> {id}, written |-> <<>>, ended |-> s.ended]

SinkWrite(s, block) ==
  [open |-> s.open, written |-> Append(s.written, block), ended |-> s.ended]

SinkEnd(s, id) ==
  [open    |-> {},
   written |-> s.written,
   ended   |-> Append(s.ended, [id |-> id, content |-> s.written])]

\* The ids of the entries a sink has seen ended.
EndedIds(s) == {s.ended[i].id : i \in DOMAIN s.ended}

=============================================================================
