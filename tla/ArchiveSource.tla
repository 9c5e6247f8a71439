--------------------------- MODULE ArchiveSource ---------------------------
(***************************************************************************)
(* The regular file behind the descriptor an opened package retains, and   *)
(* everyone who may modify it while the library reads it: other processes, *)
(* other threads, or the payload sink itself.                              *)
(*                                                                         *)
(* The file is a sequence of blocks.  An editor overwrites a block, cuts   *)
(* the file or appends to it, and leaves any modification time behind:     *)
(* timestamps are coarse and utimensat(2) restores them.  The descriptor   *)
(* is retained, so device and inode never change and renaming or unlinking *)
(* the pathname does not touch this state; the stamp keeps what may.       *)
(***************************************************************************)
EXTENDS Naturals, Sequences

CONSTANTS
  Block,      \* the values a block of the file may hold
  MTimes,     \* modification times
  Chunk,      \* blocks one pread asks for at most
  MaxLength,  \* bound on the length of the file
  MaxEdits    \* bound on the number of edits

ASSUME ChunkAssumption  == Chunk \in Nat \ {0}
ASSUME BoundsAssumption == MaxLength \in Nat /\ MaxEdits \in Nat

VARIABLES
  file,       \* the blocks of the file
  mtime,      \* its modification time
  edits,      \* how often it was edited
  past,       \* ghost: what each position held before its present content
  reverted    \* ghost: some position has returned to an earlier content

sourceVars == <<file, mtime, edits, past, reverted>>

\* What a position holds; nothing past the end of the file.
Cell(blocks, i) == IF i <= Len(blocks) THEN {blocks[i]} ELSE {}

Least(m, n) == IF m <= n THEN m ELSE n

SourceTypeOK ==
  /\ file \in Seq(Block)
  /\ mtime \in MTimes
  /\ edits \in 0..MaxEdits
  /\ past \in [1..MaxLength -> SUBSET SUBSET Block]
  /\ reverted \in BOOLEAN

SourceInit(blocks, time) ==
  /\ file = blocks
  /\ mtime = time
  /\ edits = 0
  /\ past = [i \in 1..MaxLength |-> {}]
  /\ reverted = FALSE

\* read_source_stamp, without the device and inode of the retained file.
Stamp == [size |-> Len(file), mtime |-> mtime]

\* What one pread of up to `request' blocks at an offset may return: a short
\* count is legal, and none at all is returned only past the end.
Pread(offset, request) ==
  IF offset >= Len(file)
    THEN {<<>>}
    ELSE {SubSeq(file, offset + 1, offset + count) :
            count \in 1..Least(request, Len(file) - offset)}

\* One edit of the file by anybody.
Install(blocks) ==
  /\ edits < MaxEdits
  /\ edits' = edits + 1
  /\ file' = blocks
  /\ mtime' \in MTimes
  /\ LET changed == {i \in 1..MaxLength : Cell(blocks, i) # Cell(file, i)}
     IN  /\ past' = [i \in 1..MaxLength |->
                       IF i \in changed THEN past[i] \union {Cell(file, i)}
                                        ELSE past[i]]
         /\ reverted' = (reverted \/ \E i \in changed : Cell(blocks, i) \in past[i])

Overwrite == \E i \in DOMAIN file : \E b \in Block \ {file[i]} :
               Install([file EXCEPT ![i] = b])

Truncate == \E n \in 0..(Len(file) - 1) : Install(SubSeq(file, 1, n))

Extend == /\ Len(file) < MaxLength
          /\ \E b \in Block : Install(Append(file, b))

\* A change of the timestamp only.
Touch == Install(file) /\ mtime' # mtime

Edit == Overwrite \/ Truncate \/ Extend \/ Touch

=============================================================================
