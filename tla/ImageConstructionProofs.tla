----------------------- MODULE ImageConstructionProofs -----------------------
(***************************************************************************)
(* Proofs about ImageConstruction: the loops of construct() accept what    *)
(* Construct accepts, lookups of what was sealed agree, and the canonical  *)
(* records tell images and receipts apart.  They hold for any vectors of   *)
(* entries, any number of images and any receipts.                         *)
(***************************************************************************)
EXTENDS ImageConstruction, SequenceTheorems, WellFoundedInduction, TLAPS

\* The vector with the ids that construct() assigns.
Renumbered(v) == [i \in 1..Len(v) |-> [v[i] EXCEPT !.id = i - 1]]

TypeOK ==
  /\ pc \in {"idle", "admit", "link", "write", "failed"}
  /\ IsVector(given)
  /\ index \in 0..Len(given)
  /\ objects \in Seq({objects[n] : n \in DOMAIN objects})
  /\ writer = [bytes |-> writer.bytes, finished |-> writer.finished]

\* The first n entries are valid, have their positions as ids and are indexed.
Admitted(n) ==
  /\ \A i \in 1..n : /\ given[i].id = i - 1
                     /\ ValidEntry(given[i])
                     /\ byPath[given[i].path] = i - 1
  /\ DOMAIN byPath = {given[i].path : i \in 1..n}

AdmittedSoFar ==
  /\ pc = "admit" => Admitted(index)
  /\ pc \in {"link", "write"} => Admitted(Len(given))
  /\ pc \in {"admit", "link", "write"} => given # <<>>

ResolvedSoFar ==
  /\ pc = "link" => \A i \in 1..index : Resolves(given[i])
  /\ pc = "write" => \A i \in 1..Len(given) : Resolves(given[i])
  /\ pc = "write" => writer.finished = FALSE

\* A vector that was refused is no image.
Refused ==
  pc = "failed" => \/ error = {"invalid_receipt_error"}
                   \/ error = {"manifest_error"} /\ ~ValidImage(Renumbered(given))

\* What is sealed: entries with their positions as ids, and no path twice.
Indexed(v) ==
  /\ IsVector(v)
  /\ \A i \in DOMAIN v : v[i].id = i - 1
  /\ \A i, j \in DOMAIN v : v[i].path = v[j].path => i = j

SealedImages ==
  \A n \in DOMAIN objects : objects[n].kind = "image" => Indexed(objects[n].value)

IInv == TypeOK /\ AdmittedSoFar /\ ResolvedSoFar /\ Refused /\ SealedImages

-----------------------------------------------------------------------------
(***************************************************************************)
(* Vectors.                                                                *)
(***************************************************************************)

\* A sequence is one of its own elements.
LEMMA OwnElements ==
  ASSUME NEW S, NEW v \in Seq(S)
  PROVE  v \in Seq({v[i] : i \in DOMAIN v})
<1>1. PICK n \in Nat : n = Len(v) /\ DOMAIN v = 1..n /\ v \in [1..n -> S]
  BY LenProperties
<1>2. v \in [1..n -> {v[i] : i \in 1..n}]
  BY <1>1
<1>3. v \in Seq({v[i] : i \in 1..n})
  BY <1>2, SeqDef
<1>4. QED
  BY <1>1, <1>3

\* Its length.
LEMMA VectorLength ==
  ASSUME NEW v, IsVector(v)
  PROVE  /\ Len(v) \in Nat /\ DOMAIN v = 1..Len(v)
         /\ \A i \in 1..Len(v) : IsEntry(v[i])
BY LenProperties DEF IsVector

\* Assigning an id changes nothing else.
LEMMA WithId ==
  ASSUME NEW e, NEW id, IsEntry(e)
  PROVE  LET d == [e EXCEPT !.id = id]
         IN  /\ IsEntry(d)
             /\ d.id = id /\ d.path = e.path /\ d.type = e.type /\ d.hardlink = e.hardlink
             /\ ValidEntry(d) <=> ValidEntry(e)
             /\ e.id = id => d = e
<1> DEFINE d == [e EXCEPT !.id = id]
<1>1. /\ d = [f \in AllFields |-> IF f = "id" THEN id ELSE e[f]]
      /\ d.id = id /\ \A f \in AllFields \ {"id"} : d[f] = e[f]
  BY DEF AllFields, IsEntry
<1>2. IsEntry(d)
  BY <1>1 DEF IsEntry
<1> HIDE DEF d
<1>3. /\ d.path = e.path /\ d.type = e.type /\ d.hardlink = e.hardlink
      /\ d.symlink = e.symlink /\ d.size = e.size /\ d.content = e.content
      /\ d.device = e.device /\ d.nsec = e.nsec
  BY <1>1 DEF AllFields
<1>4. ValidEntry(d) <=> ValidEntry(e)
  BY <1>3 DEF ValidEntry
<1>5. ASSUME e.id = id
      PROVE  d = e
  BY <1>1, <1>5 DEF IsEntry
<1>6. QED
  BY <1>1, <1>2, <1>3, <1>4, <1>5 DEF d

\* Renumbering, entry by entry.
LEMMA RenumberedIs ==
  ASSUME NEW v, IsVector(v)
  PROVE  /\ DOMAIN Renumbered(v) = 1..Len(v)
         /\ \A i \in 1..Len(v) :
              /\ Renumbered(v)[i].path = v[i].path
              /\ Renumbered(v)[i].type = v[i].type
              /\ Renumbered(v)[i].hardlink = v[i].hardlink
              /\ ValidEntry(Renumbered(v)[i]) <=> ValidEntry(v[i])
<1>1. DOMAIN Renumbered(v) = 1..Len(v)
  BY DEF Renumbered
<1>2. ASSUME NEW i \in 1..Len(v)
      PROVE  /\ Renumbered(v)[i].path = v[i].path
             /\ Renumbered(v)[i].type = v[i].type
             /\ Renumbered(v)[i].hardlink = v[i].hardlink
             /\ ValidEntry(Renumbered(v)[i]) <=> ValidEntry(v[i])
  <2>1. Renumbered(v)[i] = [v[i] EXCEPT !.id = i - 1]
    BY DEF Renumbered
  <2>2. IsEntry(v[i])
    BY VectorLength
  <2>3. QED
    BY <2>1, <2>2, WithId
<1>3. QED
  BY <1>1, <1>2

\* A vector with the right ids is not changed.
LEMMA RenumberedSame ==
  ASSUME NEW v, IsVector(v), \A i \in 1..Len(v) : v[i].id = i - 1
  PROVE  Renumbered(v) = v
<1>1. ASSUME NEW i \in 1..Len(v)
      PROVE  [v[i] EXCEPT !.id = i - 1] = v[i]
  <2>1. IsEntry(v[i])
    BY VectorLength
  <2>2. QED
    BY <2>1, WithId
<1>2. Renumbered(v) = [i \in 1..Len(v) |-> v[i]]
  BY <1>1 DEF Renumbered
<1>3. v = [i \in 1..Len(v) |-> v[i]]
  BY LenProperties DEF IsVector
<1>4. QED
  BY <1>2, <1>3

\* A vector with one element replaced by another entry.
LEMMA VectorExcept ==
  ASSUME NEW v, IsVector(v), NEW k \in 1..Len(v), NEW e, IsEntry(e)
  PROVE  /\ IsVector([v EXCEPT ![k] = e]) /\ Len([v EXCEPT ![k] = e]) = Len(v)
         /\ [v EXCEPT ![k] = e][k] = e
         /\ \A i \in 1..Len(v) : i # k => [v EXCEPT ![k] = e][i] = v[i]
<1> DEFINE S == {v[i] : i \in DOMAIN v} \union {e}
<1>1. v \in Seq(S)
  BY SeqMonotonic DEF IsVector
<1>2. PICK w : w = [v EXCEPT ![k] = e]
  OBVIOUS
<1>3. /\ w \in Seq(S) /\ Len(w) = Len(v)
      /\ \A j \in 1..Len(v) : w[j] = IF j = k THEN e ELSE v[j]
  <2>1. e \in S
    OBVIOUS
  <2> HIDE DEF S
  <2>2. QED
    BY <1>1, <1>2, <2>1, ExceptSeq
<1> HIDE DEF S
<1>4. DOMAIN w = 1..Len(v)
  BY <1>3, LenProperties
<1>5. \A i \in DOMAIN w : IsEntry(w[i])
  <2>1. ASSUME NEW i \in 1..Len(v)
        PROVE  IsEntry(w[i])
    <3>1. CASE i = k
      BY <1>3, <3>1
    <3>2. CASE i # k
      BY <1>3, <3>2, VectorLength
    <3>3. QED
      BY <3>1, <3>2
  <2>2. QED
    BY <1>4, <2>1
<1>6. IsVector(w)
  BY <1>3, <1>5, OwnElements DEF IsVector
<1>7. QED
  BY <1>2, <1>3, <1>6

\* What Construct refuses it refuses with one exception.
LEMMA ConstructIs ==
  \A v : Construct(v) = IF ValidImage(Renumbered(v)) THEN Ok(Renumbered(v))
                                                   ELSE Fail("manifest_error")
BY DEF Construct, Renumbered

-----------------------------------------------------------------------------
(***************************************************************************)
(* The steps of construct().                                               *)
(***************************************************************************)

\* At first there is nothing.
LEMMA InitEstablishes == Init => IInv
<1> SUFFICES ASSUME Init
             PROVE  IInv
  OBVIOUS
<1>1. \A S : <<>> \in Seq(S) /\ Len(<<>>) = 0
  BY EmptySeq
<1>2. IsVector(<<>>)
  BY <1>1 DEF IsVector
<1>3. TypeOK
  BY <1>1, <1>2 DEF Init, TypeOK, NewContext
<1>4. QED
  BY <1>1, <1>3 DEF Init, IInv, AdmittedSoFar, ResolvedSoFar, Refused, SealedImages

\* A call begins with a vector of entries; the empty one is no image.
LEMMA BeginKeeps ==
  ASSUME IInv, NEW entries \in Manifests, Begin(entries)
  PROVE  IInv'
<1>1. IsVector(entries) /\ Len(entries) \in Nat
  BY ManifestsAssumption, VectorLength
<1>2. TypeOK'
  BY <1>1 DEF IInv, TypeOK, Begin, Throw
<1>3. SealedImages'
  BY DEF IInv, SealedImages, Begin
<1>4. AdmittedSoFar' /\ ResolvedSoFar'
  BY DEF AdmittedSoFar, ResolvedSoFar, Admitted, Begin, Throw
<1>5. Refused'
  <2>1. CASE entries = <<>> /\ Throw("manifest_error")
    <3>1. Renumbered(<<>>) = <<>>
      BY DEF Renumbered
    <3>2. ~ValidImage(<<>>)
      BY DEF ValidImage
    <3>3. QED
      BY <2>1, <3>1, <3>2 DEF Refused, Begin, Throw
  <2>2. CASE pc' = "admit"
    BY <2>2 DEF Refused
  <2>3. QED
    BY <2>1, <2>2 DEF Begin
<1>6. QED
  BY <1>2, <1>3, <1>4, <1>5 DEF IInv

\* An entry that is admitted is indexed under its path and id.
LEMMA AdmitKeeps ==
  ASSUME IInv, Admit
  PROVE  IInv'
<1>1. /\ IsVector(given) /\ Len(given) \in Nat /\ index \in Nat /\ index < Len(given)
      /\ Admitted(index) /\ given # <<>> /\ pc = "admit"
  BY VectorLength DEF IInv, TypeOK, AdmittedSoFar, Admit
<1>2. PICK k \in 1..Len(given) : k = index + 1
  BY <1>1
<1>3. PICK e : e = given[k] /\ IsEntry(e)
  BY <1>1, VectorLength
<1>4. PICK d : d = Numbered(e)
  OBVIOUS
<1>5. /\ IsEntry(d)
      /\ d.id = index /\ d.path = e.path
      /\ ValidEntry(d) <=> ValidEntry(e)
  <2>1. IsEntry(e)
    BY <1>3
  <2>2. d = [e EXCEPT !.id = index]
    BY <1>4 DEF Numbered
  <2>3. LET c == [e EXCEPT !.id = index]
        IN  /\ IsEntry(c)
            /\ c.id = index /\ c.path = e.path
            /\ ValidEntry(c) <=> ValidEntry(e)
    BY <2>1, WithId
  <2>4. QED
    BY <2>2, <2>3
<1>6. Entry = e /\ given' = [given EXCEPT ![k] = d]
  BY <1>1, <1>2, <1>3, <1>4, VectorLength DEF Admit, Entry
<1>7. /\ IsVector(given') /\ Len(given') = Len(given) /\ given'[k] = d
      /\ \A i \in 1..Len(given) : i # k => given'[i] = given[i]
  <2>1. IsEntry(d)
    BY <1>5
  <2>2. /\ IsVector([given EXCEPT ![k] = d]) /\ Len([given EXCEPT ![k] = d]) = Len(given)
        /\ [given EXCEPT ![k] = d][k] = d
        /\ \A i \in 1..Len(given) : i # k => [given EXCEPT ![k] = d][i] = given[i]
    BY <1>1, <2>1, VectorExcept
  <2>3. QED
    BY <1>6, <2>2
<1>8. given' # <<>>
  BY <1>1, <1>7, EmptySeq DEF IsVector
<1>9. UNCHANGED <<writer, hashed, objects>>
  BY DEF Admit
<1>10. SealedImages'
  BY <1>9 DEF IInv, SealedImages
<1>11. CASE Admissible(d)
  <2>1. /\ byPath' = [path \in DOMAIN byPath \union {e.path} |->
                        IF path = e.path THEN index ELSE byPath[path]]
        /\ index' = index + 1 /\ pc' = "admit" /\ error' = error
    BY <1>1, <1>4, <1>6, <1>11 DEF Admit
  <2>2. ValidEntry(d) /\ e.path \notin DOMAIN byPath
    BY <1>5, <1>11 DEF Admissible
  <2>3. Admitted(index)'
    <3>1. ASSUME NEW i \in 1..(index + 1)
          PROVE  /\ given'[i].id = i - 1 /\ ValidEntry(given'[i])
                 /\ byPath'[given'[i].path] = i - 1
      <4>1. CASE i = k
        <5>1. byPath'[e.path] = index
          BY <2>1
        <5>2. QED
          BY <1>1, <1>2, <1>5, <1>7, <2>2, <4>1, <5>1
      <4>2. CASE i # k
        <5>1. i \in 1..index /\ given'[i] = given[i]
          BY <1>1, <1>2, <1>7, <4>2
        <5>2. given[i].path \in DOMAIN byPath /\ byPath[given[i].path] = i - 1
          BY <1>1, <5>1 DEF Admitted
        <5>3. byPath'[given[i].path] = byPath[given[i].path]
          BY <2>1, <2>2, <5>2
        <5>4. QED
          BY <1>1, <5>1, <5>2, <5>3 DEF Admitted
      <4>3. QED
        BY <4>1, <4>2
    <3>2. DOMAIN byPath' = {given'[i].path : i \in 1..(index + 1)}
      <4>1. DOMAIN byPath' = {given[i].path : i \in 1..index} \union {e.path}
        BY <1>1, <2>1 DEF Admitted
      <4>2. \A i \in 1..index : given'[i] = given[i]
        BY <1>1, <1>2, <1>7
      <4>3. given'[index + 1].path = e.path
        BY <1>2, <1>5, <1>7
      <4>4. 1..(index + 1) = (1..index) \union {index + 1}
        BY <1>1
      <4>5. QED
        BY <4>1, <4>2, <4>3, <4>4
    <3>3. QED
      BY <2>1, <3>1, <3>2 DEF Admitted
  <2>4. TypeOK'
    BY <1>1, <1>7, <1>9, <2>1 DEF IInv, TypeOK
  <2>5. QED
    BY <1>8, <1>10, <2>1, <2>3, <2>4 DEF IInv, AdmittedSoFar, ResolvedSoFar, Refused
<1>12. CASE ~Admissible(d)
  <2>1. pc' = "failed" /\ error' = {"manifest_error"} /\ UNCHANGED <<index, byPath>>
    BY <1>4, <1>6, <1>12 DEF Admit, Throw
  <2>2. TypeOK'
    BY <1>1, <1>7, <1>9, <2>1 DEF IInv, TypeOK
  <2>3. ~ValidImage(Renumbered(given'))
    <3>1. PICK w : w = Renumbered(given')
      OBVIOUS
    <3>2. /\ DOMAIN w = 1..Len(given)
          /\ \A i \in 1..Len(given) : /\ w[i].path = given'[i].path
                                      /\ ValidEntry(w[i]) <=> ValidEntry(given'[i])
      BY <1>7, <3>1, RenumberedIs
    <3>3. CASE ~ValidEntry(d)
      BY <1>7, <3>1, <3>2, <3>3 DEF ValidImage
    <3>4. CASE d.path \in DOMAIN byPath
      <4>1. PICK i \in 1..index : given[i].path = d.path
        BY <1>1, <3>4 DEF Admitted
      <4>2. i \in 1..Len(given) /\ i # k
        BY <1>1, <1>2
      <4>3. w[i].path = w[k].path
        BY <1>7, <3>2, <4>1, <4>2
      <4>4. QED
        BY <3>1, <3>2, <4>2, <4>3 DEF ValidImage
    <3>5. QED
      BY <1>12, <3>3, <3>4 DEF Admissible
  <2>4. QED
    BY <1>10, <2>1, <2>2, <2>3 DEF IInv, AdmittedSoFar, ResolvedSoFar, Refused
<1>13. QED
  BY <1>11, <1>12

\* When all are admitted the links are looked at.
LEMMA AllAdmittedKeeps ==
  ASSUME IInv, AllAdmitted
  PROVE  IInv'
<1>1. Len(given) \in Nat
  BY VectorLength DEF IInv, TypeOK
<1>2. TypeOK'
  BY <1>1 DEF IInv, TypeOK, AllAdmitted
<1>3. Admitted(Len(given))' /\ given' # <<>>
  BY DEF IInv, AdmittedSoFar, Admitted, AllAdmitted
<1>4. QED
  BY <1>2, <1>3 DEF IInv, AdmittedSoFar, ResolvedSoFar, Refused, SealedImages, AllAdmitted

\* Two admitted entries have two paths.
LEMMA PathsDiffer ==
  ASSUME IInv, pc \in {"link", "write"}
  PROVE  /\ Len(given) \in Nat /\ DOMAIN given = 1..Len(given)
         /\ \A i \in 1..Len(given) : given[i].id = i - 1 /\ ValidEntry(given[i])
         /\ \A i, j \in 1..Len(given) : given[i].path = given[j].path => i = j
         /\ Renumbered(given) = given
<1>1. IsVector(given) /\ Len(given) \in Nat /\ DOMAIN given = 1..Len(given)
  BY VectorLength DEF IInv, TypeOK
<1>2. \A i \in 1..Len(given) : /\ given[i].id = i - 1
                               /\ ValidEntry(given[i])
                               /\ byPath[given[i].path] = i - 1
  BY DEF IInv, AdmittedSoFar, Admitted
<1>3. ASSUME NEW i \in 1..Len(given), NEW j \in 1..Len(given),
             given[i].path = given[j].path
      PROVE  i = j
  <2>1. i - 1 = j - 1
    BY <1>2, <1>3
  <2>2. QED
    BY <1>1, <2>1
<1>4. Renumbered(given) = given
  BY <1>1, <1>2, RenumberedSame
<1>5. QED
  BY <1>1, <1>2, <1>3, <1>4

\* A link resolves by the index exactly if some regular entry has its target
\* for a path.
LEMMA ResolvesIs ==
  ASSUME IInv, pc \in {"link", "write"}, NEW e
  PROVE  Resolves(e) <=>
           \A target \in e.hardlink :
             \E j \in 1..Len(given) : given[j].path = target /\ given[j].type = "regular"
<1>1. \A j \in 1..Len(given) : byPath[given[j].path] = j - 1
  BY DEF IInv, AdmittedSoFar, Admitted
<1>2. DOMAIN byPath = {given[j].path : j \in 1..Len(given)}
  BY DEF IInv, AdmittedSoFar, Admitted
<1>3. Len(given) \in Nat
  BY PathsDiffer
<1>4. ASSUME NEW j \in 1..Len(given)
      PROVE  byPath[given[j].path] + 1 = j
  BY <1>1, <1>3
<1>5. ASSUME NEW target
      PROVE  (target \in DOMAIN byPath /\ given[byPath[target] + 1].type = "regular") <=>
               \E j \in 1..Len(given) : given[j].path = target /\ given[j].type = "regular"
  BY <1>2, <1>4
<1>6. QED
  BY <1>5 DEF Resolves

\* A vector all of whose entries resolve is an image, and one of whose entries
\* does not is none.
LEMMA ImageIs ==
  ASSUME IInv, pc \in {"link", "write"}
  PROVE  ValidImage(Renumbered(given)) <=> \A i \in 1..Len(given) : Resolves(given[i])
<1>1. /\ Len(given) \in Nat /\ DOMAIN given = 1..Len(given) /\ given # <<>>
      /\ \A i \in 1..Len(given) : ValidEntry(given[i])
      /\ \A i, j \in 1..Len(given) : given[i].path = given[j].path => i = j
      /\ Renumbered(given) = given
  BY PathsDiffer DEF IInv, AdmittedSoFar
<1>2. ValidImage(given) <=>
        \A i \in 1..Len(given) : \A target \in given[i].hardlink :
          \E j \in 1..Len(given) : given[j].path = target /\ given[j].type = "regular"
  BY <1>1 DEF ValidImage
<1>3. \A i \in 1..Len(given) :
        Resolves(given[i]) <=>
          \A target \in given[i].hardlink :
            \E j \in 1..Len(given) : given[j].path = target /\ given[j].type = "regular"
  BY ResolvesIs
<1>4. QED
  BY <1>1, <1>2, <1>3

\* A link that does not resolve is refused.
LEMMA ResolveLinkKeeps ==
  ASSUME IInv, ResolveLink
  PROVE  IInv'
<1>1. /\ pc = "link" /\ Len(given) \in Nat /\ index \in Nat /\ index < Len(given)
      /\ UNCHANGED <<given, byPath, writer, hashed, objects>>
  BY VectorLength DEF IInv, TypeOK, ResolveLink
<1>2. PICK k \in 1..Len(given) : k = index + 1 /\ Entry = given[k]
  BY <1>1 DEF Entry
<1>3. SealedImages'
  BY <1>1 DEF IInv, SealedImages
<1>4. CASE Resolves(Entry) /\ index' = index + 1 /\ UNCHANGED <<pc, error>>
  <2>1. TypeOK'
    BY <1>1, <1>4 DEF IInv, TypeOK
  <2>2. AdmittedSoFar' /\ Refused'
    BY <1>1, <1>4 DEF IInv, AdmittedSoFar, Admitted, Refused
  <2>3. \A i \in 1..index' : Resolves(given[i])
    BY <1>1, <1>2, <1>4 DEF IInv, ResolvedSoFar
  <2>4. QED
    BY <1>1, <1>3, <1>4, <2>1, <2>2, <2>3 DEF IInv, ResolvedSoFar, Resolves
<1>5. CASE ~Resolves(Entry) /\ Throw("manifest_error") /\ UNCHANGED index
  <2>1. TypeOK'
    BY <1>1, <1>5 DEF IInv, TypeOK, Throw
  <2>2. ~ValidImage(Renumbered(given))
    BY <1>1, <1>2, <1>5, ImageIs
  <2>3. QED
    BY <1>1, <1>3, <1>5, <2>1, <2>2 DEF IInv, AdmittedSoFar, ResolvedSoFar, Refused, Throw
<1>6. QED
  BY <1>4, <1>5 DEF ResolveLink

\* A hash that was not finished goes on with what it is given.
LEMMA Written ==
  ASSUME NEW context, NEW bytes, WriteBytes(context, bytes),
         context = [bytes |-> context.bytes, finished |-> FALSE]
  PROVE  /\ pc' = "write" /\ error' = error
         /\ writer' = [bytes |-> writer'.bytes, finished |-> FALSE]
         /\ writer'.bytes = context.bytes \o bytes
<1>1. context.finished = FALSE
  OBVIOUS
<1>2. Update(context, bytes) = Ok([context EXCEPT !.bytes = @ \o bytes])
  BY <1>1 DEF Update
<1>3. /\ writer' = [context EXCEPT !.bytes = @ \o bytes]
      /\ pc' = "write" /\ error' = error
  BY <1>2 DEF WriteBytes, Ok, Throw
<1>4. PICK joined : joined = context.bytes \o bytes
  OBVIOUS
<1>5. writer' = [context EXCEPT !.bytes = joined]
  BY <1>3, <1>4
<1>6. PICK before : before = context.bytes
  OBVIOUS
<1>7. context = [bytes |-> before, finished |-> FALSE]
  BY <1>6
<1>8. writer' = [bytes |-> joined, finished |-> FALSE]
  BY <1>5, <1>7
<1>9. QED
  BY <1>3, <1>4, <1>8

\* That keeps what holds of the vector.
LEMMA WritingKeeps ==
  ASSUME IInv, NEW context, NEW bytes, WriteBytes(context, bytes),
         context = [bytes |-> context.bytes, finished |-> FALSE],
         pc \in {"link", "write"}, \A i \in 1..Len(given) : Resolves(given[i]),
         index' \in 0..Len(given), UNCHANGED <<given, byPath, hashed, objects>>
  PROVE  IInv'
<1>1. /\ pc' = "write" /\ error' = error
      /\ writer' = [bytes |-> writer'.bytes, finished |-> FALSE]
  BY Written
<1>2. writer'.finished = FALSE
  BY <1>1
<1>3. writer' = [bytes |-> writer'.bytes, finished |-> writer'.finished]
  BY <1>1
<1>4. TypeOK'
  BY <1>1, <1>3 DEF IInv, TypeOK
<1>5. Admitted(Len(given))' /\ given # <<>>
  BY DEF IInv, AdmittedSoFar, Admitted
<1>6. (\A i \in 1..Len(given) : Resolves(given[i]))'
  BY DEF Resolves
<1>7. QED
  BY <1>1, <1>2, <1>4, <1>5, <1>6
     DEF IInv, AdmittedSoFar, ResolvedSoFar, Refused, SealedImages

\* The record begins with a new context.
LEMMA BeginRecordKeeps ==
  ASSUME IInv, BeginRecord
  PROVE  IInv'
<1>1. NewContext = [bytes |-> NewContext.bytes, finished |-> FALSE]
  BY DEF NewContext
<1>2. Len(given) \in Nat
  BY VectorLength DEF IInv, TypeOK
<1>3. \A i \in 1..Len(given) : Resolves(given[i])
  BY DEF IInv, ResolvedSoFar, BeginRecord
<1>4. QED
  BY <1>1, <1>2, <1>3, WritingKeeps DEF BeginRecord

\* Writing an entry changes nothing but the record.
LEMMA WriteEntryKeeps ==
  ASSUME IInv, WriteEntry
  PROVE  IInv'
<1>1. /\ writer = [bytes |-> writer.bytes, finished |-> FALSE]
      /\ \A i \in 1..Len(given) : Resolves(given[i])
  BY DEF IInv, TypeOK, ResolvedSoFar, WriteEntry
<1>2. Len(given) \in Nat /\ index' \in 0..Len(given)
  BY VectorLength DEF IInv, TypeOK, WriteEntry
<1>3. QED
  BY <1>1, <1>2, WritingKeeps DEF WriteEntry

\* Objects are added at the end of those there are.
LEMMA Appended ==
  ASSUME TypeOK, NEW o
  PROVE  LET all == Append(objects, o)
         IN  /\ all \in Seq({all[n] : n \in DOMAIN all})
             /\ \A n \in DOMAIN all : all[n] = o \/ (n \in DOMAIN objects /\ all[n] = objects[n])
<1> DEFINE S == {objects[n] : n \in DOMAIN objects} \union {o}
<1>1. objects \in Seq(S) /\ o \in S
  BY SeqMonotonic DEF TypeOK
<1> HIDE DEF S
<1>2. PICK all \in Seq(S) : all = Append(objects, o)
  BY <1>1, AppendProperties
<1>3. all \in Seq({all[n] : n \in DOMAIN all})
  BY OwnElements
<1>4. \A n \in DOMAIN all : all[n] = o \/ (n \in DOMAIN objects /\ all[n] = objects[n])
  BY <1>1, <1>2
<1>5. QED
  BY <1>2, <1>3, <1>4

\* What is sealed is an image with unique paths.
LEMMA SealImageKeeps ==
  ASSUME IInv, SealImage
  PROVE  IInv'
<1>1. PICK o : /\ o = [kind |-> "image", value |-> given, identity |-> DigestOf(writer.bytes)]
               /\ objects' = Append(objects, o)
  BY DEF SealImage
<1>2. o.kind = "image" /\ o.value = given
  BY <1>1
<1>3. /\ pc = "write" /\ pc' = "idle" /\ UNCHANGED <<given, index, byPath, error>>
      /\ \E w \in FinishContext(writer).value : writer' = w
  BY DEF SealImage
<1>4. Indexed(given)
  BY <1>3, PathsDiffer DEF IInv, TypeOK, Indexed
<1>5. /\ objects' \in Seq({objects'[n] : n \in DOMAIN objects'})
      /\ \A n \in DOMAIN objects' :
           objects'[n] = o \/ (n \in DOMAIN objects /\ objects'[n] = objects[n])
  <2>1. PICK all :
          /\ all = Append(objects, o)
          /\ all \in Seq({all[n] : n \in DOMAIN all})
          /\ \A n \in DOMAIN all : all[n] = o \/ (n \in DOMAIN objects /\ all[n] = objects[n])
    BY Appended DEF IInv
  <2>2. objects' = all
    BY <1>1, <2>1
  <2>3. QED
    BY <2>1, <2>2
<1>6. writer' = [bytes |-> writer'.bytes, finished |-> writer'.finished]
  <2>1. writer = [bytes |-> writer.bytes, finished |-> FALSE]
    BY <1>3 DEF IInv, TypeOK, ResolvedSoFar
  <2>2. FinishContext(writer) = Ok([writer EXCEPT !.finished = TRUE])
    BY <2>1 DEF FinishContext
  <2>3. writer' = [writer EXCEPT !.finished = TRUE]
    BY <1>3, <2>2 DEF Ok
  <2>4. QED
    BY <2>1, <2>3
<1>7. TypeOK'
  BY <1>3, <1>5, <1>6 DEF IInv, TypeOK
<1>8. SealedImages'
  BY <1>2, <1>4, <1>5 DEF IInv, SealedImages
<1>9. QED
  BY <1>3, <1>7, <1>8 DEF IInv, AdmittedSoFar, ResolvedSoFar, Refused

\* A receipt is no image.
LEMMA IssueKeeps ==
  ASSUME IInv, Issue
  PROVE  IInv'
<1>0. PICK text \in Backends, digest \in ArchiveDigests, image \in Images :
        \E entryCount \in {0, 1, Len(image.value)} :
          IssueReceipt(text, digest, image, entryCount)
  BY DEF Issue
<1>1. PICK count \in {0, 1, Len(image.value)} : IssueReceipt(text, digest, image, count)
  BY <1>0
<1> DEFINE receipt == Receipt(ValueOf(ParseBackend(text)), digest, image.identity, count)
           record  == ReceiptBytes(ValueOf(receipt))
<1>2. PICK o : o = [kind |-> "receipt", value |-> ValueOf(receipt), identity |-> DigestOf(record)]
  OBVIOUS
<1>3. /\ pc = "idle" /\ UNCHANGED <<given, index, byPath, writer>>
      /\ \/ objects' = Append(objects, o) /\ UNCHANGED <<pc, error>>
         \/ Throw("invalid_receipt_error") /\ UNCHANGED objects
  BY <1>1, <1>2 DEF IssueReceipt
<1> HIDE DEF receipt, record
<1>4. o.kind # "image"
  BY <1>2
<1>5. CASE objects' = Append(objects, o) /\ UNCHANGED <<pc, error>>
  <2>1. /\ objects' \in Seq({objects'[n] : n \in DOMAIN objects'})
        /\ \A n \in DOMAIN objects' :
             objects'[n] = o \/ (n \in DOMAIN objects /\ objects'[n] = objects[n])
    <3>1. PICK all :
            /\ all = Append(objects, o)
            /\ all \in Seq({all[n] : n \in DOMAIN all})
            /\ \A n \in DOMAIN all : all[n] = o \/ (n \in DOMAIN objects /\ all[n] = objects[n])
      BY Appended DEF IInv
    <3>2. objects' = all
      BY <1>5, <3>1
    <3>3. QED
      BY <3>1, <3>2
  <2>2. TypeOK'
    BY <1>3, <1>5, <2>1 DEF IInv, TypeOK
  <2>3. SealedImages'
    BY <1>4, <2>1 DEF IInv, SealedImages
  <2>4. QED
    BY <1>3, <1>5, <2>2, <2>3 DEF IInv, AdmittedSoFar, ResolvedSoFar, Refused
<1>6. CASE Throw("invalid_receipt_error") /\ UNCHANGED objects
  BY <1>3, <1>6 DEF IInv, TypeOK, AdmittedSoFar, ResolvedSoFar, Refused, SealedImages, Throw
<1>7. QED
  BY <1>3, <1>5, <1>6

\* Every step keeps the invariant.
LEMMA NextKeeps ==
  ASSUME IInv, [Next]_constructionVars
  PROVE  IInv'
<1>1. CASE Stopped \/ UNCHANGED constructionVars
  <2>1. /\ pc' = pc /\ given' = given /\ index' = index /\ byPath' = byPath
        /\ writer' = writer /\ objects' = objects /\ error' = error
    BY <1>1 DEF Stopped, constructionVars
  <2>2. TypeOK' /\ Refused' /\ SealedImages'
    BY <2>1 DEF IInv, TypeOK, Refused, SealedImages
  <2>3. AdmittedSoFar'
    BY <2>1 DEF IInv, AdmittedSoFar, Admitted
  <2>4. ResolvedSoFar'
    BY <2>1 DEF IInv, ResolvedSoFar, Resolves
  <2>5. QED
    BY <2>2, <2>3, <2>4 DEF IInv
<1>2. QED
  BY <1>1, BeginKeeps, AdmitKeeps, AllAdmittedKeeps, ResolveLinkKeeps, BeginRecordKeeps,
     WriteEntryKeeps, SealImageKeeps, IssueKeeps DEF Next

\* The inductive invariant of the loops: what has been admitted is valid, has
\* its position as its id and is indexed under its path; what was refused is no
\* image; what is sealed has no path twice.
THEOREM Invariance == Spec => []IInv
<1>1. Init => IInv
  BY InitEstablishes
<1>2. IInv /\ [Next]_constructionVars => IInv'
  BY NextKeeps
<1>3. QED
  BY <1>1, <1>2, PTL DEF Spec

-----------------------------------------------------------------------------
(***************************************************************************)
(* What the loops arrive at.                                               *)
(***************************************************************************)

\* construct() accepts what Construct says is an image, with the same result,
\* and refuses everything else with the same exception, wherever duplicates and
\* hardlink targets stand in the vector.
THEOREM Agreement == Spec => []ConstructionAgrees
<1>1. IInv => ConstructionAgrees
  <2>1. ASSUME IInv, pc = "write"
        PROVE  Construct(given) = Ok(given)
    <3>1. Renumbered(given) = given
      BY <2>1, PathsDiffer
    <3>2. ValidImage(Renumbered(given))
      BY <2>1, ImageIs DEF IInv, ResolvedSoFar
    <3>3. QED
      BY <3>1, <3>2, ConstructIs
  <2>2. ASSUME IInv, pc = "failed", error # {"invalid_receipt_error"}
        PROVE  error = Construct(given).error
    <3>1. error = {"manifest_error"} /\ ~ValidImage(Renumbered(given))
      BY <2>2 DEF IInv, Refused
    <3>2. Construct(given) = Fail("manifest_error")
      BY <3>1, ConstructIs
    <3>3. QED
      BY <3>1, <3>2 DEF Fail
  <2>3. QED
    BY <2>1, <2>2 DEF ConstructionAgrees
<1>2. QED
  BY <1>1, Invariance, PTL

\* Paths and ids name the entries of a sealed image one by one, whatever ids the
\* entries came with.
THEOREM Lookup == Spec => []FindAgreesWithIds
<1>1. IInv => FindAgreesWithIds
  <2>1. SUFFICES ASSUME IInv, NEW n \in DOMAIN objects, objects[n].kind = "image",
                        NEW i \in DOMAIN objects[n].value
                 PROVE  LET e == objects[n].value[i]
                        IN  /\ FindEntry(objects[n].value, e.path) = {e}
                            /\ EntryAt(objects[n].value, e.id) = {e}
    BY DEF FindAgreesWithIds, Images
  <2>2. PICK v : v = objects[n].value
    OBVIOUS
  <2>3. Indexed(v)
    BY <2>1, <2>2 DEF IInv, SealedImages
  <2>4. Len(v) \in Nat /\ DOMAIN v = 1..Len(v) /\ i \in 1..Len(v)
    BY <2>1, <2>2, <2>3, VectorLength DEF Indexed
  <2>5. v[i].id = i - 1 /\ \A j \in DOMAIN v : v[j].path = v[i].path => j = i
    BY <2>3, <2>4 DEF Indexed
  <2>6. {j \in DOMAIN v : v[j].path = v[i].path} = {i}
    BY <2>4, <2>5
  <2>7. FindEntry(v, v[i].path) = {v[i]}
    BY <2>4, <2>6 DEF FindEntry
  <2>8. EntryAt(v, v[i].id) = {v[i]}
    BY <2>4, <2>5 DEF EntryAt
  <2>9. QED
    BY <2>2, <2>7, <2>8
<1>2. QED
  BY <1>1, Invariance, PTL

-----------------------------------------------------------------------------
(***************************************************************************)
(* Integers in a fixed width.                                              *)
(***************************************************************************)

\* A set of naturals that is not empty has a least element.
LEMMA LeastNumber ==
  ASSUME NEW T \in SUBSET Nat, T # {}
  PROVE  \E n \in T : \A m \in T : n <= m
<1>1. PICK n \in T : \A m \in T : <<m, n>> \notin OpToRel(<, Nat)
  BY NatLessThanWellFounded, WFMin
<1>2. ASSUME NEW m \in T, m < n
      PROVE  FALSE
  <2>1. <<m, n>> \in Nat \X Nat
    OBVIOUS
  <2>2. <<m, n>> \in OpToRel(<, Nat)
    BY <1>2, <2>1, Zenon DEF OpToRel
  <2>3. QED
    BY <1>1, <2>2
<1>3. QED
  BY <1>2

\* Division by 256, and what it leaves.
LEMMA Quotient ==
  ASSUME NEW a \in Int
  PROVE  /\ a \div 256 \in Int /\ a % 256 \in Byte
         /\ a = 256 * (a \div 256) + (a % 256)
BY DEF Byte

\* The recursion of Shifted.
ShiftedUpTo(f, value, n) ==
  f = [k \in 0..n |-> IF k = 0 THEN value ELSE f[k - 1] \div 256]

\* A number can be shifted as often as one likes.
LEMMA CanShift ==
  ASSUME NEW value, NEW width \in Nat
  PROVE  \E f : ShiftedUpTo(f, value, width)
<1> DEFINE T == {n \in Nat : \A f : ~ShiftedUpTo(f, value, n)}
<1>1. SUFFICES ASSUME T # {}
               PROVE  FALSE
  OBVIOUS
<1>2. PICK n \in T : \A m \in T : n <= m
  BY <1>1, LeastNumber
<1>3. n \in Nat /\ \A f : ~ShiftedUpTo(f, value, n)
  OBVIOUS
<1>4. CASE n = 0
  <2> DEFINE f == [k \in 0..0 |-> value]
  <2>1. f = [k \in 0..0 |-> IF k = 0 THEN value ELSE f[k - 1] \div 256]
    OBVIOUS
  <2> HIDE DEF f
  <2>2. ShiftedUpTo(f, value, 0)
    BY <2>1 DEF ShiftedUpTo
  <2>3. QED
    BY <1>3, <1>4, <2>2
<1>5. CASE n # 0
  <2>1. n - 1 \in Nat /\ n - 1 \notin T
    BY <1>2, <1>3, <1>5
  <2>2. PICK f : ShiftedUpTo(f, value, n - 1)
    BY <2>1
  <2> DEFINE g == [k \in 0..n |-> IF k = n THEN f[n - 1] \div 256 ELSE f[k]]
  <2>3. \A k \in 0..(n - 1) : g[k] = f[k]
    BY <1>3
  <2>4. ASSUME NEW k \in 0..n
        PROVE  g[k] = IF k = 0 THEN value ELSE g[k - 1] \div 256
    <3>1. CASE k = n
      <4>1. n - 1 \in 0..(n - 1)
        BY <2>1
      <4>2. g[k - 1] = f[n - 1]
        BY <2>3, <3>1, <4>1
      <4>3. QED
        BY <1>5, <3>1, <4>2
    <3>2. CASE k # n
      <4>1. k \in 0..(n - 1)
        BY <1>3, <3>2
      <4>2. f[k] = IF k = 0 THEN value ELSE f[k - 1] \div 256
        BY <2>2, <4>1 DEF ShiftedUpTo
      <4>3. k # 0 => k - 1 \in 0..(n - 1)
        BY <1>3, <4>1
      <4>4. QED
        BY <2>3, <4>1, <4>2, <4>3
    <3>3. QED
      BY <3>1, <3>2
  <2>5. g = [k \in 0..n |-> g[k]]
    OBVIOUS
  <2> HIDE DEF g
  <2>6. g = [k \in 0..n |-> IF k = 0 THEN value ELSE g[k - 1] \div 256]
    BY <2>4, <2>5
  <2>7. ShiftedUpTo(g, value, n)
    BY <2>6 DEF ShiftedUpTo
  <2>8. QED
    BY <1>3, <2>7
<1>6. QED
  BY <1>4, <1>5

\* Shifting by one more byte is another division.
LEMMA ShiftedIs ==
  ASSUME NEW value \in Int, NEW width \in Nat
  PROVE  /\ Shifted(value, width)[0] = value
         /\ \A k \in 1..width :
              Shifted(value, width)[k] = Shifted(value, width)[k - 1] \div 256
         /\ \A k \in 0..width : Shifted(value, width)[k] \in Int
<1>1. PICK f : ShiftedUpTo(f, value, width)
  BY CanShift
<1>2. ShiftedUpTo(Shifted(value, width), value, width)
  BY <1>1 DEF ShiftedUpTo, Shifted
<1>3. PICK s : s = Shifted(value, width)
  OBVIOUS
<1>4. /\ s[0] = value
      /\ \A k \in 1..width : s[k] = s[k - 1] \div 256
  <2>1. s = [k \in 0..width |-> IF k = 0 THEN value ELSE s[k - 1] \div 256]
    BY <1>2, <1>3 DEF ShiftedUpTo
  <2>2. QED
    BY <2>1
<1> DEFINE T == {k \in 0..width : s[k] \notin Int}
<1>5. T = {}
  <2>1. SUFFICES ASSUME T # {}
                 PROVE  FALSE
    OBVIOUS
  <2>2. T \in SUBSET Nat
    OBVIOUS
  <2>3. PICK k \in T : \A m \in T : k <= m
    BY <2>1, <2>2, LeastNumber
  <2>4. k # 0 /\ k \in 1..width /\ k - 1 \in 0..width /\ k - 1 \notin T
    BY <1>4, <2>3
  <2>5. s[k - 1] \in Int
    BY <2>4
  <2>6. s[k] \in Int
    BY <1>4, <2>4, <2>5, Quotient
  <2>7. QED
    BY <2>3, <2>6
<1>6. QED
  BY <1>3, <1>4, <1>5

\* What is written is as many bytes.
LEMMA BigEndianIs ==
  ASSUME NEW value \in Int, NEW width \in Nat
  PROVE  /\ BigEndian(value, width) \in Seq(Byte)
         /\ Len(BigEndian(value, width)) = width
         /\ \A i \in 1..width : BigEndian(value, width)[i] = Shifted(value, width)[width - i] % 256
<1>1. ASSUME NEW i \in 1..width
      PROVE  Shifted(value, width)[width - i] % 256 \in Byte
  <2>1. width - i \in 0..width
    OBVIOUS
  <2>2. Shifted(value, width)[width - i] \in Int
    BY <2>1, ShiftedIs
  <2>3. QED
    BY <2>2, Quotient
<1>2. BigEndian(value, width) \in [1..width -> Byte]
  BY <1>1 DEF BigEndian
<1>3. BigEndian(value, width) \in Seq(Byte)
  BY <1>2, SeqDef
<1>4. Len(BigEndian(value, width)) = width
  BY <1>2, <1>3, LenProperties, SMT
<1>5. QED
  BY <1>3, <1>4 DEF BigEndian

\* The bytes of a number, and what is left of it without them, tell the number.
LEMMA SameBytes ==
  ASSUME NEW a \in Int, NEW b \in Int, NEW width \in Nat, NEW m \in 0..width,
         BigEndian(a, width) = BigEndian(b, width),
         Shifted(a, width)[m] = Shifted(b, width)[m]
  PROVE  a = b
<1>1. PICK s : s = Shifted(a, width)
  OBVIOUS
<1>2. PICK t : t = Shifted(b, width)
  OBVIOUS
<1>3. /\ s[0] = a /\ (\A k \in 1..width : s[k] = s[k - 1] \div 256)
      /\ \A k \in 0..width : s[k] \in Int
  BY <1>1, ShiftedIs
<1>4. /\ t[0] = b /\ (\A k \in 1..width : t[k] = t[k - 1] \div 256)
      /\ \A k \in 0..width : t[k] \in Int
  BY <1>2, ShiftedIs
<1>5. ASSUME NEW k \in 0..(width - 1)
      PROVE  s[k] % 256 = t[k] % 256
  <2>1. width - k \in 1..width /\ width - (width - k) = k
    OBVIOUS
  <2>2. PICK i \in 1..width : i = width - k
    BY <2>1
  <2>3. BigEndian(a, width)[i] = s[width - i] % 256
    BY <1>1, BigEndianIs
  <2>4. BigEndian(b, width)[i] = t[width - i] % 256
    BY <1>2, BigEndianIs
  <2>5. QED
    BY <2>1, <2>2, <2>3, <2>4
<1> DEFINE T == {k \in 0..width : s[k] = t[k]}
<1>6. T \in SUBSET Nat /\ T # {}
  BY <1>1, <1>2
<1>7. PICK k \in T : \A n \in T : k <= n
  BY <1>6, LeastNumber
<1>8. k \in 0..width /\ s[k] = t[k]
  BY <1>7
<1>9. CASE k = 0
  BY <1>3, <1>4, <1>8, <1>9
<1>10. CASE k # 0
  <2>1. k \in 1..width /\ k - 1 \in 0..(width - 1) /\ k - 1 \in 0..width
    BY <1>8, <1>10
  <2>2. s[k] = s[k - 1] \div 256 /\ t[k] = t[k - 1] \div 256 /\ s[k - 1] % 256 = t[k - 1] % 256
    BY <1>3, <1>4, <1>5, <2>1
  <2>3. PICK p \in Int : p = s[k - 1]
    BY <1>3, <2>1
  <2>4. PICK q \in Int : q = t[k - 1]
    BY <1>4, <2>1
  <2>5. p = q
    <3>1. p \div 256 = q \div 256 /\ p % 256 = q % 256
      BY <1>8, <2>2, <2>3, <2>4
    <3>2. p = 256 * (p \div 256) + (p % 256)
      BY Quotient
    <3>3. q = 256 * (q \div 256) + (q % 256)
      BY Quotient
    <3>4. QED
      BY <3>1, <3>2, <3>3
  <2>6. k - 1 \in T
    BY <2>1, <2>3, <2>4, <2>5
  <2>7. QED
    BY <1>7, <1>8, <2>6
<1>11. QED
  BY <1>9, <1>10

\* No unsigned value of a type is narrowed.
LEMMA UnsignedTold ==
  ASSUME NEW a, NEW b, NEW width \in Nat, Fits(a, width), Fits(b, width),
         BigEndian(a, width) = BigEndian(b, width)
  PROVE  a = b
<1>1. a \in Int /\ b \in Int /\ width \in 0..width
      /\ Shifted(a, width)[width] = Shifted(b, width)[width]
  BY DEF Fits
<1>2. QED
  BY <1>1, SameBytes

\* And no signed one.
LEMMA SignedTold ==
  ASSUME NEW a, NEW b, NEW width \in Nat, width # 0,
         FitsSigned(a, width), FitsSigned(b, width),
         BigEndian(a, width) = BigEndian(b, width)
  PROVE  a = b
<1>1. a \in Int /\ b \in Int /\ width - 1 \in 0..width /\ 1 \in 1..width
  BY DEF FitsSigned
<1>2. PICK p \in -128..127 : p = Shifted(a, width)[width - 1]
  BY DEF FitsSigned
<1>3. PICK q \in -128..127 : q = Shifted(b, width)[width - 1]
  BY DEF FitsSigned
<1>4. p % 256 = q % 256
  <2>1. PICK i \in 1..width : i = 1
    BY <1>1
  <2>2. \A j \in 1..width : BigEndian(a, width)[j] = Shifted(a, width)[width - j] % 256
    BY DEF BigEndian
  <2>3. \A j \in 1..width : BigEndian(b, width)[j] = Shifted(b, width)[width - j] % 256
    BY DEF BigEndian
  <2>4. QED
    BY <1>2, <1>3, <2>1, <2>2, <2>3
<1>5. p = q
  <2>1. p = 256 * (p \div 256) + (p % 256) /\ p \div 256 \in Int
    BY Quotient
  <2>2. q = 256 * (q \div 256) + (q % 256) /\ q \div 256 \in Int
    BY Quotient
  <2>3. PICK x \in Int : x = p \div 256
    BY <2>1
  <2>4. PICK y \in Int : y = q \div 256
    BY <2>2
  <2>5. p - q = 256 * x - 256 * y
    BY <1>4, <2>1, <2>2, <2>3, <2>4
  <2>6. QED
    BY <2>5
<1>6. QED
  BY <1>1, <1>2, <1>3, <1>5, SameBytes

\* A smaller number fits as well.
LEMMA FitsBelow ==
  ASSUME NEW a \in Nat, NEW b, NEW width \in Nat, Fits(b, width), a <= b
  PROVE  Fits(a, width)
<1>0. b \in Nat /\ a \in Int /\ b \in Int
  BY DEF Fits
<1>1. PICK s : s = Shifted(a, width)
  OBVIOUS
<1>2. PICK t : t = Shifted(b, width)
  OBVIOUS
<1>3. /\ s[0] = a /\ (\A k \in 1..width : s[k] = s[k - 1] \div 256)
      /\ \A k \in 0..width : s[k] \in Int
  BY <1>0, <1>1, ShiftedIs
<1>4. /\ t[0] = b /\ (\A k \in 1..width : t[k] = t[k - 1] \div 256)
      /\ \A k \in 0..width : t[k] \in Int
  BY <1>0, <1>2, ShiftedIs
<1> DEFINE T == {k \in 0..width : ~(0 <= s[k] /\ s[k] <= t[k])}
<1>5. T = {}
  <2>1. SUFFICES ASSUME T # {}
                 PROVE  FALSE
    OBVIOUS
  <2>2. T \in SUBSET Nat
    OBVIOUS
  <2>3. PICK k \in T : \A m \in T : k <= m
    BY <2>1, <2>2, LeastNumber
  <2>4. k # 0 /\ k \in 1..width /\ k - 1 \in 0..width /\ k - 1 \notin T
    BY <1>0, <1>3, <1>4, <2>3
  <2>5. PICK p \in Int : p = s[k - 1]
    BY <1>3, <2>4
  <2>6. PICK q \in Int : q = t[k - 1]
    BY <1>4, <2>4
  <2>7. 0 <= p /\ p <= q
    BY <2>4, <2>5, <2>6
  <2>8. 0 <= p \div 256 /\ p \div 256 <= q \div 256
    BY <2>7
  <2>9. s[k] = p \div 256 /\ t[k] = q \div 256
    BY <1>3, <1>4, <2>4, <2>5, <2>6
  <2>10. QED
    BY <2>3, <2>8, <2>9
<1>6. t[width] = 0
  BY <1>2 DEF Fits
<1>7. width \in 0..width
  OBVIOUS
<1>8. s[width] = 0
  BY <1>3, <1>5, <1>6, <1>7
<1>9. QED
  BY <1>1, <1>8 DEF Fits

-----------------------------------------------------------------------------
(***************************************************************************)
(* Records that tell where they end.                                       *)
(***************************************************************************)

Bytes == Seq(Byte)

\* Where two records begin with these two, they begin with the same one, and
\* go on in the same way.
Delimits(p, q) ==
  /\ p \in Bytes /\ q \in Bytes
  /\ \A r, s \in Bytes : p \o r = q \o s => p = q /\ r = s

\* Sequences of bytes can be joined.
LEMMA BytesJoin ==
  ASSUME NEW p \in Bytes, NEW q \in Bytes
  PROVE  /\ p \o q \in Bytes
         /\ Len(p \o q) = Len(p) + Len(q)
         /\ \A i \in 1..Len(p) : (p \o q)[i] = p[i]
         /\ \A i \in 1..Len(q) : (p \o q)[Len(p) + i] = q[i]
<1>1. /\ p \o q \in Seq(Byte)
      /\ Len(p \o q) = Len(p) + Len(q)
      /\ \A i \in 1..(Len(p) + Len(q)) :
           (p \o q)[i] = IF i <= Len(p) THEN p[i] ELSE q[i - Len(p)]
  BY ConcatProperties DEF Bytes
<1>2. Len(p) \in Nat /\ Len(q) \in Nat
  BY LenProperties DEF Bytes
<1>3. PICK j : j = p \o q
  OBVIOUS
<1>4. \A i \in 1..Len(p) : j[i] = p[i]
  BY <1>1, <1>2, <1>3
<1>5. ASSUME NEW i \in 1..Len(q)
      PROVE  j[Len(p) + i] = q[i]
  <2>1. /\ Len(p) + i \in 1..(Len(p) + Len(q)) /\ ~(Len(p) + i <= Len(p))
        /\ (Len(p) + i) - Len(p) = i
    BY <1>2
  <2>2. QED
    BY <1>1, <1>3, <2>1
<1>6. QED
  BY <1>1, <1>3, <1>4, <1>5 DEF Bytes

\* The grouping does not matter.
LEMMA BytesAssociate ==
  ASSUME NEW x \in Bytes, NEW y \in Bytes, NEW z \in Bytes
  PROVE  (x \o y) \o z = x \o (y \o z)
<1>1. x \in Seq(Byte) /\ y \in Seq(Byte) /\ z \in Seq(Byte)
  BY DEF Bytes
<1>2. QED
  BY <1>1, ConcatAssociative

\* Records of one length do.
LEMMA SameLengthDelimits ==
  ASSUME NEW p \in Bytes, NEW q \in Bytes, Len(p) = Len(q)
  PROVE  Delimits(p, q)
<1>1. ASSUME NEW r \in Bytes, NEW s \in Bytes, p \o r = q \o s
      PROVE  p = q /\ r = s
  <2>1. PICK j : j = p \o r /\ j = q \o s
    BY <1>1
  <2>2. \A i \in 1..Len(p) : j[i] = p[i]
    <3>1. \A i \in 1..Len(p) : (p \o r)[i] = p[i]
      BY BytesJoin
    <3>2. QED
      BY <2>1, <3>1
  <2>3. \A i \in 1..Len(q) : j[i] = q[i]
    <3>1. \A i \in 1..Len(q) : (q \o s)[i] = q[i]
      BY BytesJoin
    <3>2. QED
      BY <2>1, <3>1
  <2>4. \A i \in 1..Len(p) : p[i] = q[i]
    BY <2>2, <2>3
  <2>5. p = q
    BY <2>4, SeqEqual DEF Bytes
  <2>6. r = s
    <3>1. p \o r = p \o s
      BY <1>1, <2>5
    <3>2. QED
      BY <3>1, ConcatSimplifications DEF Bytes
  <2>7. QED
    BY <2>5, <2>6
<1>2. QED
  BY <1>1 DEF Delimits

\* And records of two fields, where each field does.
LEMMA FieldsDelimit ==
  ASSUME NEW p, NEW q, NEW u \in Bytes, NEW v \in Bytes,
         Delimits(p, q), p = q => Delimits(u, v)
  PROVE  /\ Delimits(p \o u, q \o v)
         /\ p \o u = q \o v => p = q /\ u = v
<1>0. p \in Bytes /\ q \in Bytes
  BY DEF Delimits
<1>1. p \o u \in Bytes /\ q \o v \in Bytes
  BY <1>0, BytesJoin
<1>2. p \o u = q \o v => p = q /\ u = v
  BY DEF Delimits
<1>3. ASSUME NEW r \in Bytes, NEW s \in Bytes, (p \o u) \o r = (q \o v) \o s
      PROVE  p \o u = q \o v /\ r = s
  <2>1. (p \o u) \o r = p \o (u \o r)
    <3>1. PICK first \in Bytes : first = p
      BY <1>0
    <3>2. (first \o u) \o r = first \o (u \o r)
      BY BytesAssociate
    <3>3. QED
      BY <3>1, <3>2
  <2>2. (q \o v) \o s = q \o (v \o s)
    <3>1. PICK first \in Bytes : first = q
      BY <1>0
    <3>2. (first \o v) \o s = first \o (v \o s)
      BY BytesAssociate
    <3>3. QED
      BY <3>1, <3>2
  <2>3. u \o r \in Bytes /\ v \o s \in Bytes
    BY BytesJoin
  <2>4. p = q /\ u \o r = v \o s
    BY <1>3, <2>1, <2>2, <2>3 DEF Delimits
  <2>5. u = v /\ r = s
    BY <2>4 DEF Delimits
  <2>6. QED
    BY <2>4, <2>5
<1>4. QED
  BY <1>1, <1>2, <1>3 DEF Delimits

\* One record and then another.
Follows(x, p, u) == x = p \o u

\* The same of two fields, under a name for them together.
LEMMA FollowingDelimit ==
  ASSUME NEW p, NEW q, NEW u \in Bytes, NEW v \in Bytes, NEW x, NEW y,
         Follows(x, p, u), Follows(y, q, v), Delimits(p, q), p = q => Delimits(u, v)
  PROVE  /\ Delimits(x, y)
         /\ x = y => p = q /\ u = v
<1>1. x = p \o u /\ y = q \o v
  BY DEF Follows
<1>2. /\ Delimits(p \o u, q \o v)
      /\ p \o u = q \o v => p = q /\ u = v
  BY FieldsDelimit
<1>3. QED
  BY <1>1, <1>2

\* An integer in a fixed width.
LEMMA IntegersDelimit ==
  ASSUME NEW a \in Int, NEW b \in Int, NEW width \in Nat
  PROVE  /\ BigEndian(a, width) \in Bytes
         /\ Delimits(BigEndian(a, width), BigEndian(b, width))
BY BigEndianIs, SameLengthDelimits DEF Bytes

\* A text behind its length.
LEMMA TextsDelimit ==
  ASSUME NEW s \in Bytes, NEW t \in Bytes, Fits(Len(s), 8), Fits(Len(t), 8)
  PROVE  /\ LengthPrefixed(s) \in Bytes
         /\ Delimits(LengthPrefixed(s), LengthPrefixed(t))
         /\ LengthPrefixed(s) = LengthPrefixed(t) => s = t
<1>1. Len(s) \in Int /\ Len(t) \in Int /\ 8 \in Nat
  BY LenProperties DEF Bytes
<1>2. /\ U64(Len(s)) \in Bytes
      /\ Delimits(U64(Len(s)), U64(Len(t)))
      /\ U64(Len(s)) = U64(Len(t)) => Len(s) = Len(t)
  BY <1>1, IntegersDelimit, UnsignedTold DEF U64
<1>3. U64(Len(s)) = U64(Len(t)) => Delimits(s, t)
  BY <1>2, SameLengthDelimits
<1>4. U64(Len(s)) \o s \in Bytes
  BY <1>2, BytesJoin
<1>5. /\ Delimits(U64(Len(s)) \o s, U64(Len(t)) \o t)
      /\ U64(Len(s)) \o s = U64(Len(t)) \o t => s = t
  <2>1. PICK x, y : Follows(x, U64(Len(s)), s) /\ Follows(y, U64(Len(t)), t)
    BY DEF Follows
  <2>2. Delimits(x, y) /\ (x = y => s = t)
    BY <1>2, <1>3, <2>1, FollowingDelimit
  <2>3. QED
    BY <2>1, <2>2 DEF Follows
<1>6. QED
  BY <1>4, <1>5 DEF LengthPrefixed

\* A digest with its tags.
LEMMA DigestsDelimit ==
  ASSUME NEW d, NEW e, Fits(d, 32), Fits(e, 32)
  PROVE  /\ DigestField(d) \in Bytes
         /\ Delimits(DigestField(d), DigestField(e))
         /\ DigestField(d) = DigestField(e) => d = e
<1>1. d \in Int /\ e \in Int /\ 32 \in Nat
  BY DEF Fits
<1>2. U16(1) \o U16(1) \o U16(32) \in Bytes
  BY BytesJoin, IntegersDelimit DEF U16
<1>3. PICK tags \in Bytes : tags = U16(1) \o U16(1) \o U16(32)
  BY <1>2
<1>4. Delimits(tags, tags)
  BY SameLengthDelimits
<1>5. /\ BigEndian(d, 32) \in Bytes /\ BigEndian(e, 32) \in Bytes
      /\ Delimits(BigEndian(d, 32), BigEndian(e, 32))
      /\ BigEndian(d, 32) = BigEndian(e, 32) => d = e
  BY <1>1, IntegersDelimit, UnsignedTold
<1>6. /\ Delimits(tags \o BigEndian(d, 32), tags \o BigEndian(e, 32))
      /\ tags \o BigEndian(d, 32) = tags \o BigEndian(e, 32) => d = e
  <2>1. PICK x, y : Follows(x, tags, BigEndian(d, 32)) /\ Follows(y, tags, BigEndian(e, 32))
    BY DEF Follows
  <2>2. Delimits(x, y) /\ (x = y => d = e)
    BY <1>4, <1>5, <2>1, FollowingDelimit
  <2>3. QED
    BY <2>1, <2>2 DEF Follows
<1>7. tags \o BigEndian(d, 32) \in Bytes
  BY <1>5, BytesJoin
<1>8. DigestField(d) = tags \o BigEndian(d, 32) /\ DigestField(e) = tags \o BigEndian(e, 32)
  BY <1>3 DEF DigestField
<1>9. QED
  BY <1>6, <1>7, <1>8

\* What may be absent: the flag tells whether it is.
LEMMA OptionsDelimit ==
  ASSUME NEW W, NEW V, AtMostOne(W), AtMostOne(V),
         \A w \in W : w \in Bytes, \A v \in V : v \in Bytes,
         \A w \in W, v \in V : Delimits(w, v)
  PROVE  /\ Optional(W) \in Bytes
         /\ Delimits(Optional(W), Optional(V))
         /\ Optional(W) = Optional(V) => W = V
<1>1. /\ U8(0) \in Bytes /\ U8(1) \in Bytes
      /\ Delimits(U8(0), U8(0)) /\ Delimits(U8(0), U8(1))
      /\ Delimits(U8(1), U8(0)) /\ Delimits(U8(1), U8(1))
  BY IntegersDelimit DEF U8
<1>2. U8(0) # U8(1)
  <2>1. U8(0)[1] = 0 % 256 /\ U8(1)[1] = 1 % 256
    <3>1. PICK i \in 1..1 : i = 1
      OBVIOUS
    <3>2. BigEndian(0, 1)[i] = Shifted(0, 1)[1 - i] % 256
      BY BigEndianIs
    <3>3. BigEndian(1, 1)[i] = Shifted(1, 1)[1 - i] % 256
      BY BigEndianIs
    <3>4. Shifted(0, 1)[0] = 0 /\ Shifted(1, 1)[0] = 1
      BY ShiftedIs
    <3>5. QED
      BY <3>1, <3>2, <3>3, <3>4 DEF U8
  <2>2. QED
    BY <2>1
<1>3. /\ W = {} \/ \E w \in W : W = {w}
      /\ V = {} \/ \E v \in V : V = {v}
  BY DEF AtMostOne
<1>4. Optional({}) = U8(0)
  BY DEF Optional
<1>5. \A x : Optional({x}) = U8(1) \o x
  <2>1. \A x : (CHOOSE y \in {x} : TRUE) = x
    OBVIOUS
  <2>2. QED
    BY <2>1 DEF Optional
<1>6. <<>> \in Bytes /\ U8(0) \o <<>> = U8(0)
  BY <1>1, EmptySeq, ConcatEmptySeq DEF Bytes
<1>7. CASE W = {} /\ V = {}
  BY <1>1, <1>4, <1>7
<1>8. ASSUME NEW x \in Bytes
      PROVE  /\ U8(1) \o x \in Bytes
             /\ Delimits(U8(0), U8(1) \o x)
             /\ Delimits(U8(1) \o x, U8(0))
             /\ U8(0) # U8(1) \o x
  <2>1. U8(1) \o x \in Bytes
    BY <1>1, BytesJoin
  <2>2. \A r, s \in Bytes : U8(0) \o r # (U8(1) \o x) \o s
    <3>1. TAKE r \in Bytes, s \in Bytes
    <3>2. PICK flag \in Bytes : flag = U8(1)
      BY <1>1
    <3>3. (flag \o x) \o s = flag \o (x \o s)
      BY BytesAssociate
    <3>4. x \o s \in Bytes
      BY BytesJoin
    <3>5. QED
      BY <1>1, <1>2, <3>2, <3>3, <3>4 DEF Delimits
  <2>3. U8(0) # U8(1) \o x
    BY <1>1, <1>2, <1>6 DEF Delimits
  <2>4. QED
    BY <1>1, <2>1, <2>2, <2>3 DEF Delimits
<1>9. ASSUME NEW w \in W, W = {w}, V = {}
      PROVE  /\ Optional(W) \in Bytes
             /\ Delimits(Optional(W), Optional(V))
             /\ Optional(W) # Optional(V)
  BY <1>4, <1>5, <1>8, <1>9
<1>10. ASSUME NEW v \in V, V = {v}, W = {}
       PROVE  /\ Optional(W) \in Bytes
              /\ Delimits(Optional(W), Optional(V))
              /\ Optional(W) # Optional(V)
  BY <1>1, <1>4, <1>5, <1>8, <1>10
<1>11. ASSUME NEW w \in W, W = {w}, NEW v \in V, V = {v}
       PROVE  /\ Optional(W) \in Bytes
              /\ Delimits(Optional(W), Optional(V))
              /\ Optional(W) = Optional(V) => W = V
  <2>1. Delimits(w, v) /\ w \in Bytes /\ v \in Bytes
    OBVIOUS
  <2>2. /\ Delimits(U8(1) \o w, U8(1) \o v)
        /\ U8(1) \o w = U8(1) \o v => w = v
    BY <1>1, <2>1, FieldsDelimit, Zenon
  <2>3. Optional(W) = U8(1) \o w /\ Optional(V) = U8(1) \o v
    BY <1>5, <1>11
  <2>4. QED
    BY <1>8, <1>11, <2>1, <2>2, <2>3
<1>12. QED
  BY <1>3, <1>7, <1>9, <1>10, <1>11

-----------------------------------------------------------------------------
(***************************************************************************)
(* Records one after another.                                              *)
(***************************************************************************)

\* What holds at 0, and at each number if at the one before it, holds up to n.
LEMMA UpTo ==
  ASSUME NEW n \in Nat, NEW S, 0 \in S, \A k \in 1..n : k - 1 \in S => k \in S
  PROVE  \A k \in 0..n : k \in S
<1> DEFINE T == {k \in 0..n : k \notin S}
<1>1. SUFFICES ASSUME T # {}
               PROVE  FALSE
  OBVIOUS
<1>2. T \in SUBSET Nat
  OBVIOUS
<1>3. PICK k \in T : \A m \in T : k <= m
  BY <1>1, <1>2, LeastNumber
<1>4. k \in 1..n /\ k - 1 \in 0..n /\ k - 1 \notin T
  BY <1>3
<1>5. QED
  BY <1>3, <1>4

\* The recursion of Joined.
JoinedUpTo(f, parts, n) ==
  f = [k \in 0..n |-> IF k = 0 THEN <<>> ELSE f[k - 1] \o parts[k]]

\* Any number of parts can be joined.
LEMMA CanJoin ==
  ASSUME NEW parts, NEW n \in Nat
  PROVE  \E f : JoinedUpTo(f, parts, n)
<1> DEFINE S == {k \in 0..n : \E f : JoinedUpTo(f, parts, k)}
<1>1. 0 \in S
  <2> DEFINE f == [k \in 0..0 |-> <<>>]
  <2>1. f = [k \in 0..0 |-> IF k = 0 THEN <<>> ELSE f[k - 1] \o parts[k]]
    OBVIOUS
  <2> HIDE DEF f
  <2>2. JoinedUpTo(f, parts, 0)
    BY <2>1 DEF JoinedUpTo
  <2>3. QED
    BY <2>2
<1>2. ASSUME NEW m \in 1..n, m - 1 \in S
      PROVE  m \in S
  <2>1. m - 1 \in Nat
    OBVIOUS
  <2>2. PICK f : JoinedUpTo(f, parts, m - 1)
    BY <1>2
  <2> DEFINE g == [k \in 0..m |-> IF k = m THEN f[m - 1] \o parts[m] ELSE f[k]]
  <2>3. \A k \in 0..(m - 1) : g[k] = f[k]
    OBVIOUS
  <2>4. ASSUME NEW k \in 0..m
        PROVE  g[k] = IF k = 0 THEN <<>> ELSE g[k - 1] \o parts[k]
    <3>1. CASE k = m
      <4>1. m - 1 \in 0..(m - 1) /\ k # 0
        BY <2>1, <3>1
      <4>2. g[k - 1] = f[m - 1]
        BY <2>3, <3>1, <4>1
      <4>3. QED
        BY <3>1, <4>1, <4>2
    <3>2. CASE k # m
      <4>1. k \in 0..(m - 1)
        BY <3>2
      <4>2. f[k] = IF k = 0 THEN <<>> ELSE f[k - 1] \o parts[k]
        BY <2>2, <4>1 DEF JoinedUpTo
      <4>3. k # 0 => k - 1 \in 0..(m - 1)
        BY <4>1
      <4>4. QED
        BY <2>3, <4>1, <4>2, <4>3
    <3>3. QED
      BY <3>1, <3>2
  <2>5. g = [k \in 0..m |-> g[k]]
    OBVIOUS
  <2> HIDE DEF g
  <2>6. g = [k \in 0..m |-> IF k = 0 THEN <<>> ELSE g[k - 1] \o parts[k]]
    BY <2>4, <2>5
  <2>7. JoinedUpTo(g, parts, m)
    BY <2>6 DEF JoinedUpTo
  <2>8. QED
    BY <2>7
<1> HIDE DEF S
<1>3. n \in 0..n /\ \A k \in 0..n : k \in S
  BY <1>1, <1>2, UpTo
<1>4. QED
  BY <1>3 DEF S

\* One part more is joined at the end.
LEMMA JoinedIs ==
  ASSUME NEW parts \in Seq(Bytes)
  PROVE  /\ Len(parts) \in Nat
         /\ Joined(parts)[0] = <<>>
         /\ \A k \in 1..Len(parts) : Joined(parts)[k] = Joined(parts)[k - 1] \o parts[k]
         /\ \A k \in 1..Len(parts) : parts[k] \in Bytes
         /\ \A k \in 0..Len(parts) : Joined(parts)[k] \in Bytes
<1>1. PICK n \in Nat : n = Len(parts) /\ \A k \in 1..n : parts[k] \in Bytes
  BY LenProperties
<1>2. PICK f : JoinedUpTo(f, parts, n)
  BY CanJoin
<1>3. JoinedUpTo(Joined(parts), parts, n)
  BY <1>1, <1>2 DEF JoinedUpTo, Joined
<1>4. PICK j : j = Joined(parts)
  OBVIOUS
<1>5. /\ j[0] = <<>>
      /\ \A k \in 1..n : j[k] = j[k - 1] \o parts[k]
  <2>1. j = [k \in 0..n |-> IF k = 0 THEN <<>> ELSE j[k - 1] \o parts[k]]
    BY <1>3, <1>4 DEF JoinedUpTo
  <2>2. QED
    BY <2>1
<1> DEFINE S == {k \in 0..n : j[k] \in Bytes}
<1>6. 0 \in S
  <2>1. <<>> \in Bytes
    BY EmptySeq DEF Bytes
  <2>2. QED
    BY <1>5, <2>1
<1>7. ASSUME NEW k \in 1..n, k - 1 \in S
      PROVE  k \in S
  <2>1. j[k - 1] \in Bytes /\ parts[k] \in Bytes
    BY <1>1, <1>7
  <2>2. PICK joined \in Bytes : joined = j[k - 1] \o parts[k]
    BY <2>1, BytesJoin
  <2>3. j[k] = joined
    BY <1>5, <2>2
  <2>4. k \in 0..n
    OBVIOUS
  <2>5. QED
    BY <2>3, <2>4
<1>8. \A k \in 0..n : k \in S
  <2> HIDE DEF S
  <2>1. QED
    BY <1>6, <1>7, UpTo
<1>9. QED
  BY <1>1, <1>4, <1>5, <1>8

\* Parts that delimit themselves do so together.
LEMMA JoinedDelimits ==
  ASSUME NEW p \in Seq(Bytes), NEW q \in Seq(Bytes), NEW n \in Nat,
         n <= Len(p), n <= Len(q), \A i \in 1..n : Delimits(p[i], q[i])
  PROVE  /\ Delimits(Joined(p)[n], Joined(q)[n])
         /\ Joined(p)[n] = Joined(q)[n] => \A i \in 1..n : p[i] = q[i]
<1>1. PICK f : f = Joined(p)
  OBVIOUS
<1>2. PICK g : g = Joined(q)
  OBVIOUS
<1>3. /\ f[0] = <<>>
      /\ \A k \in 1..n : Follows(f[k], f[k - 1], p[k]) /\ p[k] \in Bytes
  <2>1. /\ Len(p) \in Nat /\ Joined(p)[0] = <<>>
        /\ \A k \in 1..Len(p) : Joined(p)[k] = Joined(p)[k - 1] \o p[k]
        /\ \A k \in 1..Len(p) : p[k] \in Bytes
    BY JoinedIs
  <2>2. \A k \in 1..n : k \in 1..Len(p)
    BY <2>1
  <2>3. QED
    BY <1>1, <2>1, <2>2 DEF Follows
<1>4. /\ g[0] = <<>>
      /\ \A k \in 1..n : Follows(g[k], g[k - 1], q[k]) /\ q[k] \in Bytes
  <2>1. /\ Len(q) \in Nat /\ Joined(q)[0] = <<>>
        /\ \A k \in 1..Len(q) : Joined(q)[k] = Joined(q)[k - 1] \o q[k]
        /\ \A k \in 1..Len(q) : q[k] \in Bytes
    BY JoinedIs
  <2>2. \A k \in 1..n : k \in 1..Len(q)
    BY <2>1
  <2>3. QED
    BY <1>2, <2>1, <2>2 DEF Follows
<1> DEFINE S == {k \in 0..n : /\ Delimits(f[k], g[k])
                              /\ f[k] = g[k] => \A i \in 1..k : p[i] = q[i]}
<1>5. 0 \in S
  <2>1. Delimits(<<>>, <<>>)
    BY EmptySeq, SameLengthDelimits DEF Bytes
  <2>2. QED
    BY <1>3, <1>4, <2>1
<1>6. ASSUME NEW k \in 1..n, k - 1 \in S
      PROVE  k \in S
  <2>1. /\ Delimits(f[k - 1], g[k - 1]) /\ Delimits(p[k], q[k])
        /\ f[k - 1] = g[k - 1] => \A i \in 1..(k - 1) : p[i] = q[i]
        /\ p[k] \in Bytes /\ q[k] \in Bytes
    BY <1>3, <1>4, <1>6
  <2>2. Follows(f[k], f[k - 1], p[k]) /\ Follows(g[k], g[k - 1], q[k])
    BY <1>3, <1>4
  <2>3. /\ Delimits(f[k], g[k])
        /\ f[k] = g[k] => f[k - 1] = g[k - 1] /\ p[k] = q[k]
    BY <2>1, <2>2, FollowingDelimit
  <2>4. k \in 0..n
    OBVIOUS
  <2>5. ASSUME f[k] = g[k], NEW i \in 1..k
        PROVE  p[i] = q[i]
    <3>1. f[k - 1] = g[k - 1] /\ p[k] = q[k]
      BY <2>3, <2>5
    <3>2. i = k \/ i \in 1..(k - 1)
      OBVIOUS
    <3>3. QED
      BY <2>1, <3>1, <3>2
  <2>6. QED
    BY <2>3, <2>4, <2>5
<1>7. \A k \in 0..n : k \in S
  <2> HIDE DEF S
  <2>1. QED
    BY <1>5, <1>6, UpTo
<1>8. n \in S
  BY <1>7
<1>9. QED
  BY <1>1, <1>2, <1>8

\* More parts begin like fewer of them.
LEMMA JoinedGrows ==
  ASSUME NEW p \in Seq(Bytes), NEW n \in 0..Len(p)
  PROVE  \A m \in n..Len(p) : \E rest \in Bytes : Joined(p)[m] = Joined(p)[n] \o rest
<1>1. PICK f : f = Joined(p)
  OBVIOUS
<1>2. /\ Len(p) \in Nat
      /\ \A k \in 1..Len(p) : f[k] = f[k - 1] \o p[k] /\ p[k] \in Bytes
      /\ \A k \in 0..Len(p) : f[k] \in Bytes
  BY <1>1, JoinedIs
<1> DEFINE S == {k \in 0..Len(p) : k >= n => \E rest \in Bytes : f[k] = f[n] \o rest}
<1>3. \E rest \in Bytes : f[n] = f[n] \o rest
  <2>1. <<>> \in Bytes /\ f[n] \o <<>> = f[n]
    BY <1>2, EmptySeq, ConcatEmptySeq DEF Bytes
  <2>2. QED
    BY <2>1
<1>4. 0 \in S
  BY <1>2, <1>3
<1>5. ASSUME NEW k \in 1..Len(p), k - 1 \in S
      PROVE  k \in S
  <2>1. CASE k <= n
    BY <1>3, <2>1
  <2>2. CASE k > n
    <3>1. PICK rest \in Bytes : f[k - 1] = f[n] \o rest
      BY <1>5, <2>2
    <3>2. f[k] = (f[n] \o rest) \o p[k] /\ p[k] \in Bytes /\ f[n] \in Bytes
      BY <1>2, <3>1
    <3>3. (f[n] \o rest) \o p[k] = f[n] \o (rest \o p[k])
      BY <3>2, BytesAssociate
    <3>4. PICK longer \in Bytes : longer = rest \o p[k]
      BY <3>2, BytesJoin
    <3>5. f[k] = f[n] \o longer
      BY <3>2, <3>3, <3>4
    <3>6. QED
      BY <3>5
  <2>3. k <= n \/ k > n
    OBVIOUS
  <2>4. QED
    BY <2>1, <2>2, <2>3, Zenon
<1>6. \A k \in 0..Len(p) : k \in S
  <2> HIDE DEF S
  <2>1. QED
    BY <1>2, <1>4, <1>5, UpTo
<1>7. ASSUME NEW m \in n..Len(p)
      PROVE  \E rest \in Bytes : f[m] = f[n] \o rest
  <2>1. m \in 0..Len(p) /\ m >= n
    BY <1>2
  <2>2. QED
    BY <1>6, <2>1
<1>8. QED
  BY <1>1, <1>7

\* A name with a separator behind it: the first separator ends it.
LEMMA NamesDelimit ==
  ASSUME NEW s \in Bytes, NEW t \in Bytes,
         \A k \in DOMAIN s : s[k] # 47, \A k \in DOMAIN t : t[k] # 47
  PROVE  /\ Delimits(s \o <<47>>, t \o <<47>>)
         /\ s \o <<47>> = t \o <<47>> => s = t
<1>1. <<47>> \in Bytes /\ Len(<<47>>) = 1 /\ <<47>>[1] = 47
  BY DEF Bytes, Byte
<1>2. PICK separator \in Bytes : separator = <<47>>
  BY <1>1
<1>3. /\ DOMAIN s = 1..Len(s) /\ Len(s) \in Nat
      /\ DOMAIN t = 1..Len(t) /\ Len(t) \in Nat
  BY LenProperties DEF Bytes
<1>4. ASSUME NEW x \in Bytes, NEW y \in Bytes, NEW r \in Bytes, NEW u \in Bytes,
             (x \o separator) \o r = (y \o separator) \o u,
             \A k \in 1..Len(y) : y[k] # 47, Len(x) \in Nat, Len(y) \in Nat
      PROVE  ~(Len(x) < Len(y))
  <2>1. SUFFICES ASSUME Len(x) < Len(y)
                 PROVE  FALSE
    OBVIOUS
  <2>2. PICK k \in 1..Len(y) : k = Len(x) + 1
    BY <1>4, <2>1
  <2>3. PICK j : j = (y \o separator) \o u
    OBVIOUS
  <2>4. j[k] = y[k]
    <3>1. y \o separator \in Bytes /\ Len(y \o separator) = Len(y) + Len(separator)
          /\ \A i \in 1..Len(y) : (y \o separator)[i] = y[i]
      BY BytesJoin
    <3>2. PICK w \in Bytes : w = y \o separator
      BY <3>1
    <3>3. \A i \in 1..Len(w) : (w \o u)[i] = w[i]
      BY BytesJoin
    <3>4. k \in 1..Len(w)
      BY <1>1, <1>2, <1>4, <3>1, <3>2
    <3>5. QED
      BY <2>3, <3>1, <3>2, <3>3, <3>4
  <2>5. j[k] = 47
    <3>1. x \o separator \in Bytes /\ Len(x \o separator) = Len(x) + Len(separator)
          /\ \A i \in 1..Len(separator) : (x \o separator)[Len(x) + i] = separator[i]
      BY BytesJoin
    <3>2. PICK w \in Bytes : w = x \o separator
      BY <3>1
    <3>3. \A i \in 1..Len(w) : (w \o r)[i] = w[i]
      BY BytesJoin
    <3>4. k \in 1..Len(w)
      BY <1>1, <1>2, <1>4, <2>2, <3>1, <3>2
    <3>5. w[k] = 47
      <4>1. PICK i \in 1..Len(separator) : i = 1
        BY <1>1, <1>2
      <4>2. (x \o separator)[Len(x) + i] = separator[i]
        BY <3>1
      <4>3. QED
        BY <1>1, <1>2, <2>2, <3>2, <4>1, <4>2
    <3>6. j = w \o r
      BY <1>4, <2>3, <3>2
    <3>7. QED
      BY <3>3, <3>4, <3>5, <3>6
  <2>6. QED
    BY <1>4, <2>4, <2>5
<1>5. ASSUME NEW r \in Bytes, NEW u \in Bytes,
             (s \o separator) \o r = (t \o separator) \o u
      PROVE  s = t /\ r = u
  <2>1. ~(Len(s) < Len(t))
    BY <1>3, <1>4, <1>5
  <2>2. ~(Len(t) < Len(s))
    BY <1>3, <1>4, <1>5
  <2>3. PICK m, n \in Nat : m = Len(s) /\ n = Len(t)
    BY <1>3
  <2>4. m = n
    BY <2>1, <2>2, <2>3
  <2>5. Delimits(s, t) /\ Delimits(separator, separator)
    BY <2>3, <2>4, SameLengthDelimits
  <2>6. /\ Delimits(s \o separator, t \o separator)
        /\ s \o separator = t \o separator => s = t
    BY <2>5, FieldsDelimit, Zenon
  <2>7. QED
    BY <1>5, <2>6 DEF Delimits
<1>6. s \o separator \in Bytes /\ t \o separator \in Bytes
  BY BytesJoin
<1>7. Delimits(s \o separator, t \o separator)
  BY <1>5, <1>6 DEF Delimits
<1>8. ASSUME s \o separator = t \o separator
      PROVE  s = t
  <2>1. <<>> \in Bytes
    BY EmptySeq DEF Bytes
  <2>2. QED
    BY <1>5, <1>8, <2>1
<1>9. QED
  BY <1>2, <1>7, <1>8

\* The components of a path, a separator behind each.
Terminated(path) == [n \in 1..Len(path) |-> TextBytes[path[n]] \o <<47>>]

\* A path is a sequence of texts without a separator.
LEMMA PathIs ==
  ASSUME NEW path, IsPath(path)
  PROVE  /\ Len(path) \in Nat \ {0} /\ DOMAIN path = 1..Len(path)
         /\ \A n \in 1..Len(path) : /\ path[n] \in DOMAIN TextBytes
                                    /\ TextBytes[path[n]] \in Bytes
                                    /\ \A k \in DOMAIN TextBytes[path[n]] :
                                         TextBytes[path[n]][k] # 47
<1>1. path \in Seq(DOMAIN TextBytes) /\ path # <<>>
  BY DEF IsPath
<1>2. Len(path) \in Nat /\ DOMAIN path = 1..Len(path)
      /\ \A n \in 1..Len(path) : path[n] \in DOMAIN TextBytes
  BY <1>1, LenProperties, ElementOfSeq
<1>3. Len(path) # 0
  BY <1>1, EmptySeq
<1>4. QED
  BY <1>2, <1>3, TextBytesAssumption DEF IsPath, Bytes

\* A path and a separator are its components with a separator behind each.
LEMMA TerminatedIs ==
  ASSUME NEW path, IsPath(path)
  PROVE  /\ PathParts(path) \in Seq(Bytes) /\ Len(PathParts(path)) = Len(path)
         /\ Terminated(path) \in Seq(Bytes) /\ Len(Terminated(path)) = Len(path)
         /\ \A n \in 1..Len(path) : Terminated(path)[n] = TextBytes[path[n]] \o <<47>>
         /\ PathBytes(path) \in Bytes
         /\ PathBytes(path) \o <<47>> = Joined(Terminated(path))[Len(path)]
<1>1. PICK n \in Nat \ {0} : n = Len(path)
  BY PathIs
<1>2. \A k \in 1..n : TextBytes[path[k]] \in Bytes
  BY <1>1, PathIs
<1>3. <<47>> \in Bytes
  BY DEF Bytes, Byte
<1>4. PICK separator \in Bytes : separator = <<47>>
  BY <1>3
<1>5. <<>> \in Bytes /\ \A b \in Bytes : <<>> \o b = b /\ b \o <<>> = b
  BY EmptySeq, ConcatEmptySeq DEF Bytes
<1>6. PICK parts : parts = PathParts(path)
  OBVIOUS
<1>7. PICK ended : ended = Terminated(path)
  OBVIOUS
<1>8. /\ parts \in [1..n -> Bytes]
      /\ \A k \in 1..n :
           parts[k] = IF k = 1 THEN TextBytes[path[k]] ELSE separator \o TextBytes[path[k]]
  <2>1. parts = [k \in 1..n |-> (IF k = 1 THEN <<>> ELSE separator) \o TextBytes[path[k]]]
    BY <1>1, <1>4, <1>6 DEF PathParts
  <2>2. ASSUME NEW k \in 1..n
        PROVE  /\ parts[k] \in Bytes
               /\ parts[k] = IF k = 1 THEN TextBytes[path[k]]
                                      ELSE separator \o TextBytes[path[k]]
    <3>1. PICK b \in Bytes : b = TextBytes[path[k]]
      BY <1>2
    <3>2. parts[k] = (IF k = 1 THEN <<>> ELSE separator) \o b
      BY <2>1, <3>1
    <3>3. separator \o b \in Bytes
      BY BytesJoin
    <3>4. CASE k = 1
      BY <1>5, <3>1, <3>2, <3>4
    <3>5. CASE k # 1
      BY <3>1, <3>2, <3>3, <3>5
    <3>6. QED
      BY <3>4, <3>5
  <2>3. DOMAIN parts = 1..n /\ parts = [k \in 1..n |-> parts[k]]
    BY <2>1
  <2>4. QED
    BY <2>2, <2>3
<1>9. /\ ended \in [1..n -> Bytes]
      /\ \A k \in 1..n : ended[k] = TextBytes[path[k]] \o separator
  <2>1. ended = [k \in 1..n |-> TextBytes[path[k]] \o separator]
    BY <1>1, <1>4, <1>7 DEF Terminated
  <2>2. \A k \in 1..n : TextBytes[path[k]] \o separator \in Bytes
    BY <1>2, BytesJoin
  <2>3. QED
    BY <2>1, <2>2
<1>10. /\ parts \in Seq(Bytes) /\ Len(parts) = n
       /\ ended \in Seq(Bytes) /\ Len(ended) = n
  <2>1. parts \in Seq(Bytes) /\ ended \in Seq(Bytes)
    BY <1>8, <1>9, SeqDef
  <2>2. DOMAIN parts = 1..n /\ DOMAIN ended = 1..n
    BY <1>8, <1>9
  <2>3. QED
    BY <2>1, <2>2, LenProperties, SMT
<1>11. PICK f : f = Joined(parts)
  OBVIOUS
<1>12. PICK g : g = Joined(ended)
  OBVIOUS
<1>13. /\ f[0] = <<>>
       /\ \A k \in 1..n : f[k] = f[k - 1] \o parts[k]
       /\ \A k \in 0..n : f[k] \in Bytes
  BY <1>10, <1>11, JoinedIs
<1>14. /\ g[0] = <<>>
       /\ \A k \in 1..n : g[k] = g[k - 1] \o ended[k]
  BY <1>10, <1>12, JoinedIs
<1> DEFINE S == {k \in 0..n : k = 0 \/ f[k] \o separator = g[k]}
<1>15. 0 \in S
  OBVIOUS
<1>16. ASSUME NEW k \in 1..n, k - 1 \in S
       PROVE  k \in S
  <2>1. PICK b \in Bytes : b = TextBytes[path[k]]
    BY <1>2
  <2>2. g[k] = g[k - 1] \o (b \o separator)
    BY <1>9, <1>14, <2>1
  <2>3. b \o separator \in Bytes /\ separator \o b \in Bytes
    BY BytesJoin
  <2>4. CASE k = 1
    <3>1. f[k - 1] = <<>> /\ g[k - 1] = <<>>
      BY <1>13, <1>14, <2>4
    <3>2. parts[k] = b
      BY <1>8, <2>1, <2>4
    <3>3. f[k] = b
      BY <1>5, <1>13, <3>1, <3>2
    <3>4. PICK c \in Bytes : c = b \o separator
      BY <2>3
    <3>5. g[k] = c
      BY <1>5, <2>2, <3>1, <3>4
    <3>6. f[k] \o separator = g[k]
      BY <3>3, <3>4, <3>5
    <3>7. k \in 0..n
      OBVIOUS
    <3>8. QED
      BY <3>6, <3>7
  <2>5. CASE k # 1
    <3>1. f[k - 1] \o separator = g[k - 1] /\ f[k - 1] \in Bytes
      BY <1>13, <1>16, <2>5
    <3>2. PICK a \in Bytes : a = f[k - 1]
      BY <3>1
    <3>3. PICK c \in Bytes : c = b \o separator
      BY <2>3
    <3>4. PICK d \in Bytes : d = separator \o b
      BY <2>3
    <3>5. f[k] = a \o d
      BY <1>8, <1>13, <2>1, <2>5, <3>2, <3>4
    <3>6. g[k] = (a \o separator) \o c
      BY <2>2, <3>1, <3>2, <3>3
    <3>7. (a \o d) \o separator = a \o (d \o separator)
      BY BytesAssociate
    <3>8. (separator \o b) \o separator = separator \o (b \o separator)
      BY BytesAssociate
    <3>9. d \o separator = separator \o c
      BY <3>3, <3>4, <3>8
    <3>10. (a \o separator) \o c = a \o (separator \o c)
      BY BytesAssociate
    <3>11. f[k] \o separator = g[k]
      BY <3>5, <3>6, <3>7, <3>9, <3>10
    <3>12. k \in 0..n
      OBVIOUS
    <3>13. QED
      BY <3>11, <3>12
  <2>6. QED
    BY <2>4, <2>5
<1>17. n \in 0..n /\ \A k \in 0..n : k \in S
  <2> HIDE DEF S
  <2>1. QED
    BY <1>15, <1>16, UpTo
<1>18. f[n] \o separator = g[n] /\ f[n] \in Bytes
  BY <1>13, <1>17
<1>19. PathBytes(path) = f[n]
  BY <1>1, <1>6, <1>11 DEF PathBytes
<1>20. QED
  BY <1>1, <1>4, <1>6, <1>7, <1>9, <1>10, <1>12, <1>18, <1>19

\* Different paths are spelled differently.
LEMMA PathsTold ==
  ASSUME NEW p, NEW q, IsPath(p), IsPath(q), PathBytes(p) = PathBytes(q)
  PROVE  p = q
<1>1. ASSUME NEW x, NEW y, IsPath(x), IsPath(y), PathBytes(x) = PathBytes(y),
             Len(x) <= Len(y)
      PROVE  x = y
  <2>1. PICK n \in Nat \ {0} : n = Len(x)
    BY <1>1, PathIs
  <2>2. PICK m \in Nat : m = Len(y) /\ n <= m
    BY <1>1, <2>1, PathIs
  <2>3. PICK f \in Seq(Bytes) : f = Terminated(x)
    BY <1>1, TerminatedIs
  <2>4. PICK g \in Seq(Bytes) : g = Terminated(y)
    BY <1>1, TerminatedIs
  <2>5. /\ Len(f) = n /\ \A i \in 1..n : f[i] = TextBytes[x[i]] \o <<47>>
        /\ Len(g) = m /\ \A i \in 1..m : g[i] = TextBytes[y[i]] \o <<47>>
    BY <1>1, <2>1, <2>2, <2>3, <2>4, TerminatedIs
  <2>6. Joined(f)[n] = Joined(g)[m]
    BY <1>1, <2>1, <2>2, <2>3, <2>4, TerminatedIs
  <2>7. ASSUME NEW i \in 1..n
        PROVE  /\ Delimits(f[i], g[i])
               /\ f[i] = g[i] => x[i] = y[i]
    <3>1. i \in 1..m
      BY <2>2
    <3>2. PICK s \in Bytes : s = TextBytes[x[i]] /\ x[i] \in DOMAIN TextBytes
                             /\ \A k \in DOMAIN s : s[k] # 47
      BY <1>1, <2>1, PathIs
    <3>3. PICK t \in Bytes : t = TextBytes[y[i]] /\ y[i] \in DOMAIN TextBytes
                             /\ \A k \in DOMAIN t : t[k] # 47
      BY <1>1, <2>2, <3>1, PathIs
    <3>4. /\ Delimits(s \o <<47>>, t \o <<47>>)
          /\ s \o <<47>> = t \o <<47>> => s = t
      BY <3>2, <3>3, NamesDelimit
    <3>5. s = t => x[i] = y[i]
      BY <3>2, <3>3, TextBytesAssumption
    <3>6. f[i] = s \o <<47>> /\ g[i] = t \o <<47>>
      BY <2>5, <3>1, <3>2, <3>3
    <3>7. QED
      BY <3>4, <3>5, <3>6
  <2>8. /\ Delimits(Joined(f)[n], Joined(g)[n])
        /\ Joined(f)[n] = Joined(g)[n] => \A i \in 1..n : f[i] = g[i]
    <3>1. n <= Len(f) /\ n <= Len(g) /\ \A i \in 1..n : Delimits(f[i], g[i])
      BY <2>2, <2>5, <2>7
    <3>2. QED
      BY <3>1, JoinedDelimits
  <2>9. PICK h \in Bytes : h = Joined(f)[n] /\ Delimits(h, Joined(g)[n])
    BY <2>8 DEF Delimits
  <2>10. <<>> \in Bytes /\ h = h \o <<>>
    BY EmptySeq, ConcatEmptySeq DEF Bytes
  <2>11. n = m
    <3>1. SUFFICES ASSUME n < m
                   PROVE  FALSE
      BY <2>2
    <3>2. n \in 0..Len(g) /\ m - 1 \in n..Len(g) /\ m \in 1..Len(g)
      BY <2>2, <2>5, <3>1
    <3>3. PICK rest \in Bytes : Joined(g)[m - 1] = Joined(g)[n] \o rest
      BY <3>2, JoinedGrows
    <3>4. Joined(g)[m] = Joined(g)[m - 1] \o g[m] /\ g[m] \in Bytes
      BY <3>2, JoinedIs
    <3>5. PICK last \in Bytes : last = g[m]
      BY <3>4
    <3>6. PICK base \in Bytes : base = Joined(g)[n]
      BY <2>9 DEF Delimits
    <3>7. (base \o rest) \o last = base \o (rest \o last) /\ rest \o last \in Bytes
          /\ Len(rest \o last) = Len(rest) + Len(last)
      BY BytesAssociate, BytesJoin
    <3>8. h \o <<>> = base \o (rest \o last)
      BY <2>6, <2>9, <2>10, <3>3, <3>4, <3>5, <3>6, <3>7
    <3>9. <<>> = rest \o last
      BY <2>9, <2>10, <3>6, <3>7, <3>8 DEF Delimits
    <3>10. Len(last) # 0
      <4>1. PICK s \in Bytes : s = TextBytes[y[m]]
        BY <1>1, <2>2, <2>5, <3>2, PathIs
      <4>2. last = s \o <<47>>
        BY <2>5, <3>2, <3>5, <4>1
      <4>3. <<47>> \in Bytes /\ Len(<<47>>) = 1
        BY DEF Bytes, Byte
      <4>4. Len(s \o <<47>>) = Len(s) + Len(<<47>>)
        BY <4>3, BytesJoin
      <4>5. Len(s) \in Nat
        BY LenProperties DEF Bytes
      <4>6. QED
        BY <4>2, <4>3, <4>4, <4>5
    <3>11. PICK k, l \in Nat : k = Len(rest) /\ l = Len(last)
      BY LenProperties DEF Bytes
    <3>12. k + l = 0
      BY <3>7, <3>9, <3>11
    <3>13. QED
      BY <3>10, <3>11, <3>12
  <2>12. \A i \in 1..n : x[i] = y[i]
    BY <2>6, <2>7, <2>8, <2>11
  <2>13. x \in Seq(DOMAIN TextBytes) /\ y \in Seq(DOMAIN TextBytes)
    BY <1>1 DEF IsPath
  <2>14. QED
    BY <2>1, <2>2, <2>11, <2>12, <2>13, SeqEqual
<1>2. Len(p) \in Nat /\ Len(q) \in Nat
  BY PathIs
<1>3. CASE Len(p) <= Len(q)
  BY <1>1, <1>3
<1>4. CASE Len(q) <= Len(p)
  BY <1>1, <1>4
<1>5. QED
  BY <1>2, <1>3, <1>4

-----------------------------------------------------------------------------
(***************************************************************************)
(* The fields of the records.                                              *)
(***************************************************************************)

\* Unsigned integers.
LEMMA NumbersTold ==
  ASSUME NEW a, NEW b, NEW width \in Nat, Fits(a, width), Fits(b, width)
  PROVE  /\ Delimits(BigEndian(a, width), BigEndian(b, width))
         /\ BigEndian(a, width) = BigEndian(b, width) => a = b
<1>1. a \in Int /\ b \in Int
  BY DEF Fits
<1>2. QED
  BY <1>1, IntegersDelimit, UnsignedTold

\* The codes of the types.
LEMMA TypesTold ==
  ASSUME NEW s \in DOMAIN EntryTypeCode, NEW t \in DOMAIN EntryTypeCode
  PROVE  /\ Delimits(U8(EntryTypeCode[s]), U8(EntryTypeCode[t]))
         /\ U8(EntryTypeCode[s]) = U8(EntryTypeCode[t]) => s = t
<1>1. PICK a \in 1..7 : a = EntryTypeCode[s]
  BY DEF EntryTypeCode
<1>2. PICK b \in 1..7 : b = EntryTypeCode[t]
  BY DEF EntryTypeCode
<1>3. ASSUME NEW c \in 1..7
      PROVE  Fits(c, 1)
  <2>1. PICK k \in 1..1 : k = 1
    OBVIOUS
  <2>2. Shifted(c, 1)[0] = c /\ Shifted(c, 1)[k] = Shifted(c, 1)[k - 1] \div 256
    BY ShiftedIs
  <2>3. c \div 256 = 0
    OBVIOUS
  <2>4. QED
    BY <2>1, <2>2, <2>3 DEF Fits
<1>4. /\ Delimits(BigEndian(a, 1), BigEndian(b, 1))
      /\ BigEndian(a, 1) = BigEndian(b, 1) => a = b
  BY <1>3, NumbersTold
<1>5. a = b => s = t
  <2> DEFINE TypeOf == <<"regular", "directory", "symlink", "hardlink", "fifo",
                         "character_device", "block_device">>
  <2>1. \A x \in DOMAIN EntryTypeCode : TypeOf[EntryTypeCode[x]] = x
    BY DEF EntryTypeCode
  <2> HIDE DEF TypeOf
  <2>2. TypeOf[a] = s /\ TypeOf[b] = t
    BY <1>1, <1>2, <2>1
  <2>3. QED
    BY <2>2
<1>6. QED
  BY <1>1, <1>2, <1>4, <1>5 DEF U8

\* What may be absent, with the bytes f gives what is present.
LEMMA OptionsTold ==
  ASSUME NEW A, NEW B, NEW f, AtMostOne(A), AtMostOne(B),
         \A x \in A, y \in B : Delimits(f[x], f[y]) /\ (f[x] = f[y] => x = y),
         \A x \in A \union B : f[x] \in Bytes
  PROVE  /\ Delimits(Optional({f[x] : x \in A}), Optional({f[y] : y \in B}))
         /\ Optional({f[x] : x \in A}) = Optional({f[y] : y \in B}) => A = B
<1>1. PICK W : W = {f[x] : x \in A}
  OBVIOUS
<1>2. PICK V : V = {f[y] : y \in B}
  OBVIOUS
<1>3. AtMostOne(W) /\ AtMostOne(V)
  BY <1>1, <1>2 DEF AtMostOne
<1>4. /\ \A w \in W : w \in Bytes
      /\ \A v \in V : v \in Bytes
      /\ \A w \in W, v \in V : Delimits(w, v)
  BY <1>1, <1>2
<1>5. /\ Delimits(Optional(W), Optional(V))
      /\ Optional(W) = Optional(V) => W = V
  BY <1>3, <1>4, OptionsDelimit
<1>6. ASSUME W = V
      PROVE  A = B
  <2>1. ASSUME NEW x \in A
        PROVE  x \in B
    <3>1. PICK y \in B : f[x] = f[y]
      BY <1>1, <1>2, <1>6
    <3>2. QED
      BY <3>1
  <2>2. ASSUME NEW y \in B
        PROVE  y \in A
    <3>1. PICK x \in A : f[x] = f[y]
      BY <1>1, <1>2, <1>6
    <3>2. QED
      BY <3>1
  <2>3. QED
    BY <2>1, <2>2
<1>7. QED
  BY <1>1, <1>2, <1>5, <1>6

\* An optional text.
LEMMA TextOptionsTold ==
  ASSUME NEW A \in SUBSET DOMAIN TextBytes, NEW B \in SUBSET DOMAIN TextBytes,
         AtMostOne(A), AtMostOne(B)
  PROVE  LET v == Optional({LengthPrefixed(TextBytes[text]) : text \in A})
             w == Optional({LengthPrefixed(TextBytes[text]) : text \in B})
         IN  Delimits(v, w) /\ (v = w => A = B)
<1> DEFINE f == [text \in A \union B |-> LengthPrefixed(TextBytes[text])]
<1>1. /\ \A text \in A \union B : f[text] = LengthPrefixed(TextBytes[text])
      /\ {f[text] : text \in A} = {LengthPrefixed(TextBytes[text]) : text \in A}
      /\ {f[text] : text \in B} = {LengthPrefixed(TextBytes[text]) : text \in B}
  OBVIOUS
<1> HIDE DEF f
<1>2. ASSUME NEW x \in A \union B, NEW y \in A \union B
      PROVE  f[x] \in Bytes /\ Delimits(f[x], f[y]) /\ (f[x] = f[y] => x = y)
  <2>1. PICK s \in Bytes : s = TextBytes[x] /\ Fits(Len(s), 8)
    BY TextBytesAssumption DEF Bytes
  <2>2. PICK t \in Bytes : t = TextBytes[y] /\ Fits(Len(t), 8)
    BY TextBytesAssumption DEF Bytes
  <2>3. s = t => x = y
    BY <2>1, <2>2, TextBytesAssumption
  <2>4. /\ LengthPrefixed(s) \in Bytes
        /\ Delimits(LengthPrefixed(s), LengthPrefixed(t))
        /\ LengthPrefixed(s) = LengthPrefixed(t) => s = t
    BY <2>1, <2>2, TextsDelimit
  <2>5. QED
    BY <1>1, <2>1, <2>2, <2>3, <2>4
<1>3. /\ Delimits(Optional({f[x] : x \in A}), Optional({f[y] : y \in B}))
      /\ Optional({f[x] : x \in A}) = Optional({f[y] : y \in B}) => A = B
  BY <1>2, OptionsTold
<1>4. QED
  BY <1>1, <1>3

\* A path behind its length.
LEMMA PathFieldsTold ==
  ASSUME NEW p, NEW q, IsPath(p), IsPath(q)
  PROVE  /\ LengthPrefixed(PathBytes(p)) \in Bytes
         /\ Delimits(LengthPrefixed(PathBytes(p)), LengthPrefixed(PathBytes(q)))
         /\ LengthPrefixed(PathBytes(p)) = LengthPrefixed(PathBytes(q)) => p = q
<1>1. PICK s \in Bytes : s = PathBytes(p) /\ Fits(Len(s), 8)
  BY TerminatedIs DEF IsPath
<1>2. PICK t \in Bytes : t = PathBytes(q) /\ Fits(Len(t), 8)
  BY TerminatedIs DEF IsPath
<1>3. s = t => p = q
  BY <1>1, <1>2, PathsTold
<1>4. /\ LengthPrefixed(s) \in Bytes
      /\ Delimits(LengthPrefixed(s), LengthPrefixed(t))
      /\ LengthPrefixed(s) = LengthPrefixed(t) => s = t
  BY <1>1, <1>2, TextsDelimit
<1>5. QED
  BY <1>1, <1>2, <1>3, <1>4

\* An optional path.
LEMMA PathOptionsTold ==
  ASSUME NEW A, NEW B, AtMostOne(A), AtMostOne(B), \A path \in A \union B : IsPath(path)
  PROVE  LET v == Optional({LengthPrefixed(PathBytes(path)) : path \in A})
             w == Optional({LengthPrefixed(PathBytes(path)) : path \in B})
         IN  Delimits(v, w) /\ (v = w => A = B)
<1> DEFINE f == [path \in A \union B |-> LengthPrefixed(PathBytes(path))]
<1>1. /\ \A path \in A \union B : f[path] = LengthPrefixed(PathBytes(path))
      /\ {f[path] : path \in A} = {LengthPrefixed(PathBytes(path)) : path \in A}
      /\ {f[path] : path \in B} = {LengthPrefixed(PathBytes(path)) : path \in B}
  OBVIOUS
<1> HIDE DEF f
<1>2. ASSUME NEW x \in A \union B, NEW y \in A \union B
      PROVE  f[x] \in Bytes /\ Delimits(f[x], f[y]) /\ (f[x] = f[y] => x = y)
  BY <1>1, PathFieldsTold
<1>3. /\ Delimits(Optional({f[x] : x \in A}), Optional({f[y] : y \in B}))
      /\ Optional({f[x] : x \in A}) = Optional({f[y] : y \in B}) => A = B
  BY <1>2, OptionsTold
<1>4. QED
  BY <1>1, <1>3

\* An optional device number.
LEMMA DeviceOptionsTold ==
  ASSUME NEW A, NEW B, AtMostOne(A), AtMostOne(B),
         \A d \in A \union B : /\ d = [major |-> d.major, minor |-> d.minor]
                               /\ Fits(d.major, 8) /\ Fits(d.minor, 8)
  PROVE  LET v == Optional({U64(d.major) \o U64(d.minor) : d \in A})
             w == Optional({U64(d.major) \o U64(d.minor) : d \in B})
         IN  Delimits(v, w) /\ (v = w => A = B)
<1> DEFINE f == [d \in A \union B |-> U64(d.major) \o U64(d.minor)]
<1>1. /\ \A d \in A \union B : f[d] = U64(d.major) \o U64(d.minor)
      /\ {f[d] : d \in A} = {U64(d.major) \o U64(d.minor) : d \in A}
      /\ {f[d] : d \in B} = {U64(d.major) \o U64(d.minor) : d \in B}
  OBVIOUS
<1> HIDE DEF f
<1>2. ASSUME NEW x \in A \union B, NEW y \in A \union B
      PROVE  f[x] \in Bytes /\ Delimits(f[x], f[y]) /\ (f[x] = f[y] => x = y)
  <2>1. /\ Delimits(U64(x.major), U64(y.major))
        /\ U64(x.major) = U64(y.major) => x.major = y.major
    BY NumbersTold DEF U64
  <2>2. /\ Delimits(U64(x.minor), U64(y.minor))
        /\ U64(x.minor) = U64(y.minor) => x.minor = y.minor
    BY NumbersTold DEF U64
  <2>3. U64(x.minor) \in Bytes /\ U64(y.minor) \in Bytes
    BY <2>2 DEF Delimits
  <2>4. /\ Follows(f[x], U64(x.major), U64(x.minor))
        /\ Follows(f[y], U64(y.major), U64(y.minor))
    BY <1>1 DEF Follows
  <2>5. /\ Delimits(f[x], f[y])
        /\ f[x] = f[y] => U64(x.major) = U64(y.major) /\ U64(x.minor) = U64(y.minor)
    BY <2>1, <2>2, <2>3, <2>4, FollowingDelimit
  <2>6. x.major = y.major /\ x.minor = y.minor => x = y
    OBVIOUS
  <2>7. QED
    BY <2>1, <2>2, <2>5, <2>6 DEF Delimits
<1>3. /\ Delimits(Optional({f[x] : x \in A}), Optional({f[y] : y \in B}))
      /\ Optional({f[x] : x \in A}) = Optional({f[y] : y \in B}) => A = B
  BY <1>2, OptionsTold
<1>4. QED
  BY <1>1, <1>3

\* An optional digest.
LEMMA DigestOptionsTold ==
  ASSUME NEW A, NEW B, AtMostOne(A), AtMostOne(B), \A d \in A \union B : Fits(d, 32)
  PROVE  LET v == Optional({DigestField(d) : d \in A})
             w == Optional({DigestField(d) : d \in B})
         IN  Delimits(v, w) /\ (v = w => A = B)
<1> DEFINE f == [d \in A \union B |-> DigestField(d)]
<1>1. /\ \A d \in A \union B : f[d] = DigestField(d)
      /\ {f[d] : d \in A} = {DigestField(d) : d \in A}
      /\ {f[d] : d \in B} = {DigestField(d) : d \in B}
  OBVIOUS
<1> HIDE DEF f
<1>2. ASSUME NEW x \in A \union B, NEW y \in A \union B
      PROVE  f[x] \in Bytes /\ Delimits(f[x], f[y]) /\ (f[x] = f[y] => x = y)
  BY <1>1, DigestsDelimit
<1>3. /\ Delimits(Optional({f[x] : x \in A}), Optional({f[y] : y \in B}))
      /\ Optional({f[x] : x \in A}) = Optional({f[y] : y \in B}) => A = B
  BY <1>2, OptionsTold
<1>4. QED
  BY <1>1, <1>3

\* The size, of a regular file only.
LEMMA SizesTold ==
  ASSUME NEW s, NEW t, NEW a, NEW b, Fits(a, 8), Fits(b, 8)
  PROVE  LET v == Optional(IF s = "regular" THEN {U64(a)} ELSE {})
             w == Optional(IF t = "regular" THEN {U64(b)} ELSE {})
         IN  Delimits(v, w) /\ (v = w => (s = "regular" /\ t = "regular" => a = b))
<1>1. /\ Delimits(U64(a), U64(b)) /\ Delimits(U64(a), U64(a))
      /\ U64(a) = U64(b) => a = b
  BY NumbersTold DEF U64
<1>2. U64(a) \in Bytes /\ U64(b) \in Bytes
  BY <1>1 DEF Delimits
<1>3. PICK W : W = IF s = "regular" THEN {U64(a)} ELSE {}
  OBVIOUS
<1>4. PICK V : V = IF t = "regular" THEN {U64(b)} ELSE {}
  OBVIOUS
<1>5. AtMostOne(W) /\ AtMostOne(V)
  BY <1>3, <1>4 DEF AtMostOne
<1>6. /\ \A w \in W : w \in Bytes
      /\ \A v \in V : v \in Bytes
      /\ \A w \in W, v \in V : Delimits(w, v)
  BY <1>1, <1>2, <1>3, <1>4
<1>7. /\ Delimits(Optional(W), Optional(V))
      /\ Optional(W) = Optional(V) => W = V
  BY <1>5, <1>6, OptionsDelimit
<1>8. W = V => (s = "regular" /\ t = "regular" => a = b)
  BY <1>1, <1>3, <1>4
<1>9. QED
  BY <1>3, <1>4, <1>7, <1>8

\* Four records, one after another.
FourFields(x, p1, p2, p3, p4) == x = p1 \o p2 \o p3 \o p4

\* The same of four fields.
LEMMA FourDelimit ==
  ASSUME NEW p1, NEW p2, NEW p3, NEW p4, NEW q1, NEW q2, NEW q3, NEW q4, NEW x, NEW y,
         FourFields(x, p1, p2, p3, p4), FourFields(y, q1, q2, q3, q4),
         Delimits(p1, q1), Delimits(p2, q2), Delimits(p3, q3), Delimits(p4, q4)
  PROVE  /\ Delimits(x, y)
         /\ x = y => p1 = q1 /\ p2 = q2 /\ p3 = q3 /\ p4 = q4
<1>1. /\ p2 \in Bytes /\ p3 \in Bytes /\ p4 \in Bytes
      /\ q2 \in Bytes /\ q3 \in Bytes /\ q4 \in Bytes
  BY DEF Delimits
<1>2. PICK v, w : Follows(v, p1, p2) /\ Follows(w, q1, q2)
  BY DEF Follows
<1>3. PICK r, s : Follows(r, v, p3) /\ Follows(s, w, q3)
  BY DEF Follows
<1>4. Follows(x, r, p4) /\ Follows(y, s, q4)
  BY <1>2, <1>3 DEF Follows, FourFields
<1>5. Delimits(v, w) /\ (v = w => p1 = q1 /\ p2 = q2)
  BY <1>1, <1>2, FollowingDelimit
<1>6. Delimits(r, s) /\ (r = s => v = w /\ p3 = q3)
  BY <1>1, <1>3, <1>5, FollowingDelimit
<1>7. Delimits(x, y) /\ (x = y => r = s /\ p4 = q4)
  BY <1>1, <1>4, <1>6, FollowingDelimit
<1>8. QED
  BY <1>5, <1>6, <1>7

-----------------------------------------------------------------------------
(***************************************************************************)
(* The records of entries, images and receipts.                            *)
(***************************************************************************)

\* What the record of an entry tells: all but the size of one that is no
\* regular file.
SameWritten(e, d) ==
  /\ e.id = d.id /\ e.path = d.path /\ e.type = d.type /\ e.attributes = d.attributes
  /\ e.uid = d.uid /\ e.gid = d.gid /\ e.nsec = d.nsec
  /\ e.type = "regular" => e.size = d.size
  /\ e.symlink = d.symlink /\ e.hardlink = d.hardlink
  /\ e.device = d.device /\ e.content = d.content

\* It tells that, and where it ends.
LEMMA EntriesTold ==
  ASSUME NEW e, NEW d, Writable(e), Writable(d), Fits(e.id, 8), Fits(d.id, 8)
  PROVE  /\ Delimits(EntryBytes(e), EntryBytes(d))
         /\ EntryBytes(e) = EntryBytes(d) => SameWritten(e, d)
<1>1. PICK a1, b1 : a1 = U64(e.id) /\ b1 = U64(d.id)
  OBVIOUS
<1>2. PICK a2, b2 : a2 = LengthPrefixed(PathBytes(e.path)) /\ b2 = LengthPrefixed(PathBytes(d.path))
  OBVIOUS
<1>3. PICK a3, b3 : a3 = U8(EntryTypeCode[e.type]) /\ b3 = U8(EntryTypeCode[d.type])
  OBVIOUS
<1>4. PICK a4, b4 : a4 = U32(e.attributes.mode) /\ b4 = U32(d.attributes.mode)
  OBVIOUS
<1>5. PICK a5, b5 : a5 = U64(e.uid) /\ b5 = U64(d.uid)
  OBVIOUS
<1>6. PICK a6, b6 : a6 = U64(e.gid) /\ b6 = U64(d.gid)
  OBVIOUS
<1>7. PICK a7, b7 : /\ a7 = Optional(IF e.type = "regular" THEN {U64(e.size)} ELSE {})
                    /\ b7 = Optional(IF d.type = "regular" THEN {U64(d.size)} ELSE {})
  OBVIOUS
<1>8. PICK a8, b8 : a8 = I64(e.attributes.mtime) /\ b8 = I64(d.attributes.mtime)
  OBVIOUS
<1>9. PICK a9, b9 : a9 = U32(e.nsec) /\ b9 = U32(d.nsec)
  OBVIOUS
<1>10. PICK a10, b10 :
         /\ a10 = Optional({LengthPrefixed(TextBytes[text]) : text \in e.symlink})
         /\ b10 = Optional({LengthPrefixed(TextBytes[text]) : text \in d.symlink})
  OBVIOUS
<1>11. PICK a11, b11 :
         /\ a11 = Optional({LengthPrefixed(PathBytes(path)) : path \in e.hardlink})
         /\ b11 = Optional({LengthPrefixed(PathBytes(path)) : path \in d.hardlink})
  OBVIOUS
<1>12. PICK a12, b12 :
         /\ a12 = Optional({U64(n.major) \o U64(n.minor) : n \in e.device})
         /\ b12 = Optional({U64(n.major) \o U64(n.minor) : n \in d.device})
  OBVIOUS
<1>13. PICK a13, b13 : /\ a13 = Optional({DigestField(digest) : digest \in e.content})
                       /\ b13 = Optional({DigestField(digest) : digest \in d.content})
  OBVIOUS
<1>21. Delimits(a1, b1) /\ (a1 = b1 => e.id = d.id)
  BY <1>1, NumbersTold DEF U64
<1>22. Delimits(a2, b2) /\ (a2 = b2 => e.path = d.path)
  BY <1>2, PathFieldsTold DEF Writable
<1>23. Delimits(a3, b3) /\ (a3 = b3 => e.type = d.type)
  BY <1>3, TypesTold DEF Writable
<1>24. Delimits(a4, b4) /\ (a4 = b4 => e.attributes.mode = d.attributes.mode)
  BY <1>4, NumbersTold DEF U32, Writable
<1>25. Delimits(a5, b5) /\ (a5 = b5 => e.uid = d.uid)
  BY <1>5, NumbersTold DEF U64, Writable
<1>26. Delimits(a6, b6) /\ (a6 = b6 => e.gid = d.gid)
  BY <1>6, NumbersTold DEF U64, Writable
<1>27. Delimits(a7, b7) /\ (a7 = b7 => (e.type = "regular" /\ d.type = "regular" => e.size = d.size))
  BY <1>7, SizesTold DEF Writable
<1>28. Delimits(a8, b8) /\ (a8 = b8 => e.attributes.mtime = d.attributes.mtime)
  <2>1. FitsSigned(e.attributes.mtime, 8) /\ FitsSigned(d.attributes.mtime, 8)
    BY DEF Writable
  <2>2. e.attributes.mtime \in Int /\ d.attributes.mtime \in Int
    BY <2>1 DEF FitsSigned
  <2>3. QED
    BY <1>8, <2>1, <2>2, IntegersDelimit, SignedTold DEF I64, U64
<1>29. Delimits(a9, b9) /\ (a9 = b9 => e.nsec = d.nsec)
  BY <1>9, NumbersTold DEF U32, Writable
<1>30. Delimits(a10, b10) /\ (a10 = b10 => e.symlink = d.symlink)
  BY <1>10, TextOptionsTold DEF Writable
<1>31. Delimits(a11, b11) /\ (a11 = b11 => e.hardlink = d.hardlink)
  BY <1>11, PathOptionsTold DEF Writable
<1>32. Delimits(a12, b12) /\ (a12 = b12 => e.device = d.device)
  BY <1>12, DeviceOptionsTold DEF Writable
<1>33. Delimits(a13, b13) /\ (a13 = b13 => e.content = d.content)
  BY <1>13, DigestOptionsTold DEF Writable
<1>41. PICK x, y : FourFields(x, a1, a2, a3, a4) /\ FourFields(y, b1, b2, b3, b4)
  BY DEF FourFields
<1>42. Delimits(x, y) /\ (x = y => a1 = b1 /\ a2 = b2 /\ a3 = b3 /\ a4 = b4)
  BY <1>21, <1>22, <1>23, <1>24, <1>41, FourDelimit
<1>43. PICK v, w : FourFields(v, x, a5, a6, a7) /\ FourFields(w, y, b5, b6, b7)
  BY DEF FourFields
<1>44. Delimits(v, w) /\ (v = w => x = y /\ a5 = b5 /\ a6 = b6 /\ a7 = b7)
  BY <1>25, <1>26, <1>27, <1>42, <1>43, FourDelimit
<1>45. PICK r, s : FourFields(r, v, a8, a9, a10) /\ FourFields(s, w, b8, b9, b10)
  BY DEF FourFields
<1>46. Delimits(r, s) /\ (r = s => v = w /\ a8 = b8 /\ a9 = b9 /\ a10 = b10)
  BY <1>28, <1>29, <1>30, <1>44, <1>45, FourDelimit
<1>47. FourFields(EntryBytes(e), r, a11, a12, a13)
  BY <1>1, <1>2, <1>3, <1>4, <1>5, <1>6, <1>7, <1>8, <1>9, <1>10, <1>11, <1>12, <1>13,
     <1>41, <1>43, <1>45 DEF EntryBytes, FourFields
<1>48. FourFields(EntryBytes(d), s, b11, b12, b13)
  BY <1>1, <1>2, <1>3, <1>4, <1>5, <1>6, <1>7, <1>8, <1>9, <1>10, <1>11, <1>12, <1>13,
     <1>41, <1>43, <1>45 DEF EntryBytes, FourFields
<1>49. /\ Delimits(EntryBytes(e), EntryBytes(d))
       /\ EntryBytes(e) = EntryBytes(d) => r = s /\ a11 = b11 /\ a12 = b12 /\ a13 = b13
  BY <1>31, <1>32, <1>33, <1>46, <1>47, <1>48, FourDelimit
<1>50. ASSUME EntryBytes(e) = EntryBytes(d)
       PROVE  SameWritten(e, d)
  <2>1. /\ a1 = b1 /\ a2 = b2 /\ a3 = b3 /\ a4 = b4 /\ a5 = b5 /\ a6 = b6 /\ a7 = b7
        /\ a8 = b8 /\ a9 = b9 /\ a10 = b10 /\ a11 = b11 /\ a12 = b12 /\ a13 = b13
    BY <1>42, <1>44, <1>46, <1>49, <1>50
  <2>2. e.attributes = d.attributes
    <3>1. /\ e.attributes.mode = d.attributes.mode
          /\ e.attributes.mtime = d.attributes.mtime
      BY <1>24, <1>28, <2>1
    <3>2. /\ e.attributes = [mode |-> e.attributes.mode, mtime |-> e.attributes.mtime]
          /\ d.attributes = [mode |-> d.attributes.mode, mtime |-> d.attributes.mtime]
      BY DEF Writable
    <3>3. QED
      BY <3>1, <3>2
  <2>3. /\ e.id = d.id /\ e.path = d.path /\ e.type = d.type
        /\ e.uid = d.uid /\ e.gid = d.gid /\ e.nsec = d.nsec
    BY <1>21, <1>22, <1>23, <1>25, <1>26, <1>29, <2>1
  <2>4. /\ e.type = "regular" => e.size = d.size
        /\ e.symlink = d.symlink /\ e.hardlink = d.hardlink
        /\ e.device = d.device /\ e.content = d.content
    BY <1>27, <1>30, <1>31, <1>32, <1>33, <2>1, <2>3
  <2>5. QED
    BY <2>2, <2>3, <2>4 DEF SameWritten
<1>51. QED
  BY <1>49, <1>50

\* A valid entry that is no regular file has no size, so that the record tells
\* it as well.
LEMMA EntryTold ==
  ASSUME NEW e, NEW d, IsEntry(e), IsEntry(d), ValidEntry(e), ValidEntry(d),
         SameWritten(e, d)
  PROVE  e = d
<1>1. e.size = d.size
  BY DEF ValidEntry, SameWritten
<1>2. \A f \in AllFields : e[f] = d[f]
  BY <1>1 DEF AllFields, SameWritten
<1>3. e = [f \in AllFields |-> e[f]] /\ d = [f \in AllFields |-> d[f]]
  BY DEF IsEntry
<1>4. QED
  BY <1>2, <1>3

\* A vector that can be sealed, and the record of the first n entries of it.
Sealable(v) ==
  /\ v # <<>> /\ Indexed(v) /\ Fits(Len(v), 8)
  /\ \A i \in DOMAIN v : ValidEntry(v[i]) /\ Writable(v[i])

EntryParts(v) == [i \in 1..Len(v) |-> EntryBytes(v[i])]

RecordUpTo(v, n) == ImageHeader(Len(v)) \o Joined(EntryParts(v))[n]

\* Its entries.
LEMMA SealableIs ==
  ASSUME NEW v, Sealable(v)
  PROVE  /\ Len(v) \in Nat /\ DOMAIN v = 1..Len(v) /\ Fits(Len(v), 8)
         /\ EntryParts(v) \in Seq(Bytes) /\ Len(EntryParts(v)) = Len(v)
         /\ \A i \in 1..Len(v) : /\ IsEntry(v[i]) /\ ValidEntry(v[i]) /\ Writable(v[i])
                                 /\ Fits(v[i].id, 8)
                                 /\ EntryParts(v)[i] = EntryBytes(v[i])
<1>1. IsVector(v) /\ Fits(Len(v), 8)
  BY DEF Sealable, Indexed
<1>2. /\ Len(v) \in Nat /\ DOMAIN v = 1..Len(v)
      /\ \A i \in 1..Len(v) : IsEntry(v[i])
  BY <1>1, VectorLength
<1>3. ASSUME NEW i \in 1..Len(v)
      PROVE  /\ ValidEntry(v[i]) /\ Writable(v[i]) /\ Fits(v[i].id, 8)
             /\ EntryBytes(v[i]) \in Bytes
  <2>1. ValidEntry(v[i]) /\ Writable(v[i]) /\ v[i].id = i - 1
    BY <1>2 DEF Sealable, Indexed
  <2>2. i - 1 \in Nat /\ i - 1 <= Len(v) /\ 8 \in Nat
    BY <1>2
  <2>3. Fits(i - 1, 8)
    BY <1>1, <2>2, FitsBelow
  <2>4. Delimits(EntryBytes(v[i]), EntryBytes(v[i]))
    BY <2>1, <2>3, EntriesTold
  <2>5. QED
    BY <2>1, <2>3, <2>4 DEF Delimits
<1>4. PICK n \in Nat : n = Len(v)
  BY <1>2
<1>5. PICK parts : parts = EntryParts(v)
  OBVIOUS
<1>6. parts \in [1..n -> Bytes] /\ \A i \in 1..n : parts[i] = EntryBytes(v[i])
  BY <1>3, <1>4, <1>5 DEF EntryParts
<1>7. parts \in Seq(Bytes) /\ DOMAIN parts = 1..n
  BY <1>6, SeqDef
<1>8. Len(parts) = n
  BY <1>4, <1>7, LenProperties, SMT
<1>9. QED
  BY <1>1, <1>2, <1>3, <1>4, <1>5, <1>6, <1>7, <1>8

\* The header of an image tells the number of its entries.
LEMMA HeadersTold ==
  ASSUME NEW m, NEW n, Fits(m, 8), Fits(n, 8)
  PROVE  /\ Delimits(ImageHeader(m), ImageHeader(n))
         /\ ImageHeader(m) = ImageHeader(n) => m = n
<1>1. PICK label \in Bytes : label = TextBytes[ImageLabel] /\ Fits(Len(label), 8)
  BY TextBytesAssumption DEF Bytes
<1>2. Delimits(LengthPrefixed(label), LengthPrefixed(label))
  BY <1>1, TextsDelimit
<1>3. Delimits(U64(m), U64(n)) /\ (U64(m) = U64(n) => m = n)
  BY NumbersTold DEF U64
<1>4. U64(m) \in Bytes /\ U64(n) \in Bytes
  BY <1>3 DEF Delimits
<1>5. /\ Delimits(LengthPrefixed(label) \o U64(m), LengthPrefixed(label) \o U64(n))
      /\ LengthPrefixed(label) \o U64(m) = LengthPrefixed(label) \o U64(n) => U64(m) = U64(n)
  BY <1>2, <1>3, <1>4, FieldsDelimit, Zenon
<1>6. QED
  BY <1>1, <1>3, <1>5 DEF ImageHeader

\* The record of an image tells its entries.
LEMMA ImagesTold ==
  ASSUME NEW v, NEW w, Sealable(v), Sealable(w),
         RecordUpTo(v, Len(v)) = RecordUpTo(w, Len(w))
  PROVE  v = w
<1>1. PICK n \in Nat : /\ n = Len(v) /\ Fits(n, 8) /\ n = Len(EntryParts(v))
                       /\ EntryParts(v) \in Seq(Bytes)
  BY SealableIs
<1>2. PICK m \in Nat : /\ m = Len(w) /\ Fits(m, 8) /\ m = Len(EntryParts(w))
                       /\ EntryParts(w) \in Seq(Bytes)
  BY SealableIs
<1>3. PICK a : a = Joined(EntryParts(v))[n]
  OBVIOUS
<1>4. PICK b : b = Joined(EntryParts(w))[m]
  OBVIOUS
<1>5. a \in Bytes
  <2>1. n \in 0..Len(EntryParts(v))
    BY <1>1
  <2>2. QED
    BY <1>1, <1>3, <2>1, JoinedIs
<1>6. b \in Bytes
  <2>1. m \in 0..Len(EntryParts(w))
    BY <1>2
  <2>2. QED
    BY <1>2, <1>4, <2>1, JoinedIs
<1>7. ImageHeader(n) \o a = ImageHeader(m) \o b
  BY <1>1, <1>2, <1>3, <1>4 DEF RecordUpTo
<1>8. n = m /\ a = b
  <2>1. Delimits(ImageHeader(n), ImageHeader(m)) /\ (ImageHeader(n) = ImageHeader(m) => n = m)
    BY <1>1, <1>2, HeadersTold
  <2>2. QED
    BY <1>5, <1>6, <1>7, <2>1 DEF Delimits
<1>9. ASSUME NEW i \in 1..n
      PROVE  /\ Delimits(EntryParts(v)[i], EntryParts(w)[i])
             /\ EntryParts(v)[i] = EntryParts(w)[i] => v[i] = w[i]
  <2>1. /\ IsEntry(v[i]) /\ ValidEntry(v[i]) /\ Writable(v[i]) /\ Fits(v[i].id, 8)
        /\ EntryParts(v)[i] = EntryBytes(v[i])
    BY <1>1, SealableIs
  <2>2. /\ IsEntry(w[i]) /\ ValidEntry(w[i]) /\ Writable(w[i]) /\ Fits(w[i].id, 8)
        /\ EntryParts(w)[i] = EntryBytes(w[i])
    BY <1>2, <1>8, SealableIs
  <2>3. /\ Delimits(EntryBytes(v[i]), EntryBytes(w[i]))
        /\ EntryBytes(v[i]) = EntryBytes(w[i]) => SameWritten(v[i], w[i])
    BY <2>1, <2>2, EntriesTold
  <2>4. SameWritten(v[i], w[i]) => v[i] = w[i]
    BY <2>1, <2>2, EntryTold
  <2>5. QED
    BY <2>1, <2>2, <2>3, <2>4
<1>10. Joined(EntryParts(v))[n] = Joined(EntryParts(w))[n] =>
         \A i \in 1..n : EntryParts(v)[i] = EntryParts(w)[i]
  <2>1. n <= Len(EntryParts(v)) /\ n <= Len(EntryParts(w))
    BY <1>1, <1>2, <1>8
  <2>2. QED
    BY <1>1, <1>2, <1>9, <2>1, JoinedDelimits
<1>11. \A i \in 1..n : v[i] = w[i]
  BY <1>3, <1>4, <1>8, <1>9, <1>10
<1>12. v = [i \in 1..n |-> v[i]] /\ w = [i \in 1..n |-> w[i]]
  BY <1>1, <1>2, <1>8, LenProperties DEF Sealable, Indexed, IsVector
<1>13. QED
  BY <1>11, <1>12

\* A receipt whose fields have values of their types.
Issuable(r) ==
  /\ r = [backend |-> r.backend, archiveDigest |-> r.archiveDigest,
          imageIdentity |-> r.imageIdentity, entryCount |-> r.entryCount]
  /\ r.backend \in DOMAIN TextBytes
  /\ Fits(r.archiveDigest, 32) /\ Fits(r.imageIdentity, 32) /\ Fits(r.entryCount, 8)

\* The record of a receipt tells its fields.
LEMMA ReceiptsTold ==
  ASSUME NEW r, NEW s, Issuable(r), Issuable(s)
  PROVE  /\ ReceiptBytes(r) \in Bytes
         /\ ReceiptBytes(r) = ReceiptBytes(s) => r = s
<1>1. PICK label \in Bytes : label = TextBytes[ReceiptLabel] /\ Fits(Len(label), 8)
  BY TextBytesAssumption DEF Bytes
<1>2. Delimits(LengthPrefixed(label), LengthPrefixed(label))
  BY <1>1, TextsDelimit
<1>3. Delimits(U32(1), U32(1))
  BY IntegersDelimit DEF U32
<1>4. PICK x \in Bytes : x = TextBytes[r.backend] /\ Fits(Len(x), 8)
  BY TextBytesAssumption DEF Bytes, Issuable
<1>5. PICK y \in Bytes : y = TextBytes[s.backend] /\ Fits(Len(y), 8)
  BY TextBytesAssumption DEF Bytes, Issuable
<1>6. x = y => r.backend = s.backend
  BY <1>4, <1>5, TextBytesAssumption DEF Issuable
<1>7. /\ Delimits(LengthPrefixed(x), LengthPrefixed(y))
      /\ LengthPrefixed(x) = LengthPrefixed(y) => x = y
  BY <1>4, <1>5, TextsDelimit
<1>8. /\ Delimits(DigestField(r.archiveDigest), DigestField(s.archiveDigest))
      /\ DigestField(r.archiveDigest) = DigestField(s.archiveDigest) =>
           r.archiveDigest = s.archiveDigest
  BY DigestsDelimit DEF Issuable
<1>9. /\ Delimits(DigestField(r.imageIdentity), DigestField(s.imageIdentity))
      /\ DigestField(r.imageIdentity) = DigestField(s.imageIdentity) =>
           r.imageIdentity = s.imageIdentity
      /\ DigestField(r.imageIdentity) \in Bytes /\ DigestField(s.imageIdentity) \in Bytes
  BY DigestsDelimit DEF Issuable
<1>10. /\ Delimits(U64(r.entryCount), U64(s.entryCount))
       /\ U64(r.entryCount) = U64(s.entryCount) => r.entryCount = s.entryCount
  BY NumbersTold DEF U64, Issuable
<1>11. U64(r.entryCount) \in Bytes /\ U64(s.entryCount) \in Bytes
  BY <1>10 DEF Delimits
<1>12. PICK a, b :
         /\ FourFields(a, LengthPrefixed(label), U32(1), LengthPrefixed(x),
                       DigestField(r.archiveDigest))
         /\ FourFields(b, LengthPrefixed(label), U32(1), LengthPrefixed(y),
                       DigestField(s.archiveDigest))
  BY DEF FourFields
<1>13. PICK c, d : /\ Follows(c, a, DigestField(r.imageIdentity))
                   /\ Follows(d, b, DigestField(s.imageIdentity))
  BY DEF Follows
<1>14. /\ Follows(ReceiptBytes(r), c, U64(r.entryCount))
       /\ Follows(ReceiptBytes(s), d, U64(s.entryCount))
  BY <1>1, <1>4, <1>5, <1>12, <1>13 DEF ReceiptBytes, FourFields, Follows
<1>15. /\ Delimits(a, b)
       /\ a = b => /\ LengthPrefixed(x) = LengthPrefixed(y)
                   /\ DigestField(r.archiveDigest) = DigestField(s.archiveDigest)
  BY <1>2, <1>3, <1>7, <1>8, <1>12, FourDelimit
<1>16. /\ Delimits(c, d)
       /\ c = d => a = b /\ DigestField(r.imageIdentity) = DigestField(s.imageIdentity)
  BY <1>9, <1>13, <1>15, FollowingDelimit
<1>17. /\ Delimits(ReceiptBytes(r), ReceiptBytes(s))
       /\ ReceiptBytes(r) = ReceiptBytes(s) => c = d /\ U64(r.entryCount) = U64(s.entryCount)
  BY <1>10, <1>11, <1>14, <1>16, FollowingDelimit
<1>18. ReceiptBytes(r) \in Bytes
  BY <1>17 DEF Delimits
<1>19. ReceiptBytes(r) = ReceiptBytes(s) =>
         /\ r.backend = s.backend /\ r.archiveDigest = s.archiveDigest
         /\ r.imageIdentity = s.imageIdentity /\ r.entryCount = s.entryCount
  BY <1>6, <1>7, <1>8, <1>9, <1>10, <1>15, <1>16, <1>17
<1>20. QED
  BY <1>18, <1>19 DEF Issuable

\* And no record of a receipt is one of an image: their labels differ.
LEMMA KindsTold ==
  ASSUME NEW v, NEW r, Sealable(v), Issuable(r)
  PROVE  /\ \A n \in 0..Len(v) : RecordUpTo(v, n) \in Bytes
         /\ RecordUpTo(v, Len(v)) # ReceiptBytes(r)
<1>1. PICK s \in Bytes : s = TextBytes[ImageLabel] /\ Fits(Len(s), 8)
  BY TextBytesAssumption DEF Bytes
<1>2. PICK t \in Bytes : t = TextBytes[ReceiptLabel] /\ Fits(Len(t), 8)
  BY TextBytesAssumption DEF Bytes
<1>3. s # t
  <2>1. ImageLabel # ReceiptLabel
    BY DEF ImageLabel, ReceiptLabel
  <2>2. ImageLabel \in DOMAIN TextBytes /\ ReceiptLabel \in DOMAIN TextBytes
    BY TextBytesAssumption
  <2>3. QED
    BY <1>1, <1>2, <2>1, <2>2, TextBytesAssumption
<1>4. /\ Delimits(LengthPrefixed(s), LengthPrefixed(t))
      /\ LengthPrefixed(s) # LengthPrefixed(t)
  BY <1>1, <1>2, <1>3, TextsDelimit
<1>5. PICK count \in Bytes : count = U64(Len(v))
  BY SealableIs, NumbersTold DEF U64, Delimits
<1>6. PICK version \in Bytes : version = U32(1)
  BY IntegersDelimit DEF U32
<1>7. PICK backend \in Bytes : backend = LengthPrefixed(TextBytes[r.backend])
  BY TextBytesAssumption, TextsDelimit DEF Issuable, Bytes
<1>8. PICK archive \in Bytes : archive = DigestField(r.archiveDigest)
  BY DigestsDelimit DEF Issuable
<1>9. PICK image \in Bytes : image = DigestField(r.imageIdentity)
  BY DigestsDelimit DEF Issuable
<1>10. PICK entries \in Bytes : entries = U64(r.entryCount)
  BY NumbersTold DEF Issuable, U64, Delimits
<1>11. PICK header \in Bytes : /\ Follows(header, LengthPrefixed(s), count)
                               /\ header = ImageHeader(Len(v))
  <2>1. LengthPrefixed(s) \o count \in Bytes
    BY <1>4, BytesJoin DEF Delimits
  <2>2. ImageHeader(Len(v)) = LengthPrefixed(s) \o count
    BY <1>1, <1>5 DEF ImageHeader
  <2>3. QED
    BY <2>1, <2>2 DEF Follows
<1>12. ASSUME NEW n \in 0..Len(v)
       PROVE  /\ Joined(EntryParts(v))[n] \in Bytes /\ RecordUpTo(v, n) \in Bytes
              /\ Follows(RecordUpTo(v, n), header, Joined(EntryParts(v))[n])
  <2>1. PICK b \in Bytes : b = Joined(EntryParts(v))[n]
    BY SealableIs, JoinedIs
  <2>2. header \o b \in Bytes
    BY BytesJoin
  <2>3. RecordUpTo(v, n) = header \o b
    BY <1>11, <2>1 DEF RecordUpTo
  <2>4. QED
    BY <2>1, <2>2, <2>3 DEF Follows
<1>13. Len(v) \in 0..Len(v)
  BY SealableIs
<1>14. PICK body \in Bytes, record \in Bytes :
         Follows(record, header, body) /\ record = RecordUpTo(v, Len(v))
  BY <1>12, <1>13
<1>15. <<>> \in Bytes /\ Follows(record, record, <<>>)
  BY EmptySeq, ConcatEmptySeq DEF Bytes, Follows
<1>16. PICK a, b : Follows(a, LengthPrefixed(t), version) /\ Follows(b, a, backend)
  BY DEF Follows
<1>17. PICK c, d : Follows(c, b, archive) /\ Follows(d, c, image)
  BY DEF Follows
<1>18. Follows(ReceiptBytes(r), d, entries)
  BY <1>2, <1>6, <1>7, <1>8, <1>9, <1>10, <1>16, <1>17 DEF ReceiptBytes, Follows
<1>19. Delimits(header, a) /\ header # a
  BY <1>4, <1>11, <1>16, FollowingDelimit
<1>20. Delimits(record, b) /\ record # b
  BY <1>14, <1>16, <1>19, FollowingDelimit
<1>21. Delimits(record, c) /\ record # c
  BY <1>15, <1>17, <1>20, FollowingDelimit
<1>22. Delimits(record, d) /\ record # d
  BY <1>15, <1>17, <1>21, FollowingDelimit
<1>23. record # ReceiptBytes(r)
  BY <1>15, <1>18, <1>22, FollowingDelimit
<1>24. QED
  BY <1>12, <1>14, <1>23

-----------------------------------------------------------------------------
(***************************************************************************)
(* The records that were hashed.                                           *)
(***************************************************************************)

\* The record an object is identified by.
Describes(record, o) ==
  \/ o.kind = "image" /\ Sealable(o.value) /\ record = RecordUpTo(o.value, Len(o.value))
  \/ o.kind = "receipt" /\ Issuable(o.value) /\ record = ReceiptBytes(o.value)

\* No record has two digests, and the digest of each object is its record's.
Recorded ==
  /\ hashed \in Seq(Bytes)
  /\ \A m, n \in DOMAIN hashed : hashed[m] = hashed[n] => m = n
  /\ Len(hashed) <= Len(objects)
  /\ Len(objects) <= MaxImages \/ Len(objects) <= MaxObjects
  /\ \A n \in DOMAIN objects : /\ objects[n].identity \in DOMAIN hashed
                               /\ Describes(hashed[objects[n].identity], objects[n])

\* What is being written is the record of the vector.
Writing ==
  /\ pc \in {"admit", "link", "write"} =>
       /\ Fits(Len(given), 8) /\ Len(objects) < MaxImages
       /\ \A i \in 1..Len(given) : ValidEntry(given[i]) => Writable(given[i])
  /\ pc = "write" => writer.bytes = RecordUpTo(given, index)

\* An id is no matter for the other fields.
LEMMA WithIdWritable ==
  ASSUME NEW e, NEW id, IsEntry(e), ValidEntry(e) => Writable(e)
  PROVE  LET d == [e EXCEPT !.id = id] IN ValidEntry(d) => Writable(d)
<1> DEFINE d == [e EXCEPT !.id = id]
<1>1. \A f \in AllFields \ {"id"} : d[f] = e[f]
  BY DEF AllFields, IsEntry
<1>2. ValidEntry(d) <=> ValidEntry(e)
  BY WithId
<1> HIDE DEF d
<1>3. /\ d.path = e.path /\ d.type = e.type /\ d.attributes = e.attributes
      /\ d.uid = e.uid /\ d.gid = e.gid /\ d.size = e.size /\ d.nsec = e.nsec
      /\ d.symlink = e.symlink /\ d.hardlink = e.hardlink
      /\ d.device = e.device /\ d.content = e.content
  BY <1>1 DEF AllFields
<1>4. Writable(e) => Writable(d)
  BY <1>3 DEF Writable
<1>5. QED
  BY <1>2, <1>4 DEF d

\* The vector that is written can be sealed.
LEMMA GivenSealable ==
  ASSUME IInv, Writing, pc \in {"link", "write"}
  PROVE  Sealable(given)
<1>1. Indexed(given) /\ DOMAIN given = 1..Len(given)
      /\ \A i \in 1..Len(given) : ValidEntry(given[i])
  BY PathsDiffer DEF Indexed, IInv, TypeOK
<1>2. given # <<>>
  BY DEF IInv, AdmittedSoFar
<1>3. QED
  BY <1>1, <1>2 DEF Sealable, Writing

\* A new record gets the next number, one known before keeps its number.
LEMMA HashedGrows ==
  ASSUME hashed \in Seq(Bytes), \A m, n \in DOMAIN hashed : hashed[m] = hashed[n] => m = n,
         NEW record \in Bytes
  PROVE  LET h == HashedWith(record)
         IN  /\ h \in Seq(Bytes) /\ Len(h) <= Len(hashed) + 1
             /\ \A m, n \in DOMAIN h : h[m] = h[n] => m = n
             /\ DigestOf(record) \in DOMAIN h /\ h[DigestOf(record)] = record
             /\ \A n \in DOMAIN hashed : n \in DOMAIN h /\ h[n] = hashed[n]
<1>1. PICK h : h = HashedWith(record)
  OBVIOUS
<1>2. Len(hashed) \in Nat /\ DOMAIN hashed = 1..Len(hashed)
  BY LenProperties
<1>3. /\ h \in Seq(Bytes) /\ Len(h) <= Len(hashed) + 1
      /\ \A m, n \in DOMAIN h : h[m] = h[n] => m = n
      /\ \A n \in DOMAIN hashed : n \in DOMAIN h /\ h[n] = hashed[n]
      /\ \E n \in DOMAIN h : h[n] = record
  <2>1. CASE \E n \in DOMAIN hashed : hashed[n] = record
    <3>1. h = hashed
      BY <1>1, <2>1 DEF HashedWith
    <3>2. QED
      BY <1>2, <2>1, <3>1
  <2>2. CASE ~\E n \in DOMAIN hashed : hashed[n] = record
    <3>1. h = Append(hashed, record)
      BY <1>1, <2>2 DEF HashedWith
    <3>2. /\ h \in Seq(Bytes) /\ Len(h) = Len(hashed) + 1
          /\ \A i \in 1..Len(hashed) : h[i] = hashed[i]
          /\ h[Len(hashed) + 1] = record
      BY <3>1, AppendProperties
    <3>3. DOMAIN h = 1..(Len(hashed) + 1)
      BY <3>2, LenProperties
    <3>4. ASSUME NEW m \in DOMAIN h, NEW n \in DOMAIN h, h[m] = h[n]
          PROVE  m = n
      <4>1. m \in DOMAIN hashed \/ m = Len(hashed) + 1
        BY <1>2, <3>3
      <4>2. n \in DOMAIN hashed \/ n = Len(hashed) + 1
        BY <1>2, <3>3
      <4>3. QED
        BY <1>2, <2>2, <3>2, <3>4, <4>1, <4>2
    <3>5. \A n \in DOMAIN hashed : n \in DOMAIN h /\ h[n] = hashed[n]
      BY <1>2, <3>2, <3>3
    <3>6. Len(hashed) + 1 \in DOMAIN h
      BY <1>2, <3>3
    <3>7. QED
      BY <1>2, <3>2, <3>4, <3>5, <3>6
  <2>3. QED
    BY <2>1, <2>2
<1>4. DigestOf(record) \in DOMAIN h /\ h[DigestOf(record)] = record
  BY <1>1, <1>3 DEF DigestOf
<1>5. QED
  BY <1>1, <1>3, <1>4

\* An object is made along with its record.
LEMMA ObjectRecorded ==
  ASSUME TypeOK, Recorded, NEW record \in Bytes, NEW o,
         o.identity = DigestOf(record), Describes(record, o),
         hashed' = HashedWith(record), objects' = Append(objects, o),
         Len(objects) < MaxImages \/ Len(objects) < MaxObjects
  PROVE  Recorded'
<1>1. /\ hashed' \in Seq(Bytes) /\ Len(hashed') <= Len(hashed) + 1
      /\ \A m, n \in DOMAIN hashed' : hashed'[m] = hashed'[n] => m = n
      /\ DigestOf(record) \in DOMAIN hashed' /\ hashed'[DigestOf(record)] = record
      /\ \A n \in DOMAIN hashed : n \in DOMAIN hashed' /\ hashed'[n] = hashed[n]
  <2>1. PICK h : /\ h = HashedWith(record)
                 /\ h \in Seq(Bytes) /\ Len(h) <= Len(hashed) + 1
                 /\ \A m, n \in DOMAIN h : h[m] = h[n] => m = n
                 /\ DigestOf(record) \in DOMAIN h /\ h[DigestOf(record)] = record
                 /\ \A n \in DOMAIN hashed : n \in DOMAIN h /\ h[n] = hashed[n]
    BY HashedGrows DEF Recorded
  <2>2. hashed' = h
    BY <2>1
  <2>3. QED
    BY <2>1, <2>2
<1>2. \A n \in DOMAIN objects' :
        objects'[n] = o \/ (n \in DOMAIN objects /\ objects'[n] = objects[n])
  <2>1. PICK all :
          /\ all = Append(objects, o)
          /\ \A n \in DOMAIN all : all[n] = o \/ (n \in DOMAIN objects /\ all[n] = objects[n])
    BY Appended
  <2>2. objects' = all
    BY <2>1
  <2>3. QED
    BY <2>1, <2>2
<1>3. Len(objects') = Len(objects) + 1 /\ Len(objects) \in Nat
  <2> DEFINE S == {objects[n] : n \in DOMAIN objects} \union {o}
  <2>1. objects \in Seq(S) /\ o \in S
    BY SeqMonotonic DEF TypeOK
  <2> HIDE DEF S
  <2>2. QED
    BY <2>1, AppendProperties, LenProperties
<1>4. Len(hashed) \in Nat /\ Len(hashed') \in Nat
  BY <1>1, LenProperties DEF Recorded
<1>5. MaxImages \in Nat /\ MaxObjects \in Nat
  BY DigestsAssumption DEF Fits
<1>6. ASSUME NEW n \in DOMAIN objects'
      PROVE  /\ objects'[n].identity \in DOMAIN hashed'
             /\ Describes(hashed'[objects'[n].identity], objects'[n])
  <2>1. CASE objects'[n] = o
    BY <1>1, <2>1
  <2>2. CASE n \in DOMAIN objects /\ objects'[n] = objects[n]
    <3>1. /\ objects[n].identity \in DOMAIN hashed
          /\ Describes(hashed[objects[n].identity], objects[n])
      BY <2>2 DEF Recorded
    <3>2. QED
      BY <1>1, <2>2, <3>1
  <2>3. QED
    BY <1>2, <2>1, <2>2
<1>7. Len(hashed') <= Len(objects')
  BY <1>1, <1>3, <1>4 DEF Recorded
<1>8. Len(objects') <= MaxImages \/ Len(objects') <= MaxObjects
  BY <1>3, <1>5
<1>9. QED
  BY <1>1, <1>6, <1>7, <1>8 DEF Recorded

\* A call begins with entries that can be written, if they are valid.
LEMMA BeginRecords ==
  ASSUME IInv, Recorded, NEW entries \in Manifests, Begin(entries)
  PROVE  Recorded' /\ Writing'
<1>1. UNCHANGED <<hashed, objects>> /\ Len(objects) < MaxImages /\ given' = entries
  BY DEF Begin
<1>2. pc' # "write"
  BY DEF Begin, Throw
<1>3. Fits(Len(entries), 8) /\ \A i \in 1..Len(entries) : ValidEntry(entries[i]) => Writable(entries[i])
  BY ManifestsAssumption, VectorLength
<1>4. Recorded'
  BY <1>1 DEF Recorded
<1>5. QED
  BY <1>1, <1>2, <1>3, <1>4 DEF Writing

\* They still can with their ids.
LEMMA AdmitRecords ==
  ASSUME IInv, Recorded, Writing, Admit
  PROVE  Recorded' /\ Writing'
<1>1. /\ IsVector(given) /\ Len(given) \in Nat /\ index \in Nat /\ index < Len(given)
      /\ pc = "admit" /\ UNCHANGED <<hashed, objects>> /\ pc' # "write"
  BY VectorLength DEF IInv, TypeOK, Admit, Throw
<1>2. PICK k \in 1..Len(given) : k = index + 1
  BY <1>1
<1>3. PICK e : e = given[k] /\ IsEntry(e) /\ (ValidEntry(e) => Writable(e))
  BY <1>1, VectorLength DEF Writing
<1>4. PICK d : d = [e EXCEPT !.id = index] /\ IsEntry(d) /\ (ValidEntry(d) => Writable(d))
  BY <1>3, WithId, WithIdWritable
<1>5. given' = [given EXCEPT ![k] = d]
  BY <1>1, <1>2, <1>3, <1>4, VectorLength DEF Admit, Numbered
<1>6. /\ Len(given') = Len(given) /\ given'[k] = d
      /\ \A i \in 1..Len(given) : i # k => given'[i] = given[i]
  <2>1. IsEntry(d)
    BY <1>4
  <2>2. /\ Len([given EXCEPT ![k] = d]) = Len(given)
        /\ [given EXCEPT ![k] = d][k] = d
        /\ \A i \in 1..Len(given) : i # k => [given EXCEPT ![k] = d][i] = given[i]
    BY <1>1, <2>1, VectorExcept
  <2>3. QED
    BY <1>5, <2>2
<1>7. \A i \in 1..Len(given') : ValidEntry(given'[i]) => Writable(given'[i])
  BY <1>1, <1>4, <1>6 DEF Writing
<1>8. Recorded'
  BY <1>1 DEF Recorded
<1>9. Fits(Len(given'), 8) /\ Len(objects') < MaxImages
  BY <1>1, <1>6 DEF Writing
<1>10. QED
  BY <1>1, <1>7, <1>8, <1>9 DEF Writing

\* The loop over the links writes nothing.
LEMMA LinksRecord ==
  ASSUME Recorded, Writing, AllAdmitted \/ ResolveLink
  PROVE  Recorded' /\ Writing'
<1>1. /\ UNCHANGED <<given, hashed, objects>> /\ pc \in {"admit", "link"} /\ pc' # "write"
  BY DEF AllAdmitted, ResolveLink, Throw
<1>2. Recorded'
  BY <1>1 DEF Recorded
<1>3. QED
  BY <1>1, <1>2 DEF Writing

\* The record begins with its header.
LEMMA HeaderRecords ==
  ASSUME IInv, Recorded, Writing, BeginRecord
  PROVE  Recorded' /\ Writing'
<1>1. /\ pc = "link" /\ index' = 0 /\ UNCHANGED <<given, hashed, objects>>
      /\ WriteBytes(NewContext, ImageHeader(Len(given)))
  BY DEF BeginRecord
<1>2. PICK header \in Bytes : header = ImageHeader(Len(given))
  BY <1>1, HeadersTold DEF Writing, Delimits
<1>3. NewContext = [bytes |-> NewContext.bytes, finished |-> FALSE] /\ NewContext.bytes = <<>>
  BY DEF NewContext
<1>4. writer'.bytes = <<>> \o header /\ pc' = "write"
  BY <1>1, <1>2, <1>3, Written
<1>5. Sealable(given)
  BY <1>1, GivenSealable
<1>6. Joined(EntryParts(given))[0] = <<>>
  BY <1>5, SealableIs, JoinedIs
<1>7. <<>> \o header = header \o <<>>
  BY ConcatEmptySeq DEF Bytes
<1>8. writer'.bytes = RecordUpTo(given, 0)
  BY <1>2, <1>4, <1>6, <1>7 DEF RecordUpTo
<1>9. writer'.bytes = RecordUpTo(given', index')
  BY <1>1, <1>8
<1>10. Recorded'
  BY <1>1 DEF Recorded
<1>11. QED
  BY <1>1, <1>9, <1>10 DEF Writing

\* And goes on with one entry after another.
LEMMA EntryRecords ==
  ASSUME IInv, Recorded, Writing, WriteEntry
  PROVE  Recorded' /\ Writing'
<1>1. /\ pc = "write" /\ index' = index + 1 /\ UNCHANGED <<given, hashed, objects>>
      /\ WriteBytes(writer, EntryBytes(Entry)) /\ index < Len(given) /\ index \in Nat
  BY VectorLength DEF WriteEntry, IInv, TypeOK
<1>2. writer = [bytes |-> writer.bytes, finished |-> FALSE]
  BY <1>1 DEF IInv, TypeOK, ResolvedSoFar
<1>3. Sealable(given)
  BY <1>1, GivenSealable
<1>4. PICK k \in 1..Len(given) : k = index + 1
  BY <1>1, <1>3, SealableIs
<1>5. PICK parts \in Seq(Bytes) : parts = EntryParts(given) /\ Len(parts) = Len(given)
                                  /\ parts[k] = EntryBytes(given[k])
  BY <1>3, SealableIs
<1>6. writer'.bytes = writer.bytes \o parts[k] /\ pc' = "write"
  <2>1. Entry = given[k]
    BY <1>4 DEF Entry
  <2>2. QED
    BY <1>1, <1>2, <1>5, <2>1, Written
<1>7. PICK header \in Bytes : header = ImageHeader(Len(given))
  BY <1>1, HeadersTold DEF Writing, Delimits
<1>8. PICK part \in Bytes : part = parts[k]
  BY <1>5, JoinedIs
<1>9. PICK before \in Bytes : before = Joined(parts)[index] /\ Joined(parts)[k] = before \o part
  <2>1. k \in 1..Len(parts) /\ k - 1 = index /\ index \in 0..Len(parts)
    BY <1>1, <1>4, <1>5
  <2>2. Joined(parts)[k] = Joined(parts)[k - 1] \o parts[k] /\ Joined(parts)[index] \in Bytes
    BY <1>5, <2>1, JoinedIs
  <2>3. QED
    BY <1>8, <2>1, <2>2
<1>10. writer.bytes = header \o before
  BY <1>1, <1>5, <1>7, <1>9 DEF Writing, RecordUpTo
<1>11. (header \o before) \o part = header \o (before \o part)
  BY BytesAssociate
<1>12. writer'.bytes = header \o Joined(parts)[k]
  BY <1>6, <1>8, <1>9, <1>10, <1>11
<1>13. writer'.bytes = RecordUpTo(given', index')
  BY <1>1, <1>4, <1>5, <1>7, <1>12 DEF RecordUpTo
<1>14. Recorded'
  BY <1>1 DEF Recorded
<1>15. QED
  BY <1>1, <1>13, <1>14 DEF Writing

\* The image gets the digest of its whole record.
LEMMA SealRecords ==
  ASSUME IInv, Recorded, Writing, SealImage
  PROVE  Recorded' /\ Writing'
<1>1. PICK record : record = writer.bytes
  OBVIOUS
<1>2. PICK o : /\ o = [kind |-> "image", value |-> given, identity |-> DigestOf(record)]
               /\ objects' = Append(objects, o)
  BY <1>1 DEF SealImage
<1>3. o.kind = "image" /\ o.value = given /\ o.identity = DigestOf(record)
  BY <1>2
<1>4. /\ pc = "write" /\ pc' = "idle" /\ index = Len(given) /\ hashed' = HashedWith(record)
  BY <1>1 DEF SealImage
<1>5. Sealable(given)
  BY <1>4, GivenSealable
<1>6. record = RecordUpTo(given, Len(given))
  BY <1>1, <1>4 DEF Writing
<1>7. record \in Bytes
  <2>1. Len(given) \in Nat
    BY <1>5, SealableIs
  <2>2. PICK b \in Bytes : b = Joined(EntryParts(given))[Len(given)]
    <3>1. PICK parts \in Seq(Bytes) : parts = EntryParts(given) /\ Len(parts) = Len(given)
      BY <1>5, SealableIs
    <3>2. Len(given) \in 0..Len(parts)
      BY <2>1, <3>1
    <3>3. Joined(parts)[Len(given)] \in Bytes
      BY <3>2, JoinedIs
    <3>4. QED
      BY <3>1, <3>3
  <2>3. PICK header \in Bytes : header = ImageHeader(Len(given))
    BY <1>4, HeadersTold DEF Writing, Delimits
  <2>4. header \o b \in Bytes
    BY BytesJoin
  <2>5. QED
    BY <1>6, <2>2, <2>3, <2>4 DEF RecordUpTo
<1>8. Describes(record, o)
  BY <1>3, <1>5, <1>6 DEF Describes
<1>9. Len(objects) < MaxImages
  BY <1>4 DEF Writing
<1>10. Recorded'
  BY <1>2, <1>3, <1>4, <1>7, <1>8, <1>9, ObjectRecorded DEF IInv
<1>11. QED
  BY <1>4, <1>10 DEF Writing

\* The receipt that of its own.
LEMMA IssueRecords ==
  ASSUME IInv, Recorded, Writing, Issue
  PROVE  Recorded' /\ Writing'
<1>0. PICK text \in Backends, digest \in ArchiveDigests, image \in Images :
        \E entryCount \in {0, 1, Len(image.value)} :
          IssueReceipt(text, digest, image, entryCount)
  BY DEF Issue
<1>1. PICK count \in {0, 1, Len(image.value)} : IssueReceipt(text, digest, image, count)
  BY <1>0
<1> DEFINE backend == ParseBackend(text)
           receipt == Receipt(ValueOf(backend), digest, image.identity, count)
           record  == ReceiptBytes(ValueOf(receipt))
<1>2. PICK o : o = [kind |-> "receipt", value |-> ValueOf(receipt), identity |-> DigestOf(record)]
  OBVIOUS
<1>3. /\ pc = "idle" /\ UNCHANGED <<given, index, writer>> /\ Len(objects) < MaxObjects
      /\ \/ /\ Succeeds(backend) /\ Succeeds(receipt)
            /\ hashed' = HashedWith(record) /\ objects' = Append(objects, o) /\ pc' = pc
         \/ pc' = "failed" /\ UNCHANGED <<hashed, objects>>
  BY <1>1, <1>2 DEF IssueReceipt, Throw
<1>4. CASE pc' = "failed" /\ UNCHANGED <<hashed, objects>>
  BY <1>4 DEF Recorded, Writing
<1>5. CASE /\ Succeeds(backend) /\ Succeeds(receipt)
           /\ hashed' = HashedWith(record) /\ objects' = Append(objects, o) /\ pc' = pc
  <2>1. backend = Ok(text)
    BY <1>5 DEF ParseBackend, Fail, Ok, Succeeds
  <2>2. ValueOf(backend) = text /\ text \in DOMAIN TextBytes
    <3>1. \A x : ValueOf(Ok(x)) = x
      BY DEF Ok, ValueOf
    <3>2. Succeeds(ParseBackend(text))
      BY <1>5
    <3>3. text \in DOMAIN TextBytes
      BY <3>2, DigestsAssumption
    <3>4. QED
      BY <2>1, <3>1, <3>3
  <2>3. count # 0 /\ receipt = Ok([backend |-> text, archiveDigest |-> digest,
                                   imageIdentity |-> image.identity, entryCount |-> count])
    BY <1>5, <2>2 DEF Receipt, Fail, Ok, Succeeds
  <2>4. PICK r : r = [backend |-> text, archiveDigest |-> digest,
                      imageIdentity |-> image.identity, entryCount |-> count]
    OBVIOUS
  <2>5. ValueOf(receipt) = r
    BY <2>3, <2>4 DEF Ok, ValueOf
  <2>6. PICK n \in DOMAIN objects : objects[n] = image /\ image.kind = "image"
    BY DEF Images
  <2>7. image.identity \in DOMAIN hashed /\ Sealable(image.value)
    BY <2>6 DEF Recorded, Describes
  <2>8. Fits(image.identity, 32)
    <3>1. Len(hashed) \in Nat /\ DOMAIN hashed = 1..Len(hashed) /\ Len(objects) \in Nat
      BY LenProperties DEF Recorded, IInv, TypeOK
    <3>2. MaxImages \in Nat /\ MaxObjects \in Nat /\ Fits(MaxImages, 32) /\ Fits(MaxObjects, 32)
      BY DigestsAssumption DEF Fits
    <3>3. image.identity \in Nat
          /\ (image.identity <= MaxImages \/ image.identity <= MaxObjects)
      BY <2>7, <3>1, <3>2 DEF Recorded
    <3>4. QED
      BY <3>2, <3>3, FitsBelow
  <2>9. Fits(count, 8)
    <3>1. PICK length \in Nat : length = Len(image.value) /\ Fits(length, 8)
      BY <2>7, SealableIs
    <3>2. length # 0
      BY <2>7, <3>1, EmptySeq DEF Sealable, Indexed, IsVector
    <3>3. Fits(1, 8)
      BY <3>1, <3>2, FitsBelow
    <3>4. QED
      BY <2>3, <3>1, <3>3
  <2>10. Issuable(r)
    <3>1. Fits(digest, 32)
      BY DigestsAssumption
    <3>2. /\ r.backend = text /\ r.archiveDigest = digest
          /\ r.imageIdentity = image.identity /\ r.entryCount = count
      BY <2>4
    <3>3. QED
      BY <2>2, <2>4, <2>8, <2>9, <3>1, <3>2 DEF Issuable
  <2>11. o.kind = "receipt" /\ o.value = r /\ o.identity = DigestOf(record)
         /\ record = ReceiptBytes(r)
    BY <1>2, <2>5
  <2>12. record \in Bytes
    BY <2>10, <2>11, ReceiptsTold
  <2>13. Describes(record, o)
    BY <2>10, <2>11 DEF Describes
  <2> HIDE DEF record, receipt, backend
  <2>14. Recorded'
    BY <1>3, <1>5, <2>11, <2>12, <2>13, ObjectRecorded DEF IInv
  <2>15. QED
    BY <1>3, <1>5, <2>14 DEF Writing
<1>6. QED
  BY <1>3, <1>4, <1>5

\* Each object has the digest of its own record, and no record has two: what
\* has been written of a record is that of the entries so far.
THEOREM Records == Spec => [](Recorded /\ Writing)
<1>1. Init => Recorded /\ Writing
  <2>1. \A S : <<>> \in Seq(S) /\ Len(<<>>) = 0 /\ DOMAIN <<>> = {}
    BY EmptySeq
  <2>2. MaxImages \in Nat
    BY DigestsAssumption DEF Fits
  <2>3. QED
    BY <2>1, <2>2 DEF Init, Recorded, Writing
<1>2. IInv /\ Recorded /\ Writing /\ [Next]_constructionVars => (Recorded /\ Writing)'
  <2>1. SUFFICES ASSUME IInv, Recorded, Writing, [Next]_constructionVars
                 PROVE  Recorded' /\ Writing'
    OBVIOUS
  <2>2. CASE Stopped \/ UNCHANGED constructionVars
    BY <2>1, <2>2 DEF Stopped, constructionVars, Recorded, Writing
  <2>3. QED
    BY <2>1, <2>2, BeginRecords, AdmitRecords, LinksRecord, HeaderRecords, EntryRecords,
       SealRecords, IssueRecords DEF Next
<1>3. QED
  BY <1>1, <1>2, Invariance, PTL DEF Spec

-----------------------------------------------------------------------------
(***************************************************************************)
(* What a digest names.                                                    *)
(***************************************************************************)

\* The fields Identify takes are those the record tells.
LEMMA IdentifyTells ==
  ASSUME NEW v, NEW w, Sealable(v), Sealable(w), Identify(v) = Identify(w)
  PROVE  v = w
<1>1. PICK n \in Nat : /\ n = Len(v) /\ DOMAIN v = 1..n
                       /\ \A i \in 1..n : IsEntry(v[i]) /\ ValidEntry(v[i])
  BY SealableIs
<1>2. PICK m \in Nat : /\ m = Len(w) /\ DOMAIN w = 1..m
                       /\ \A i \in 1..m : IsEntry(w[i]) /\ ValidEntry(w[i])
  BY SealableIs
<1>3. PICK f : f = [i \in DOMAIN v |-> IdentityRecord(v[i])]
  OBVIOUS
<1>4. PICK g : g = [i \in DOMAIN w |-> IdentityRecord(w[i])]
  OBVIOUS
<1>5. <<n, f>> = <<m, g>>
  BY <1>1, <1>2, <1>3, <1>4 DEF Identify
<1>6. n = m /\ f = g
  BY <1>5
<1>7. ASSUME NEW i \in 1..n
      PROVE  v[i] = w[i]
  <2>1. IdentityRecord(v[i]) = IdentityRecord(w[i])
    BY <1>1, <1>2, <1>3, <1>4, <1>6
  <2>2. PICK e, d : e = v[i] /\ d = w[i]
    OBVIOUS
  <2>3. SameWritten(e, d)
    BY <2>1, <2>2 DEF IdentityRecord, SameWritten
  <2>4. QED
    BY <1>1, <1>2, <1>6, <2>2, <2>3, EntryTold
<1>8. v = [i \in 1..n |-> v[i]] /\ w = [i \in 1..n |-> w[i]]
  BY <1>1, <1>2, <1>6, LenProperties DEF Sealable, Indexed, IsVector
<1>9. QED
  BY <1>6, <1>7, <1>8

\* Objects that are the same have the same fields throughout.
LEMMA SameIsEqual ==
  ASSUME NEW v, NEW w, Sealable(v), Sealable(w), Len(v) = Len(w),
         \A i \in DOMAIN v : SameEntry(v[i], w[i])
  PROVE  v = w
<1>1. PICK n \in Nat : /\ n = Len(v) /\ DOMAIN v = 1..n
                       /\ \A i \in 1..n : IsEntry(v[i])
  BY SealableIs
<1>2. n = Len(w) /\ \A i \in 1..n : IsEntry(w[i])
  BY <1>1, SealableIs
<1>3. \A i \in 1..n : v[i] = w[i]
  BY <1>1, <1>2 DEF SameEntry, IsEntry
<1>4. v = [i \in 1..n |-> v[i]] /\ w = [i \in 1..n |-> w[i]]
  BY <1>1, <1>2, LenProperties DEF Sealable, Indexed, IsVector
<1>5. QED
  BY <1>3, <1>4

\* Two images or receipts have one digest exactly when they are equal: the
\* canonical records tell every field, of any entries, texts and numbers.
THEOREM Naming == Spec => []IdentityNamesOneObject
<1>1. Recorded => IdentityNamesOneObject
  <2>1. SUFFICES ASSUME Recorded
                 PROVE  IdentityNamesOneObject
    OBVIOUS
  <2>2. ASSUME NEW m \in DOMAIN objects, NEW n \in DOMAIN objects
        PROVE  /\ objects[m].identity = objects[n].identity => objects[m].kind = objects[n].kind
               /\ objects[m].kind = objects[n].kind =>
                    (objects[m].identity = objects[n].identity <=>
                       objects[m].value = objects[n].value)
               /\ objects[m].kind = "image" => Sealable(objects[m].value)
               /\ objects[m].kind \in {"image", "receipt"}
    <3>1. PICK a : a = objects[m] /\ a.identity \in DOMAIN hashed
                   /\ Describes(hashed[a.identity], a)
      BY <2>1 DEF Recorded
    <3>2. PICK b : b = objects[n] /\ b.identity \in DOMAIN hashed
                   /\ Describes(hashed[b.identity], b)
      BY <2>1 DEF Recorded
    <3>3. a.identity = b.identity <=> hashed[a.identity] = hashed[b.identity]
      BY <2>1, <3>1, <3>2 DEF Recorded
    <3>4. CASE a.kind = "image" /\ b.kind = "image"
      <4>1. /\ Sealable(a.value) /\ hashed[a.identity] = RecordUpTo(a.value, Len(a.value))
            /\ Sealable(b.value) /\ hashed[b.identity] = RecordUpTo(b.value, Len(b.value))
        BY <3>1, <3>2, <3>4 DEF Describes
      <4>2. hashed[a.identity] = hashed[b.identity] <=> a.value = b.value
        BY <4>1, ImagesTold
      <4>3. QED
        BY <3>1, <3>2, <3>3, <3>4, <4>1, <4>2
    <3>5. CASE a.kind = "receipt" /\ b.kind = "receipt"
      <4>1. /\ Issuable(a.value) /\ hashed[a.identity] = ReceiptBytes(a.value)
            /\ Issuable(b.value) /\ hashed[b.identity] = ReceiptBytes(b.value)
        BY <3>1, <3>2, <3>5 DEF Describes
      <4>2. hashed[a.identity] = hashed[b.identity] <=> a.value = b.value
        BY <4>1, ReceiptsTold
      <4>3. QED
        BY <3>1, <3>2, <3>3, <3>5, <4>2
    <3>6. CASE a.kind = "image" /\ b.kind = "receipt"
      <4>1. /\ Sealable(a.value) /\ hashed[a.identity] = RecordUpTo(a.value, Len(a.value))
            /\ Issuable(b.value) /\ hashed[b.identity] = ReceiptBytes(b.value)
        BY <3>1, <3>2, <3>6 DEF Describes
      <4>2. hashed[a.identity] # hashed[b.identity]
        BY <4>1, KindsTold
      <4>3. QED
        BY <3>1, <3>2, <3>3, <3>6, <4>1, <4>2
    <3>7. CASE a.kind = "receipt" /\ b.kind = "image"
      <4>1. /\ Issuable(a.value) /\ hashed[a.identity] = ReceiptBytes(a.value)
            /\ Sealable(b.value) /\ hashed[b.identity] = RecordUpTo(b.value, Len(b.value))
        BY <3>1, <3>2, <3>7 DEF Describes
      <4>2. hashed[a.identity] # hashed[b.identity]
        BY <4>1, KindsTold
      <4>3. QED
        BY <3>1, <3>2, <3>3, <3>7, <4>2
    <3>8. QED
      BY <3>1, <3>2, <3>4, <3>5, <3>6, <3>7 DEF Describes
  <2>3. ASSUME NEW m \in DOMAIN objects, NEW n \in DOMAIN objects
        PROVE  objects[m].identity = objects[n].identity <=> SameObject(objects[m], objects[n])
    <3>1. PICK a, b : a = objects[m] /\ b = objects[n]
      OBVIOUS
    <3>2. ASSUME a.kind = "image", b.kind = "image"
          PROVE  a.value = b.value <=>
                   /\ Len(a.value) = Len(b.value)
                   /\ \A i \in DOMAIN a.value : SameEntry(a.value[i], b.value[i])
      <4>1. Sealable(a.value) /\ Sealable(b.value)
        BY <2>2, <3>1, <3>2
      <4>2. a.value = b.value => \A i \in DOMAIN a.value : SameEntry(a.value[i], b.value[i])
        BY DEF SameEntry
      <4>3. QED
        BY <4>1, <4>2, SameIsEqual
    <3>3. SameObject(a, b) <=> a.kind = b.kind /\ a.value = b.value
      <4>1. a.kind \in {"image", "receipt"}
        BY <2>2, <3>1
      <4>2. QED
        BY <3>2, <4>1 DEF SameObject
    <3>4. QED
      BY <2>2, <3>1, <3>3
  <2>4. ASSUME NEW m \in DOMAIN objects, NEW n \in DOMAIN objects,
               objects[m].kind = "image", objects[n].kind = "image"
        PROVE  objects[m].identity = objects[n].identity <=>
                 Identify(objects[m].value) = Identify(objects[n].value)
    <3>1. Sealable(objects[m].value) /\ Sealable(objects[n].value)
      BY <2>2, <2>4
    <3>2. objects[m].value = objects[n].value <=>
            Identify(objects[m].value) = Identify(objects[n].value)
      BY <3>1, IdentifyTells
    <3>3. QED
      BY <2>2, <2>4, <3>2
  <2>5. QED
    BY <2>3, <2>4 DEF IdentityNamesOneObject, Images
<1>2. QED
  BY <1>1, Records, PTL

=============================================================================
