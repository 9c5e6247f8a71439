------------------------ MODULE PackageArchiveProofs ------------------------
(***************************************************************************)
(* Proofs about PackageArchive: a package over its whole life, opened once *)
(* and replayed by any number of calls while others edit the file.         *)
(*                                                                         *)
(* What open has sealed is what the theorems about LibarchiveReplay assume *)
(* of a package, and what a consumer selects is what they assume of a      *)
(* selection.  So their lemmas, taken for the package that open returned   *)
(* (Replaying), say what each step of a call does to it.                   *)
(***************************************************************************)
EXTENDS PackageArchive, LibarchiveOpenProofs, FiniteSetTheorems, FunctionTheorems

-----------------------------------------------------------------------------
(***************************************************************************)
(* Selections.                                                             *)
(***************************************************************************)

\* A list of some entries in the order of their ids.
Ascending(list, set) ==
  /\ list \in [1..Cardinality(set) -> set]
  /\ \A i, j \in 1..Cardinality(set) : i < j => list[i].id < list[j].id

Sortable(set) == \E list : Ascending(list, set)

\* Entries of distinct ids, all below a number.
Distinct(set, n) ==
  /\ \A e \in set : e.id \in Nat /\ e.id < n
  /\ \A d, e \in set : d.id = e.id => d = e

\* There are finitely many of them.
LEMMA DistinctIsFinite ==
  ASSUME NEW set, NEW n \in Nat, Distinct(set, n)
  PROVE  IsFiniteSet(set)
<1> DEFINE ids == {e.id : e \in set}
           id == [e \in set |-> e.id]
<1>1. IsFiniteSet(ids)
  <2>1. ids \in SUBSET Nat /\ \A k \in ids : k <= n
    BY DEF Distinct
  <2>2. QED
    BY <2>1, FS_BoundedSetOfNaturals
<1>2. id \in Injection(set, ids)
  BY DEF Distinct, Injection, IsInjective
<1>3. QED
  BY <1>1, <1>2, FS_Injection

\* There are n numbers from 1 on.
LEMMA CountUpTo ==
  ASSUME NEW n \in Nat
  PROVE  IsFiniteSet(1..n) /\ Cardinality(1..n) = n
<1>1. 1 \in Int /\ n \in Int
  OBVIOUS
<1>2. PICK c : c = Cardinality(1..n)
  OBVIOUS
<1>3. IsFiniteSet(1..n) /\ c = IF 1 > n THEN 0 ELSE n - 1 + 1
  BY <1>1, <1>2, FS_Interval
<1>4. c = n
  BY <1>3
<1>5. QED
  BY <1>2, <1>3, <1>4

\* Distinct ids below a bound are no more than it.
LEMMA DistinctIdsFit ==
  ASSUME NEW n \in Nat, NEW size \in Nat, NEW ids \in Injection(1..n, 0..(size - 1))
  PROVE  n <= size
<1>1. PICK last \in Int : last = size - 1
  OBVIOUS
<1>2. PICK c : c = Cardinality(0..last)
  OBVIOUS
<1>3. 0 \in Int
  OBVIOUS
<1>4. IsFiniteSet(0..last) /\ c = IF 0 > last THEN 0 ELSE last - 0 + 1
  BY <1>1, <1>2, <1>3, FS_Interval
<1>5. c = size
  BY <1>1, <1>4
<1>6. ids \in Injection(1..n, 0..last)
  BY <1>1
<1>7. Cardinality(1..n) <= Cardinality(0..last)
  BY <1>4, <1>6, FS_Injection
<1>8. QED
  BY <1>2, <1>5, <1>7, CountUpTo

\* A list of the others is one of all, with the entry of the highest id last.
LEMMA SortableWithLast ==
  ASSUME NEW set, IsFiniteSet(set), NEW last \in set,
         \A e \in set \ {last} : e.id < last.id,
         Sortable(set \ {last})
  PROVE  Sortable(set)
<1> DEFINE rest == set \ {last}
           k == Cardinality(rest)
<1>1. PICK list : Ascending(list, rest)
  BY DEF Sortable
<1>2. k \in Nat /\ Cardinality(set) = k + 1
  <2>1. IsFiniteSet(rest) /\ k = Cardinality(set) - 1
    BY FS_RemoveElement
  <2>2. k \in Nat /\ Cardinality(set) \in Nat
    BY <2>1, FS_CardinalityType
  <2> HIDE DEF k
  <2>3. QED
    BY <2>1, <2>2
<1> DEFINE longer == [i \in 1..(k + 1) |-> IF i = k + 1 THEN last ELSE list[i]]
<1>3. \A i \in 1..(k + 1) : i # k + 1 => i \in 1..k
  BY <1>2
<1>4. \A i \in 1..k : list[i] \in rest
  BY <1>1 DEF Ascending
<1>5. longer \in [1..(k + 1) -> set]
  BY <1>3, <1>4
<1>6. ASSUME NEW i \in 1..(k + 1), NEW j \in 1..(k + 1), i < j
      PROVE  longer[i].id < longer[j].id
  <2>1. i \in 1..k
    BY <1>2, <1>6
  <2>2. CASE j = k + 1
    <3>1. longer[i] = list[i] /\ longer[j] = last
      BY <1>2, <2>1, <2>2
    <3>2. list[i].id < last.id
      BY <1>4, <2>1
    <3> HIDE DEF longer
    <3>3. QED
      BY <3>1, <3>2
  <2>3. CASE j # k + 1
    <3>1. j \in 1..k
      BY <1>3, <2>3
    <3>2. list[i].id < list[j].id
      BY <1>1, <1>6, <2>1, <3>1 DEF Ascending
    <3>3. longer[i] = list[i] /\ longer[j] = list[j]
      BY <1>2, <2>1, <2>3
    <3> HIDE DEF longer
    <3>4. QED
      BY <3>2, <3>3
  <2>4. QED
    BY <2>2, <2>3
<1>7. Ascending(longer, set)
  <2> HIDE DEF longer
  <2>1. QED
    BY <1>2, <1>5, <1>6 DEF Ascending
<1>8. QED
  BY <1>7 DEF Sortable

\* Entries of distinct ids can be sorted.
LEMMA DistinctIsSortable ==
  ASSUME NEW all, NEW n \in Nat, Distinct(all, n)
  PROVE  Sortable(all)
<1> DEFINE Below(set, m) == \A e \in set : e.id < m
           T == {m \in Nat : \E set \in SUBSET all : Below(set, m) /\ ~Sortable(set)}
<1>1. SUFFICES ASSUME ~Sortable(all)
               PROVE  FALSE
  OBVIOUS
<1>2. n \in T
  BY <1>1 DEF Distinct
<1>3. PICK m \in T : \A k \in T : m <= k
  BY <1>2, LeastNatural
<1>4. PICK set \in SUBSET all : Below(set, m) /\ ~Sortable(set)
  BY <1>3
<1>5. m \in Nat
  BY <1>3
<1>6. set # {}
  <2>1. CASE set = {}
    <3>1. Cardinality(set) = 0
      BY <2>1, FS_EmptySet
    <3>2. Ascending([i \in 1..0 |-> i], set)
      BY <2>1, <3>1 DEF Ascending
    <3>3. QED
      BY <1>4, <3>2 DEF Sortable
  <2>2. QED
    BY <2>1
<1>7. \A e \in set : e.id \in Nat /\ e.id < m
  BY <1>4 DEF Distinct
<1>8. m - 1 \in Nat /\ m - 1 \notin T
  <2>1. m # 0
    BY <1>6, <1>7
  <2>2. m - 1 \in Nat /\ ~(m <= m - 1)
    BY <1>5, <2>1
  <2>3. QED
    BY <1>3, <2>2
<1>9. PICK last \in set : last.id = m - 1
  <2>1. SUFFICES ASSUME \A e \in set : e.id # m - 1
                 PROVE  FALSE
    OBVIOUS
  <2>2. Below(set, m - 1)
    BY <1>5, <1>7, <2>1
  <2>3. m - 1 \in T
    BY <1>4, <1>8, <2>2
  <2>4. QED
    BY <1>8, <2>3
<1>10. \A e \in set \ {last} : e.id < m - 1
  <2>1. ASSUME NEW e \in set \ {last}
        PROVE  e.id # last.id
    BY DEF Distinct
  <2>2. QED
    BY <1>5, <1>7, <1>9, <2>1
<1>11. Sortable(set \ {last})
  BY <1>8, <1>10
<1>12. IsFiniteSet(set)
  BY DistinctIsFinite, FS_Subset
<1>13. QED
  BY <1>4, <1>9, <1>10, <1>11, <1>12, SortableWithLast

\* So SortedById is a list of all of them, and of nothing else.
LEMMA Sorted ==
  ASSUME NEW set, NEW n \in Nat, Distinct(set, n)
  PROVE  /\ Cardinality(set) \in Nat
         /\ Ascending(SortedById(set), set)
         /\ \A e \in set : \E i \in 1..Cardinality(set) : SortedById(set)[i] = e
<1> DEFINE k == Cardinality(set)
           list == SortedById(set)
<1>1. IsFiniteSet(set) /\ k \in Nat
  BY DistinctIsFinite, FS_CardinalityType
<1>2. Ascending(list, set)
  BY DistinctIsSortable DEF Sortable, Ascending, SortedById
<1>3. IsFiniteSet(1..k) /\ Cardinality(1..k) = k
  BY <1>1, FS_Interval
<1>4. ASSUME NEW i \in 1..k, NEW j \in 1..k, list[i] = list[j]
      PROVE  i = j
  <2>1. list[i].id \in Nat /\ ~(i < j) /\ ~(j < i)
    BY <1>2, <1>4 DEF Ascending, Distinct
  <2>2. QED
    BY <1>1, <2>1
<1>5. list \in Injection(1..k, set)
  <2>1. list \in [1..k -> set]
    BY <1>2 DEF Ascending
  <2> HIDE DEF list, k
  <2>2. QED
    BY <1>4, <2>1 DEF Injection, IsInjective
<1>6. list \in Surjection(1..k, set)
  BY <1>1, <1>3, <1>5, FS_Injection
<1>7. QED
  BY <1>1, <1>2, <1>6 DEF Surjection
-----------------------------------------------------------------------------
(***************************************************************************)
(* Images that bytes mean, and selections from them.                       *)
(***************************************************************************)

\* Of the optional parts of an entry there is one at most.
AtMostOne(set) == \A d, e \in set : d = e

\* An entry of an archive has a natural size, and one content at most.
LEMMA ReadEntry ==
  ASSUME NEW d \in Seq(Block), NEW e \in EntriesOf(d)
  PROVE  DOMAIN e = AllFields /\ e.size \in Nat /\ AtMostOne(e.content)
<1>1. PICK h \in 1..Len(d) : /\ d[h] \in DOMAIN RawHeader
                             /\ Succeeds(EntryOf(d, h))
                             /\ e = ValueOf(EntryOf(d, h))
  BY DEF EntriesOf
<1>2. EntryOf(d, h) = Ok(e)
  <2>1. PICK x : EntryOf(d, h) = Ok(x)
    BY <1>1 DEF EntryOf, EntryOfHeader, Succeeds
  <2>2. ValueOf(Ok(x)) = x
    BY DEF ValueOf, Ok
  <2>3. QED
    BY <1>1, <2>1, <2>2
<1>3. PICK raw : raw = RawHeader[d[h]]
  OBVIOUS
<1>4. PICK n : NormalizeEntry(raw) = Ok(n) /\ DOMAIN n = AllFields
  <2>1. Succeeds(NormalizeEntry(raw))
    BY <1>1, <1>3 DEF EntryOf, EntryOfHeader
  <2>2. PICK n : NormalizeEntry(raw) = Ok(n)
    BY <2>1 DEF NormalizeEntry, Succeeds
  <2>3. DOMAIN n = AllFields
    BY <2>2, NormalizedHeader DEF Ok
  <2>4. QED
    BY <2>2, <2>3
<1>5. e = [n EXCEPT !.content = IF n.type = "regular" THEN {PayloadAt(d, h)} ELSE {}]
  <2>1. ValueOf(NormalizeEntry(raw)) = n
    BY <1>4 DEF ValueOf, Ok
  <2>2. Succeeds(NormalizeEntry(raw)) /\ PayloadFault(d, h, n) = {}
    BY <1>1, <1>3, <1>4, <2>1 DEF EntryOf, EntryOfHeader, Succeeds, Ok
  <2>3. QED
    BY <1>2, <1>3, <2>1, <2>2 DEF EntryOf, EntryOfHeader, Ok
<1>6. DOMAIN e = AllFields /\ e.size = n.size /\ AtMostOne(e.content)
  BY <1>4, <1>5 DEF AllFields, AtMostOne
<1>7. n.size \in Nat
  <2>1. CASE n.type = "regular"
    <3>1. raw.size \in Int
      BY <1>1, <1>3, SizesAssumption
    <3>2. QED
      BY <1>4, <2>1, <3>1, RegularSize
  <2>2. CASE n.type # "regular"
    <3>1. n = NormalizedEntry(raw)
      BY <1>4 DEF NormalizeEntry, Ok
    <3>2. n.size = 0
      BY <2>2, <3>1 DEF NormalizedEntry
    <3>3. QED
      BY <3>2
  <2>3. QED
    BY <2>1, <2>2
<1>8. QED
  BY <1>6, <1>7

\* The image that bytes mean is numbered from 0 and valid.
LEMMA ImageMeant ==
  ASSUME NEW d \in Seq(Block), NEW image0, Decode(d) = Ok(image0)
  PROVE  /\ Len(image0) \in Nat /\ DOMAIN image0 = 1..Len(image0)
         /\ ValidImage(image0)
         /\ \A i \in 1..Len(image0) : /\ image0[i].id = i - 1
                                      /\ image0[i].size \in Nat
                                      /\ AtMostOne(image0[i].content)
<1>1. Succeeds(EntriesFrom(d)[1])
  BY DEF Decode, Ok, Fail, Succeeds
<1>2. PICK list \in Seq(EntriesOf(d)) : EntriesFrom(d)[1] = Ok(list)
  <2>1. 1 \in 1..(Len(d) + 1)
    OBVIOUS
  <2>2. QED
    BY <1>1, <2>1, EntriesListed
<1>3. Construct(list) = Ok(image0)
  <2>1. ValueOf(EntriesFrom(d)[1]) = list
    BY <1>2 DEF ValueOf, Ok
  <2>2. QED
    BY <1>1, <2>1 DEF Decode, Ok, Fail
<1>4. image0 = [n \in 1..Len(list) |-> [list[n] EXCEPT !.id = n - 1]] /\ ValidImage(image0)
  <2>1. Succeeds(Construct(list)) /\ Construct(list).value = {image0}
    BY <1>3 DEF Succeeds, Ok
  <2>2. QED
    BY <2>1, Constructed
<1>5. Len(list) \in Nat
  BY <1>2
<1>6. Len(image0) = Len(list) /\ DOMAIN image0 = 1..Len(list)
  BY <1>4, <1>5
<1>7. ASSUME NEW i \in 1..Len(list)
      PROVE  /\ image0[i].id = i - 1
             /\ image0[i].size \in Nat
             /\ AtMostOne(image0[i].content)
  <2>1. PICK e \in EntriesOf(d) : e = list[i]
    BY <1>2
  <2>2. DOMAIN e = AllFields /\ e.size \in Nat /\ AtMostOne(e.content)
    BY ReadEntry
  <2>3. image0[i] = [e EXCEPT !.id = i - 1]
    BY <1>4, <2>1
  <2>4. image0[i].id = i - 1 /\ image0[i].size = e.size /\ image0[i].content = e.content
    BY <2>2, <2>3 DEF AllFields
  <2>5. QED
    BY <2>2, <2>4
<1>8. QED
  BY <1>4, <1>5, <1>6, <1>7

\* What from_ids returns for such an image.
LEMMA SelectsFrom ==
  ASSUME NEW d \in Seq(Block), NEW image0, Decode(d) = Ok(image0),
         NEW ids \in Seq(Nat), NEW s \in FromIds(image0, ids).value
  PROVE  /\ s.imageSize \in Nat
         /\ \A id \in s.selected : id \in Nat /\ id < s.imageSize
         /\ \A id \in s.selected : \E j \in DOMAIN s.entries : s.entries[j].id = id
         /\ Len(s.entries) \in Nat /\ DOMAIN s.entries = 1..Len(s.entries)
         /\ \A j \in DOMAIN s.entries : s.entries[j].id \in s.selected
         /\ \A i, j \in DOMAIN s.entries : i < j => s.entries[i].id < s.entries[j].id
         /\ ValidFor(s, image0)
<1> DEFINE chosen == UNION {EntryAt(image0, ids[i]) : i \in DOMAIN ids}
           set == {SelectedEntry(e) : e \in chosen}
<1>1. PICK n \in Nat : n = Len(image0)
  BY ImageMeant
<1>2. \A i \in 1..n : /\ image0[i].id = i - 1
                      /\ AtMostOne(image0[i].content)
                      /\ ValidEntry(image0[i])
  BY <1>1, ImageMeant DEF ValidImage
<1>3. /\ \A e \in chosen : e.type = "regular"
      /\ s.imageIdentity = Identify(image0) /\ s.imageSize = n
      /\ s.selected = {e.id : e \in chosen}
      /\ s.entries = SortedById(set)
  BY <1>1 DEF FromIds, Ok, Fail
<1>4. ASSUME NEW e \in chosen
      PROVE  /\ e.id \in Nat /\ e.id < n
             /\ EntryAt(image0, e.id) = {e}
             /\ e.content = {SelectedEntry(e).content}
  <2>1. PICK k \in Nat : k < n /\ e = image0[k + 1]
    BY <1>1 DEF EntryAt
  <2>2. k + 1 \in 1..n /\ (k + 1) - 1 = k
    BY <1>1, <2>1
  <2>3. e.id = k /\ AtMostOne(e.content) /\ ValidEntry(e)
    BY <1>2, <2>1, <2>2
  <2>4. EntryAt(image0, e.id) = {e}
    BY <1>1, <2>1, <2>3 DEF EntryAt
  <2>5. e.content # {}
    BY <1>3, <2>3 DEF ValidEntry
  <2>6. e.content = {SelectedEntry(e).content}
    BY <2>3, <2>5 DEF SelectedEntry, AtMostOne
  <2>7. QED
    BY <2>1, <2>3, <2>4, <2>6
<1>5. \A e \in chosen : SelectedEntry(e).id = e.id /\ SelectedEntry(e).path = e.path
  BY DEF SelectedEntry
<1>6. Distinct(set, n)
  <2>1. \A e \in set : e.id \in Nat /\ e.id < n
    BY <1>4, <1>5
  <2>2. ASSUME NEW e \in chosen, NEW f \in chosen, e.id = f.id
        PROVE  e = f
    BY <1>4, <2>2
  <2>3. ASSUME NEW a \in set, NEW b \in set, a.id = b.id
        PROVE  a = b
    <3>1. PICK e \in chosen : a = SelectedEntry(e)
      OBVIOUS
    <3>2. PICK f \in chosen : b = SelectedEntry(f)
      OBVIOUS
    <3> HIDE DEF chosen
    <3>3. e.id = f.id
      BY <1>5, <2>3, <3>1, <3>2
    <3>4. QED
      BY <2>2, <3>1, <3>2, <3>3
  <2> HIDE DEF set
  <2>4. QED
    BY <2>1, <2>3 DEF Distinct
<1>7. /\ Cardinality(set) \in Nat
      /\ Ascending(SortedById(set), set)
      /\ \A e \in set : \E i \in 1..Cardinality(set) : SortedById(set)[i] = e
  BY <1>1, <1>6, Sorted
<1> HIDE DEF chosen
<1>8. PICK k \in Nat : /\ s.entries \in [1..k -> set]
                       /\ \A i, j \in 1..k : i < j => s.entries[i].id < s.entries[j].id
                       /\ \A e \in set : \E i \in 1..k : s.entries[i] = e
  BY <1>3, <1>7 DEF Ascending
<1>9. Len(s.entries) = k /\ DOMAIN s.entries = 1..k
  BY <1>8
<1>10. ASSUME NEW j \in 1..k
       PROVE  /\ s.entries[j].id \in s.selected
              /\ \E e \in EntryAt(image0, s.entries[j].id) :
                   /\ e.type = "regular"
                   /\ e.path = s.entries[j].path
                   /\ e.content = {s.entries[j].content}
  <2>1. PICK e \in chosen : s.entries[j] = SelectedEntry(e)
    BY <1>8
  <2>2. s.entries[j].id = e.id /\ s.entries[j].path = e.path
    BY <1>5, <2>1
  <2>3. e.id \in s.selected /\ e.type = "regular"
    BY <1>3
  <2>4. e \in EntryAt(image0, s.entries[j].id)
    BY <1>4, <2>2
  <2>5. e.content = {s.entries[j].content}
    BY <1>4, <2>1
  <2>6. QED
    BY <2>2, <2>3, <2>4, <2>5
<1>11. \A id \in s.selected : /\ id \in Nat /\ id < n
                              /\ \E j \in 1..k : s.entries[j].id = id
  <2>1. ASSUME NEW id \in s.selected
        PROVE  /\ id \in Nat /\ id < n
               /\ \E j \in 1..k : s.entries[j].id = id
    <3>1. PICK e \in chosen : id = e.id
      BY <1>3
    <3>2. SelectedEntry(e) \in set /\ SelectedEntry(e).id = id
      BY <1>5, <3>1
    <3>3. QED
      BY <1>4, <1>8, <3>1, <3>2
  <2>2. QED
    BY <2>1
<1>12. ValidFor(s, image0)
  BY <1>1, <1>3, <1>9, <1>10 DEF ValidFor
<1>13. QED
  BY <1>3, <1>8, <1>9, <1>10, <1>11, <1>12

-----------------------------------------------------------------------------
(***************************************************************************)
(* What the theorems about replay assume, for what open seals.             *)
(***************************************************************************)

\* The packages that open can seal while no change of the file is undone: the
\* digest is that of a file of the size in the stamp, and the image its meaning.
Meanings == UNION {Decode(blocks).value : blocks \in Seq(Block)}

Sealable ==
  {p \in [stamp : [size : Nat, mtime : MTimes], digest : Seq(Block), image : Meanings] :
     /\ Decode(p.digest) = Ok(p.image)
     /\ Len(p.digest) = p.stamp.size
     /\ Len(p.digest) <= MaxLength}

\* The selections that can be made from them.
Makeable == UNION {FromIds(p.image, ids).value : p \in Sealable, ids \in Seq(Nat)}

Replaying == INSTANCE ReplayVerdictProofs WITH
  package <- SealedPackage, Packages <- Sealable, Selections <- Makeable,
  pc <- callPc, phase <- callPhase, hash <- callHash, reader <- callReader,
  contents <- callContents, error <- callError, faults <- callFaults

\* A package that can be sealed is as PackagesAssumption says.
LEMMA SealablePackages ==
  \A p \in Sealable :
    /\ p.stamp \in [size : Nat, mtime : MTimes]
    /\ p.digest \in Seq(Block)
    /\ Len(p.image) \in Nat
    /\ \A i \in 1..Len(p.image) : p.image[i].id = i - 1
<1> SUFFICES ASSUME NEW p \in Sealable
             PROVE  /\ p.stamp \in [size : Nat, mtime : MTimes]
                    /\ p.digest \in Seq(Block)
                    /\ Len(p.image) \in Nat
                    /\ \A i \in 1..Len(p.image) : p.image[i].id = i - 1
  OBVIOUS
<1>1. /\ p.stamp \in [size : Nat, mtime : MTimes]
      /\ p.digest \in Seq(Block)
      /\ Decode(p.digest) = Ok(p.image)
  BY DEF Sealable
<1>2. QED
  BY <1>1, ImageMeant

\* And as SealedAssumption says.
LEMMA SealableSealed ==
  \A p \in Sealable :
    /\ Len(p.digest) = p.stamp.size
    /\ Len(p.digest) <= MaxLength
    /\ \A i \in 1..Len(p.image) : /\ p.image[i].size \in Nat
                                  /\ \A d, e \in p.image[i].content : d = e
<1> SUFFICES ASSUME NEW p \in Sealable
             PROVE  /\ Len(p.digest) = p.stamp.size
                    /\ Len(p.digest) <= MaxLength
                    /\ \A i \in 1..Len(p.image) :
                         /\ p.image[i].size \in Nat
                         /\ \A d, e \in p.image[i].content : d = e
  OBVIOUS
<1>1. /\ p.digest \in Seq(Block) /\ Decode(p.digest) = Ok(p.image)
      /\ Len(p.digest) = p.stamp.size /\ Len(p.digest) <= MaxLength
  BY DEF Sealable
<1>2. QED
  BY <1>1, ImageMeant DEF AtMostOne

\* A selection that can be made was made from some image.
LEMMA MadeFrom ==
  ASSUME NEW s \in Makeable
  PROVE  \E d \in Seq(Block) : \E image0 : \E ids \in Seq(Nat) :
           Decode(d) = Ok(image0) /\ s \in FromIds(image0, ids).value
BY DEF Makeable, Sealable

\* It is as SelectionsAssumption says.
LEMMA MakeableSelections ==
  \A s \in Makeable : /\ s.imageSize \in Nat
                      /\ \A id \in s.selected : id \in Nat /\ id < s.imageSize
BY MadeFrom, SelectsFrom

\* And as SelectedAssumption says.
LEMMA MakeableSelected ==
  \A s \in Makeable :
    /\ \A id \in s.selected : \E j \in DOMAIN s.entries : s.entries[j].id = id
    /\ Len(s.entries) \in Nat /\ DOMAIN s.entries = 1..Len(s.entries)
    /\ \A j \in DOMAIN s.entries : s.entries[j].id \in s.selected
    /\ \A i, j \in DOMAIN s.entries : i < j => s.entries[i].id < s.entries[j].id
BY MadeFrom, SelectsFrom

\* So what is proved of a replay step holds here.
LEMMA ReplayInvariance ==
  ASSUME Replaying!IInv, [Replaying!Next]_(Replaying!vars)
  PROVE  Replaying!IInv'
BY Replaying!NextKeeps, SealablePackages, SealableSealed, MakeableSelections,
   MakeableSelected, FaultsAssumption, ReaderAssumption, BoundsAssumption,
   ChunkAssumption, SizesAssumption

-----------------------------------------------------------------------------
(***************************************************************************)
(* The steps of the calls are those the theorems about replay speak of:    *)
(* they do not depend on which packages and selections there are.          *)
(***************************************************************************)

\* The components among the pieces of a path text do not.
LEMMA SameKeptPieces ==
  \A text : /\ Replaying!KeptPieces(text) = KeptPieces(text)
            /\ Calls!KeptPieces(text) = KeptPieces(text)
BY DEF KeptPieces, Replaying!KeptPieces, Calls!KeptPieces, Skipped, Replaying!Skipped,
   Calls!Skipped

\* The operators that normalize a header, and make an image of entries, do not.
LEMMA SameParsePath ==
  \A text : /\ Replaying!ParsePath(text) = ParsePath(text)
            /\ Calls!ParsePath(text) = ParsePath(text)
BY SameKeptPieces DEF ParsePath, Replaying!ParsePath, Calls!ParsePath, Ok, Replaying!Ok, Calls!Ok,
   Fail, Replaying!Fail, Calls!Fail

\* The type of a header.
LEMMA SameNormalizedType ==
  \A raw : /\ Replaying!NormalizedType(raw) = NormalizedType(raw)
           /\ Calls!NormalizedType(raw) = NormalizedType(raw)
BY DEF NormalizedType, Replaying!NormalizedType, Calls!NormalizedType,
   EntryType, Replaying!EntryType, Calls!EntryType

\* Outcomes: what succeeded with which value, or failed.
LEMMA SameOutcomes ==
  \A r : /\ Replaying!Succeeds(r) = Succeeds(r) /\ Calls!Succeeds(r) = Succeeds(r)
         /\ Replaying!ValueOf(r) = ValueOf(r) /\ Calls!ValueOf(r) = ValueOf(r)
         /\ Replaying!Ok(r) = Ok(r) /\ Calls!Ok(r) = Ok(r)
         /\ Replaying!Fail(r) = Fail(r) /\ Calls!Fail(r) = Fail(r)
BY DEF Succeeds, Replaying!Succeeds, Calls!Succeeds, ValueOf, Replaying!ValueOf,
   Calls!ValueOf, Ok, Replaying!Ok, Calls!Ok, Fail, Replaying!Fail, Calls!Fail

\* The constants of the headers.
LEMMA SameLimits ==
  /\ Replaying!DeviceType = DeviceType /\ Calls!DeviceType = DeviceType
  /\ Replaying!MaxNanoseconds = MaxNanoseconds /\ Calls!MaxNanoseconds = MaxNanoseconds
BY DEF DeviceType, Replaying!DeviceType, Calls!DeviceType, MaxNanoseconds,
   Replaying!MaxNanoseconds, Calls!MaxNanoseconds

\* The exception that normalize_entry throws.
LEMMA SameNormalizeError ==
  \A raw : /\ Replaying!NormalizeError(raw) = NormalizeError(raw)
           /\ Calls!NormalizeError(raw) = NormalizeError(raw)
<1> SUFFICES ASSUME NEW raw
             PROVE  /\ Replaying!NormalizeError(raw) = NormalizeError(raw)
                    /\ Calls!NormalizeError(raw) = NormalizeError(raw)
  OBVIOUS
<1>1. \A text : /\ Replaying!Succeeds(Replaying!ParsePath(text)) = Succeeds(ParsePath(text))
                /\ Calls!Succeeds(Calls!ParsePath(text)) = Succeeds(ParsePath(text))
  BY SameParsePath, SameOutcomes
<1>2. Replaying!NormalizeError(raw) = NormalizeError(raw)
  BY <1>1, SameNormalizedType, SameLimits, SMTT(30) DEF NormalizeError, Replaying!NormalizeError
<1>3. Calls!NormalizeError(raw) = NormalizeError(raw)
  BY <1>1, SameNormalizedType, SameLimits, SMTT(30) DEF NormalizeError, Calls!NormalizeError
<1>4. QED
  BY <1>2, <1>3

\* The entry that normalize_entry makes, its optional fields included.
LEMMA SameNormalizedEntry ==
  \A raw : /\ Replaying!NormalizedEntry(raw) = NormalizedEntry(raw)
           /\ Calls!NormalizedEntry(raw) = NormalizedEntry(raw)
<1> SUFFICES ASSUME NEW raw
             PROVE  /\ Replaying!NormalizedEntry(raw) = NormalizedEntry(raw)
                    /\ Calls!NormalizedEntry(raw) = NormalizedEntry(raw)
  OBVIOUS
<1> DEFINE Made(type, path, links, devices) ==
             [id         |-> 0,
              path       |-> path,
              type       |-> type,
              attributes |-> raw.attributes,
              uid        |-> raw.uid,
              gid        |-> raw.gid,
              size       |-> IF type = "regular" THEN raw.size ELSE 0,
              nsec       |-> raw.nsec,
              symlink    |-> IF type = "symlink" THEN raw.symlink ELSE {},
              hardlink   |-> links,
              device     |-> IF type \in devices THEN {raw.rdev} ELSE {},
              content    |-> {}]
<1>1. \A text : /\ Replaying!ValueOf(Replaying!ParsePath(text)) = ValueOf(ParsePath(text))
                /\ Calls!ValueOf(Calls!ParsePath(text)) = ValueOf(ParsePath(text))
  BY SameParsePath, SameOutcomes
<1>2. /\ {Replaying!ValueOf(Replaying!ParsePath(text)) : text \in raw.hardlink}
           = {ValueOf(ParsePath(text)) : text \in raw.hardlink}
      /\ {Calls!ValueOf(Calls!ParsePath(text)) : text \in raw.hardlink}
           = {ValueOf(ParsePath(text)) : text \in raw.hardlink}
  BY <1>1
<1>3. NormalizedEntry(raw) =
        Made(CHOOSE t \in NormalizedType(raw) : TRUE,
             ValueOf(ParsePath(CHOOSE text \in raw.path : TRUE)),
             {ValueOf(ParsePath(text)) : text \in raw.hardlink},
             DeviceType)
  BY DEF NormalizedEntry
<1>4. Replaying!NormalizedEntry(raw) =
        Made(CHOOSE t \in Replaying!NormalizedType(raw) : TRUE,
             Replaying!ValueOf(Replaying!ParsePath(CHOOSE text \in raw.path : TRUE)),
             {Replaying!ValueOf(Replaying!ParsePath(text)) : text \in raw.hardlink},
             Replaying!DeviceType)
  BY DEF Replaying!NormalizedEntry
<1>5. Calls!NormalizedEntry(raw) =
        Made(CHOOSE t \in Calls!NormalizedType(raw) : TRUE,
             Calls!ValueOf(Calls!ParsePath(CHOOSE text \in raw.path : TRUE)),
             {Calls!ValueOf(Calls!ParsePath(text)) : text \in raw.hardlink},
             Calls!DeviceType)
  BY DEF Calls!NormalizedEntry
<1> HIDE DEF Made
<1>6. Replaying!NormalizedEntry(raw) = NormalizedEntry(raw)
  BY <1>1, <1>2, <1>3, <1>4, SameNormalizedType, SameLimits
<1>7. Calls!NormalizedEntry(raw) = NormalizedEntry(raw)
  BY <1>1, <1>2, <1>3, <1>5, SameNormalizedType, SameLimits
<1>8. QED
  BY <1>6, <1>7

\* Both together: normalize_entry.
LEMMA SameNormalizeEntry ==
  \A raw : /\ Replaying!NormalizeEntry(raw) = NormalizeEntry(raw)
           /\ Calls!NormalizeEntry(raw) = NormalizeEntry(raw)
BY SameNormalizeError, SameNormalizedEntry, SameOutcomes
   DEF NormalizeEntry, Replaying!NormalizeEntry, Calls!NormalizeEntry

\* The image that construct makes of a list of entries.
LEMMA SameConstruct ==
  \A list : Replaying!Construct(list) = Construct(list)
BY DEF Ok, Replaying!Ok, Fail, Replaying!Fail, DeviceType, Replaying!DeviceType,
   MaxNanoseconds, Replaying!MaxNanoseconds, ValidLinkText, Replaying!ValidLinkText,
   ValidEntry, Replaying!ValidEntry, ValidImage, Replaying!ValidImage, Construct,
   Replaying!Construct

\* Nor do those that read an archive as a whole.
LEMMA SamePayloadAt ==
  \A blocks, i : Replaying!PayloadAt(blocks, i) = PayloadAt(blocks, i)
BY DEF Least, Replaying!Least, PayloadAt, Replaying!PayloadAt

\* Nor does what is wrong with a payload.
LEMMA SamePayloadFault ==
  \A blocks, i, e : Replaying!PayloadFault(blocks, i, e) = PayloadFault(blocks, i, e)
BY DEF Least, Replaying!Least, PayloadAt, Replaying!PayloadAt, PayloadFault,
   Replaying!PayloadFault

\* Nor does the entry that a header and its payload make.
LEMMA SameEntryOf ==
  \A blocks, i : Replaying!EntryOf(blocks, i) = EntryOf(blocks, i)
BY SameOutcomes, SameNormalizeEntry, SamePayloadAt, SamePayloadFault, SMTT(30)
   DEF EntryOf, EntryOfHeader, Replaying!EntryOf, Replaying!EntryOfHeader

\* Nor do the entries from some header on, by descent from the end of the
\* archive: the last position of a difference has none after it.
LEMMA SameEntriesFrom ==
  ASSUME NEW blocks \in Seq(Block), NEW i \in 1..(Len(blocks) + 1)
  PROVE  Replaying!EntriesFrom(blocks)[i] = EntriesFrom(blocks)[i]
<1> DEFINE here == EntriesFrom(blocks)
           there == Replaying!EntriesFrom(blocks)
           T == {k \in Nat : \E j \in 1..(Len(blocks) + 1) :
                    j = Len(blocks) + 1 - k /\ there[j] # here[j]}
<1>1. SUFFICES ASSUME there[i] # here[i]
               PROVE  FALSE
  OBVIOUS
<1>2. T \in SUBSET Nat /\ T # {}
  <2>1. Len(blocks) + 1 - i \in Nat /\ i = Len(blocks) + 1 - (Len(blocks) + 1 - i)
    OBVIOUS
  <2>2. Len(blocks) + 1 - i \in T
    BY <1>1, <2>1
  <2>3. QED
    BY <2>2
<1>3. PICK k \in T : \A m \in T : k <= m
  BY <1>2, LeastNatural
<1>4. PICK j \in 1..(Len(blocks) + 1) : j = Len(blocks) + 1 - k /\ there[j] # here[j]
  BY <1>3
<1>5. here[j] = FromHere(blocks, here, j)
  BY EntriesEquation
<1>6. there[j] = Replaying!FromHere(blocks, there, j)
  BY Replaying!EntriesEquation, SealablePackages, SealableSealed,
     MakeableSelections, MakeableSelected, FaultsAssumption, ReaderAssumption,
     BoundsAssumption, ChunkAssumption, SizesAssumption
<1> HIDE DEF here, there
<1>7. Replaying!EntryOf(blocks, j) = EntryOf(blocks, j)
  BY SameEntryOf
<1>8. /\ j \in 1..Len(blocks) /\ blocks[j] \in DOMAIN RawHeader
      /\ Succeeds(EntryOf(blocks, j))
      /\ there[j + 1 + RawHeader[blocks[j]].stored] # here[j + 1 + RawHeader[blocks[j]].stored]
  <2> DEFINE rest == j + 1 + RawHeader[blocks[j]].stored
             stops == j > Len(blocks) \/ blocks[j] = EndMark \/ blocks[j] \notin DOMAIN RawHeader
  <2>1. ~stops
    <3>1. SUFFICES ASSUME stops PROVE there[j] = here[j]
      BY <1>4
    <3>2. QED
      BY <1>5, <1>6, <3>1, SameOutcomes DEF FromHere, Replaying!FromHere
  <2>2. here[j] = IF ~Succeeds(EntryOf(blocks, j)) THEN EntryOf(blocks, j)
                  ELSE IF ~Succeeds(here[rest]) THEN here[rest]
                  ELSE Ok(<<ValueOf(EntryOf(blocks, j))>> \o ValueOf(here[rest]))
    BY <1>5, <2>1 DEF FromHere
  <2>3. there[j] = IF ~Replaying!Succeeds(EntryOf(blocks, j)) THEN EntryOf(blocks, j)
                   ELSE IF ~Replaying!Succeeds(there[rest]) THEN there[rest]
                   ELSE Replaying!Ok(<<Replaying!ValueOf(EntryOf(blocks, j))>>
                                       \o Replaying!ValueOf(there[rest]))
    BY <1>6, <1>7, <2>1 DEF Replaying!FromHere
  <2> HIDE DEF rest
  <2>4. there[j] = IF ~Succeeds(EntryOf(blocks, j)) THEN EntryOf(blocks, j)
                   ELSE IF ~Succeeds(there[rest]) THEN there[rest]
                   ELSE Ok(<<ValueOf(EntryOf(blocks, j))>> \o ValueOf(there[rest]))
    BY <2>3, SameOutcomes, Zenon
  <2>5. Succeeds(EntryOf(blocks, j)) /\ there[rest] # here[rest]
    BY <1>4, <2>2, <2>4, Zenon
  <2>6. QED
    BY <1>4, <2>1, <2>5 DEF rest
<1>9. PICK next \in 1..(Len(blocks) + 1) :
         next = j + 1 + RawHeader[blocks[j]].stored /\ next > j
  BY <1>8, PayloadWithin
<1>10. Len(blocks) + 1 - next \in Nat /\ Len(blocks) + 1 - next < k
  BY <1>3, <1>4, <1>9
<1>11. Len(blocks) + 1 - next \in T
  <2>1. next = Len(blocks) + 1 - (Len(blocks) + 1 - next)
    OBVIOUS
  <2>2. QED
    BY <1>8, <1>9, <1>10, <2>1
<1>12. k <= Len(blocks) + 1 - next
  BY <1>3, <1>11
<1>13. k \in Nat
  BY <1>3
<1> HIDE DEF T
<1>14. QED
  BY <1>10, <1>12, <1>13

\* Nor does the image that the bytes mean.
LEMMA SameDecode ==
  ASSUME NEW blocks \in Seq(Block)
  PROVE  Replaying!Decode(blocks) = Decode(blocks)
<1>1. Replaying!EntriesFrom(blocks)[1] = EntriesFrom(blocks)[1]
  <2>1. 1 \in 1..(Len(blocks) + 1)
    OBVIOUS
  <2>2. QED
    BY <2>1, SameEntriesFrom
<1>2. QED
  BY <1>1, SameOutcomes, SameConstruct DEF Decode, Replaying!Decode

\* A package that can be sealed has the image its bytes mean.
LEMMA SealableMeans == Replaying!Meant
BY SameOutcomes, SameDecode DEF Sealable, Replaying!Meant

\* Whether a selection is valid depends on neither.
LEMMA SameValidFor ==
  \A s, image0 : Replaying!ValidFor(s, image0) = ValidFor(s, image0)
BY DEF EntryAt, Replaying!EntryAt, IdentityRecord, Replaying!IdentityRecord,
   Identify, Replaying!Identify, ValidFor, Replaying!ValidFor

\* Nor does what a call finds wrong with a header, or reads.
LEMMA SameHeaderError ==
  ASSUME NEW c
  PROVE  Replaying!HeaderError(c) = Calls!HeaderError(c)
<1>1. /\ Calls!CurrentHeader(callReader[c]) = Replaying!CurrentHeader(callReader[c])
      /\ Calls!Expected(c) = Replaying!Expected(c)
      /\ Calls!ExpectedEntry(c) = Replaying!ExpectedEntry(c)
  BY DEF Calls!CurrentHeader, Replaying!CurrentHeader, Calls!Expected, Replaying!Expected,
     Calls!ExpectedEntry, Replaying!ExpectedEntry, Calls!EntryAt, Replaying!EntryAt
<1>2. \A d, e : Calls!SameEntryHeader(d, e) = Replaying!SameEntryHeader(d, e)
  BY DEF Calls!SameEntryHeader, Replaying!SameEntryHeader, Calls!HeaderFields,
     Replaying!HeaderFields
<1>3. PICK actual : /\ actual = Calls!NormalizeEntry(Calls!CurrentHeader(callReader[c]))
                    /\ actual = Replaying!NormalizeEntry(Replaying!CurrentHeader(callReader[c]))
  BY <1>1, SameNormalizeEntry
<1>4. /\ Calls!Succeeds(actual) = Replaying!Succeeds(actual)
      /\ Calls!ValueOf(actual) = Replaying!ValueOf(actual)
  BY SameOutcomes
<1>5. Calls!SameEntryHeader([Calls!ValueOf(actual) EXCEPT !.id = index[c]],
                            Calls!ExpectedEntry(c))
        = Replaying!SameEntryHeader([Replaying!ValueOf(actual) EXCEPT !.id = index[c]],
                                    Replaying!ExpectedEntry(c))
  BY <1>1, <1>2, <1>4
<1>6. QED
  BY <1>1, <1>3, <1>4, <1>5 DEF Calls!HeaderError, Replaying!HeaderError

\* What a read delivers is the same.
LEMMA SameReads ==
  \A r, n : /\ Calls!ReadSource(r, n) = Replaying!ReadSource(r, n)
            /\ Calls!Refill(r, n) = Replaying!Refill(r, n)
BY DEF Calls!ReadSource, Replaying!ReadSource, Calls!Refill, Replaying!Refill,
   Calls!Pread, Replaying!Pread, Calls!Least, Replaying!Least

\* A call starts in the same way, and everything else does what it does.
LEMMA SameSteps ==
  ASSUME NEW c
  PROVE  /\ Calls!InitCalls => Replaying!InitCalls
         /\ \A s : Calls!Replay(c, s) => Replaying!Replay(c, s)
         /\ Calls!Step(c) => Replaying!Step(c)
         /\ Calls!Fault(c) => Replaying!Fault(c)
         /\ Calls!EditSource => Replaying!EditSource
<1> USE DEF Calls!sourceVars, Replaying!sourceVars, Calls!Goto,
           Replaying!Goto, Calls!Throw, Replaying!Throw,
           Calls!ExpectedEntry, Replaying!ExpectedEntry, Calls!Chosen,
           Replaying!Chosen, Calls!Buffered, Replaying!Buffered,
           Calls!Drained, Replaying!Drained, Calls!Least, Replaying!Least,
           Calls!Pread, Replaying!Pread
<1>1. Calls!InitCalls => Replaying!InitCalls
  BY DEF Calls!NewReader, Replaying!NewReader, Calls!NewSink,
         Replaying!NewSink, Calls!NewHash, Replaying!NewHash,
         Calls!InitCalls, Replaying!InitCalls
<1>2. \A s : Calls!Replay(c, s) => Replaying!Replay(c, s)
  BY DEF Calls!EntryAt, Replaying!EntryAt, Calls!IdentityRecord,
         Replaying!IdentityRecord, Calls!Identify, Replaying!Identify,
         Calls!ValidFor, Replaying!ValidFor, Calls!Replay, Replaying!Replay
<1>3. Calls!VerifyStamp(c) => Replaying!VerifyStamp(c)
  BY DEF Calls!Stamp, Replaying!Stamp, Calls!NewHash, Replaying!NewHash,
         Calls!FreshHash, Replaying!FreshHash, Calls!VerifyStamp,
         Replaying!VerifyStamp
<1>4. Calls!HashChunk(c) => Replaying!HashChunk(c)
  BY DEF Calls!HashPread, Replaying!HashPread, Calls!HashChunk,
         Replaying!HashChunk
<1>5. Calls!HashTruncated(c) => Replaying!HashTruncated(c)
  BY DEF Calls!HashPread, Replaying!HashPread, Calls!HashTruncated,
         Replaying!HashTruncated
<1>6. Calls!HashDone(c) => Replaying!HashDone(c)
  BY DEF Calls!HashDone, Replaying!HashDone
<1>7. Calls!VerifySealed(c) => Replaying!VerifySealed(c)
  BY DEF Calls!Stamp, Replaying!Stamp, Calls!SealHolds, Replaying!SealHolds,
         Calls!VerifySealed, Replaying!VerifySealed
<1>8. Calls!FillBuffer(c) => Replaying!FillBuffer(c)
  BY SameReads DEF Calls!Starving, Replaying!Starving, Calls!Advance,
         Replaying!Advance, Calls!FillBuffer, Replaying!FillBuffer
<1>9. Calls!SourceTruncated(c) => Replaying!SourceTruncated(c)
  BY DEF Calls!ReadSource, Replaying!ReadSource, Calls!Starving,
         Replaying!Starving, Calls!SourceTruncated,
         Replaying!SourceTruncated
<1>10. Calls!NextHeader(c) => Replaying!NextHeader(c)
  BY SameHeaderError DEF Calls!HeaderReady, Replaying!HeaderReady,
         Calls!HeaderStatus, Replaying!HeaderStatus, Calls!Contains,
         Replaying!Contains, Calls!TakeHeader, Replaying!TakeHeader,
         Calls!CurrentHeader, Replaying!CurrentHeader, Calls!NextHeader,
         Replaying!NextHeader
<1>11. Calls!EndOfArchive(c) => Replaying!EndOfArchive(c)
  BY DEF Calls!SelectionSize, Replaying!SelectionSize, Calls!HeaderStatus,
         Replaying!HeaderStatus, Calls!HeaderReady, Replaying!HeaderReady,
         Calls!CountsAgree, Replaying!CountsAgree, Calls!EndError,
         Replaying!EndError, Calls!EndOfArchive, Replaying!EndOfArchive
<1>12. Calls!Begin(c) => Replaying!Begin(c)
  BY DEF Calls!SinkBegin, Replaying!SinkBegin, Calls!Begin, Replaying!Begin
<1>13. Calls!WriteBlock(c) => Replaying!WriteBlock(c)
  BY DEF Calls!TakeBlock, Replaying!TakeBlock, Calls!SinkWrite,
         Replaying!SinkWrite, Calls!BlockReady, Replaying!BlockReady,
         Calls!Fits, Replaying!Fits, Calls!WriteBlock, Replaying!WriteBlock
<1>14. Calls!PayloadExceeds(c) => Replaying!PayloadExceeds(c)
  BY DEF Calls!BlockReady, Replaying!BlockReady, Calls!Fits, Replaying!Fits,
         Calls!PayloadExceeds, Replaying!PayloadExceeds
<1>15. Calls!EndEntry(c) => Replaying!EndEntry(c)
  BY DEF Calls!SinkEnd, Replaying!SinkEnd, Calls!PayloadError,
         Replaying!PayloadError, Calls!PayloadRead, Replaying!PayloadRead,
         Calls!EndEntry, Replaying!EndEntry
<1>16. Calls!PayloadRejected(c) => Replaying!PayloadRejected(c)
  BY DEF Calls!PayloadError, Replaying!PayloadError, Calls!PayloadRead,
         Replaying!PayloadRead, Calls!PayloadRejected,
         Replaying!PayloadRejected
<1>17. Calls!SinkThrows(c) => Replaying!SinkThrows(c)
  BY DEF Calls!BlockReady, Replaying!BlockReady, Calls!Fits, Replaying!Fits,
         Calls!PayloadError, Replaying!PayloadError, Calls!PayloadRead,
         Replaying!PayloadRead, Calls!SinkThrows, Replaying!SinkThrows
<1>18. Calls!SkipData(c) => Replaying!SkipData(c)
  BY DEF Calls!SkipBlocks, Replaying!SkipBlocks, Calls!SkipData,
         Replaying!SkipData
<1>19. Calls!EndSkip(c) => Replaying!EndSkip(c)
  BY DEF Calls!EndSkip, Replaying!EndSkip
<1>20. Calls!PayloadTruncated(c) => Replaying!PayloadTruncated(c)
  BY DEF Calls!Starving, Replaying!Starving, Calls!PayloadTruncated,
         Replaying!PayloadTruncated
<1>21. Calls!CloseReader(c) => Replaying!CloseReader(c)
  BY DEF Calls!CloseReader, Replaying!CloseReader
<1>22. Calls!Step(c) => Replaying!Step(c)
  BY <1>3, <1>4, <1>5, <1>6, <1>7, <1>8, <1>9, <1>10, <1>11, <1>12, <1>13,
     <1>14, <1>15, <1>16, <1>17, <1>18, <1>19, <1>20, <1>21
     DEF Calls!Step, Replaying!Step
<1>23. Calls!Fault(c) => Replaying!Fault(c)
  BY DEF Calls!Active, Replaying!Active, Calls!Fault, Replaying!Fault
<1>24. Calls!EditSource => Replaying!EditSource
  BY DEF Calls!Cell, Replaying!Cell, Calls!Install, Replaying!Install,
         Calls!Overwrite, Replaying!Overwrite, Calls!Truncate,
         Replaying!Truncate, Calls!Extend, Replaying!Extend, Calls!Touch,
         Replaying!Touch, Calls!Edit, Replaying!Edit, Calls!callVars,
         Replaying!callVars, Calls!EditSource, Replaying!EditSource
<1>25. QED
  BY <1>1, <1>2, <1>22, <1>23, <1>24


-----------------------------------------------------------------------------
(***************************************************************************)
(* The steps of an archive are steps of open, and once open has returned   *)
(* steps of replay.                                                        *)
(***************************************************************************)

\* Calls leave the file alone, and whoever edits it edits it for open as well.
LEMMA CallsSpareSource ==
  ASSUME NEW c, NEW s, Calls!Replay(c, s) \/ Calls!Step(c) \/ Calls!Fault(c)
  PROVE  UNCHANGED sourceVars
BY DEF Calls!sourceVars, sourceVars, Calls!Replay, Calls!Step, Calls!Fault,
   Calls!VerifyStamp, Calls!HashChunk, Calls!HashTruncated, Calls!HashDone,
   Calls!VerifySealed, Calls!FillBuffer, Calls!SourceTruncated, Calls!NextHeader,
   Calls!EndOfArchive, Calls!Begin, Calls!WriteBlock, Calls!PayloadExceeds,
   Calls!EndEntry, Calls!PayloadRejected, Calls!SinkThrows, Calls!SkipData,
   Calls!EndSkip, Calls!PayloadTruncated, Calls!CloseReader

\* Whoever edits the file between the steps of a call edits it for open.
LEMMA SameEdits == Calls!EditSource => Edit
BY DEF Calls!EditSource, Calls!Edit, Edit, Calls!Overwrite, Overwrite, Calls!Truncate,
   Truncate, Calls!Extend, Extend, Calls!Touch, Touch, Calls!Install, Install,
   Calls!Cell, Cell

\* For open, the calls of replay do nothing.
LEMMA StepsOfOpen == [ArchiveNext]_allVars => [Next]_vars
<1> SUFFICES ASSUME [ArchiveNext]_allVars
             PROVE  [Next]_vars
  OBVIOUS
<1>1. CASE OpenStep
  BY <1>1 DEF OpenStep, Next
<1>2. ASSUME NEW c \in Callers, CallReplay(c) \/ CallStep(c)
      PROVE  UNCHANGED vars
  BY <1>2, CallsSpareSource DEF CallReplay, CallStep, vars
<1>3. CASE EditAny
  BY <1>3, SameEdits DEF EditAny, EditSource, Next
<1>4. CASE AllDone \/ UNCHANGED allVars
  BY <1>4 DEF AllDone, allVars
<1>5. QED
  BY <1>1, <1>2, <1>3, <1>4 DEF ArchiveNext

\* So an archive is opened as open opens it.
THEOREM ArchiveOpens == ArchiveSpec => Spec
<1>1. ArchiveInit => Init
  BY DEF ArchiveInit
<1>2. QED
  BY <1>1, StepsOfOpen, PTL DEF ArchiveSpec, Spec

\* Nothing that open does can happen once it has returned.
LEMMA OpenIsOver ==
  ASSUME pc = "returned"
  PROVE  ~OpenStep
BY DEF OpenStep, Open, Fault, Step, Active, ReadStamp, HashChunk, HashTruncated,
   HashDone, FirstDigest, FillBuffer, Starving, InputEnds, NextHeader, HeaderReady,
   EndOfArchive, ReadBlock, BlockReady, SealEntry, PayloadRead, WrongSize, SkipData,
   EndSkip, ConstructImage, VerifyStamp, SealPackage

\* No call can take a step before it was made.
LEMMA CallsWait ==
  ASSUME Calls!InitCalls, NEW c \in Callers
  PROVE  ~Calls!Step(c) /\ ~Calls!Fault(c)
<1>1. callPc[c] = "idle"
  BY DEF Calls!InitCalls
<1>2. QED
  BY <1>1 DEF Calls!Step, Calls!Fault, Calls!Active, Calls!Starving, Calls!HeaderReady,
     Calls!BlockReady, Calls!PayloadRead, Calls!VerifyStamp, Calls!HashChunk,
     Calls!HashTruncated, Calls!HashDone, Calls!VerifySealed, Calls!FillBuffer,
     Calls!SourceTruncated, Calls!NextHeader, Calls!EndOfArchive, Calls!Begin,
     Calls!WriteBlock, Calls!PayloadExceeds, Calls!EndEntry, Calls!PayloadRejected,
     Calls!SinkThrows, Calls!SkipData, Calls!EndSkip, Calls!PayloadTruncated,
     Calls!CloseReader

\* No call is made before open has returned.
LEMMA NoCallYet ==
  ASSUME Calls!InitCalls, pc # "returned", [ArchiveNext]_allVars
  PROVE  Calls!InitCalls'
<1>1. CASE UNCHANGED replayVars
  BY <1>1 DEF replayVars, Calls!InitCalls
<1>2. CASE EditAny
  <2>1. quiet' = [c \in Callers |-> FALSE]
    BY <1>2 DEF EditAny, Calls!EditSource
  <2>2. QED
    BY <1>2, <2>1 DEF EditAny, Calls!EditSource, Calls!callVars, Calls!InitCalls
<1>3. QED
  BY <1>1, <1>2, CallsWait
     DEF ArchiveNext, OpenStep, CallReplay, CallStep, AllDone, allVars

\* Every selection a consumer makes of a sealed package can be made, and is
\* valid for its image.
LEMMA ConsumersSelect ==
  ASSUME SealedPackage \in Sealable, NEW s \in ConsumerSelections
  PROVE  s \in Makeable /\ ValidFor(s, SealedPackage.image)
<1>1. PICK d \in Seq(Block) : d = SealedPackage.digest /\ Decode(d) = Ok(SealedPackage.image)
  BY DEF Sealable
<1>2. PICK image0 : image0 = SealedPackage.image
  OBVIOUS
<1>3. PICK ids \in Seq(Nat) : s \in FromIds(image0, ids).value
  <2>1. CASE s \in AllRegular(image0).value
    <3> DEFINE set == {e \in {image0[i] : i \in DOMAIN image0} : e.type = "regular"}
               ids == [i \in DOMAIN SortedById(set) |-> SortedById(set)[i].id]
    <3>1. /\ Len(image0) \in Nat /\ DOMAIN image0 = 1..Len(image0)
          /\ \A i \in 1..Len(image0) : image0[i].id = i - 1
      BY <1>1, <1>2, ImageMeant
    <3>2. Distinct(set, Len(image0))
      BY <3>1 DEF Distinct
    <3>3. Cardinality(set) \in Nat /\ Ascending(SortedById(set), set)
      BY <3>1, <3>2, Sorted
    <3>4. ids \in Seq(Nat)
      <4>1. PICK k \in Nat : k = Cardinality(set)
        BY <3>3
      <4>2. /\ DOMAIN SortedById(set) = 1..k
            /\ \A i \in 1..k : SortedById(set)[i].id \in Nat
        BY <3>2, <3>3, <4>1 DEF Ascending, Distinct
      <4>3. ids \in [1..k -> Nat]
        BY <4>2
      <4> HIDE DEF ids
      <4>4. QED
        BY <4>3
    <3>5. s \in FromIds(image0, ids).value
      BY <2>1 DEF AllRegular
    <3>6. QED
      BY <3>4, <3>5
  <2>2. ASSUME NEW ids \in IdVectors(Len(image0)), s \in FromIds(image0, ids).value
        PROVE  \E any \in Seq(Nat) : s \in FromIds(image0, any).value
    <3>1. Len(image0) \in Nat
      BY <1>1, <1>2, ImageMeant
    <3>2. PICK n \in 0..Len(image0) : ids \in [1..n -> 0..Len(image0)]
      BY <2>2 DEF IdVectors
    <3>3. ids \in [1..n -> Nat] /\ n \in Nat
      BY <3>1, <3>2
    <3>4. ids \in Seq(Nat)
      BY <3>3
    <3>5. QED
      BY <2>2, <3>4
  <2>3. QED
    BY <1>2, <2>1, <2>2 DEF ConsumerSelections
<1>4. s \in Makeable
  BY <1>2, <1>3 DEF Makeable
<1>5. QED
  BY <1>1, <1>2, <1>3, <1>4, SelectsFrom

\* The bound on the ids a consumer asks for loses no selection: whatever ids of
\* whatever number from_ids accepts, they are distinct and within the image, so
\* that there are no more of them than entries.
LEMMA EverySelection ==
  ASSUME SealedPackage \in Sealable, NEW ids \in Seq(Nat),
         NEW s \in FromIds(SealedPackage.image, ids).value
  PROVE  s \in ConsumerSelections
<1>1. PICK image0 : image0 = SealedPackage.image
  OBVIOUS
<1>2. PICK size \in Nat : size = Len(image0)
  BY <1>1, ImageMeant DEF Sealable
<1>3. PICK n \in Nat : n = Len(ids) /\ ids \in [1..n -> Nat]
  OBVIOUS
<1>4. s \in FromIds(image0, ids).value
  BY <1>1
<1>5. /\ \A i \in 1..n : EntryAt(image0, ids[i]) # {}
      /\ \A i, j \in 1..n : ids[i] = ids[j] => i = j
  BY <1>3, <1>4 DEF FromIds, Fail
<1>6. \A i \in 1..n : ids[i] \in 0..(size - 1)
  BY <1>2, <1>3, <1>5 DEF EntryAt
<1>7. ids \in Injection(1..n, 0..(size - 1))
  <2>1. ids \in [1..n -> 0..(size - 1)]
    BY <1>3, <1>6
  <2>2. QED
    BY <1>5, <2>1, Fun_IsInj
<1>8. n <= size
  BY <1>2, <1>3, <1>7, DistinctIdsFit
<1>9. n \in 0..size /\ ids \in [1..n -> 0..size]
  BY <1>2, <1>3, <1>6, <1>8
<1>10. ids \in IdVectors(size)
  BY <1>9 DEF IdVectors
<1>11. QED
  BY <1>1, <1>2, <1>4, <1>10 DEF ConsumerSelections

\* After open has returned, every step is one of replay.
LEMMA StepsOfReplay ==
  ASSUME SealedPackage \in Sealable, pc = "returned", [ArchiveNext]_allVars
  PROVE  UNCHANGED openVars /\ [Replaying!Next]_(Replaying!vars)
<1>1. ~OpenStep
  BY OpenIsOver
<1>2. ASSUME NEW c \in Callers, CallReplay(c)
      PROVE  UNCHANGED openVars /\ Replaying!Next
  <2>1. PICK s \in ConsumerSelections : Calls!Replay(c, s)
    BY <1>2 DEF CallReplay
  <2>2. s \in Makeable /\ Replaying!Replay(c, s)
    BY <2>1, ConsumersSelect, SameSteps
  <2>3. QED
    BY <1>2, <2>2 DEF CallReplay, Replaying!Next
<1>3. ASSUME NEW c \in Callers, CallStep(c)
      PROVE  UNCHANGED openVars /\ Replaying!Next
  BY <1>3, SameSteps DEF CallStep, Replaying!Next
<1>4. CASE EditAny
  BY <1>4, SameSteps DEF EditAny, Replaying!Next
<1>5. CASE AllDone \/ UNCHANGED allVars
  <2>1. UNCHANGED <<openVars, sourceVars, replayVars>>
    BY <1>5 DEF AllDone, allVars, vars
  <2>2. UNCHANGED Replaying!vars
    BY <2>1 DEF openVars, sourceVars, replayVars, SealedPackage, Replaying!vars,
       Replaying!sourceVars, Replaying!callVars
  <2>3. QED
    BY <2>1, <2>2
<1>6. QED
  BY <1>1, <1>2, <1>3, <1>4, <1>5 DEF ArchiveNext

-----------------------------------------------------------------------------
(***************************************************************************)
(* The invariant: until open returns no call is made, and from then on the *)
(* package is sealed and every call is as the theorems about replay say,   *)
(* of a selection made from this package.                                  *)
(***************************************************************************)

\* What the call replays was selected from this package.
Offered(c) ==
  callPc[c] # "idle" => ValidFor(Calls!Chosen(c), SealedPackage.image)

Ready ==
  /\ SealedPackage \in Sealable
  /\ Replaying!IInv
  /\ \A c \in Callers : Replaying!Known(c) /\ Offered(c)
  /\ faults = 0 /\ Replaying!Calm => \A c \in Callers : Replaying!Undisturbed(c)

ArchiveInv ==
  /\ pc # "returned" => Calls!InitCalls
  /\ pc = "returned" /\ ~reverted => Ready

\* An outcome that succeeds has its value.
LEMMA DecodedIs ==
  ASSUME NEW d, Succeeds(Decode(d)), NEW i, Decode(d).value = {i}
  PROVE  Decode(d) = Ok(i)
<1>1. PICK list : Decode(d) = Construct(list) /\ Succeeds(Construct(list))
  BY DEF Decode, Succeeds, Fail
<1>2. PICK x : Construct(list) = Ok(x)
  BY <1>1 DEF Construct, Succeeds, Fail
<1>3. x = i
  BY <1>1, <1>2 DEF Ok
<1>4. QED
  BY <1>1, <1>2, <1>3

\* What open returns while no change was undone is a package whose image is
\* the meaning of its bytes.
LEMMA SealedIsSealable ==
  ASSUME IInv, Binding, pc = "returned", ~reverted
  PROVE  SealedPackage \in Sealable
<1>1. PICK r : receipt = {r} /\ digest = {r.archiveDigest}
  BY DEF IInv, ReceiptFits
<1>2. phase = "post" /\ Accepted
  BY DEF IInv, PhaseFits, Accepted
<1>3. PICK d : d = r.archiveDigest /\ Bound(d)
  BY <1>1, <1>2 DEF Binding
<1>4. PICK i : image = {i}
  BY <1>2 DEF IInv, ImageFits
<1>5. Decode(d) = Ok(i)
  <2>1. Certain(d)
    BY <1>3 DEF Bound, Doubtful
  <2>2. Decode(d).value = {i} /\ Succeeds(Decode(d))
    BY <1>2, <1>4, <2>1 DEF Certain, Decodes
  <2>3. QED
    BY <2>2, DecodedIs
<1>6. d \in Seq(Block) /\ Len(d) = before.size /\ Len(d) <= MaxLength
  BY <1>3 DEF Bound, DigestSeen
<1>7. before \in [size : Nat, mtime : MTimes]
  BY DEF IInv, TypeOK
<1>8. i \in Meanings
  <2>1. i \in Decode(d).value
    BY <1>5 DEF Ok
  <2>2. QED
    BY <1>6, <2>1 DEF Meanings
<1>9. SealedPackage = [stamp |-> before, digest |-> d, image |-> i]
  BY <1>1, <1>3, <1>4 DEF SealedPackage, TheOnly
<1>10. QED
  BY <1>5, <1>6, <1>7, <1>8, <1>9 DEF Sealable

\* Undisturbed, the file is still the one sealed.
LEMMA SealedIsFile ==
  ASSUME IInv, Undisturbed, pc = "returned", faults = 0
  PROVE  Replaying!Sealed
<1>1. SUFFICES ASSUME edits = 0
               PROVE  file = SealedPackage.digest /\ Stamp = SealedPackage.stamp
  BY DEF Replaying!Sealed, Replaying!Stamp, Stamp
<1>2. PICK r : receipt = {r} /\ digest = {r.archiveDigest}
  BY DEF IInv, ReceiptFits
<1>3. phase = "post" /\ Accepted
  BY DEF IInv, PhaseFits, Accepted
<1>4. digest = {file} /\ before = Stamp
  BY <1>1, <1>3 DEF Undisturbed, Calm
<1>5. SealedPackage.digest = r.archiveDigest /\ SealedPackage.stamp = before
  BY <1>2 DEF SealedPackage, TheOnly
<1>6. QED
  BY <1>2, <1>4, <1>5

\* So it is when open returns.
LEMMA ReadyAtFirst ==
  IInv /\ Binding /\ Calls!InitCalls /\ pc = "returned" /\ ~reverted => Ready
<1> SUFFICES ASSUME IInv, Binding, Calls!InitCalls, pc = "returned", ~reverted
             PROVE  Ready
  OBVIOUS
<1>1. SealedPackage \in Sealable
  BY SealedIsSealable
<1>2. Replaying!InitCalls
  BY SameSteps
<1>3. Replaying!SourceTypeOK
  BY DEF IInv, TypeOK, SourceTypeOK, Replaying!SourceTypeOK
<1>4. Replaying!IInv
  BY <1>1, <1>2, <1>3, Replaying!CallsEstablish, SealablePackages, SealableSealed,
     MakeableSelections, MakeableSelected, FaultsAssumption, ReaderAssumption,
     BoundsAssumption, ChunkAssumption, SizesAssumption
<1>5. ASSUME NEW c \in Callers
      PROVE  Replaying!Known(c) /\ Replaying!Undisturbed(c)
  BY <1>2, Replaying!IdleIsUndisturbed, SealablePackages, SealableSealed,
     MakeableSelections, MakeableSelected, FaultsAssumption, ReaderAssumption,
     BoundsAssumption, ChunkAssumption, SizesAssumption
<1>6. ASSUME NEW c \in Callers
      PROVE  Offered(c)
  BY DEF Calls!InitCalls, Offered
<1>7. QED
  BY <1>1, <1>4, <1>5, <1>6 DEF Ready

\* What a call replays was selected from this package.
LEMMA OfferedKept ==
  ASSUME Ready, pc = "returned", [ArchiveNext]_allVars, NEW d \in Callers
  PROVE  Offered(d)'
<1>1. Replaying!TypeOK /\ callPc \in [Callers -> Replaying!Location] /\ Offered(d)
  BY DEF Ready, Replaying!IInv, Replaying!TypeOK
<1>2. UNCHANGED openVars /\ SealedPackage' = SealedPackage
  <2>1. UNCHANGED openVars
    BY StepsOfReplay DEF Ready
  <2>2. QED
    BY <2>1 DEF openVars, SealedPackage
<1>3. ~OpenStep
  BY OpenIsOver
<1>4. ASSUME selection'[d] = selection[d], callPc[d] = "idle" => callPc'[d] = "idle"
      PROVE  Offered(d)'
  <2>1. Calls!Chosen(d)' = Calls!Chosen(d)
    BY <1>4 DEF Calls!Chosen
  <2>2. QED
    BY <1>1, <1>2, <1>4, <2>1 DEF Offered
<1>5. ASSUME NEW c \in Callers, CallReplay(c)
      PROVE  Offered(d)'
  <2>1. PICK s \in ConsumerSelections : Calls!Replay(c, s)
    BY <1>5 DEF CallReplay
  <2>2. /\ selection' = [selection EXCEPT ![c] = {s}]
        /\ \A e \in Callers \ {c} : callPc'[e] = callPc[e]
    BY <1>1, <2>1 DEF Calls!Replay, Calls!Goto, Calls!Throw
  <2>3. CASE d = c
    <3>1. Calls!Chosen(d)' = s
      BY <1>1, <2>2, <2>3 DEF Replaying!TypeOK, Calls!Chosen
    <3>2. ValidFor(s, SealedPackage.image)
      BY ConsumersSelect DEF Ready
    <3>3. QED
      BY <1>2, <3>1, <3>2 DEF Offered
  <2>4. CASE d # c
    BY <1>1, <1>4, <2>2, <2>4 DEF Replaying!TypeOK
  <2>5. QED
    BY <2>3, <2>4
<1>6. ASSUME NEW c \in Callers, CallStep(c)
      PROVE  Offered(d)'
  <2>1. Replaying!Step(c) \/ Replaying!Fault(c)
    BY <1>6, SameSteps DEF CallStep
  <2>2. /\ selection' = selection
        /\ \A e \in Callers \ {c} : Replaying!Untouched(e)
        /\ callPc[c] \in Replaying!Active
    BY <1>1, <2>1, Replaying!StepEffects, SealablePackages, SealableSealed,
       MakeableSelections, MakeableSelected, FaultsAssumption, ReaderAssumption,
       BoundsAssumption, ChunkAssumption, SizesAssumption
  <2>3. callPc[d] = "idle" => callPc'[d] = "idle"
    BY <2>2 DEF Replaying!Untouched, Replaying!Active
  <2>4. QED
    BY <1>4, <2>2, <2>3
<1>7. CASE EditAny \/ AllDone \/ UNCHANGED allVars
  BY <1>4, <1>7 DEF EditAny, Calls!EditSource, Calls!callVars, AllDone, allVars, replayVars
<1>8. QED
  BY <1>3, <1>5, <1>6, <1>7 DEF ArchiveNext

\* Every step keeps it, as long as no change is undone.
LEMMA ReadyKept ==
  ASSUME IInv, Undisturbed, Ready, pc = "returned", [ArchiveNext]_allVars
  PROVE  Ready'
<1>1. /\ UNCHANGED openVars /\ [Replaying!Next]_(Replaying!vars)
      /\ SealedPackage' = SealedPackage /\ faults' = faults
  <2>1. UNCHANGED openVars /\ [Replaying!Next]_(Replaying!vars)
    BY StepsOfReplay DEF Ready
  <2>2. QED
    BY <2>1 DEF openVars, SealedPackage
<1>2. /\ SealedPackage \in Sealable /\ Replaying!IInv
      /\ \A c \in Callers : Replaying!Known(c)
  BY DEF Ready
<1>3. Replaying!IInv'
  BY <1>1, <1>2, ReplayInvariance
<1>4. ASSUME NEW c \in Callers
      PROVE  Replaying!Known(c)'
  BY <1>1, <1>2, Replaying!KnownKept, SealablePackages, SealableSealed,
     MakeableSelections, MakeableSelected, FaultsAssumption, ReaderAssumption,
     BoundsAssumption, ChunkAssumption, SizesAssumption
<1>5. ASSUME NEW c \in Callers
      PROVE  Offered(c)'
  BY OfferedKept
<1>6. ASSUME faults' = 0, Replaying!Calm', NEW c \in Callers
      PROVE  Replaying!Undisturbed(c)'
  <2>1. Replaying!Sealed /\ Replaying!Meant
    BY <1>1, <1>6, SealedIsFile, SealableMeans
  <2>2. Replaying!Calm => Replaying!Undisturbed(c)
    BY <1>1, <1>6 DEF Ready
  <2>3. QED
    BY <1>1, <1>2, <1>6, <2>1, <2>2, Replaying!UndisturbedKept, SealablePackages,
       SealableSealed, MakeableSelections, MakeableSelected, FaultsAssumption,
       ReaderAssumption, BoundsAssumption, ChunkAssumption, SizesAssumption
<1>7. QED
  BY <1>1, <1>2, <1>3, <1>4, <1>5, <1>6 DEF Ready

\* The inductive invariant of an archive over its life.
THEOREM ArchiveInvariance == ArchiveSpec => []ArchiveInv
<1>1. ArchiveInit => ArchiveInv
  BY DEF ArchiveInit, ArchiveInv, Init, InitOpen
<1>2. /\ IInv /\ Undisturbed /\ IInv' /\ Binding'
      /\ ArchiveInv /\ [ArchiveNext]_allVars
      => ArchiveInv'
  <2>1. SUFFICES ASSUME IInv, Undisturbed, IInv', Binding', ArchiveInv,
                        [ArchiveNext]_allVars
                 PROVE  ArchiveInv'
    OBVIOUS
  <2>2. CASE pc = "returned"
    <3>1. pc' = "returned"
      BY <2>1, <2>2, OpenIsOver DEF ArchiveNext, CallReplay, CallStep, EditAny,
         AllDone, allVars, vars, openVars
    <3>2. reverted => reverted'
      BY <2>1, StepsOfOpen, RevertedKept DEF IInv
    <3>3. QED
      BY <2>1, <2>2, <3>1, <3>2, ReadyKept DEF ArchiveInv
  <2>3. CASE pc # "returned"
    <3>1. Calls!InitCalls'
      BY <2>1, <2>3, NoCallYet DEF ArchiveInv
    <3>2. (IInv /\ Binding /\ Calls!InitCalls /\ pc = "returned" /\ ~reverted => Ready)'
      BY ReadyAtFirst, PTL
    <3>3. QED
      BY <2>1, <3>1, <3>2 DEF ArchiveInv
  <2>4. QED
    BY <2>2, <2>3
<1>3. ArchiveSpec => [](IInv /\ Binding /\ Undisturbed)
  BY ArchiveOpens, Invariance, BindingInvariance, UndisturbedInvariance, PTL
<1>4. QED
  BY <1>1, <1>2, <1>3, PTL DEF ArchiveSpec

-----------------------------------------------------------------------------
(***************************************************************************)
(* What the sinks are given.                                               *)
(***************************************************************************)

\* The first n values of f are ascending numbers.
Ascends(f, n) ==
  /\ \A i \in 1..n : f[i] \in Nat
  /\ \A i, j \in 1..n : i < j => f[i] < f[j]

\* The first m values of f occur among the first n of g.
OccurIn(f, m, g, n) == \A i \in 1..m : \E j \in 1..n : f[i] = g[j]

\* Two lists of ascending numbers with the same numbers are the same list: of
\* the first two that differ, the lower one is missing in the other list.
LEMMA AscendingEqual ==
  ASSUME NEW m \in Nat, NEW n \in Nat, NEW f, NEW g,
         Ascends(f, m), Ascends(g, n), OccurIn(f, m, g, n), OccurIn(g, n, f, m)
  PROVE  m = n /\ \A i \in 1..m : f[i] = g[i]
<1> USE DEF Ascends, OccurIn
<1> DEFINE T == {i \in Nat : i \in 1..m /\ i \in 1..n /\ f[i] # g[i]}
<1>1. ASSUME NEW i \in T
      PROVE  FALSE
  <2>1. PICK k \in T : \A l \in T : k <= l
    <3>1. T \in SUBSET Nat /\ T # {}
      BY <1>1
    <3> HIDE DEF T
    <3>2. QED
      BY <3>1, LeastNatural
  <2>2. k \in 1..m /\ k \in 1..n /\ f[k] # g[k] /\ f[k] \in Nat /\ g[k] \in Nat
    BY <2>1
  <2>3. \A l \in 1..m : l < k => l \in 1..n /\ f[l] = g[l]
    <3>1. ASSUME NEW l \in 1..m, l < k, f[l] # g[l]
          PROVE  FALSE
      <4>1. l \in T
        BY <2>2, <3>1
      <4>2. k <= l
        BY <2>1, <4>1
      <4> HIDE DEF T
      <4>3. QED
        BY <2>2, <3>1, <4>2
    <3> HIDE DEF T
    <3>2. QED
      BY <2>2, <3>1
  <2> HIDE DEF T
  <2>4. CASE f[k] < g[k]
    <3>1. PICK j \in 1..n : f[k] = g[j]
      BY <2>2
    <3>2. j < k
      BY <2>2, <2>4, <3>1
    <3>3. f[j] = g[j] /\ j \in 1..m
      BY <2>2, <2>3, <3>2
    <3>4. f[j] < f[k]
      BY <2>2, <3>2, <3>3
    <3>5. QED
      BY <2>2, <3>1, <3>3, <3>4
  <2>5. CASE g[k] < f[k]
    <3>1. PICK j \in 1..m : f[j] = g[k]
      BY <2>2
    <3>2. j < k
      BY <2>2, <2>5, <3>1
    <3>3. f[j] = g[j] /\ j \in 1..n
      BY <2>2, <2>3, <3>2
    <3>4. g[j] < g[k]
      BY <2>2, <3>2, <3>3
    <3>5. QED
      BY <2>2, <3>1, <3>3, <3>4
  <2>6. QED
    BY <2>2, <2>4, <2>5
<1>2. \A i \in 1..m : i \in 1..n => f[i] = g[i]
  BY <1>1
<1>3. ~(m < n)
  <2>1. SUFFICES ASSUME m < n
                 PROVE  FALSE
    OBVIOUS
  <2>2. PICK k \in 1..n : k = m + 1
    BY <2>1
  <2>3. PICK i \in 1..m : f[i] = g[k]
    OBVIOUS
  <2>4. i \in 1..n /\ i < k
    BY <2>1, <2>2
  <2>5. g[i] < g[k] /\ f[i] = g[i] /\ g[k] \in Nat
    BY <1>2, <2>4
  <2>6. QED
    BY <2>3, <2>5
<1>4. ~(n < m)
  <2>1. SUFFICES ASSUME n < m
                 PROVE  FALSE
    OBVIOUS
  <2>2. PICK k \in 1..m : k = n + 1
    BY <2>1
  <2>3. PICK j \in 1..n : f[k] = g[j]
    OBVIOUS
  <2>4. j \in 1..m /\ j < k
    BY <2>1, <2>2
  <2>5. f[j] < f[k] /\ f[j] = g[j] /\ f[k] \in Nat
    BY <1>2, <2>4
  <2>6. QED
    BY <2>3, <2>5
<1>5. m = n
  BY <1>3, <1>4
<1>6. QED
  BY <1>2, <1>5

\* What a sink has seen ended is the content that the sealed bytes have for
\* that entry.
LEMMA EndedIsMeant ==
  ASSUME Ready, NEW c \in Callers, NEW i \in DOMAIN sink[c].ended
  PROVE  LET meant == Decode(SealedPackage.digest)
             seen  == sink[c].ended[i]
         IN  /\ meant = Ok(SealedPackage.image)
             /\ seen = [id |-> seen.id, content |-> seen.content]
             /\ seen.id \in Nat
             /\ ValueOf(meant)[seen.id + 1].content = {seen.content}
<1>1. PICK d \in Seq(Block) : d = SealedPackage.digest /\ Decode(d) = Ok(SealedPackage.image)
  BY DEF Ready, Sealable
<1>a. PICK image0 : image0 = SealedPackage.image
  OBVIOUS
<1>2. /\ Len(image0) \in Nat
      /\ \A k \in 1..Len(image0) : AtMostOne(image0[k].content)
  BY <1>1, <1>a, ImageMeant
<1>3. PICK ended \in Seq([id : Nat, content : Seq(Block)]) : ended = sink[c].ended
  BY DEF Ready, Replaying!IInv, Replaying!TypeOK
<1>4. i \in 1..Len(ended)
  BY <1>3
<1>b. ended[i] \in [id : Nat, content : Seq(Block)]
  BY <1>4, ElementOfSeq
<1>5. PICK seen \in [id : Nat, content : Seq(Block)] : seen = sink[c].ended[i]
  BY <1>3, <1>b
<1>6. /\ seen.id < index[c] /\ seen.content \in image0[seen.id + 1].content
      /\ index[c] \in Nat /\ index[c] <= Len(image0)
  <2>1. Replaying!EndedSoFar(c) /\ Replaying!WithinImage(c) /\ index[c] \in Nat
    BY DEF Ready, Replaying!IInv, Replaying!CallInvariant, Replaying!TypeOK
  <2>2. \A k \in 1..Len(sink[c].ended) :
          /\ sink[c].ended[k].id < index[c]
          /\ sink[c].ended[k].content
               \in SealedPackage.image[sink[c].ended[k].id + 1].content
    BY <2>1 DEF Replaying!EndedSoFar
  <2>3. index[c] <= Len(image0)
    BY <1>a, <2>1 DEF Replaying!WithinImage
  <2>4. QED
    BY <1>a, <1>3, <1>4, <1>5, <2>1, <2>2, <2>3
<1>7. PICK n \in 1..Len(image0) : n = seen.id + 1
  BY <1>2, <1>5, <1>6
<1>8. image0[seen.id + 1].content = {seen.content}
  <2>1. AtMostOne(image0[n].content)
    BY <1>2
  <2>2. QED
    BY <1>6, <1>7, <2>1 DEF AtMostOne
<1>9. ValueOf(Ok(image0)) = image0
  BY DEF ValueOf, Ok
<1>10. QED
  BY <1>1, <1>a, <1>5, <1>8, <1>9

\* No call has ended an entry before open returns.
LEMMA NothingDeliveredYet ==
  ASSUME Calls!InitCalls, NEW c \in Callers
  PROVE  callPc[c] = "idle" /\ sink[c].ended = <<>>
BY DEF Calls!InitCalls, Calls!NewSink

\* What a sink has seen ended is what the bytes named by the receipt hold for
\* that entry, even if the file was edited during open, between the calls or
\* during replay, unless some block was changed and changed back.
THEOREM Receipted == ArchiveSpec => []DeliveredIsReceipted
<1>1. ArchiveInv => DeliveredIsReceipted
  <2>1. SUFFICES ASSUME ArchiveInv, ~reverted, NEW c \in Callers,
                        NEW i \in DOMAIN sink[c].ended
                 PROVE  LET meant == Decode(SealedPackage.digest)
                            seen  == sink[c].ended[i]
                        IN  Succeeds(meant) /\ ValueOf(meant)[seen.id + 1].content = {seen.content}
    BY DEF DeliveredIsReceipted
  <2>2. Ready
    <3>1. CASE Calls!InitCalls
      BY <2>1, <3>1, NothingDeliveredYet
    <3>2. QED
      BY <2>1, <3>1 DEF ArchiveInv
  <2>3. PICK image0 : image0 = SealedPackage.image
    OBVIOUS
  <2>4. /\ Decode(SealedPackage.digest) = Ok(image0)
        /\ ValueOf(Decode(SealedPackage.digest))[sink[c].ended[i].id + 1].content
             = {sink[c].ended[i].content}
    BY <2>1, <2>2, <2>3, EndedIsMeant
  <2>5. Succeeds(Ok(image0))
    BY DEF Succeeds, Ok
  <2>6. QED
    BY <2>4, <2>5
<1>2. QED
  BY <1>1, ArchiveInvariance, PTL

\* A call that returned has ended the entries of its selection, as many as
\* there are and in that order.
LEMMA ReturnedInOrder ==
  ASSUME Ready, NEW c \in Callers, callPc[c] = "returned"
  PROVE  /\ DOMAIN sink[c].ended = DOMAIN Calls!Chosen(c).entries
         /\ \A i \in DOMAIN sink[c].ended :
              sink[c].ended[i].id = Calls!Chosen(c).entries[i].id
<1>1. PICK s \in Makeable : selection[c] = {s}
  <2>1. Replaying!SelectionFits(c)
    BY DEF Ready, Replaying!IInv, Replaying!CallInvariant
  <2>2. QED
    BY <2>1 DEF Replaying!SelectionFits
<1>2. Calls!Chosen(c) = s /\ Replaying!Chosen(c) = s
  BY <1>1 DEF Calls!Chosen, Replaying!Chosen
<1>a. PICK n \in Nat : n = Len(s.entries) /\ DOMAIN s.entries = 1..n
  BY MakeableSelected
<1>b. /\ \A id \in s.selected : \E j \in DOMAIN s.entries : s.entries[j].id = id
      /\ \A j \in DOMAIN s.entries : s.entries[j].id \in s.selected
      /\ \A i, j \in DOMAIN s.entries : i < j => s.entries[i].id < s.entries[j].id
  BY MakeableSelected
<1>c. \A id \in s.selected : id \in Nat
  BY MakeableSelections
<1>3. /\ \A id \in s.selected : id \in Nat /\ \E j \in 1..n : s.entries[j].id = id
      /\ \A j \in 1..n : s.entries[j].id \in s.selected
      /\ \A i, j \in 1..n : i < j => s.entries[i].id < s.entries[j].id
  BY <1>a, <1>b, <1>c
<1>4. PICK ended \in Seq([id : Nat, content : Seq(Block)]) : ended = sink[c].ended
  BY DEF Ready, Replaying!IInv, Replaying!TypeOK
<1>5. PICK m \in Nat : m = Len(ended) /\ DOMAIN ended = 1..m
  BY <1>4
<1>6. /\ callPhase[c] = "post" /\ Replaying!IInv
      /\ callPc[c] \in Replaying!Active \union {"returned"}
  BY DEF Ready, Replaying!IInv, Replaying!CallInvariant, Replaying!PhaseFits
<1>7. /\ Replaying!EndedIds(sink[c]) = s.selected
      /\ \A i, j \in DOMAIN ended : i < j => ended[i].id < ended[j].id
  BY <1>2, <1>4, <1>6, Replaying!PostIsComplete, SealablePackages, SealableSealed,
     MakeableSelections, MakeableSelected, FaultsAssumption, ReaderAssumption,
     BoundsAssumption, ChunkAssumption, SizesAssumption
<1>8. s.selected = {ended[i].id : i \in 1..m}
  BY <1>4, <1>5, <1>7 DEF Replaying!EndedIds
<1>9. PICK f : f = [i \in 1..m |-> ended[i].id]
  OBVIOUS
<1>10. PICK g : g = [i \in 1..n |-> s.entries[i].id]
  OBVIOUS
<1>11. \A i \in 1..m : f[i] \in s.selected
  BY <1>8, <1>9
<1>12. \A i \in 1..m : f[i] \in Nat
  BY <1>3, <1>11
<1>13. \A i \in 1..n : g[i] \in Nat
  BY <1>3, <1>10
<1>14. \A i, j \in 1..m : i < j => f[i] < f[j]
  BY <1>5, <1>7, <1>9
<1>15. \A i, j \in 1..n : i < j => g[i] < g[j]
  BY <1>3, <1>10
<1>16. \A i \in 1..m : \E j \in 1..n : f[i] = g[j]
  BY <1>3, <1>10, <1>11
<1>17. \A j \in 1..n : \E i \in 1..m : f[i] = g[j]
  BY <1>3, <1>8, <1>9, <1>10
<1>18. Ascends(f, m) /\ Ascends(g, n) /\ OccurIn(f, m, g, n) /\ OccurIn(g, n, f, m)
  BY <1>12, <1>13, <1>14, <1>15, <1>16, <1>17 DEF Ascends, OccurIn
<1>d. m = n /\ \A i \in 1..m : f[i] = g[i]
  BY <1>18, AscendingEqual
<1>19. QED
  BY <1>2, <1>a, <1>4, <1>5, <1>9, <1>10, <1>d

\* What open accepted, replay accepts too: undisturbed, a replay of a package
\* fails only by its sink, and the sink has then been given the content that
\* the file holds for the selected entries.
THEOREM Replayable == ArchiveSpec => []RoundTrip
<1>1. IInv /\ Undisturbed /\ ArchiveInv => RoundTrip
  <2> DEFINE meant == ValueOf(Decode(file))
  <2>1. SUFFICES ASSUME IInv, Undisturbed, ArchiveInv,
                        edits = 0, faults = 0, callFaults = 0, NEW c \in Callers
                 PROVE  /\ callPc[c] = "failed" => callError[c] = {"sink_exception"}
                        /\ callPc[c] = "returned" =>
                             sink[c].ended =
                               [i \in DOMAIN Calls!Chosen(c).entries |->
                                  [id      |-> Calls!Chosen(c).entries[i].id,
                                   content |-> TheOnly(meant[Calls!Chosen(c).entries[i].id + 1].content)]]
    BY DEF RoundTrip
  <2>2. CASE Calls!InitCalls
    <3>1. callPc[c] = "idle"
      BY <2>2, NothingDeliveredYet
    <3>2. QED
      BY <3>1
  <2>3. CASE ~Calls!InitCalls
    <3>1. ~reverted
      BY <2>1 DEF Undisturbed, Calm
    <3>2. Ready /\ pc = "returned"
      BY <2>1, <2>3, <3>1 DEF ArchiveInv
    <3>3. Replaying!Undisturbed(c) /\ Offered(c)
      BY <2>1, <3>2 DEF Ready, Replaying!Calm
    <3>4. file = SealedPackage.digest
      BY <2>1, <3>2, SealedIsFile DEF Replaying!Sealed
    <3>5. ASSUME callPc[c] = "failed"
          PROVE  callError[c] = {"sink_exception"}
      <4>1. Replaying!ValidFor(Replaying!Chosen(c), SealedPackage.image)
        BY <3>3, <3>5, SameValidFor DEF Offered, Calls!Chosen, Replaying!Chosen
      <4>2. QED
        BY <3>3, <3>5, <4>1 DEF Replaying!Undisturbed, Replaying!Excused
    <3>6. ASSUME callPc[c] = "returned"
          PROVE  sink[c].ended =
                   [i \in DOMAIN Calls!Chosen(c).entries |->
                      [id      |-> Calls!Chosen(c).entries[i].id,
                       content |-> TheOnly(meant[Calls!Chosen(c).entries[i].id + 1].content)]]
      <4>1. PICK ended \in Seq([id : Nat, content : Seq(Block)]) : ended = sink[c].ended
        BY <3>2 DEF Ready, Replaying!IInv, Replaying!TypeOK
      <4>2. PICK named : named = Calls!Chosen(c).entries
        OBVIOUS
      <4>3. /\ DOMAIN ended = DOMAIN named
            /\ \A i \in DOMAIN ended : ended[i].id = named[i].id
        BY <3>2, <3>6, <4>1, <4>2, ReturnedInOrder
      <4>4. ASSUME NEW i \in DOMAIN ended
            PROVE  ended[i] = [id      |-> named[i].id,
                               content |-> TheOnly(meant[named[i].id + 1].content)]
        <5>1. /\ ended[i] = [id |-> ended[i].id, content |-> ended[i].content]
              /\ meant[ended[i].id + 1].content = {ended[i].content}
          BY <3>2, <3>4, <4>1, EndedIsMeant
        <5>2. TheOnly(meant[named[i].id + 1].content) = ended[i].content
          BY <4>3, <5>1 DEF TheOnly
        <5>3. QED
          BY <4>3, <5>1, <5>2
      <4>5. ended = [i \in DOMAIN ended |-> ended[i]]
        BY <4>1
      <4> HIDE DEF meant
      <4>6. ended = [i \in DOMAIN named |->
                       [id      |-> named[i].id,
                        content |-> TheOnly(meant[named[i].id + 1].content)]]
        BY <4>3, <4>4, <4>5
      <4>7. QED
        BY <4>1, <4>2, <4>6
    <3>7. QED
      BY <3>5, <3>6
  <2>4. QED
    BY <2>2, <2>3
<1>2. ArchiveSpec => [](IInv /\ Undisturbed)
  BY ArchiveOpens, Invariance, UndisturbedInvariance, PTL
<1>3. QED
  BY <1>1, <1>2, ArchiveInvariance, PTL

=============================================================================
