--------------------------- MODULE PathScanProofs ---------------------------
(***************************************************************************)
(* Proofs about PathScan, for texts of any length over any characters: the *)
(* paths a caller comes to hold are canonical, and the ancestors of a path *)
(* are what climbing from it meets; parent and filename take a path apart; *)
(* and the scan of parse finds what PackagePath says of the pieces.        *)
(***************************************************************************)
EXTENDS PathScan, SequenceTheorems, WellFoundedInduction, TLAPS

\* The characters that occur in texts.
Character ==
  {"/"} \union UNION {{text[i] : i \in DOMAIN text} : text \in Texts \union Others}

\* What no component of a path is.
Dropped == {<<>>, <<".">>, <<".", ".">>}

\* A component of a path.
Plain(component) ==
  /\ component \in Seq(Character)
  /\ component \notin Dropped
  /\ \A i \in 1..Len(component) : component[i] # "/" /\ component[i] # "!"

Safe(text) == \A i \in 1..Len(text) : text[i] # "!"

TypeOK ==
  /\ pc \in {"idle", "scan", "join", "failed", "parsed", "climb", "top"}
  /\ input \in Seq(Character) /\ value \in Seq(Character) /\ origin \in Seq(Character)
  /\ components \in Seq(Seq(Character))
  /\ begin \in 0..Len(input)
  /\ joined \in 0..Len(components)

\* What was scanned: a text with no unsafe character gives plain components.
Scanned ==
  /\ pc = "idle" => begin = 0
  /\ pc = "scan" => Safe(input)
  /\ \A n \in 1..Len(components) : Plain(components[n])

\* Joining makes a canonical path from the first component on.
JoinedSoFar ==
  /\ pc \in {"idle", "scan", "join"} => ancestors = {}
  /\ pc \in {"idle", "scan"} => joined = 0
  /\ pc \in {"idle", "scan", "join"} =>
       IF joined = 0 THEN value = <<>> ELSE Canonical(value)

\* The ancestors down to a prefix of the path that was parsed.
AncestorsFrom(text, length) ==
  {SubSeq(text, 1, i) : i \in {k \in Separators(text) : k >= length}}

\* Climbing goes from prefix to prefix, and passes none that ends before a
\* separator.
Climbed ==
  /\ pc \in {"parsed", "climb", "top"} =>
       /\ Canonical(value)
       /\ Len(value) <= Len(origin)
       /\ value = SubSeq(origin, 1, Len(value))
       /\ ancestors = AncestorsFrom(origin, Len(value))
  /\ pc = "top" => Separators(value) = {}

IInv == TypeOK /\ Scanned /\ JoinedSoFar /\ Climbed

-----------------------------------------------------------------------------
(***************************************************************************)
(* Separators.                                                             *)
(***************************************************************************)

\* A set of naturals that is not empty has a least element.
LEMMA LeastElement ==
  ASSUME NEW T \in SUBSET Nat, T # {}
  PROVE  \E n \in T : \A m \in T : n <= m
<1>1. PICK n \in T : \A m \in T : <<m, n>> \notin OpToRel(<, Nat)
  BY NatLessThanWellFounded, WFMin
<1>2. ASSUME NEW m \in T, m < n
      PROVE  FALSE
  <2>1. <<m, n>> \in Nat \X Nat
    OBVIOUS
  <2>2. <<m, n>> \in OpToRel(<, Nat)
    BY <1>2, <2>1, Zenon DEF OpToRel
  <2>3. QED
    BY <1>1, <2>2
<1>3. QED
  BY <1>2

\* A text that a caller parses is a sequence of characters.
LEMMA TextTyped ==
  ASSUME NEW text \in Texts \union Others
  PROVE  text \in Seq(Character)
<1> DEFINE own == {text[i] : i \in DOMAIN text}
<1>1. text \in Seq(own)
  BY TextsAssumption DEF IsText
<1>2. own \subseteq Character
  BY DEF Character
<1>3. QED
  BY <1>1, <1>2, SeqMonotonic

\* A separator is a position of the text.
LEMMA SeparatorIs ==
  ASSUME NEW text \in Seq(Character), NEW i
  PROVE  i \in Separators(text) <=>
           i \in Nat /\ i < Len(text) /\ text[i + 1] = "/"
BY DEF Separators

\* find returns the first separator from a position on, if there is one.
LEMMA FindIs ==
  ASSUME NEW text \in Seq(Character), NEW from \in Nat
  PROVE  \/ /\ Find(text, from) = {}
            /\ \A j \in Separators(text) : j < from
         \/ \E i \in Separators(text) :
              /\ Find(text, from) = {i}
              /\ i >= from
              /\ \A j \in Separators(text) : j >= from => i <= j
<1> DEFINE at == {i \in Separators(text) : i >= from}
<1>1. Separators(text) \in SUBSET Nat
  BY DEF Separators
<1>2. at \in SUBSET Nat
  BY <1>1
<1>3. Find(text, from) = {i \in at : \A j \in at : i <= j}
  BY DEF Find
<1>4. CASE at = {}
  <2>1. Find(text, from) = {}
    BY <1>3, <1>4
  <2>2. \A j \in Separators(text) : j < from
    BY <1>1, <1>4
  <2>3. QED
    BY <2>1, <2>2
<1>5. CASE at # {}
  <2>1. PICK i \in at : \A m \in at : i <= m
    BY <1>2, <1>5, LeastElement
  <2>2. \A k \in at : (\A j \in at : k <= j) => k = i
    BY <1>2, <2>1
  <2>3. Find(text, from) = {i}
    BY <1>3, <2>1, <2>2
  <2>4. i \in Separators(text) /\ i >= from
    BY <2>1
  <2>5. \A j \in Separators(text) : j >= from => i <= j
    BY <2>1
  <2>6. QED
    BY <2>3, <2>4, <2>5
<1>6. QED
  BY <1>4, <1>5

\* rfind returns the last separator, if there is one.
LEMMA RfindIs ==
  ASSUME NEW text \in Seq(Character)
  PROVE  \/ Rfind(text) = {} /\ Separators(text) = {}
         \/ \E i \in Separators(text) :
              Rfind(text) = {i} /\ \A j \in Separators(text) : j <= i
<1>1. \A i \in Separators(text) : i \in Nat /\ i < Len(text)
  BY SeparatorIs
<1>2. Len(text) \in Nat
  BY LenProperties
<1> DEFINE after == {Len(text) - i : i \in Separators(text)}
<1>3. CASE Separators(text) = {}
  BY <1>3 DEF Rfind
<1>4. CASE Separators(text) # {}
  <2>1. after \in SUBSET Nat /\ after # {}
    BY <1>1, <1>2, <1>4
  <2>2. PICK n \in after : \A m \in after : n <= m
    BY <2>1, LeastElement
  <2>3. PICK i \in Separators(text) : n = Len(text) - i
    BY <2>2
  <2>4. \A j \in Separators(text) : j <= i
    <3>1. TAKE j \in Separators(text)
    <3>2. Len(text) - j \in after
      OBVIOUS
    <3>3. n <= Len(text) - j
      BY <2>2, <3>2
    <3>4. QED
      BY <1>1, <1>2, <2>3, <3>3
  <2>5. \A k \in Separators(text) : (\A j \in Separators(text) : j <= k) => k = i
    BY <1>1, <2>3, <2>4
  <2>6. Rfind(text) = {i}
    BY <2>3, <2>4, <2>5 DEF Rfind
  <2>7. QED
    BY <2>3, <2>4, <2>6
<1>5. QED
  BY <1>3, <1>4

\* A prefix of a text is a sequence of its first characters.
LEMMA PrefixIs ==
  ASSUME NEW text \in Seq(Character), NEW n \in 0..Len(text)
  PROVE  /\ SubSeq(text, 1, n) \in Seq(Character)
         /\ Len(SubSeq(text, 1, n)) = n
         /\ \A i \in 1..n : SubSeq(text, 1, n)[i] = text[i]
<1>1. n \in Int /\ 1 \in Int /\ n \in Nat
  OBVIOUS
<1>2. \A i \in 1..n : text[i] \in Character
  BY ElementOfSeq
<1>3. /\ SubSeq(text, 1, n) \in Seq(Character)
      /\ Len(SubSeq(text, 1, n)) = IF 1 <= n THEN n - 1 + 1 ELSE 0
      /\ \A i \in 1..(n - 1 + 1) : SubSeq(text, 1, n)[i] = text[1 + i - 1]
  BY <1>1, <1>2, SubSeqProperties
<1>4. \A i \in 1..n : 1 + i - 1 = i
  BY <1>1
<1>5. QED
  BY <1>1, <1>3, <1>4

\* A part of a text, between two positions of it.
LEMMA PartIs ==
  ASSUME NEW text \in Seq(Character), NEW from \in 0..Len(text), NEW to \in from..Len(text)
  PROVE  /\ Substr(text, from, to - from) \in Seq(Character)
         /\ Len(Substr(text, from, to - from)) = to - from
         /\ \A i \in 1..(to - from) : Substr(text, from, to - from)[i] = text[from + i]
<1>0. Len(text) \in Nat
  BY LenProperties
<1>1. from + 1 \in Int /\ to \in Int /\ from \in Int
  BY <1>0
<1>2. \A i \in (from + 1)..to : text[i] \in Character
  <2>1. \A i \in (from + 1)..to : i \in 1..Len(text)
    BY <1>0
  <2>2. QED
    BY <2>1, ElementOfSeq
<1>3. /\ SubSeq(text, from + 1, to) \in Seq(Character)
      /\ Len(SubSeq(text, from + 1, to)) = IF from + 1 <= to THEN to - (from + 1) + 1 ELSE 0
      /\ \A i \in 1..(to - (from + 1) + 1) :
           SubSeq(text, from + 1, to)[i] = text[from + 1 + i - 1]
  BY <1>1, <1>2, SubSeqProperties
<1>4. Substr(text, from, to - from) = SubSeq(text, from + 1, to)
  <2>1. from + (to - from) = to
    BY <1>1
  <2>2. QED
    BY <2>1 DEF Substr
<1>5. PICK part : part = SubSeq(text, from + 1, to)
  OBVIOUS
<1>6. to - (from + 1) + 1 = to - from /\ (from + 1 > to => to - from = 0)
  BY <1>0, <1>1
<1>7. \A i \in 1..(to - from) : from + 1 + i - 1 = from + i
  BY <1>1
<1>8. part \in Seq(Character) /\ Len(part) = to - from
  BY <1>1, <1>3, <1>5, <1>6
<1>9. \A i \in 1..(to - from) : part[i] = text[from + i]
  BY <1>3, <1>5, <1>6, <1>7
<1>10. QED
  BY <1>4, <1>5, <1>8, <1>9

-----------------------------------------------------------------------------
(***************************************************************************)
(* Components.                                                             *)
(***************************************************************************)

\* One iteration of the scan takes a part of the text without separators, and
\* leaves `begin' within the text.
LEMMA ComponentIs ==
  ASSUME NEW text \in Seq(Character), NEW from \in 0..Len(text), Safe(text)
  PROVE  LET end == Find(text, from)
             component == Component(text, from, end)
         IN  /\ component \in Seq(Character)
             /\ \A i \in 1..Len(component) : component[i] # "/" /\ component[i] # "!"
             /\ end # {} => 1 + (CHOOSE i \in end : TRUE) \in 0..Len(text)
<1> DEFINE end == Find(text, from)
           to == IF end = {} THEN Len(text) ELSE CHOOSE i \in end : TRUE
<1>0. Len(text) \in Nat /\ from \in Nat
  BY LenProperties
<1>1. /\ to \in from..Len(text)
      /\ \A j \in Separators(text) : j >= from => j >= to
      /\ end # {} => 1 + (CHOOSE i \in end : TRUE) \in 0..Len(text)
  <2>1. CASE end = {} /\ \A j \in Separators(text) : j < from
    <3>1. \A j \in Separators(text) : j \in Nat
      BY DEF Separators
    <3>2. QED
      BY <1>0, <2>1, <3>1
  <2>2. CASE \E i \in Separators(text) :
               /\ end = {i}
               /\ i >= from
               /\ \A j \in Separators(text) : j >= from => i <= j
    <3>1. PICK i \in Separators(text) :
            /\ end = {i}
            /\ i >= from
            /\ \A j \in Separators(text) : j >= from => i <= j
      BY <2>2
    <3>2. i \in Nat /\ i < Len(text)
      BY SeparatorIs
    <3>3. (CHOOSE k \in end : TRUE) = i
      BY <3>1
    <3>4. \A j \in Separators(text) : j \in Nat
      BY DEF Separators
    <3>5. end # {} /\ to = i
      BY <3>1, <3>3
    <3>6. QED
      BY <1>0, <3>1, <3>2, <3>3, <3>4, <3>5
  <2>3. QED
    BY <1>0, <2>1, <2>2, FindIs
<1>2. Component(text, from, end) = Substr(text, from, to - from)
  BY DEF Component
<1>3. PICK component : component = Substr(text, from, to - from)
  OBVIOUS
<1>4. /\ component \in Seq(Character)
      /\ Len(component) = to - from
      /\ \A i \in 1..(to - from) : component[i] = text[from + i]
  BY <1>1, <1>3, PartIs
<1>5. ASSUME NEW i \in 1..Len(component)
      PROVE  component[i] # "/" /\ component[i] # "!"
  <2>1. component[i] = text[from + i] /\ i \in 1..(to - from)
    BY <1>4
  <2>2. from + i \in 1..Len(text) /\ from + i - 1 \in Nat /\ from + i - 1 < Len(text)
    BY <1>0, <1>1, <2>1
  <2>3. text[from + i] # "!"
    BY <2>2 DEF Safe
  <2>4. ASSUME text[from + i] = "/"
        PROVE  FALSE
    <3>1. from + i - 1 + 1 = from + i
      BY <2>2
    <3>2. from + i - 1 \in Separators(text)
      BY <2>2, <2>4, <3>1, SeparatorIs
    <3>3. from + i - 1 >= from
      BY <1>0, <2>1
    <3>4. from + i - 1 >= to
      BY <1>1, <3>2, <3>3
    <3>5. QED
      BY <1>0, <1>1, <2>1, <3>4
  <2>5. QED
    BY <2>1, <2>3, <2>4
<1>6. QED
  BY <1>1, <1>2, <1>3, <1>4, <1>5

\* Where pieces begin and end.
LEMMA BoundsAre ==
  ASSUME NEW text \in Seq(Character)
  PROVE  /\ \A i : i \in Begins(text) <=>
               \/ i = 1
               \/ i \in 2..(Len(text) + 1) /\ text[i - 1] = "/"
         /\ \A j : j \in Ends(text) <=>
               \/ j = Len(text)
               \/ j \in 0..(Len(text) - 1) /\ text[j + 1] = "/"
<1>0. Len(text) \in Nat /\ DOMAIN text = 1..Len(text)
  BY LenProperties
<1> DEFINE at == {k \in DOMAIN text : text[k] = "/"}
<1>1. ASSUME NEW i
      PROVE  i \in Begins(text) <=>
               \/ i = 1
               \/ i \in 2..(Len(text) + 1) /\ text[i - 1] = "/"
  <2>1. CASE i \in 2..(Len(text) + 1)
    <3>1. i - 1 \in DOMAIN text /\ (i - 1) + 1 = i
      BY <1>0, <2>1
    <3>2. text[i - 1] = "/" => i \in Begins(text)
      BY <3>1 DEF Begins
    <3>3. ASSUME NEW k \in at, i = k + 1
          PROVE  text[i - 1] = "/"
      <4>1. k = i - 1
        BY <1>0, <3>3
      <4>2. QED
        BY <4>1
    <3>4. i # 1
      BY <1>0, <2>1
    <3>5. QED
      BY <2>1, <3>2, <3>3, <3>4 DEF Begins
  <2>2. CASE i \notin 2..(Len(text) + 1)
    <3>1. \A k \in at : k + 1 \in 2..(Len(text) + 1)
      BY <1>0
    <3>2. QED
      BY <2>2, <3>1 DEF Begins
  <2>3. QED
    BY <2>1, <2>2
<1>2. ASSUME NEW j
      PROVE  j \in Ends(text) <=>
               \/ j = Len(text)
               \/ j \in 0..(Len(text) - 1) /\ text[j + 1] = "/"
  <2>1. CASE j \in 0..(Len(text) - 1)
    <3>1. j + 1 \in DOMAIN text /\ (j + 1) - 1 = j
      BY <1>0, <2>1
    <3>2. text[j + 1] = "/" => j \in Ends(text)
      BY <3>1 DEF Ends
    <3>3. ASSUME NEW k \in at, j = k - 1
          PROVE  text[j + 1] = "/"
      <4>1. k = j + 1
        BY <1>0, <3>3
      <4>2. QED
        BY <4>1
    <3>5. QED
      BY <2>1, <3>2, <3>3 DEF Ends
  <2>2. CASE j \notin 0..(Len(text) - 1)
    <3>1. \A k \in at : k - 1 \in 0..(Len(text) - 1)
      BY <1>0
    <3>2. QED
      BY <2>2, <3>1 DEF Ends
  <2>3. QED
    BY <2>1, <2>2
<1>3. QED
  BY <1>1, <1>2

\* What it takes for a text to be canonical.
PieceIn(text, i, j) ==
  /\ i \in Begins(text) /\ j \in Ends(text)
  /\ i <= j + 1
  /\ \A k \in i..j : text[k] # "/"

LEMMA CanonicalIs ==
  ASSUME NEW text \in Seq(Character)
  PROVE  Canonical(text) <=>
           /\ text # <<>>
           /\ Safe(text)
           /\ \A i, j : PieceIn(text, i, j) => SubSeq(text, i, j) \notin Dropped
<1>1. DOMAIN text = 1..Len(text)
  BY LenProperties
<1>2. QED
  BY <1>1, Zenon DEF Canonical, Safe, PieceIn, Dropped

\* Texts that agree on a part have it in common.
LEMMA SamePart ==
  ASSUME NEW s \in Seq(Character), NEW t \in Seq(Character), NEW i \in Nat, NEW j \in Nat,
         i >= 1, j <= Len(s), j <= Len(t), \A k \in i..j : s[k] = t[k]
  PROVE  SubSeq(s, i, j) = SubSeq(t, i, j)
<1>0. /\ Len(s) \in Nat /\ Len(t) \in Nat /\ i \in Int /\ j \in Int
      /\ \A k \in i..j : k \in 1..Len(s) /\ k \in 1..Len(t)
  BY LenProperties
<1>1. (\A k \in i..j : s[k] \in Character) /\ (\A k \in i..j : t[k] \in Character)
  BY <1>0, ElementOfSeq
<1>2. /\ SubSeq(s, i, j) \in Seq(Character)
      /\ Len(SubSeq(s, i, j)) = IF i <= j THEN j - i + 1 ELSE 0
      /\ \A k \in 1..(j - i + 1) : SubSeq(s, i, j)[k] = s[i + k - 1]
  BY <1>0, <1>1, SubSeqProperties
<1>3. /\ SubSeq(t, i, j) \in Seq(Character)
      /\ Len(SubSeq(t, i, j)) = IF i <= j THEN j - i + 1 ELSE 0
      /\ \A k \in 1..(j - i + 1) : SubSeq(t, i, j)[k] = t[i + k - 1]
  BY <1>0, <1>1, SubSeqProperties
<1>4. PICK p \in Seq(Character) : p = SubSeq(s, i, j)
  BY <1>2
<1>5. PICK q \in Seq(Character) : q = SubSeq(t, i, j)
  BY <1>3
<1>6. Len(p) = Len(q) /\ \A k \in 1..Len(p) : k \in 1..(j - i + 1)
  BY <1>0, <1>2, <1>3, <1>4, <1>5
<1>7. \A k \in 1..(j - i + 1) : i + k - 1 \in i..j
  BY <1>0
<1>8. \A k \in 1..Len(p) : p[k] = q[k]
  BY <1>2, <1>3, <1>4, <1>5, <1>6, <1>7
<1>9. p = q
  BY <1>6, <1>8, SeqEqual
<1>10. QED
  BY <1>4, <1>5, <1>9

\* A component by itself is canonical.
LEMMA ComponentCanonical ==
  ASSUME NEW component, Plain(component)
  PROVE  Canonical(component)
<1>0. component \in Seq(Character) /\ component \notin Dropped
  BY DEF Plain
<1>1. component # <<>> /\ Safe(component)
  BY <1>0 DEF Plain, Safe, Dropped
<1>2. Len(component) \in Nat /\ Len(component) # 0
  BY <1>0, <1>1, EmptySeq, LenProperties
<1>3. ASSUME NEW i, NEW j, PieceIn(component, i, j)
      PROVE  SubSeq(component, i, j) \notin Dropped
  <2>1. \A k \in 1..Len(component) : component[k] # "/"
    BY DEF Plain
  <2>2. i \in Begins(component) /\ j \in Ends(component)
    BY <1>3 DEF PieceIn
  <2>3. i = 1
    <3>1. i = 1 \/ (i \in 2..(Len(component) + 1) /\ component[i - 1] = "/")
      BY <1>0, <2>2, BoundsAre
    <3>2. i \in 2..(Len(component) + 1) => i - 1 \in 1..Len(component)
      BY <1>2
    <3>3. QED
      BY <2>1, <3>1, <3>2
  <2>4. j = Len(component)
    <3>1. j = Len(component) \/ (j \in 0..(Len(component) - 1) /\ component[j + 1] = "/")
      BY <1>0, <2>2, BoundsAre
    <3>2. j \in 0..(Len(component) - 1) => j + 1 \in 1..Len(component)
      BY <1>2
    <3>3. QED
      BY <2>1, <3>1, <3>2
  <2>5. SubSeq(component, i, j) = component
    BY <1>0, <2>3, <2>4, SubSeqFull
  <2>6. QED
    BY <1>0, <2>5
<1>4. QED
  BY <1>0, <1>1, <1>3, CanonicalIs

\* A canonical path, a separator and a component make a canonical path.
LEMMA JoinCanonical ==
  ASSUME NEW path \in Seq(Character), Canonical(path), NEW component, Plain(component)
  PROVE  /\ (path \o <<"/">>) \o component \in Seq(Character)
         /\ Canonical((path \o <<"/">>) \o component)
<1> DEFINE n == Len(path)
<1>0. component \in Seq(Character) /\ component \notin Dropped /\ component # <<>>
  BY DEF Plain, Dropped
<1>1. <<"/">> \in Seq(Character) /\ Len(<<"/">>) = 1 /\ <<"/">>[1] = "/"
  <2>1. "/" \in Character
    BY DEF Character
  <2>2. QED
    BY <2>1
<1>2. n \in Nat /\ Len(component) \in Nat /\ Len(component) # 0
  BY <1>0, EmptySeq, LenProperties
<1>3. PICK head \in Seq(Character) : head = path \o <<"/">>
  BY <1>1, ConcatProperties
<1>4. Len(head) = n + 1 /\ (\A k \in 1..n : head[k] = path[k]) /\ head[n + 1] = "/"
  <2>1. /\ Len(path \o <<"/">>) = Len(path) + Len(<<"/">>)
        /\ \A k \in 1..(Len(path) + Len(<<"/">>)) : (path \o <<"/">>)[k] =
             IF k <= Len(path) THEN path[k] ELSE <<"/">>[k - Len(path)]
    BY <1>1, ConcatProperties
  <2>2. /\ Len(head) = n + 1
        /\ \A k \in 1..(n + 1) : head[k] = IF k <= n THEN path[k] ELSE <<"/">>[k - n]
    BY <1>1, <1>3, <2>1
  <2>3. n + 1 \in 1..(n + 1) /\ ~(n + 1 <= n) /\ (n + 1) - n = 1
    BY <1>2
  <2>4. head[n + 1] = "/"
    BY <1>1, <2>2, <2>3
  <2>5. QED
    BY <1>2, <2>2, <2>4
<1>5. PICK whole \in Seq(Character) : whole = head \o component
  BY <1>0, ConcatProperties
<1>6. /\ Len(whole) = n + 1 + Len(component)
      /\ \A k \in 1..n : whole[k] = path[k]
      /\ whole[n + 1] = "/"
      /\ \A k \in 1..Len(component) : whole[n + 1 + k] = component[k]
  <2>1. /\ Len(head \o component) = Len(head) + Len(component)
        /\ \A k \in 1..(Len(head) + Len(component)) : (head \o component)[k] =
             IF k <= Len(head) THEN head[k] ELSE component[k - Len(head)]
    BY <1>0, ConcatProperties
  <2>2. /\ Len(whole) = n + 1 + Len(component)
        /\ \A k \in 1..(n + 1 + Len(component)) :
             whole[k] = IF k <= n + 1 THEN head[k] ELSE component[k - (n + 1)]
    BY <1>4, <1>5, <2>1
  <2>3. ASSUME NEW k \in 1..Len(component)
        PROVE  whole[n + 1 + k] = component[k]
    <3>1. n + 1 + k \in 1..(n + 1 + Len(component)) /\ ~(n + 1 + k <= n + 1)
          /\ (n + 1 + k) - (n + 1) = k
      BY <1>2
    <3>2. QED
      BY <2>2, <3>1
  <2>4. QED
    BY <1>2, <1>4, <2>2, <2>3
<1>7. Safe(path) /\ path # <<>> /\ \A i, j : PieceIn(path, i, j) => SubSeq(path, i, j) \notin Dropped
  BY CanonicalIs
<1>8. whole # <<>> /\ Safe(whole)
  <2>1. \A k \in 1..Len(component) : component[k] # "!"
    BY DEF Plain
  <2>2. ASSUME NEW k \in 1..Len(whole)
        PROVE  whole[k] # "!"
    <3>1. CASE k <= n
      BY <1>2, <1>6, <1>7, <3>1 DEF Safe
    <3>2. CASE k = n + 1
      BY <1>6, <3>2
    <3>3. CASE k > n + 1
      <4>0. k \in Nat /\ k <= n + 1 + Len(component) /\ n \in Nat
        BY <1>2, <1>6
      <4>1. k - (n + 1) \in 1..Len(component)
        BY <1>2, <3>3, <4>0
      <4>2. PICK c \in 1..Len(component) : c = k - (n + 1)
        BY <4>1
      <4>3. n + 1 + c = k
        BY <1>2, <4>2
      <4>4. QED
        BY <1>6, <2>1, <4>3
    <3>4. QED
      BY <1>2, <1>6, <3>1, <3>2, <3>3
  <2>3. QED
    BY <1>2, <1>6, <2>2, EmptySeq DEF Safe
<1>9. ASSUME NEW i, NEW j, PieceIn(whole, i, j)
      PROVE  SubSeq(whole, i, j) \notin Dropped
  <2>1. /\ i = 1 \/ (i \in 2..(Len(whole) + 1) /\ whole[i - 1] = "/")
        /\ j = Len(whole) \/ (j \in 0..(Len(whole) - 1) /\ whole[j + 1] = "/")
        /\ i <= j + 1 /\ \A k \in i..j : whole[k] # "/"
    BY <1>9, BoundsAre DEF PieceIn
  <2>2. \A k \in 1..Len(component) : component[k] # "/"
    BY DEF Plain
  <2>3. i \in Nat /\ j \in Nat /\ i >= 1 /\ j <= Len(whole)
    BY <1>2, <1>6, <2>1
  <2>4. i <= n + 2
    <3>1. SUFFICES ASSUME i > n + 2
                   PROVE  FALSE
      BY <1>2, <2>3
    <3>2. PICK c \in 1..Len(component) : c = (i - 1) - (n + 1)
      BY <1>2, <1>6, <2>1, <3>1
    <3>3. n + 1 + c = i - 1
      BY <1>2, <2>3, <3>2
    <3>4. QED
      BY <1>2, <1>6, <2>1, <2>2, <3>1, <3>3
  <2>5. j <= n \/ j = Len(whole)
    <3>1. SUFFICES ASSUME j > n, j # Len(whole)
                   PROVE  FALSE
      BY <1>2, <2>3
    <3>2. j # n
      BY <1>2, <3>1
    <3>3. PICK c \in 1..Len(component) : c = (j + 1) - (n + 1)
      <4>1. j + 1 <= n + 1 + Len(component) /\ j + 1 > n + 1
        BY <1>2, <1>6, <2>1, <2>3, <3>1
      <4>2. (j + 1) - (n + 1) \in 1..Len(component)
        BY <1>2, <2>3, <4>1
      <4>3. QED
        BY <4>2
    <3>4. n + 1 + c = j + 1
      BY <1>2, <2>3, <3>3
    <3>5. QED
      BY <1>6, <2>1, <2>2, <3>1, <3>4
  <2>6. CASE j <= n
    <3>1. i <= n + 1
      BY <1>2, <2>1, <2>3, <2>6
    <3>2. i \in Begins(path)
      <4>1. i = 1 \/ (i \in 2..(n + 1) /\ whole[i - 1] = path[i - 1] /\ whole[i - 1] = "/")
        BY <1>2, <1>6, <2>1, <3>1
      <4>2. QED
        BY <4>1, BoundsAre
    <3>3. j \in Ends(path)
      <4>1. j = n \/ (j \in 0..(n - 1) /\ whole[j + 1] = path[j + 1] /\ whole[j + 1] = "/")
        BY <1>2, <1>6, <2>1, <2>3, <2>6
      <4>2. QED
        BY <4>1, BoundsAre
    <3>4. \A k \in i..j : whole[k] = path[k]
      BY <1>2, <1>6, <2>3, <2>6
    <3>5. PieceIn(path, i, j)
      BY <2>1, <3>2, <3>3, <3>4 DEF PieceIn
    <3>6. SubSeq(whole, i, j) = SubSeq(path, i, j)
      BY <1>2, <2>3, <2>6, <3>4, SamePart
    <3>7. QED
      BY <1>7, <3>5, <3>6
  <2>7. CASE j = Len(whole)
    <3>1. i = n + 2
      <4>1. i <= n + 1 => n + 1 \in i..j
        BY <1>2, <1>6, <2>3, <2>7
      <4>2. ~(i <= n + 1)
        BY <1>6, <2>1, <4>1
      <4>3. QED
        BY <1>2, <2>3, <2>4, <4>2
    <3>2. i \in Int /\ j \in Int /\ \A k \in i..j : whole[k] \in Character
      <4>1. \A k \in i..j : k \in 1..Len(whole)
        BY <1>2, <1>6, <2>3, <2>7
      <4>2. QED
        BY <2>3, <4>1, ElementOfSeq
    <3>3. /\ SubSeq(whole, i, j) \in Seq(Character)
          /\ Len(SubSeq(whole, i, j)) = IF i <= j THEN j - i + 1 ELSE 0
          /\ \A k \in 1..(j - i + 1) : SubSeq(whole, i, j)[k] = whole[i + k - 1]
      BY <3>2, SubSeqProperties
    <3>4. PICK last \in Seq(Character) : last = SubSeq(whole, i, j)
      BY <3>3
    <3>5. j - i + 1 = Len(component) /\ i <= j
      BY <1>2, <1>6, <2>7, <3>1
    <3>6. Len(last) = Len(component)
      BY <3>3, <3>4, <3>5
    <3>7. \A k \in 1..Len(component) : i + k - 1 = n + 1 + k
      BY <1>2, <3>1
    <3>8. \A k \in 1..Len(last) : last[k] = component[k]
      BY <1>6, <3>3, <3>4, <3>5, <3>6, <3>7
    <3>9. last = component
      BY <1>0, <3>6, <3>8, SeqEqual
    <3>10. QED
      BY <1>0, <3>4, <3>9
  <2>8. QED
    BY <2>5, <2>6, <2>7
<1>10. Canonical(whole)
  BY <1>8, <1>9, CanonicalIs
<1>11. QED
  BY <1>3, <1>5, <1>10

\* What precedes the last separator of a canonical path is canonical.
LEMMA ParentCanonical ==
  ASSUME NEW path \in Seq(Character), Canonical(path), NEW at \in Separators(path)
  PROVE  Canonical(SubSeq(path, 1, at))
<1>0. at \in Nat /\ at < Len(path) /\ path[at + 1] = "/" /\ Len(path) \in Nat
      /\ at \in 0..Len(path)
  BY SeparatorIs, LenProperties
<1>1. PICK up \in Seq(Character) : up = SubSeq(path, 1, at)
  BY <1>0, PrefixIs
<1>2. Len(up) = at /\ \A i \in 1..at : up[i] = path[i]
  BY <1>0, <1>1, PrefixIs
<1>3. Safe(path) /\ \A i, j : PieceIn(path, i, j) => SubSeq(path, i, j) \notin Dropped
  BY CanonicalIs
<1>4. at # 0
  <2>1. SUFFICES ASSUME at = 0
                 PROVE  FALSE
    OBVIOUS
  <2>2. 1 \in Begins(path)
    BY BoundsAre
  <2>3. 0 \in Ends(path)
    <3>1. 0 \in 0..(Len(path) - 1) /\ path[0 + 1] = "/"
      BY <1>0, <2>1
    <3>2. QED
      BY <3>1, BoundsAre
  <2>4. PieceIn(path, 1, 0)
    BY <2>2, <2>3 DEF PieceIn
  <2>5. SubSeq(path, 1, 0) = <<>>
    BY SubSeqEmpty
  <2>6. QED
    BY <1>3, <2>4, <2>5 DEF Dropped
<1>5. up # <<>> /\ Safe(up)
  BY <1>0, <1>2, <1>3, <1>4, EmptySeq DEF Safe
<1>6. ASSUME NEW i, NEW j, PieceIn(up, i, j)
      PROVE  SubSeq(up, i, j) \notin Dropped
  <2>1. /\ i = 1 \/ (i \in 2..(at + 1) /\ up[i - 1] = "/")
        /\ j = at \/ (j \in 0..(at - 1) /\ up[j + 1] = "/")
        /\ i <= j + 1 /\ \A k \in i..j : up[k] # "/"
    BY <1>2, <1>6, BoundsAre DEF PieceIn
  <2>2. i \in Nat /\ j \in Nat /\ i >= 1 /\ j <= at
    BY <1>0, <2>1
  <2>3. i \in Begins(path)
    <3>1. i = 1 \/ (i \in 2..(Len(path) + 1) /\ path[i - 1] = "/")
      BY <1>0, <1>2, <2>1
    <3>2. QED
      BY <3>1, BoundsAre
  <2>4. j \in Ends(path)
    <3>1. j \in 0..(Len(path) - 1) /\ path[j + 1] = "/"
      BY <1>0, <1>2, <2>1
    <3>2. QED
      BY <3>1, BoundsAre
  <2>5. \A k \in i..j : up[k] = path[k]
    BY <1>0, <1>2, <2>2
  <2>6. PieceIn(path, i, j)
    BY <2>1, <2>3, <2>4, <2>5 DEF PieceIn
  <2>7. SubSeq(up, i, j) = SubSeq(path, i, j)
    BY <1>0, <1>2, <2>2, <2>5, SamePart
  <2>8. QED
    BY <1>3, <2>6, <2>7
<1>7. QED
  BY <1>1, <1>5, <1>6, CanonicalIs

-----------------------------------------------------------------------------
(***************************************************************************)
(* Ancestors.                                                              *)
(***************************************************************************)

\* A prefix of a text that ends before a separator has the separators before it.
LEMMA PrefixSeparators ==
  ASSUME NEW text \in Seq(Character), NEW n \in 0..Len(text)
  PROVE  \A i : i \in Separators(SubSeq(text, 1, n)) <=> i \in Separators(text) /\ i < n
<1>1. PICK part \in Seq(Character) : part = SubSeq(text, 1, n)
  BY PrefixIs
<1>2. Len(part) = n /\ \A i \in 1..n : part[i] = text[i]
  BY <1>1, PrefixIs
<1>3. Len(text) \in Nat /\ n \in Nat /\ n <= Len(text)
  BY LenProperties
<1>4. ASSUME NEW i
      PROVE  i \in Separators(part) <=> i \in Separators(text) /\ i < n
  <2>1. i \in Separators(part) <=> i \in Nat /\ i < n /\ part[i + 1] = "/"
    BY <1>2, SeparatorIs
  <2>2. i \in Separators(text) <=> i \in Nat /\ i < Len(text) /\ text[i + 1] = "/"
    BY SeparatorIs
  <2>3. i \in Nat /\ i < n => i + 1 \in 1..n
    BY <1>3
  <2>4. QED
    BY <1>2, <1>3, <2>1, <2>2, <2>3
<1>5. QED
  BY <1>1, <1>4

\* Climbing to the last separator before a length adds one ancestor.
LEMMA OneMoreAncestor ==
  ASSUME NEW text \in Seq(Character), NEW n \in 0..Len(text),
         NEW at \in Separators(text), at < n,
         \A j \in Separators(text) : j < n => j <= at
  PROVE  AncestorsFrom(text, at) = AncestorsFrom(text, n) \union {SubSeq(text, 1, at)}
<1>1. \A j \in Separators(text) : j \in Nat
  BY SeparatorIs
<1>2. {k \in Separators(text) : k >= at} = {k \in Separators(text) : k >= n} \union {at}
  BY <1>1
<1>3. QED
  BY <1>2 DEF AncestorsFrom

\* The prefixes before separators are the ancestors of a path.
LEMMA AncestorIs ==
  ASSUME NEW text \in Seq(Character), NEW other \in Seq(Character)
  PROVE  IsAncestorOf(other, text) <=>
           \E i \in Separators(text) : other = SubSeq(text, 1, i)
<1>0. Len(other) \in Nat /\ Len(text) \in Nat
  BY LenProperties
<1>1. Substr(text, 0, Len(other)) = SubSeq(text, 1, Len(other))
  BY <1>0 DEF Substr
<1>2. ASSUME IsAncestorOf(other, text)
      PROVE  \E i \in Separators(text) : other = SubSeq(text, 1, i)
  <2>1. Len(other) \in Separators(text)
    BY <1>0, <1>2, SeparatorIs DEF IsAncestorOf
  <2>2. QED
    BY <1>1, <1>2, <2>1 DEF IsAncestorOf
<1>3. ASSUME NEW i \in Separators(text), other = SubSeq(text, 1, i)
      PROVE  IsAncestorOf(other, text)
  <2>1. i \in Nat /\ i < Len(text) /\ text[i + 1] = "/" /\ i \in 0..Len(text)
    BY <1>0, SeparatorIs
  <2>2. Len(other) = i
    BY <1>3, <2>1, PrefixIs
  <2>3. QED
    BY <1>1, <1>3, <2>1, <2>2 DEF IsAncestorOf
<1>4. QED
  BY <1>2, <1>3

-----------------------------------------------------------------------------
(***************************************************************************)
(* Parent and filename.                                                    *)
(***************************************************************************)

\* Without a separator, filename is the whole path.
LEMMA WholeFilename ==
  ASSUME NEW path \in Seq(Character), Rfind(path) = {}
  PROVE  /\ Filename(path) = path
         /\ Parent(path) = {}
         /\ \A i \in 1..Len(path) : path[i] # "/"
<1>1. Len(path) \in Nat
  BY LenProperties
<1>2. Filename(path) = Substr(path, 0, Len(path) - 0)
  <2>1. (CHOOSE i \in {0} : TRUE) = 0
    OBVIOUS
  <2>2. {i + 1 : i \in Rfind(path)} \union (IF Rfind(path) = {} THEN {0} ELSE {}) = {0}
    OBVIOUS
  <2>3. QED
    BY <2>1, <2>2 DEF Filename
<1>3. Substr(path, 0, Len(path) - 0) = SubSeq(path, 1, Len(path))
  BY <1>1 DEF Substr
<1>4. SubSeq(path, 1, Len(path)) = path
  BY SubSeqFull
<1>5. ASSUME NEW i \in 1..Len(path), path[i] = "/"
      PROVE  FALSE
  <2>1. i - 1 \in Nat /\ i - 1 < Len(path) /\ (i - 1) + 1 = i
    BY <1>1
  <2>2. i - 1 \in Separators(path)
    BY <1>5, <2>1, SeparatorIs
  <2>3. QED
    BY <2>2, RfindIs
<1>6. QED
  BY <1>2, <1>3, <1>4, <1>5 DEF Parent

\* Otherwise it is what follows the last one, and parent what precedes it.
LEMMA SplitAtLast ==
  ASSUME NEW path \in Seq(Character), NEW at, Rfind(path) = {at}
  PROVE  /\ Filename(path) \in Seq(Character)
         /\ \A i \in 1..Len(Filename(path)) : Filename(path)[i] # "/"
         /\ Parent(path) = {SubSeq(path, 1, at)}
         /\ (SubSeq(path, 1, at) \o <<"/">>) \o Filename(path) = path
<1>1. at \in Separators(path) /\ \A j \in Separators(path) : j <= at
  BY DEF Rfind
<1>2. /\ Len(path) \in Nat /\ at \in Nat /\ at < Len(path) /\ path[at + 1] = "/"
      /\ at \in 0..Len(path) /\ at + 1 \in 0..Len(path) /\ Len(path) \in (at + 1)..Len(path)
  BY <1>1, SeparatorIs, LenProperties
<1>3. Filename(path) = Substr(path, at + 1, Len(path) - (at + 1))
  <2>1. (CHOOSE i \in {at + 1} : TRUE) = at + 1
    OBVIOUS
  <2>2. {i + 1 : i \in Rfind(path)} \union (IF Rfind(path) = {} THEN {0} ELSE {}) = {at + 1}
    OBVIOUS
  <2>3. QED
    BY <2>1, <2>2 DEF Filename
<1>4. PICK name : name = Filename(path)
  OBVIOUS
<1>5. /\ name \in Seq(Character)
      /\ Len(name) = Len(path) - (at + 1)
      /\ \A i \in 1..(Len(path) - (at + 1)) : name[i] = path[at + 1 + i]
  <2>1. PICK from \in 0..Len(path) : from = at + 1
    BY <1>2
  <2>2. PICK to \in from..Len(path) : to = Len(path)
    BY <1>2, <2>1
  <2>3. /\ Substr(path, from, to - from) \in Seq(Character)
        /\ Len(Substr(path, from, to - from)) = to - from
        /\ \A i \in 1..(to - from) : Substr(path, from, to - from)[i] = path[from + i]
    BY PartIs
  <2>4. name = Substr(path, from, to - from)
    BY <1>3, <1>4, <2>1, <2>2
  <2>5. QED
    BY <2>1, <2>2, <2>3, <2>4
<1>6. ASSUME NEW i \in 1..Len(name), name[i] = "/"
      PROVE  FALSE
  <2>1. /\ at + i \in Nat /\ at + i < Len(path) /\ (at + i) + 1 = at + 1 + i
        /\ ~(at + i <= at) /\ i \in 1..(Len(path) - (at + 1))
    BY <1>2, <1>5
  <2>2. path[(at + i) + 1] = "/"
    BY <1>5, <1>6, <2>1
  <2>3. at + i \in Separators(path)
    BY <2>1, <2>2, SeparatorIs
  <2>4. QED
    BY <1>1, <2>1, <2>3
<1>7. PICK up \in Seq(Character) : up = SubSeq(path, 1, at)
  BY <1>2, PrefixIs
<1>8. Len(up) = at /\ \A i \in 1..at : up[i] = path[i]
  BY <1>2, <1>7, PrefixIs
<1>9. Parent(path) = {up}
  <2>1. Substr(path, 0, at) = SubSeq(path, 1, at)
    BY <1>2 DEF Substr
  <2>2. QED
    BY <1>7, <2>1 DEF Parent
<1>10. <<"/">> \in Seq(Character) /\ Len(<<"/">>) = 1 /\ <<"/">>[1] = "/"
  <2>1. "/" \in Character
    BY DEF Character
  <2>2. QED
    BY <2>1
<1>11. /\ up \o <<"/">> \in Seq(Character)
       /\ Len(up \o <<"/">>) = Len(up) + Len(<<"/">>)
       /\ \A i \in 1..(Len(up) + Len(<<"/">>)) : (up \o <<"/">>)[i] =
            IF i <= Len(up) THEN up[i] ELSE <<"/">>[i - Len(up)]
  BY <1>10, ConcatProperties
<1>12. PICK head \in Seq(Character) : head = up \o <<"/">>
  BY <1>11
<1>13. Len(head) = at + 1 /\ \A i \in 1..(at + 1) : head[i] = path[i]
  <2>1. /\ Len(head) = at + 1
        /\ \A i \in 1..(at + 1) : head[i] = IF i <= at THEN up[i] ELSE <<"/">>[i - at]
    BY <1>8, <1>10, <1>11, <1>12
  <2>2. ASSUME NEW i \in 1..(at + 1)
        PROVE  head[i] = path[i]
    <3>1. CASE i <= at
      BY <1>2, <1>8, <2>1, <3>1
    <3>2. CASE ~(i <= at)
      <4>1. i = at + 1 /\ i - at = 1
        BY <1>2, <3>2
      <4>2. QED
        BY <1>2, <1>10, <2>1, <3>2, <4>1
    <3>3. QED
      BY <3>1, <3>2
  <2>3. QED
    BY <2>1, <2>2
<1>14. /\ head \o name \in Seq(Character)
       /\ Len(head \o name) = Len(head) + Len(name)
       /\ \A i \in 1..(Len(head) + Len(name)) : (head \o name)[i] =
            IF i <= Len(head) THEN head[i] ELSE name[i - Len(head)]
  BY <1>5, ConcatProperties
<1>15. PICK whole \in Seq(Character) : whole = head \o name
  BY <1>14
<1>16. Len(whole) = Len(path) /\ \A i \in 1..Len(whole) : whole[i] = path[i]
  <2>1. /\ Len(whole) = Len(path)
        /\ \A i \in 1..Len(path) :
             whole[i] = IF i <= at + 1 THEN head[i] ELSE name[i - (at + 1)]
    <3>1. Len(head) + Len(name) = Len(path)
      BY <1>2, <1>5, <1>13
    <3>2. QED
      BY <1>13, <1>14, <1>15, <3>1
  <2>2. ASSUME NEW i \in 1..Len(path)
        PROVE  whole[i] = path[i]
    <3>1. CASE i <= at + 1
      BY <1>2, <1>13, <2>1, <3>1
    <3>2. CASE ~(i <= at + 1)
      <4>1. i - (at + 1) \in 1..(Len(path) - (at + 1)) /\ at + 1 + (i - (at + 1)) = i
        BY <1>2, <3>2
      <4>2. name[i - (at + 1)] = path[i]
        BY <1>5, <4>1
      <4>3. QED
        BY <2>1, <3>2, <4>2
    <3>3. QED
      BY <3>1, <3>2
  <2>3. QED
    BY <2>1, <2>2
<1>17. whole = path
  BY <1>16, SeqEqual
<1>18. QED
  BY <1>4, <1>5, <1>6, <1>7, <1>9, <1>12, <1>15, <1>17

-----------------------------------------------------------------------------
(***************************************************************************)
(* The steps.                                                              *)
(***************************************************************************)

\* A text that is not malformed has no unsafe character.
LEMMA SafeInput ==
  ASSUME NEW text \in Seq(Character), ~Malformed(text)
  PROVE  Safe(text)
BY LenProperties DEF Malformed, Safe

LEMMA InitInv == Init => IInv
<1> SUFFICES ASSUME Init
             PROVE  IInv
  OBVIOUS
<1>1. <<>> \in Seq(Character) /\ <<>> \in Seq(Seq(Character))
      /\ Len(<<>>) = 0
  BY EmptySeq
<1>2. TypeOK
  BY <1>1 DEF Init, TypeOK
<1>3. Scanned /\ JoinedSoFar /\ Climbed
  BY <1>1 DEF Init, Scanned, JoinedSoFar, Climbed
<1>4. QED
  BY <1>2, <1>3 DEF IInv

LEMMA ParseStep ==
  ASSUME IInv, NEW text \in Texts, Parse(text)
  PROVE  IInv'
<1> USE DEF Parse
<1>1. text \in Seq(Character) /\ Len(text) \in Nat
  BY TextTyped, LenProperties
<1>2. TypeOK'
  BY <1>1 DEF IInv, TypeOK, Scanned
<1>3. Scanned'
  <2>1. pc' = "scan" => Safe(input')
    BY <1>1, SafeInput
  <2>2. pc' # "idle"
    OBVIOUS
  <2>3. QED
    BY <2>1, <2>2 DEF IInv, Scanned
<1>4. JoinedSoFar' /\ Climbed'
  BY DEF IInv, JoinedSoFar, Climbed
<1>5. QED
  BY <1>2, <1>3, <1>4 DEF IInv

\* The scan keeps the components plain, and hands them on to be joined.
LEMMA ScanComponentStep ==
  ASSUME IInv, ScanComponent
  PROVE  IInv'
<1> DEFINE end == Find(input, begin)
           component == Component(input, begin, end)
<1>0. TypeOK /\ Scanned /\ JoinedSoFar /\ Climbed /\ pc = "scan" /\ Safe(input)
  BY DEF IInv, ScanComponent, Scanned
<1>1. /\ component \in Seq(Character)
      /\ \A i \in 1..Len(component) : component[i] # "/" /\ component[i] # "!"
      /\ end # {} => 1 + (CHOOSE i \in end : TRUE) \in 0..Len(input)
  BY <1>0, ComponentIs DEF TypeOK
<1>2. /\ components' = IF component \in Dropped THEN components
                                                ELSE Append(components, component)
      /\ begin' = IF end = {} THEN begin ELSE 1 + CHOOSE i \in end : TRUE
      /\ pc' \in {"failed", "join", "scan"}
      /\ UNCHANGED <<input, joined, value, origin, ancestors>>
  BY DEF ScanComponent, Dropped
<1>3. component \notin Dropped => Plain(component)
  BY <1>1 DEF Plain
<1>4. /\ components' \in Seq(Seq(Character))
      /\ \A n \in 1..Len(components') : Plain(components'[n])
  <2>1. CASE component \in Dropped
    BY <1>0, <1>2, <2>1 DEF TypeOK, Scanned
  <2>2. CASE component \notin Dropped
    <3>1. /\ Append(components, component) \in Seq(Seq(Character))
          /\ Len(Append(components, component)) = Len(components) + 1
          /\ \A i \in 1..Len(components) :
               Append(components, component)[i] = components[i]
          /\ Append(components, component)[Len(components) + 1] = component
      BY <1>0, <1>1, AppendProperties DEF TypeOK
    <3>2. Len(components) \in Nat
      BY <1>0, LenProperties DEF TypeOK
    <3>3. components' = Append(components, component)
      BY <1>2, <2>2
    <3>4. ASSUME NEW n \in 1..Len(components')
          PROVE  Plain(components'[n])
      <4>1. CASE n <= Len(components)
        BY <1>0, <3>1, <3>2, <3>3, <4>1 DEF Scanned
      <4>2. CASE ~(n <= Len(components))
        <5>1. n = Len(components) + 1
          BY <3>1, <3>2, <3>3, <4>2
        <5>2. QED
          BY <1>3, <2>2, <3>1, <3>3, <5>1
      <4>3. QED
        BY <4>1, <4>2
    <3>5. QED
      BY <3>1, <3>3, <3>4
  <2>3. QED
    BY <2>1, <2>2
<1>5. TypeOK'
  <2>1. joined' = 0 /\ 0 \in 0..Len(components')
    BY <1>0, <1>2, <1>4, LenProperties DEF JoinedSoFar
  <2>2. begin' \in 0..Len(input')
    BY <1>0, <1>1, <1>2 DEF TypeOK
  <2>3. QED
    BY <1>0, <1>2, <1>4, <2>1, <2>2 DEF TypeOK
<1>6. Scanned'
  BY <1>0, <1>2, <1>4 DEF Scanned, Safe
<1>7. JoinedSoFar' /\ Climbed'
  BY <1>0, <1>2 DEF JoinedSoFar, Climbed
<1>8. QED
  BY <1>5, <1>6, <1>7 DEF IInv

\* What has been joined is canonical from the first component on.
LEMMA JoinComponentStep ==
  ASSUME IInv, JoinComponent
  PROVE  IInv'
<1>0. TypeOK /\ Scanned /\ JoinedSoFar /\ Climbed /\ pc = "join"
  BY DEF IInv, JoinComponent
<1>1. Len(components) \in Nat /\ joined \in Nat /\ joined + 1 \in 1..Len(components)
  BY <1>0, LenProperties DEF TypeOK, JoinComponent
<1>2. PICK component : component = components[joined + 1]
  OBVIOUS
<1>3. Plain(component) /\ component \in Seq(Character)
  <2>1. Plain(component)
    BY <1>0, <1>1, <1>2 DEF Scanned
  <2>2. QED
    BY <2>1 DEF Plain
<1>4. value' = value \o Separator \o component
  BY <1>2 DEF JoinComponent
<1>5. value' \in Seq(Character) /\ Canonical(value')
  <2>1. CASE joined = 0
    <3>1. value = <<>> /\ Separator = <<>>
      BY <1>0, <2>1 DEF JoinedSoFar, Separator
    <3>2. value' = component
      <4>1. <<>> \in Seq(Character)
        BY EmptySeq
      <4>2. <<>> \o <<>> = <<>>
        BY <4>1, ConcatEmptySeq
      <4>3. <<>> \o component = component
        BY <1>3, ConcatEmptySeq
      <4>4. QED
        BY <1>4, <3>1, <4>2, <4>3
    <3>3. QED
      BY <1>3, <3>2, ComponentCanonical
  <2>2. CASE joined # 0
    <3>1. Canonical(value) /\ value \in Seq(Character) /\ Separator = <<"/">>
      BY <1>0, <2>2 DEF JoinedSoFar, Separator, TypeOK
    <3>2. value' = (value \o <<"/">>) \o component
      BY <1>4, <3>1
    <3>3. QED
      BY <1>3, <3>1, <3>2, JoinCanonical
  <2>3. QED
    BY <2>1, <2>2
<1>6. /\ joined' = joined + 1
      /\ UNCHANGED <<pc, input, begin, components, origin, ancestors>>
  BY DEF JoinComponent
<1>7. TypeOK'
  BY <1>0, <1>1, <1>5, <1>6 DEF TypeOK
<1>8. Scanned'
  BY <1>0, <1>6 DEF Scanned, Safe
<1>9. JoinedSoFar' /\ Climbed'
  BY <1>0, <1>1, <1>5, <1>6 DEF JoinedSoFar, Climbed
<1>10. QED
  BY <1>7, <1>8, <1>9 DEF IInv

\* The path that parse returns has no ancestors yet.
LEMMA EndJoinStep ==
  ASSUME IInv, EndJoin
  PROVE  IInv'
<1>0. /\ TypeOK /\ Scanned /\ JoinedSoFar /\ Climbed /\ pc = "join" /\ joined = Len(components)
      /\ UNCHANGED <<input, begin, components, joined, value, ancestors>>
      /\ \/ pc' = "failed" /\ UNCHANGED origin
         \/ components # <<>> /\ pc' = "parsed" /\ origin' = value
  BY DEF IInv, EndJoin
<1>1. Scanned' /\ JoinedSoFar'
  BY <1>0 DEF Scanned, JoinedSoFar
<1>2. TypeOK'
  BY <1>0 DEF TypeOK
<1>3. Climbed'
  <2>1. CASE pc' = "failed"
    BY <2>1 DEF Climbed
  <2>2. CASE components # <<>> /\ pc' = "parsed" /\ origin' = value
    <3>1. joined # 0
      <4>1. components \in Seq(Seq(Character))
        BY <1>0 DEF TypeOK
      <4>2. Len(components) # 0
        BY <2>2, <4>1, EmptySeq
      <4>3. QED
        BY <1>0, <4>2
    <3>2. Canonical(value) /\ value \in Seq(Character) /\ ancestors = {}
      BY <1>0, <3>1 DEF JoinedSoFar, TypeOK
    <3>3. SubSeq(value, 1, Len(value)) = value /\ Len(value) \in Nat
      BY <3>2, SubSeqFull, LenProperties
    <3>4. {k \in Separators(value) : k >= Len(value)} = {}
      BY <3>2, <3>3, SeparatorIs
    <3>5. AncestorsFrom(value, Len(value)) = {}
      BY <3>4 DEF AncestorsFrom
    <3>6. origin' = value /\ value' = value /\ ancestors' = {} /\ pc' = "parsed"
      BY <1>0, <2>2, <3>2
    <3>7. QED
      BY <3>2, <3>3, <3>5, <3>6 DEF Climbed
  <2>3. QED
    BY <1>0, <2>1, <2>2
<1>4. QED
  BY <1>1, <1>2, <1>3 DEF IInv

\* Replacing a path by its parent adds the parent to the ancestors met, and
\* passes no other.
LEMMA ClimbStep ==
  ASSUME IInv, Climb
  PROVE  IInv'
<1>0. /\ TypeOK /\ Scanned /\ JoinedSoFar /\ Climbed /\ pc \in {"parsed", "climb"}
      /\ UNCHANGED <<input, begin, components, joined, origin>>
  BY DEF IInv, Climb
<1>1. /\ value \in Seq(Character) /\ origin \in Seq(Character)
      /\ Len(value) \in Nat /\ Len(origin) \in Nat /\ Len(value) \in 0..Len(origin)
      /\ Canonical(value) /\ value = SubSeq(origin, 1, Len(value))
      /\ ancestors = AncestorsFrom(origin, Len(value))
  BY <1>0, LenProperties DEF TypeOK, Climbed
<1>2. \A i : i \in Separators(value) <=> i \in Separators(origin) /\ i < Len(value)
  BY <1>1, PrefixSeparators
<1>3. CASE Parent(value) = {} /\ pc' = "top" /\ UNCHANGED <<value, ancestors>>
  <2>1. Rfind(value) = {}
    BY <1>3 DEF Parent
  <2>2. Separators(value) = {}
    BY <1>1, <2>1, RfindIs
  <2>3. TypeOK' /\ Scanned' /\ JoinedSoFar'
    BY <1>0, <1>3 DEF TypeOK, Scanned, JoinedSoFar
  <2>4. Separators(value') = {}
    BY <1>3, <2>2
  <2>5. Climbed'
    BY <1>0, <1>1, <1>3, <2>4 DEF Climbed
  <2>6. QED
    BY <2>3, <2>5 DEF IInv
<1>4. ASSUME NEW up \in Parent(value), pc' = "climb", value' = up,
             ancestors' = ancestors \union {up}
      PROVE  IInv'
  <2>1. PICK at \in Rfind(value) : up = Substr(value, 0, at)
    BY <1>4 DEF Parent
  <2>2. at \in Separators(value) /\ \A j \in Separators(value) : j <= at
    BY <2>1 DEF Rfind
  <2>3. /\ at \in Nat /\ at < Len(value) /\ at \in 0..Len(value) /\ at \in 0..Len(origin)
        /\ at <= Len(origin)
    BY <1>1, <2>2, SeparatorIs
  <2>4. up = SubSeq(value, 1, at)
    BY <2>1, <2>3 DEF Substr
  <2>5. up \in Seq(Character) /\ Len(up) = at
    BY <1>1, <2>3, <2>4, PrefixIs
  <2>6. up = SubSeq(origin, 1, at)
    <3>1. PICK shorter \in Seq(Character) : shorter = SubSeq(origin, 1, Len(value))
      BY <1>1
    <3>2. \A i \in 1..Len(value) : shorter[i] = origin[i]
      BY <1>1, <3>1, PrefixIs
    <3>3. \A i \in 1..at : value[i] = origin[i]
      BY <1>1, <2>3, <3>1, <3>2
    <3>4. 1 \in Nat /\ 1 >= 1 /\ at <= Len(value)
      BY <2>3
    <3>5. SubSeq(value, 1, at) = SubSeq(origin, 1, at)
      BY <1>1, <2>3, <3>3, <3>4, SamePart
    <3>6. QED
      BY <2>4, <3>5
  <2>7. Canonical(up)
    BY <1>1, <2>2, <2>4, ParentCanonical
  <2>8. AncestorsFrom(origin, at) = AncestorsFrom(origin, Len(value)) \union {SubSeq(origin, 1, at)}
    <3>1. at \in Separators(origin) /\ \A j \in Separators(origin) : j < Len(value) => j <= at
      BY <1>2, <2>2
    <3>2. QED
      BY <1>1, <2>3, <3>1, OneMoreAncestor
  <2>9. TypeOK' /\ Scanned' /\ JoinedSoFar'
    BY <1>0, <1>4, <2>5 DEF TypeOK, Scanned, JoinedSoFar
  <2>10. /\ Canonical(value') /\ Len(value') <= Len(origin')
         /\ value' = SubSeq(origin', 1, Len(value'))
         /\ ancestors' = AncestorsFrom(origin', Len(value'))
    BY <1>0, <1>1, <1>4, <2>3, <2>5, <2>6, <2>7, <2>8
  <2>11. Climbed'
    BY <1>4, <2>10 DEF Climbed
  <2>12. QED
    BY <2>9, <2>11 DEF IInv
<1>5. QED
  BY <1>3, <1>4 DEF Climb

LEMMA NextInv == IInv /\ [Next]_pathVars => IInv'
<1> SUFFICES ASSUME IInv, [Next]_pathVars
             PROVE  IInv'
  OBVIOUS
<1>1. CASE UNCHANGED pathVars
  BY <1>1 DEF pathVars, IInv, TypeOK, Scanned, JoinedSoFar, Climbed
<1>2. CASE \E text \in Texts : Parse(text)
  BY <1>2, ParseStep
<1>3. CASE ScanComponent
  BY <1>3, ScanComponentStep
<1>4. CASE JoinComponent
  BY <1>4, JoinComponentStep
<1>5. CASE EndJoin
  BY <1>5, EndJoinStep
<1>6. CASE Climb
  BY <1>6, ClimbStep
<1>7. CASE Stopped
  BY <1>1, <1>7 DEF Stopped
<1>8. QED
  BY <1>1, <1>2, <1>3, <1>4, <1>5, <1>6, <1>7 DEF Next

-----------------------------------------------------------------------------
(***************************************************************************)
(* The components among pieces.                                            *)
(***************************************************************************)

\* What holds at 0, and at each number if at the one before it, holds up to n.
LEMMA UpTo ==
  ASSUME NEW n \in Nat, NEW S, 0 \in S, \A k \in 1..n : k - 1 \in S => k \in S
  PROVE  \A k \in 0..n : k \in S
<1> DEFINE T == {k \in 0..n : k \notin S}
<1>1. SUFFICES ASSUME T # {}
               PROVE  FALSE
  OBVIOUS
<1>2. T \in SUBSET Nat
  OBVIOUS
<1>3. PICK k \in T : \A m \in T : k <= m
  BY <1>1, <1>2, LeastElement
<1>4. k \in 1..n /\ k - 1 \in 0..n /\ k - 1 \notin T
  BY <1>3
<1>5. QED
  BY <1>3, <1>4

\* The recursion of KeptPieces.
KeptUpTo(f, names, n) ==
  f = [k \in 0..n |-> IF k = 0 THEN <<>>
                      ELSE IF Skipped(names[k]) THEN f[k - 1]
                      ELSE Append(f[k - 1], names[k])]

\* Components can be kept of any number of pieces.
LEMMA CanKeep ==
  ASSUME NEW names, NEW n \in Nat
  PROVE  \E f : KeptUpTo(f, names, n)
<1> DEFINE S == {k \in 0..n : \E f : KeptUpTo(f, names, k)}
<1>1. 0 \in S
  <2> DEFINE f == [k \in 0..0 |-> <<>>]
  <2>1. f = [k \in 0..0 |-> IF k = 0 THEN <<>>
                            ELSE IF Skipped(names[k]) THEN f[k - 1]
                            ELSE Append(f[k - 1], names[k])]
    OBVIOUS
  <2> HIDE DEF f
  <2>2. KeptUpTo(f, names, 0)
    BY <2>1 DEF KeptUpTo
  <2>3. QED
    BY <2>2
<1>2. ASSUME NEW m \in 1..n, m - 1 \in S
      PROVE  m \in S
  <2>1. m - 1 \in Nat
    OBVIOUS
  <2>2. PICK f : KeptUpTo(f, names, m - 1)
    BY <1>2
  <2> DEFINE next == IF Skipped(names[m]) THEN f[m - 1] ELSE Append(f[m - 1], names[m])
             g == [k \in 0..m |-> IF k = m THEN next ELSE f[k]]
  <2> HIDE DEF next
  <2>3. g[m] = next /\ \A k \in 0..(m - 1) : g[k] = f[k]
    OBVIOUS
  <2>4. ASSUME NEW k \in 0..m
        PROVE  g[k] = IF k = 0 THEN <<>>
                      ELSE IF Skipped(names[k]) THEN g[k - 1]
                      ELSE Append(g[k - 1], names[k])
    <3>1. CASE k = m
      <4>1. m - 1 \in 0..(m - 1) /\ k # 0
        BY <2>1, <3>1
      <4>2. g[k - 1] = f[m - 1]
        BY <2>3, <3>1, <4>1
      <4>3. QED
        BY <2>3, <3>1, <4>1, <4>2 DEF next
    <3>2. CASE k # m
      <4>1. k \in 0..(m - 1)
        BY <3>2
      <4>2. f[k] = IF k = 0 THEN <<>>
                   ELSE IF Skipped(names[k]) THEN f[k - 1]
                   ELSE Append(f[k - 1], names[k])
        BY <2>2, <4>1 DEF KeptUpTo
      <4>3. k # 0 => k - 1 \in 0..(m - 1)
        BY <4>1
      <4>4. QED
        BY <2>3, <4>1, <4>2, <4>3
    <3>3. QED
      BY <3>1, <3>2
  <2>5. g = [k \in 0..m |-> g[k]]
    OBVIOUS
  <2> HIDE DEF g
  <2>6. g = [k \in 0..m |-> IF k = 0 THEN <<>>
                            ELSE IF Skipped(names[k]) THEN g[k - 1]
                            ELSE Append(g[k - 1], names[k])]
    BY <2>4, <2>5
  <2>7. KeptUpTo(g, names, m)
    BY <2>6 DEF KeptUpTo
  <2>8. QED
    BY <2>7
<1> HIDE DEF S
<1>3. n \in 0..n /\ \A k \in 0..n : k \in S
  BY <1>1, <1>2, UpTo
<1>4. QED
  BY <1>3 DEF S

\* The recursion holds of KeptPieces.
LEMMA KeptIs ==
  ASSUME NEW names, Len(names) \in Nat
  PROVE  /\ KeptPieces(names)[0] = <<>>
         /\ \A k \in 1..Len(names) :
              KeptPieces(names)[k] = IF Skipped(names[k]) THEN KeptPieces(names)[k - 1]
                               ELSE Append(KeptPieces(names)[k - 1], names[k])
<1>1. PICK n \in Nat : n = Len(names)
  OBVIOUS
<1>2. PICK f : KeptUpTo(f, names, n)
  BY CanKeep
<1>3. KeptUpTo(KeptPieces(names), names, n)
  BY <1>1, <1>2 DEF KeptUpTo, KeptPieces
<1>4. PICK j : j = KeptPieces(names)
  OBVIOUS
<1>5. j = [k \in 0..n |-> IF k = 0 THEN <<>>
                          ELSE IF Skipped(names[k]) THEN j[k - 1]
                          ELSE Append(j[k - 1], names[k])]
  BY <1>3, <1>4 DEF KeptUpTo
<1>6. /\ j[0] = <<>>
      /\ \A k \in 1..n : j[k] = IF Skipped(names[k]) THEN j[k - 1]
                                ELSE Append(j[k - 1], names[k])
  <2>1. 0 \in 0..n /\ \A k \in 1..n : k \in 0..n /\ k # 0
    OBVIOUS
  <2>2. \A k \in 0..n : j[k] = IF k = 0 THEN <<>>
                                ELSE IF Skipped(names[k]) THEN j[k - 1]
                                ELSE Append(j[k - 1], names[k])
    BY <1>5, Zenon
  <2>3. QED
    BY <2>1, <2>2
<1>7. QED
  BY <1>1, <1>4, <1>6

\* The components among all pieces.
KeptOf(names) == KeptPieces(names)[Len(names)]

\* One piece more is one component more, or none.
LEMMA KeptAppend ==
  ASSUME NEW N, NEW names \in Seq(N), NEW name \in N
  PROVE  /\ KeptOf(<<>>) = <<>>
         /\ KeptOf(Append(names, name)) = IF Skipped(name) THEN KeptOf(names)
                                          ELSE Append(KeptOf(names), name)
<1>1. PICK more : more = Append(names, name)
  OBVIOUS
<1>2. /\ Len(names) \in Nat /\ Len(more) = Len(names) + 1
      /\ \A i \in 1..Len(names) : more[i] = names[i]
      /\ more[Len(names) + 1] = name
  BY <1>1, AppendProperties, LenProperties
<1>3. PICK n \in Nat : n = Len(names)
  BY <1>2
<1>4. PICK f, g : f = KeptPieces(names) /\ g = KeptPieces(more)
  OBVIOUS
<1>5. /\ f[0] = <<>>
      /\ \A k \in 1..n : f[k] = IF Skipped(names[k]) THEN f[k - 1]
                                ELSE Append(f[k - 1], names[k])
  BY <1>3, <1>4, KeptIs
<1>6. /\ g[0] = <<>>
      /\ \A k \in 1..(n + 1) : g[k] = IF Skipped(more[k]) THEN g[k - 1]
                                      ELSE Append(g[k - 1], more[k])
  <2>1. Len(more) \in Nat /\ Len(more) = n + 1
    BY <1>2, <1>3
  <2>2. QED
    BY <1>4, <2>1, KeptIs
<1> DEFINE S == {k \in 0..n : f[k] = g[k]}
<1>7. 0 \in S
  BY <1>5, <1>6
<1>8. ASSUME NEW k \in 1..n, k - 1 \in S
      PROVE  k \in S
  BY <1>2, <1>3, <1>5, <1>6, <1>8
<1> HIDE DEF S
<1>9. n \in 0..n /\ \A k \in 0..n : k \in S
  BY <1>7, <1>8, UpTo
<1>10. f[n] = g[n]
  BY <1>9 DEF S
<1>11. g[n + 1] = IF Skipped(name) THEN g[n] ELSE Append(g[n], name)
  <2>1. n + 1 \in 1..(n + 1) /\ n + 1 - 1 = n /\ more[n + 1] = name
    BY <1>2, <1>3
  <2>2. QED
    BY <1>6, <2>1
<1>12. KeptOf(<<>>) = <<>>
  <2>1. Len(<<>>) = 0 /\ Len(<<>>) \in Nat
    OBVIOUS
  <2>2. QED
    BY <2>1, KeptIs DEF KeptOf
<1>13. KeptOf(names) = f[n] /\ KeptOf(Append(names, name)) = g[n + 1]
  BY <1>1, <1>2, <1>3, <1>4 DEF KeptOf
<1>14. QED
  BY <1>10, <1>11, <1>12, <1>13

-----------------------------------------------------------------------------
(***************************************************************************)
(* The pieces of a text.                                                   *)
(***************************************************************************)

Splits == [before : Seq(Seq(Character)), last : Seq(Character)]

Start == [before |-> <<>>, last |-> <<>>]

\* A character more.
LEMMA AfterIs ==
  ASSUME NEW s \in Splits, NEW ch \in Character
  PROVE  /\ After(s, ch) \in Splits
         /\ ch = "/" => /\ After(s, ch).before = Append(s.before, s.last)
                        /\ After(s, ch).last = <<>>
         /\ ch # "/" => /\ After(s, ch).before = s.before
                        /\ After(s, ch).last = Append(s.last, ch)
<1>1. s.before \in Seq(Seq(Character)) /\ s.last \in Seq(Character)
  BY DEF Splits
<1>2. /\ Append(s.before, s.last) \in Seq(Seq(Character))
      /\ Append(s.last, ch) \in Seq(Character)
      /\ <<>> \in Seq(Character)
  BY <1>1, AppendProperties, EmptySeq
<1>3. CASE ch = "/"
  BY <1>2, <1>3 DEF After, Splits
<1>4. CASE ch # "/"
  BY <1>1, <1>2, <1>4 DEF After, Splits
<1>5. QED
  BY <1>3, <1>4

\* The recursion of SplitUpTo.
SplitsUpTo(f, text, n) ==
  f = [k \in 0..n |-> IF k = 0 THEN Start ELSE After(f[k - 1], text[k])]

\* A text of any length can be split.
LEMMA CanSplit ==
  ASSUME NEW text, NEW n \in Nat
  PROVE  \E f : SplitsUpTo(f, text, n)
<1> DEFINE S == {k \in 0..n : \E f : SplitsUpTo(f, text, k)}
<1>1. 0 \in S
  <2> DEFINE f == [k \in 0..0 |-> Start]
  <2>1. f = [k \in 0..0 |-> IF k = 0 THEN Start ELSE After(f[k - 1], text[k])]
    OBVIOUS
  <2> HIDE DEF f
  <2>2. SplitsUpTo(f, text, 0)
    BY <2>1 DEF SplitsUpTo
  <2>3. QED
    BY <2>2
<1>2. ASSUME NEW m \in 1..n, m - 1 \in S
      PROVE  m \in S
  <2>1. m - 1 \in Nat
    OBVIOUS
  <2>2. PICK f : SplitsUpTo(f, text, m - 1)
    BY <1>2
  <2> DEFINE next == After(f[m - 1], text[m])
             g == [k \in 0..m |-> IF k = m THEN next ELSE f[k]]
  <2> HIDE DEF next
  <2>3. g[m] = next /\ \A k \in 0..(m - 1) : g[k] = f[k]
    OBVIOUS
  <2>4. ASSUME NEW k \in 0..m
        PROVE  g[k] = IF k = 0 THEN Start ELSE After(g[k - 1], text[k])
    <3>1. CASE k = m
      <4>1. m - 1 \in 0..(m - 1) /\ k # 0
        BY <2>1, <3>1
      <4>2. g[k - 1] = f[m - 1]
        BY <2>3, <3>1, <4>1
      <4>3. QED
        BY <2>3, <3>1, <4>1, <4>2 DEF next
    <3>2. CASE k # m
      <4>1. k \in 0..(m - 1)
        BY <3>2
      <4>2. f[k] = IF k = 0 THEN Start ELSE After(f[k - 1], text[k])
        BY <2>2, <4>1 DEF SplitsUpTo
      <4>3. k # 0 => k - 1 \in 0..(m - 1)
        BY <4>1
      <4>4. QED
        BY <2>3, <4>1, <4>2, <4>3
    <3>3. QED
      BY <3>1, <3>2
  <2>5. g = [k \in 0..m |-> g[k]]
    OBVIOUS
  <2> HIDE DEF g
  <2>6. g = [k \in 0..m |-> IF k = 0 THEN Start ELSE After(g[k - 1], text[k])]
    BY <2>4, <2>5
  <2>7. SplitsUpTo(g, text, m)
    BY <2>6 DEF SplitsUpTo
  <2>8. QED
    BY <2>7
<1> HIDE DEF S
<1>3. n \in 0..n /\ \A k \in 0..n : k \in S
  BY <1>1, <1>2, UpTo
<1>4. QED
  BY <1>3 DEF S

\* Character by character: a separator ends a piece, another character
\* lengthens it.
LEMMA SplitIs ==
  ASSUME NEW text \in Seq(Character)
  PROVE  /\ SplitUpTo(text)[0] = Start
         /\ \A k \in 1..Len(text) :
              SplitUpTo(text)[k] = After(SplitUpTo(text)[k - 1], text[k])
         /\ \A k \in 0..Len(text) : SplitUpTo(text)[k] \in Splits
<1>1. PICK n \in Nat : n = Len(text) /\ \A k \in 1..n : text[k] \in Character
  BY LenProperties, ElementOfSeq
<1>2. PICK f : SplitsUpTo(f, text, n)
  BY CanSplit
<1>3. SplitsUpTo(SplitUpTo(text), text, n)
  BY <1>1, <1>2 DEF SplitsUpTo, SplitUpTo, Start
<1>4. PICK j : j = SplitUpTo(text)
  OBVIOUS
<1>5. j[0] = Start /\ \A k \in 1..n : j[k] = After(j[k - 1], text[k])
  <2>1. 0 \in 0..n /\ \A k \in 1..n : k \in 0..n /\ k # 0
    OBVIOUS
  <2>2. j = [k \in 0..n |-> IF k = 0 THEN Start ELSE After(j[k - 1], text[k])]
    BY <1>3, <1>4 DEF SplitsUpTo
  <2>3. \A k \in 0..n : j[k] = IF k = 0 THEN Start ELSE After(j[k - 1], text[k])
    BY <2>2, Zenon
  <2>4. QED
    BY <2>1, <2>3
<1> DEFINE S == {k \in 0..n : j[k] \in Splits}
<1>6. 0 \in S
  <2>1. Start \in Splits
    BY EmptySeq DEF Start, Splits
  <2>2. QED
    BY <1>5, <2>1
<1>7. ASSUME NEW k \in 1..n, k - 1 \in S
      PROVE  k \in S
  BY <1>1, <1>5, <1>7, AfterIs
<1> HIDE DEF S
<1>8. \A k \in 0..n : k \in S
  BY <1>6, <1>7, UpTo
<1>9. \A k \in 0..n : j[k] \in Splits
  BY <1>8 DEF S
<1>10. QED
  BY <1>1, <1>4, <1>5, <1>9

\* Texts that begin alike are split alike as far.
LEMMA SplitSame ==
  ASSUME NEW text \in Seq(Character), NEW other \in Seq(Character),
         NEW n \in 0..Len(text), n <= Len(other), \A i \in 1..n : text[i] = other[i]
  PROVE  SplitUpTo(text)[n] = SplitUpTo(other)[n]
<1>1. n \in Nat /\ \A k \in 1..n : k \in 1..Len(text) /\ k \in 1..Len(other)
  BY LenProperties
<1>2. PICK f, g : f = SplitUpTo(text) /\ g = SplitUpTo(other)
  OBVIOUS
<1>3. /\ f[0] = Start /\ g[0] = Start
      /\ \A k \in 1..n : f[k] = After(f[k - 1], text[k]) /\ g[k] = After(g[k - 1], other[k])
  BY <1>1, <1>2, SplitIs
<1> DEFINE S == {k \in 0..n : f[k] = g[k]}
<1>4. 0 \in S
  BY <1>1, <1>3
<1>5. ASSUME NEW k \in 1..n, k - 1 \in S
      PROVE  k \in S
  BY <1>3, <1>5
<1> HIDE DEF S
<1>6. \A k \in 0..n : k \in S
  BY <1>1, <1>4, <1>5, UpTo
<1>7. n \in 0..n
  BY <1>1
<1>8. QED
  BY <1>2, <1>6, <1>7 DEF S

\* A part of a text, by its length.
LEMMA CountedPart ==
  ASSUME NEW text \in Seq(Character), NEW from \in 0..Len(text),
         NEW count \in Nat, from + count <= Len(text)
  PROVE  /\ Substr(text, from, count) \in Seq(Character)
         /\ Len(Substr(text, from, count)) = count
         /\ \A i \in 1..count : Substr(text, from, count)[i] = text[from + i]
<1>1. Len(text) \in Nat /\ from \in Nat
  BY LenProperties
<1>2. PICK to \in from..Len(text) : to - from = count
  BY <1>1
<1>3. QED
  BY <1>2, PartIs

\* From the beginning of a piece on, what is read without a separator is the
\* piece.
LEMMA SplitRun ==
  ASSUME NEW text \in Seq(Character), NEW from \in 0..Len(text), NEW to \in from..Len(text),
         SplitUpTo(text)[from].last = <<>>,
         \A i \in (from + 1)..to : text[i] # "/"
  PROVE  /\ SplitUpTo(text)[to].before = SplitUpTo(text)[from].before
         /\ SplitUpTo(text)[to].last = Substr(text, from, to - from)
<1>1. Len(text) \in Nat /\ from \in Nat /\ to \in Nat
  BY LenProperties
<1>2. PICK f : f = SplitUpTo(text)
  OBVIOUS
<1>3. /\ \A k \in 1..Len(text) : f[k] = After(f[k - 1], text[k])
      /\ \A k \in 0..Len(text) : f[k] \in Splits
  BY <1>2, SplitIs
<1> DEFINE S == {k \in 0..(to - from) : /\ f[from + k].before = f[from].before
                                        /\ f[from + k].last = Substr(text, from, k)}
<1>4. 0 \in S
  <2>1. from + 0 = from /\ 0 \in 0..(to - from) /\ from \in from..Len(text) /\ from - from = 0
    BY <1>1
  <2>2. Substr(text, from, 0) \in Seq(Character) /\ Len(Substr(text, from, 0)) = 0
    BY <2>1, PartIs
  <2>3. Substr(text, from, 0) = <<>>
    BY <2>2, EmptySeq
  <2>4. QED
    BY <1>2, <2>1, <2>3
<1>5. ASSUME NEW k \in 1..(to - from), k - 1 \in S
      PROVE  k \in S
  <2>1. /\ from + k \in 1..Len(text) /\ from + k \in (from + 1)..to
        /\ from + k - 1 = from + (k - 1) /\ from + (k - 1) \in 0..Len(text)
        /\ from + k \in from..Len(text) /\ from + (k - 1) \in from..Len(text)
        /\ from + k - from = k /\ from + (k - 1) - from = k - 1
    BY <1>1
  <2>2. PICK s : s = f[from + (k - 1)]
    OBVIOUS
  <2>3. s \in Splits /\ text[from + k] \in Character /\ text[from + k] # "/"
    BY <1>3, <2>1, <2>2, ElementOfSeq
  <2>4. f[from + k] = After(s, text[from + k])
    BY <1>3, <2>1, <2>2
  <2>5. /\ f[from + k].before = s.before
        /\ f[from + k].last = Append(s.last, text[from + k])
    BY <2>3, <2>4, AfterIs
  <2>6. PICK short, long : short = Substr(text, from, k - 1) /\ long = Substr(text, from, k)
    OBVIOUS
  <2>7. /\ short \in Seq(Character) /\ Len(short) = k - 1
        /\ \A i \in 1..(k - 1) : short[i] = text[from + i]
    <3>1. k - 1 \in Nat /\ from + (k - 1) <= Len(text)
      BY <1>1
    <3>2. QED
      BY <2>6, <3>1, CountedPart
  <2>8. /\ long \in Seq(Character) /\ Len(long) = k
        /\ \A i \in 1..k : long[i] = text[from + i]
    <3>1. k \in Nat /\ from + k <= Len(text)
      BY <1>1
    <3>2. QED
      BY <2>6, <3>1, CountedPart
  <2>9. PICK grown : grown = Append(short, text[from + k])
    OBVIOUS
  <2>10. /\ grown \in Seq(Character) /\ Len(grown) = k - 1 + 1
         /\ \A i \in 1..(k - 1) : grown[i] = short[i]
         /\ grown[k - 1 + 1] = text[from + k]
    BY <2>3, <2>7, <2>9, AppendProperties
  <2>11. grown = long
    <3>1. k - 1 + 1 = k /\ \A i \in 1..k : i \in 1..(k - 1) \/ i = k
      OBVIOUS
    <3>2. \A i \in 1..k : grown[i] = long[i]
      BY <2>7, <2>8, <2>10, <3>1
    <3>3. QED
      BY <2>8, <2>10, <3>1, <3>2, SeqEqual
  <2>12. s.before = f[from].before /\ s.last = short
    BY <1>5, <2>2, <2>6
  <2>13. QED
    <3>1. f[from + k].last = long
      BY <2>5, <2>9, <2>11, <2>12
    <3>2. f[from + k].before = f[from].before
      BY <2>5, <2>12
    <3>3. k \in 0..(to - from)
      BY <1>1
    <3>4. QED
      BY <2>6, <3>1, <3>2, <3>3
<1> HIDE DEF S
<1>6. to - from \in Nat /\ to - from \in 0..(to - from) /\ from + (to - from) = to
  BY <1>1
<1>7. \A k \in 0..(to - from) : k \in S
  BY <1>4, <1>5, <1>6, UpTo
<1>8. to - from \in S
  BY <1>6, <1>7
<1>9. QED
  BY <1>2, <1>6, <1>8 DEF S

\* A piece that has ended stays.
LEMMA SplitKeeps ==
  ASSUME NEW text \in Seq(Character), NEW from \in 0..Len(text), NEW to \in from..Len(text),
         NEW i \in 1..Len(SplitUpTo(text)[from].before)
  PROVE  /\ i \in 1..Len(SplitUpTo(text)[to].before)
         /\ SplitUpTo(text)[to].before[i] = SplitUpTo(text)[from].before[i]
<1>1. Len(text) \in Nat /\ from \in Nat /\ to \in Nat
  BY LenProperties
<1>2. PICK f : f = SplitUpTo(text)
  OBVIOUS
<1>3. /\ \A k \in 1..Len(text) : f[k] = After(f[k - 1], text[k])
      /\ \A k \in 0..Len(text) : f[k] \in Splits
  BY <1>2, SplitIs
<1> DEFINE S == {k \in 0..(to - from) : /\ i \in 1..Len(f[from + k].before)
                                        /\ f[from + k].before[i] = f[from].before[i]}
<1>4. 0 \in S
  <2>1. from + 0 = from /\ 0 \in 0..(to - from)
    BY <1>1
  <2>2. QED
    BY <1>2, <2>1
<1>5. ASSUME NEW k \in 1..(to - from), k - 1 \in S
      PROVE  k \in S
  <2>1. /\ from + k \in 1..Len(text)
        /\ from + k - 1 = from + (k - 1) /\ from + (k - 1) \in 0..Len(text)
    BY <1>1
  <2>2. PICK s : s = f[from + (k - 1)]
    OBVIOUS
  <2>3. s \in Splits /\ text[from + k] \in Character
    BY <1>3, <2>1, <2>2, ElementOfSeq
  <2>4. f[from + k] = After(s, text[from + k])
    BY <1>3, <2>1, <2>2
  <2>5. PICK more : more = Append(s.before, s.last)
    OBVIOUS
  <2>6. f[from + k].before = s.before \/ f[from + k].before = more
    <3>1. PICK ch : ch = text[from + k] /\ ch \in Character
      BY <2>3
    <3>2. After(s, ch).before = s.before \/ After(s, ch).before = more
      BY <2>3, <2>5, <3>1, AfterIs
    <3>3. QED
      BY <2>4, <3>1, <3>2
  <2>7. i \in 1..Len(s.before) /\ s.before[i] = f[from].before[i]
    BY <1>5, <2>2
  <2>8. s.before \in Seq(Seq(Character)) /\ s.last \in Seq(Character)
    BY <2>3 DEF Splits
  <2>9. Len(more) = Len(s.before) + 1 /\ more[i] = s.before[i] /\ Len(s.before) \in Nat
    BY <2>5, <2>7, <2>8, AppendProperties, LenProperties
  <2>10. QED
    BY <2>6, <2>7, <2>9
<1> HIDE DEF S
<1>6. to - from \in Nat /\ to - from \in 0..(to - from) /\ from + (to - from) = to
  BY <1>1
<1>7. \A k \in 0..(to - from) : k \in S
  BY <1>4, <1>5, <1>6, UpTo
<1>8. to - from \in S
  BY <1>6, <1>7
<1>9. QED
  BY <1>2, <1>6, <1>8 DEF S

\* The pieces of a text are those that have ended and the last one.
LEMMA PiecesAre ==
  ASSUME NEW text \in Seq(Character), NEW s, s = SplitUpTo(text)[Len(text)]
  PROVE  /\ s.before \in Seq(Seq(Character)) /\ s.last \in Seq(Character)
         /\ Len(s.before) \in Nat
         /\ PiecesOf(text) = Append(s.before, s.last)
         /\ PiecesOf(text) \in Seq(Seq(Character))
         /\ Len(PiecesOf(text)) = Len(s.before) + 1
         /\ DOMAIN PiecesOf(text) = 1..(Len(s.before) + 1)
         /\ \A i \in 1..Len(s.before) : PiecesOf(text)[i] = s.before[i]
         /\ PiecesOf(text)[Len(s.before) + 1] = s.last
<1>1. Len(text) \in 0..Len(text)
  BY LenProperties
<1>2. s \in Splits
  BY <1>1, SplitIs
<1>3. s.before \in Seq(Seq(Character)) /\ s.last \in Seq(Character)
  BY <1>2 DEF Splits
<1>4. PiecesOf(text) = Append(s.before, s.last)
  BY DEF PiecesOf
<1>5. PICK pieces : pieces = Append(s.before, s.last)
  OBVIOUS
<1>6. /\ pieces \in Seq(Seq(Character)) /\ Len(pieces) = Len(s.before) + 1
      /\ \A i \in 1..Len(s.before) : pieces[i] = s.before[i]
      /\ pieces[Len(s.before) + 1] = s.last
  BY <1>3, <1>5, AppendProperties
<1>7. DOMAIN pieces = 1..Len(pieces) /\ Len(s.before) \in Nat
  BY <1>3, <1>6, LenProperties
<1>8. QED
  BY <1>3, <1>4, <1>5, <1>6, <1>7

\* A piece that has ended is one of the pieces of the text.
LEMMA EndedPiece ==
  ASSUME NEW text \in Seq(Character), NEW from \in 0..Len(text),
         NEW i \in 1..Len(SplitUpTo(text)[from].before)
  PROVE  /\ i \in DOMAIN PiecesOf(text)
         /\ PiecesOf(text)[i] = SplitUpTo(text)[from].before[i]
<1>1. PICK s : s = SplitUpTo(text)[Len(text)]
  OBVIOUS
<1>2. Len(text) \in from..Len(text)
  BY LenProperties
<1>3. i \in 1..Len(s.before) /\ s.before[i] = SplitUpTo(text)[from].before[i]
  BY <1>1, <1>2, SplitKeeps
<1>4. /\ Len(s.before) \in Nat
      /\ DOMAIN PiecesOf(text) = 1..(Len(s.before) + 1)
      /\ \A j \in 1..Len(s.before) : PiecesOf(text)[j] = s.before[j]
  BY <1>1, PiecesAre
<1>5. QED
  BY <1>3, <1>4

\* A piece with an unsafe character, and a split with such a piece.
Unsafe(piece) == \E j \in 1..Len(piece) : piece[j] = "!"

Tainted(s) == Unsafe(s.last) \/ \E i \in 1..Len(s.before) : Unsafe(s.before[i])

\* An unsafe character taints the piece it is put into, no other character does.
LEMMA AfterTainted ==
  ASSUME NEW s \in Splits, NEW ch \in Character
  PROVE  Tainted(After(s, ch)) <=> Tainted(s) \/ ch = "!"
<1>1. s.before \in Seq(Seq(Character)) /\ s.last \in Seq(Character)
  BY DEF Splits
<1>2. PICK next : next = After(s, ch)
  OBVIOUS
<1>3. Len(s.before) \in Nat /\ Len(s.last) \in Nat
  BY <1>1, LenProperties
<1>4. CASE ch = "/"
  <2>1. next.before = Append(s.before, s.last) /\ next.last = <<>>
    BY <1>2, <1>4, AfterIs
  <2>2. PICK more : more = Append(s.before, s.last)
    OBVIOUS
  <2>3. /\ Len(more) = Len(s.before) + 1
        /\ \A i \in 1..Len(s.before) : more[i] = s.before[i]
        /\ more[Len(s.before) + 1] = s.last
    BY <1>1, <2>2, AppendProperties
  <2>4. ~Unsafe(<<>>)
    <3>1. Len(<<>>) = 0
      OBVIOUS
    <3>2. QED
      BY <3>1 DEF Unsafe
  <2>5. Tainted(next) <=> \E i \in 1..Len(more) : Unsafe(more[i])
    BY <2>1, <2>2, <2>4 DEF Tainted
  <2>6. (\E i \in 1..Len(more) : Unsafe(more[i]))
          <=> Unsafe(s.last) \/ \E i \in 1..Len(s.before) : Unsafe(s.before[i])
    <3>1. \A i \in 1..Len(more) : i \in 1..Len(s.before) \/ i = Len(s.before) + 1
      BY <1>3, <2>3
    <3>2. \A i \in 1..Len(s.before) : i \in 1..Len(more)
      BY <1>3, <2>3
    <3>3. Len(s.before) + 1 \in 1..Len(more)
      BY <1>3, <2>3
    <3>4. QED
      BY <2>3, <3>1, <3>2, <3>3
  <2>7. ch # "!"
    BY <1>4
  <2>8. QED
    BY <1>2, <2>5, <2>6, <2>7 DEF Tainted
<1>5. CASE ch # "/"
  <2>1. next.before = s.before /\ next.last = Append(s.last, ch)
    BY <1>2, <1>5, AfterIs
  <2>2. PICK longer : longer = Append(s.last, ch)
    OBVIOUS
  <2>3. /\ Len(longer) = Len(s.last) + 1
        /\ \A i \in 1..Len(s.last) : longer[i] = s.last[i]
        /\ longer[Len(s.last) + 1] = ch
    BY <1>1, <2>2, AppendProperties
  <2>4. Unsafe(longer) <=> Unsafe(s.last) \/ ch = "!"
    <3>1. \A i \in 1..Len(longer) : i \in 1..Len(s.last) \/ i = Len(s.last) + 1
      BY <1>3, <2>3
    <3>2. \A i \in 1..Len(s.last) : i \in 1..Len(longer)
      BY <1>3, <2>3
    <3>3. Len(s.last) + 1 \in 1..Len(longer)
      BY <1>3, <2>3
    <3>4. QED
      BY <2>3, <3>1, <3>2, <3>3 DEF Unsafe
  <2>5. QED
    BY <1>2, <2>1, <2>2, <2>4 DEF Tainted
<1>6. QED
  BY <1>4, <1>5

\* Some piece of a text is unsafe exactly when some character is.
LEMMA UnsafeIs ==
  ASSUME NEW text \in Seq(Character)
  PROVE  (\E i \in DOMAIN PiecesOf(text) : Unsafe(PiecesOf(text)[i])) <=> ~Safe(text)
<1>1. PICK n \in Nat : n = Len(text) /\ \A k \in 1..n : text[k] \in Character
  BY LenProperties, ElementOfSeq
<1>2. PICK f : f = SplitUpTo(text)
  OBVIOUS
<1>3. /\ f[0] = Start
      /\ \A k \in 1..n : f[k] = After(f[k - 1], text[k])
      /\ \A k \in 0..n : f[k] \in Splits
  BY <1>1, <1>2, SplitIs
<1> DEFINE S == {k \in 0..n : Tainted(f[k]) <=> \E i \in 1..k : text[i] = "!"}
<1>4. 0 \in S
  <2>1. Len(<<>>) = 0
    OBVIOUS
  <2>2. ~Tainted(Start)
    BY <2>1 DEF Tainted, Unsafe, Start
  <2>3. QED
    BY <1>3, <2>2
<1>5. ASSUME NEW k \in 1..n, k - 1 \in S
      PROVE  k \in S
  <2>1. f[k - 1] \in Splits /\ text[k] \in Character
    BY <1>1, <1>3
  <2>2. Tainted(f[k]) <=> Tainted(f[k - 1]) \/ text[k] = "!"
    BY <1>3, <2>1, AfterTainted
  <2>3. Tainted(f[k - 1]) <=> \E i \in 1..(k - 1) : text[i] = "!"
    BY <1>5
  <2>4. \A i : i \in 1..k <=> i \in 1..(k - 1) \/ i = k
    OBVIOUS
  <2>5. QED
    BY <2>2, <2>3, <2>4
<1> HIDE DEF S
<1>6. \A k \in 0..n : k \in S
  BY <1>4, <1>5, UpTo
<1>7. n \in S
  BY <1>6
<1>8. Tainted(f[n]) <=> ~Safe(text)
  BY <1>1, <1>7 DEF S, Safe
<1>9. PICK s : s = f[n]
  OBVIOUS
<1>10. /\ Len(s.before) \in Nat
       /\ DOMAIN PiecesOf(text) = 1..(Len(s.before) + 1)
       /\ \A i \in 1..Len(s.before) : PiecesOf(text)[i] = s.before[i]
       /\ PiecesOf(text)[Len(s.before) + 1] = s.last
  <2>1. s = SplitUpTo(text)[Len(text)]
    BY <1>1, <1>2, <1>9
  <2>2. QED
    BY <2>1, PiecesAre
<1>11. (\E i \in DOMAIN PiecesOf(text) : Unsafe(PiecesOf(text)[i])) <=> Tainted(s)
  <2>1. \A i \in 1..(Len(s.before) + 1) : i \in 1..Len(s.before) \/ i = Len(s.before) + 1
    BY <1>10
  <2>2. /\ \A i \in 1..Len(s.before) : i \in 1..(Len(s.before) + 1)
        /\ Len(s.before) + 1 \in 1..(Len(s.before) + 1)
    BY <1>10
  <2>3. QED
    BY <1>10, <2>1, <2>2 DEF Tainted
<1>12. QED
  BY <1>8, <1>9, <1>11

\* The first piece, once there is a character.
Opens(s) == \/ Len(s.before) = 0 /\ s.last # <<>>
            \/ Len(s.before) # 0 /\ s.before[1] # <<>>

\* A piece that is not empty does not become so.
LEMMA AfterOpens ==
  ASSUME NEW s \in Splits, NEW ch \in Character, Opens(s)
  PROVE  Opens(After(s, ch))
<1>1. s.before \in Seq(Seq(Character)) /\ s.last \in Seq(Character)
  BY DEF Splits
<1>2. PICK next : next = After(s, ch)
  OBVIOUS
<1>3. Len(s.before) \in Nat
  BY <1>1, LenProperties
<1>4. CASE ch = "/"
  <2>1. next.before = Append(s.before, s.last)
    BY <1>2, <1>4, AfterIs
  <2>2. PICK more : more = Append(s.before, s.last)
    OBVIOUS
  <2>3. /\ Len(more) = Len(s.before) + 1
        /\ \A i \in 1..Len(s.before) : more[i] = s.before[i]
        /\ more[Len(s.before) + 1] = s.last
    BY <1>1, <2>2, AppendProperties
  <2>4. more[1] # <<>> /\ Len(more) # 0
    BY <1>3, <2>3 DEF Opens
  <2>5. QED
    BY <1>2, <2>1, <2>2, <2>4 DEF Opens
<1>5. CASE ch # "/"
  <2>1. next.before = s.before /\ next.last = Append(s.last, ch)
    BY <1>2, <1>5, AfterIs
  <2>2. Append(s.last, ch) # <<>>
    BY <1>1, AppendProperties
  <2>3. QED
    BY <1>2, <2>1, <2>2 DEF Opens
<1>6. QED
  BY <1>4, <1>5

\* The first piece is empty exactly when the text is or begins with a separator.
LEMMA FirstPieceIs ==
  ASSUME NEW text \in Seq(Character)
  PROVE  /\ 1 \in DOMAIN PiecesOf(text)
         /\ PiecesOf(text)[1] = <<>> <=> text = <<>> \/ text[1] = "/"
<1>1. PICK n \in Nat : n = Len(text) /\ \A k \in 1..n : text[k] \in Character
  BY LenProperties, ElementOfSeq
<1>2. PICK f : f = SplitUpTo(text)
  OBVIOUS
<1>3. /\ f[0] = Start
      /\ \A k \in 1..n : f[k] = After(f[k - 1], text[k])
      /\ \A k \in 0..n : f[k] \in Splits
  BY <1>1, <1>2, SplitIs
<1>4. PICK s : s = f[n]
  OBVIOUS
<1>5. /\ Len(s.before) \in Nat
      /\ DOMAIN PiecesOf(text) = 1..(Len(s.before) + 1)
      /\ \A i \in 1..Len(s.before) : PiecesOf(text)[i] = s.before[i]
      /\ PiecesOf(text)[Len(s.before) + 1] = s.last
  <2>1. s = SplitUpTo(text)[Len(text)]
    BY <1>1, <1>2, <1>4
  <2>2. QED
    BY <2>1, PiecesAre
<1>6. 1 \in DOMAIN PiecesOf(text)
  BY <1>5
<1>7. ASSUME Opens(s)
      PROVE  PiecesOf(text)[1] # <<>>
  BY <1>5, <1>7 DEF Opens
<1>8. CASE n = 0
  <2>1. text = <<>> /\ s = Start
    BY <1>1, <1>3, <1>4, <1>8, EmptySeq
  <2>2. Len(<<>>) = 0
    OBVIOUS
  <2>3. Len(s.before) + 1 = 1 /\ s.last = <<>>
    BY <2>1, <2>2 DEF Start
  <2>4. PiecesOf(text)[1] = <<>>
    BY <1>5, <2>3
  <2>5. QED
    BY <1>6, <2>1, <2>4
<1>9. CASE n # 0 /\ text[1] = "/"
  <2>1. Start \in Splits /\ 1 \in 1..n /\ 1 - 1 = 0 /\ 1 \in 0..n
    BY <1>3, <1>9
  <2>2. f[1] = After(Start, "/") /\ "/" \in Character
    BY <1>1, <1>3, <1>9, <2>1
  <2>3. f[1].before = Append(Start.before, Start.last)
    BY <2>1, <2>2, AfterIs
  <2>4. Start.before = <<>> /\ Start.last = <<>> /\ <<>> \in Seq(Seq(Character))
        /\ <<>> \in Seq(Character) /\ Len(<<>>) = 0
    BY EmptySeq DEF Start
  <2>5. PICK more : more = Append(Start.before, Start.last)
    OBVIOUS
  <2>6. Len(more) = 1 /\ more[1] = <<>>
    BY <2>4, <2>5, AppendProperties
  <2>7. 1 \in 1..Len(SplitUpTo(text)[1].before) /\ SplitUpTo(text)[1].before[1] = <<>>
    BY <1>2, <2>3, <2>5, <2>6
  <2>8. PiecesOf(text)[1] = <<>>
    BY <1>1, <2>1, <2>7, EndedPiece
  <2>9. QED
    BY <1>6, <1>9, <2>8
<1>10. CASE n # 0 /\ text[1] # "/"
  <2>1. Start \in Splits /\ 1 \in 1..n /\ 1 - 1 = 0
    BY <1>3, <1>10
  <2>2. f[1] = After(Start, text[1]) /\ text[1] \in Character
    BY <1>1, <1>3, <2>1
  <2>3. f[1].before = Start.before /\ f[1].last = Append(Start.last, text[1])
    BY <1>10, <2>1, <2>2, AfterIs
  <2>4. Start.before = <<>> /\ Start.last \in Seq(Character) /\ Len(<<>>) = 0
    BY EmptySeq DEF Start
  <2>5. Append(Start.last, text[1]) # <<>>
    BY <2>2, <2>4, AppendProperties
  <2>6. Opens(f[1])
    BY <2>3, <2>4, <2>5 DEF Opens
  <2> DEFINE S == {k \in 0..(n - 1) : Opens(f[1 + k])}
  <2>7. 0 \in S
    BY <1>10, <2>6
  <2>8. ASSUME NEW k \in 1..(n - 1), k - 1 \in S
        PROVE  k \in S
    <3>1. 1 + k \in 1..n /\ 1 + k - 1 = 1 + (k - 1) /\ 1 + (k - 1) \in 0..n /\ k \in 0..(n - 1)
      OBVIOUS
    <3>2. f[1 + k] = After(f[1 + (k - 1)], text[1 + k])
      BY <1>3, <3>1
    <3>3. f[1 + (k - 1)] \in Splits /\ text[1 + k] \in Character
      BY <1>1, <1>3, <3>1
    <3>4. Opens(f[1 + (k - 1)])
      BY <2>8
    <3>5. Opens(f[1 + k])
      BY <3>2, <3>3, <3>4, AfterOpens
    <3>6. QED
      BY <3>1, <3>5
  <2> HIDE DEF S
  <2>9. n - 1 \in Nat /\ n - 1 \in 0..(n - 1) /\ 1 + (n - 1) = n
    BY <1>10
  <2>10. \A k \in 0..(n - 1) : k \in S
    BY <2>7, <2>8, <2>9, UpTo
  <2>11. n - 1 \in S
    BY <2>9, <2>10
  <2>12. Opens(s)
    BY <1>4, <2>9, <2>11 DEF S
  <2>13. text # <<>>
    BY <1>1, <1>10
  <2>14. QED
    BY <1>6, <1>7, <1>10, <2>12, <2>13
<1>11. QED
  BY <1>8, <1>9, <1>10

-----------------------------------------------------------------------------
(***************************************************************************)
(* What PackagePath makes of the pieces.                                   *)
(***************************************************************************)

NameSet == {Names[piece] : piece \in Seq(Character)}

\* The names of pieces are a sequence as long as they.
LEMMA NamedIs ==
  ASSUME NEW pieces \in Seq(Seq(Character))
  PROVE  /\ Named(pieces) \in Seq(NameSet)
         /\ Len(Named(pieces)) = Len(pieces)
         /\ DOMAIN Named(pieces) = DOMAIN pieces
         /\ \A i \in 1..Len(pieces) : Named(pieces)[i] = Names[pieces[i]]
<1>1. PICK n \in Nat : n = Len(pieces) /\ DOMAIN pieces = 1..n
  BY LenProperties
<1>2. \A i \in 1..n : pieces[i] \in Seq(Character)
  BY <1>1, ElementOfSeq
<1>3. PICK names : names = [i \in 1..n |-> Names[pieces[i]]]
  OBVIOUS
<1>4. names \in [1..n -> NameSet]
  BY <1>2, <1>3 DEF NameSet
<1>5. names \in Seq(NameSet)
  BY <1>4, SeqDef
<1>6. Len(names) = n /\ DOMAIN names = 1..n
  BY <1>4, <1>5, LenProperties
<1>7. QED
  BY <1>1, <1>3, <1>5, <1>6 DEF Named

\* The name of a piece more.
LEMMA NamedAppend ==
  ASSUME NEW pieces \in Seq(Seq(Character)), NEW piece \in Seq(Character)
  PROVE  Named(Append(pieces, piece)) = Append(Named(pieces), Names[piece])
<1>1. PICK more : more = Append(pieces, piece)
  OBVIOUS
<1>2. /\ more \in Seq(Seq(Character)) /\ Len(more) = Len(pieces) + 1
      /\ \A i \in 1..Len(pieces) : more[i] = pieces[i]
      /\ more[Len(pieces) + 1] = piece
      /\ Len(pieces) \in Nat
  BY <1>1, AppendProperties, LenProperties
<1>3. PICK names : names = Named(pieces)
  OBVIOUS
<1>4. /\ names \in Seq(NameSet) /\ Len(names) = Len(pieces)
      /\ \A i \in 1..Len(pieces) : names[i] = Names[pieces[i]]
  BY <1>3, NamedIs
<1>5. PICK long : long = Named(more)
  OBVIOUS
<1>6. /\ long \in Seq(NameSet) /\ Len(long) = Len(pieces) + 1
      /\ \A i \in 1..(Len(pieces) + 1) : long[i] = Names[more[i]]
  BY <1>2, <1>5, NamedIs
<1>7. Names[piece] \in NameSet
  BY DEF NameSet
<1>8. PICK grown : grown = Append(names, Names[piece])
  OBVIOUS
<1>9. /\ grown \in Seq(NameSet) /\ Len(grown) = Len(pieces) + 1
      /\ \A i \in 1..Len(pieces) : grown[i] = names[i]
      /\ grown[Len(pieces) + 1] = Names[piece]
  BY <1>4, <1>7, <1>8, AppendProperties
<1>10. \A i \in 1..(Len(pieces) + 1) : i \in 1..Len(pieces) \/ i = Len(pieces) + 1
  BY <1>2
<1>11. \A i \in 1..(Len(pieces) + 1) : long[i] = grown[i]
  <2>1. ASSUME NEW i \in 1..Len(pieces)
        PROVE  long[i] = grown[i]
    <3>1. i \in 1..(Len(pieces) + 1) /\ more[i] = pieces[i]
      BY <1>2
    <3>2. long[i] = Names[more[i]] /\ grown[i] = names[i] /\ names[i] = Names[pieces[i]]
      BY <1>4, <1>6, <1>9, <3>1
    <3>3. QED
      BY <3>1, <3>2
  <2>2. long[Len(pieces) + 1] = grown[Len(pieces) + 1]
    <3>1. Len(pieces) + 1 \in 1..(Len(pieces) + 1)
      BY <1>2
    <3>2. long[Len(pieces) + 1] = Names[more[Len(pieces) + 1]]
      BY <1>6, <3>1
    <3>3. QED
      BY <1>2, <1>9, <3>2
  <2>3. QED
    BY <1>10, <2>1, <2>2
<1>12. long = grown
  BY <1>6, <1>9, <1>11, SeqEqual
<1>13. QED
  BY <1>1, <1>3, <1>5, <1>8, <1>12

Traversal == <<".", ".">>

Traverses(text) == \E i \in DOMAIN PiecesOf(text) : PiecesOf(text)[i] = Traversal

\* The name of a piece says what parse asks of it.
LEMMA NameIs ==
  ASSUME NEW text \in Texts, NEW i \in DOMAIN PiecesOf(text)
  PROVE  LET piece == PiecesOf(text)[i]
         IN  /\ Names[piece] = "" <=> piece = <<>>
             /\ Skipped(Names[piece]) <=> piece \in {<<>>, <<".">>}
             /\ Names[piece] = ".." <=> piece = Traversal
             /\ Names[piece] \in LineUnsafe <=> Unsafe(piece)
<1>1. PICK piece : piece = PiecesOf(text)[i]
  OBVIOUS
<1>2. piece \in DOMAIN Names
  BY <1>1, NamesAssumption
<1>3. piece \in Seq(Character)
  <2>1. text \in Seq(Character)
    BY TextTyped
  <2>2. PiecesOf(text) \in Seq(Seq(Character))
    BY <2>1, PiecesAre
  <2>3. QED
    BY <1>1, <2>2, LenProperties, ElementOfSeq
<1>4. DOMAIN piece = 1..Len(piece)
  BY <1>3, LenProperties
<1>5. /\ Names[piece] = "" <=> piece = <<>>
      /\ Names[piece] = "." <=> piece = <<".">>
      /\ Names[piece] = ".." <=> piece = Traversal
      /\ Names[piece] \in LineUnsafe <=> \E j \in DOMAIN piece : piece[j] = "!"
  BY <1>2, NamesAssumption DEF Traversal
<1>6. QED
  BY <1>1, <1>4, <1>5 DEF Skipped, Unsafe

\* parse refuses a malformed text, one that leads upwards, and one without a
\* component.
LEMMA ParsePathIs ==
  ASSUME NEW text \in Texts
  PROVE  LET found == KeptOf(Named(PiecesOf(text)))
         IN  ParsePath(Named(PiecesOf(text))) =
               IF Malformed(text) \/ Traverses(text) \/ found = <<>>
                 THEN Fail("path_error") ELSE Ok(found)
<1>1. text \in Seq(Character)
  BY TextTyped
<1>2. PICK pieces : pieces = PiecesOf(text)
  OBVIOUS
<1>3. pieces \in Seq(Seq(Character))
  BY <1>1, <1>2, PiecesAre
<1>4. PICK names : names = Named(pieces)
  OBVIOUS
<1>5. /\ DOMAIN names = DOMAIN pieces /\ DOMAIN pieces = 1..Len(pieces)
      /\ \A i \in DOMAIN pieces : names[i] = Names[pieces[i]]
  BY <1>3, <1>4, NamedIs, LenProperties
<1>6. names[1] = "" <=> text = <<>> \/ text[1] = "/"
  <2>1. 1 \in DOMAIN pieces /\ (pieces[1] = <<>> <=> text = <<>> \/ text[1] = "/")
    BY <1>1, <1>2, FirstPieceIs
  <2>2. names[1] = "" <=> pieces[1] = <<>>
    <3>1. names[1] = Names[pieces[1]]
      BY <1>5, <2>1
    <3>2. Names[pieces[1]] = "" <=> pieces[1] = <<>>
      BY <1>2, <2>1, NameIs
    <3>3. QED
      BY <3>1, <3>2
  <2>3. QED
    BY <2>1, <2>2
<1>7. (\E i \in DOMAIN names : names[i] \in LineUnsafe \union {".."})
        <=> ~Safe(text) \/ Traverses(text)
  <2>1. \A i \in DOMAIN pieces : names[i] \in LineUnsafe \union {".."}
                                   <=> Unsafe(pieces[i]) \/ pieces[i] = Traversal
    BY <1>2, <1>5, NameIs
  <2>2. (\E i \in DOMAIN pieces : Unsafe(pieces[i])) <=> ~Safe(text)
    BY <1>1, <1>2, UnsafeIs
  <2>3. Traverses(text) <=> \E i \in DOMAIN pieces : pieces[i] = Traversal
    BY <1>2 DEF Traverses
  <2>4. QED
    BY <1>5, <2>1, <2>2, <2>3
<1>8. Malformed(text) <=> text = <<>> \/ text[1] = "/" \/ ~Safe(text)
  <2>1. DOMAIN text = 1..Len(text) /\ Len(text) \in Nat
    BY <1>1, LenProperties
  <2>2. text # <<>> => 1 \in DOMAIN text
    BY <1>1, <2>1, EmptySeq
  <2>3. QED
    BY <2>1, <2>2 DEF Malformed, Safe
<1>9. PICK kept : kept = KeptOf(names)
  OBVIOUS
<1>10. ParsePath(names) =
         IF \/ names[1] = ""
            \/ \E i \in DOMAIN names : names[i] \in LineUnsafe \union {".."}
            \/ kept = <<>>
           THEN Fail("path_error") ELSE Ok(kept)
  BY <1>9 DEF ParsePath, KeptOf
<1>11. QED
  BY <1>2, <1>4, <1>6, <1>7, <1>8, <1>9, <1>10

\* Where a component is read, a piece ends.
LEMMA ScannedPiece ==
  ASSUME NEW text \in Seq(Character), NEW from \in 0..Len(text),
         SplitUpTo(text)[from].last = <<>>
  PROVE  LET end   == Find(text, from)
             piece == Component(text, from, end)
             split == SplitUpTo(text)[from]
         IN  /\ piece \in Seq(Character)
             /\ \/ /\ end = {}
                   /\ SplitUpTo(text)[Len(text)].before = split.before
                   /\ SplitUpTo(text)[Len(text)].last = piece
                \/ \E i \in Nat :
                     /\ end = {i} /\ i + 1 \in 0..Len(text)
                     /\ SplitUpTo(text)[i + 1].before = Append(split.before, piece)
                     /\ SplitUpTo(text)[i + 1].last = <<>>
<1> DEFINE end == Find(text, from)
           piece == Component(text, from, end)
<1>1. Len(text) \in Nat /\ from \in Nat
  BY LenProperties
<1>2. PICK f : f = SplitUpTo(text)
  OBVIOUS
<1>3. /\ \A k \in 1..Len(text) : f[k] = After(f[k - 1], text[k])
      /\ \A k \in 0..Len(text) : f[k] \in Splits
  BY <1>2, SplitIs
<1>4. CASE end = {} /\ \A j \in Separators(text) : j < from
  <2>1. ASSUME NEW i \in (from + 1)..Len(text)
        PROVE  text[i] # "/"
    <3>1. i - 1 \in Nat /\ i - 1 < Len(text) /\ i - 1 + 1 = i /\ ~(i - 1 < from)
      BY <1>1
    <3>2. i - 1 \notin Separators(text)
      BY <1>4, <3>1
    <3>3. QED
      BY <3>1, <3>2, SeparatorIs
  <2>2. Len(text) \in from..Len(text)
    BY <1>1
  <2>3. /\ f[Len(text)].before = f[from].before
        /\ f[Len(text)].last = Substr(text, from, Len(text) - from)
    BY <1>2, <2>1, <2>2, SplitRun
  <2>4. piece = Substr(text, from, Len(text) - from)
    BY <1>4 DEF Component
  <2>5. piece \in Seq(Character)
    BY <2>2, <2>4, PartIs
  <2>6. QED
    BY <1>2, <1>4, <2>3, <2>4, <2>5
<1>5. CASE \E i \in Separators(text) :
             /\ end = {i}
             /\ i >= from
             /\ \A j \in Separators(text) : j >= from => i <= j
  <2>1. PICK i \in Separators(text) : /\ end = {i}
                                      /\ i >= from
                                      /\ \A j \in Separators(text) : j >= from => i <= j
    BY <1>5
  <2>2. /\ i \in Nat /\ i < Len(text) /\ text[i + 1] = "/"
        /\ i \in from..Len(text) /\ i + 1 \in 1..Len(text) /\ i + 1 - 1 = i
        /\ i \in 0..Len(text)
    BY <1>1, <2>1, SeparatorIs
  <2>3. ASSUME NEW k \in (from + 1)..i
        PROVE  text[k] # "/"
    <3>1. /\ k - 1 \in Nat /\ k - 1 < Len(text) /\ k - 1 + 1 = k
          /\ k - 1 >= from /\ ~(i <= k - 1)
      BY <1>1, <2>2
    <3>2. k - 1 \notin Separators(text)
      BY <2>1, <3>1
    <3>3. QED
      BY <3>1, <3>2, SeparatorIs
  <2>4. /\ f[i].before = f[from].before
        /\ f[i].last = Substr(text, from, i - from)
    BY <1>2, <2>2, <2>3, SplitRun
  <2>5. piece = Substr(text, from, i - from)
    <3>1. end # {} /\ (CHOOSE k \in end : TRUE) = i
      BY <2>1
    <3>2. QED
      BY <3>1 DEF Component
  <2>6. piece \in Seq(Character)
    BY <2>2, <2>5, PartIs
  <2>7. f[i] \in Splits /\ f[i + 1] = After(f[i], text[i + 1]) /\ text[i + 1] \in Character
    BY <1>3, <2>2, ElementOfSeq
  <2>8. f[i + 1].before = Append(f[i].before, f[i].last) /\ f[i + 1].last = <<>>
    <3>1. PICK s \in Splits, ch \in Character : s = f[i] /\ ch = text[i + 1]
      BY <2>7
    <3>2. ch = "/" /\ f[i + 1] = After(s, ch)
      BY <2>2, <2>7, <3>1
    <3>3. After(s, ch).before = Append(s.before, s.last) /\ After(s, ch).last = <<>>
      BY <3>2, AfterIs
    <3>4. QED
      BY <3>1, <3>2, <3>3
  <2>9. /\ end = {i} /\ i + 1 \in 0..Len(text)
        /\ f[i + 1].before = Append(f[from].before, piece)
        /\ f[i + 1].last = <<>>
    BY <1>1, <2>1, <2>2, <2>4, <2>5, <2>8
  <2>10. QED
    BY <1>2, <2>2, <2>6, <2>9
<1>6. QED
  BY <1>1, <1>4, <1>5, FindIs

\* A text without a separator is one piece.
LEMMA PieceOfOne ==
  ASSUME NEW text \in Seq(Character), \A i \in 1..Len(text) : text[i] # "/"
  PROVE  PiecesOf(text) = <<text>>
<1>1. Len(text) \in Nat /\ 0 \in 0..Len(text) /\ Len(text) \in 0..Len(text)
  BY LenProperties
<1>2. SplitUpTo(text)[0] = Start /\ Start.last = <<>> /\ Start.before = <<>>
  BY SplitIs DEF Start
<1>3. PICK s : s = SplitUpTo(text)[Len(text)]
  OBVIOUS
<1>4. s.before = <<>> /\ s.last = Substr(text, 0, Len(text) - 0)
  <2>1. \A i \in (0 + 1)..Len(text) : text[i] # "/"
    BY <1>1
  <2>2. QED
    BY <1>1, <1>2, <1>3, <2>1, SplitRun
<1>5. Substr(text, 0, Len(text) - 0) = text
  <2>1. Len(text) - 0 = Len(text) /\ 0 + 1 = 1 /\ 0 + Len(text) = Len(text)
    BY <1>1
  <2>2. SubSeq(text, 1, Len(text)) = text
    BY SubSeqFull
  <2>3. QED
    BY <2>1, <2>2 DEF Substr
<1>6. PiecesOf(text) = Append(<<>>, text)
  BY <1>3, <1>4, <1>5, PiecesAre
<1>7. QED
  BY <1>6

\* A separator and what follows it are a piece more.
LEMMA PieceMore ==
  ASSUME NEW path \in Seq(Character), NEW component \in Seq(Character),
         "/" \in Character, \A i \in 1..Len(component) : component[i] # "/"
  PROVE  PiecesOf((path \o <<"/">>) \o component) = Append(PiecesOf(path), component)
<1>1. PICK text : text = (path \o <<"/">>) \o component
  OBVIOUS
<1>2. PICK front : front = path \o <<"/">>
  OBVIOUS
<1>3. PICK m \in Nat, n \in Nat : m = Len(path) /\ n = Len(component)
  BY LenProperties
<1>4. <<"/">> \in Seq(Character) /\ Len(<<"/">>) = 1 /\ <<"/">>[1] = "/"
  OBVIOUS
<1>5. /\ front \in Seq(Character) /\ Len(front) = m + 1
      /\ \A i \in 1..m : front[i] = path[i]
      /\ front[m + 1] = "/"
  <2>1. /\ front \in Seq(Character) /\ Len(front) = Len(path) + Len(<<"/">>)
        /\ \A i \in 1..Len(front) : front[i] = IF i <= Len(path) THEN path[i]
                                               ELSE <<"/">>[i - Len(path)]
    BY <1>2, <1>4, ConcatProperties
  <2>2. \A i \in 1..m : i \in 1..(m + 1) /\ i <= m
    OBVIOUS
  <2>3. m + 1 \in 1..(m + 1) /\ ~(m + 1 <= m) /\ m + 1 - m = 1
    OBVIOUS
  <2>4. QED
    BY <1>3, <1>4, <2>1, <2>2, <2>3
<1>6. /\ text \in Seq(Character) /\ Len(text) = m + 1 + n
      /\ \A i \in 1..m : text[i] = path[i]
      /\ text[m + 1] = "/"
      /\ \A i \in 1..n : text[m + 1 + i] = component[i]
  <2>1. /\ text \in Seq(Character) /\ Len(text) = Len(front) + Len(component)
        /\ \A i \in 1..Len(text) : text[i] = IF i <= Len(front) THEN front[i]
                                             ELSE component[i - Len(front)]
    BY <1>1, <1>2, <1>5, ConcatProperties
  <2>2. Len(text) = m + 1 + n /\ \A i \in 1..(m + 1) : text[i] = front[i]
    <3>1. Len(text) = m + 1 + n
      BY <1>3, <1>5, <2>1
    <3>2. \A i \in 1..(m + 1) : i \in 1..Len(text) /\ i <= Len(front)
      BY <1>5, <3>1
    <3>3. QED
      BY <2>1, <3>1, <3>2
  <2>3. ASSUME NEW i \in 1..n
        PROVE  text[m + 1 + i] = component[i]
    <3>1. m + 1 + i \in 1..(m + 1 + n) /\ ~(m + 1 + i <= m + 1) /\ m + 1 + i - (m + 1) = i
      OBVIOUS
    <3>2. QED
      BY <1>5, <2>1, <2>2, <3>1
  <2>4. \A i \in 1..m : i \in 1..(m + 1)
    OBVIOUS
  <2>5. m + 1 \in 1..(m + 1)
    OBVIOUS
  <2>6. QED
    BY <1>5, <2>1, <2>2, <2>3, <2>4, <2>5
<1>7. PICK f : f = SplitUpTo(text)
  OBVIOUS
<1>8. PICK s : s = SplitUpTo(path)[m]
  OBVIOUS
<1>9. s.before \in Seq(Seq(Character)) /\ s.last \in Seq(Character)
      /\ PiecesOf(path) = Append(s.before, s.last)
  BY <1>3, <1>8, PiecesAre
<1>10. f[m] = s
  <2>1. m \in 0..Len(path) /\ m <= Len(text) /\ \A i \in 1..m : path[i] = text[i]
    BY <1>3, <1>6
  <2>2. QED
    BY <1>6, <1>7, <1>8, <2>1, SplitSame
<1>11. f[m + 1].before = Append(s.before, s.last) /\ f[m + 1].last = <<>>
  <2>1. m + 1 \in 1..Len(text) /\ m + 1 - 1 = m /\ m \in 0..Len(text)
    BY <1>6
  <2>2. /\ \A k \in 1..Len(text) : f[k] = After(f[k - 1], text[k])
        /\ \A k \in 0..Len(text) : f[k] \in Splits
    BY <1>6, <1>7, SplitIs
  <2>3. f[m + 1] = After(f[m], text[m + 1]) /\ f[m] \in Splits
    BY <2>1, <2>2
  <2>4. f[m + 1] = After(s, "/") /\ s \in Splits
    BY <1>6, <1>10, <2>3
  <2>5. QED
    BY <2>4, AfterIs
<1>12. /\ f[Len(text)].before = f[m + 1].before
       /\ f[Len(text)].last = Substr(text, m + 1, Len(text) - (m + 1))
  <2>1. m + 1 \in 0..Len(text) /\ Len(text) \in (m + 1)..Len(text)
    BY <1>6
  <2>2. ASSUME NEW i \in (m + 1 + 1)..Len(text)
        PROVE  text[i] # "/"
    <3>1. PICK k \in 1..n : i = m + 1 + k
      BY <1>6
    <3>2. QED
      BY <1>3, <1>6, <3>1
  <2>3. QED
    BY <1>6, <1>7, <1>11, <2>1, <2>2, SplitRun
<1>13. Substr(text, m + 1, Len(text) - (m + 1)) = component
  <2>1. PICK part : part = Substr(text, m + 1, n)
    OBVIOUS
  <2>2. m + 1 \in 0..Len(text) /\ m + 1 + n <= Len(text) /\ Len(text) - (m + 1) = n
    BY <1>6
  <2>3. /\ part \in Seq(Character) /\ Len(part) = n
        /\ \A i \in 1..n : part[i] = text[m + 1 + i]
    BY <1>6, <2>1, <2>2, CountedPart
  <2>4. \A i \in 1..n : part[i] = component[i]
    BY <1>6, <2>3
  <2>5. part = component
    BY <1>3, <2>3, <2>4, SeqEqual
  <2>6. QED
    BY <2>1, <2>2, <2>5
<1>14. PiecesOf(text) = Append(f[Len(text)].before, f[Len(text)].last)
  BY <1>6, <1>7, PiecesAre
<1>15. QED
  BY <1>1, <1>9, <1>11, <1>12, <1>13, <1>14

\* The first components, one by one.
LEMMA FirstComponents ==
  ASSUME NEW S, NEW list \in Seq(S), NEW n \in Nat, n < Len(list)
  PROVE  /\ n = 0 => SubSeq(list, 1, n + 1) = <<list[1]>>
         /\ SubSeq(list, 1, n + 1) = Append(SubSeq(list, 1, n), list[n + 1])
<1>1. Len(list) \in Nat /\ n + 1 \in 1..Len(list)
  BY LenProperties
<1>2. PICK short, long : short = SubSeq(list, 1, n) /\ long = SubSeq(list, 1, n + 1)
  OBVIOUS
<1>3. \A i \in 1..(n + 1) : i \in 1..Len(list) /\ list[i] \in S
  BY <1>1, ElementOfSeq
<1>4. /\ short \in Seq(S) /\ Len(short) = n
      /\ \A i \in 1..n : short[i] = list[i]
  <2>1. \A i \in 1..n : list[i] \in S
    BY <1>3
  <2>2. /\ short \in Seq(S)
        /\ Len(short) = IF 1 <= n THEN n - 1 + 1 ELSE 0
        /\ \A i \in 1..(n - 1 + 1) : short[i] = list[1 + i - 1]
    BY <1>2, <2>1, SubSeqProperties
  <2>3. n - 1 + 1 = n /\ \A i \in 1..n : 1 + i - 1 = i
    OBVIOUS
  <2>4. QED
    BY <2>2, <2>3
<1>5. /\ long \in Seq(S) /\ Len(long) = n + 1
      /\ \A i \in 1..(n + 1) : long[i] = list[i]
  <2>1. /\ long \in Seq(S)
        /\ Len(long) = IF 1 <= n + 1 THEN n + 1 - 1 + 1 ELSE 0
        /\ \A i \in 1..(n + 1 - 1 + 1) : long[i] = list[1 + i - 1]
    BY <1>2, <1>3, SubSeqProperties
  <2>2. n + 1 - 1 + 1 = n + 1 /\ 1 <= n + 1 /\ \A i \in 1..(n + 1) : 1 + i - 1 = i
    OBVIOUS
  <2>3. QED
    BY <2>1, <2>2
<1>6. PICK grown : grown = Append(short, list[n + 1])
  OBVIOUS
<1>7. /\ grown \in Seq(S) /\ Len(grown) = n + 1
      /\ \A i \in 1..n : grown[i] = short[i]
      /\ grown[n + 1] = list[n + 1]
  <2>1. n + 1 \in 1..(n + 1)
    OBVIOUS
  <2>2. list[n + 1] \in S
    BY <1>3, <2>1
  <2>3. QED
    BY <1>4, <1>6, <2>2, AppendProperties
<1>8. grown = long
  <2>1. \A i \in 1..(n + 1) : i \in 1..n \/ i = n + 1
    OBVIOUS
  <2>2. \A i \in 1..(n + 1) : grown[i] = long[i]
    BY <1>4, <1>5, <1>7, <2>1
  <2>3. QED
    BY <1>5, <1>7, <2>2, SeqEqual
<1>9. n = 0 => long = <<list[1]>>
  <2>1. SUFFICES ASSUME n = 0
                 PROVE  long = <<list[1]>>
    OBVIOUS
  <2>2. short = <<>>
    BY <1>4, <2>1, EmptySeq
  <2>3. long = Append(<<>>, list[n + 1])
    BY <1>6, <1>8, <2>2
  <2>4. n + 1 = 1
    BY <2>1
  <2>5. QED
    BY <2>3, <2>4
<1>10. QED
  BY <1>2, <1>6, <1>8, <1>9

-----------------------------------------------------------------------------
(***************************************************************************)
(* The scan and the definition on pieces.                                  *)
(***************************************************************************)

\* The pieces that have been scanned make the components that have been found,
\* and what has been joined has these components as pieces.
PiecesFit ==
  /\ pc = "idle" => components = <<>>
  /\ pc \in {"scan", "join"} => input \in Texts /\ ~Malformed(input)
  /\ pc = "scan" =>
       /\ SplitUpTo(input)[begin].last = <<>>
       /\ \A i \in 1..Len(SplitUpTo(input)[begin].before) :
            SplitUpTo(input)[begin].before[i] # Traversal
       /\ KeptOf(Named(SplitUpTo(input)[begin].before)) = Named(components)
  /\ pc = "join" =>
       /\ ~Traverses(input)
       /\ KeptOf(Named(PiecesOf(input))) = Named(components)
       /\ joined # 0 => PiecesOf(value) = SubSeq(components, 1, joined)
  /\ ScanAgreesWithPieces

\* No piece has no name.
LEMMA NamedNone ==
  /\ Named(<<>>) = <<>>
  /\ KeptOf(<<>>) = <<>>
<1>1. <<>> \in Seq(Seq(Character)) /\ <<>> \in Seq(Character) /\ Len(<<>>) = 0
  BY EmptySeq
<1>2. PICK names : names = Named(<<>>)
  OBVIOUS
<1>3. names \in Seq(NameSet) /\ Len(names) = 0
  BY <1>1, <1>2, NamedIs
<1>4. names = <<>>
  BY <1>3, EmptySeq
<1>5. Names[<<>>] \in NameSet /\ <<>> \in Seq(NameSet)
  BY <1>1, EmptySeq DEF NameSet
<1>6. QED
  BY <1>2, <1>4, <1>5, KeptAppend

\* A text that parse refuses at once is refused by the definition.
LEMMA ParseFits ==
  ASSUME IInv, PiecesFit, NEW text \in Texts, Parse(text)
  PROVE  PiecesFit'
<1>1. /\ pc = "idle" /\ input' = text /\ components' = components /\ begin' = begin
      /\ \/ Malformed(text) /\ pc' = "failed" /\ error' = {"path_error"}
         \/ ~Malformed(text) /\ pc' = "scan"
  BY DEF Parse
<1>2. components = <<>> /\ begin = 0 /\ text \in Seq(Character)
  BY <1>1, TextTyped DEF PiecesFit, IInv, Scanned
<1>3. CASE Malformed(text) /\ pc' = "failed" /\ error' = {"path_error"}
  <2>1. ParsePath(Named(PiecesOf(text))) = Fail("path_error")
    BY <1>3, ParsePathIs
  <2>2. ParsePath(Named(PiecesOf(text))).error = {"path_error"}
    BY <2>1 DEF Fail
  <2>3. ScanAgreesWithPieces'
    BY <1>1, <1>3, <2>2 DEF ScanAgreesWithPieces
  <2>4. QED
    BY <1>3, <2>3 DEF PiecesFit
<1>4. CASE ~Malformed(text) /\ pc' = "scan"
  <2>1. SplitUpTo(text)[0].last = <<>> /\ SplitUpTo(text)[0].before = <<>>
    BY <1>2, SplitIs DEF Start
  <2>2. Len(<<>>) = 0
    OBVIOUS
  <2>3. KeptOf(Named(<<>>)) = Named(<<>>)
    BY NamedNone
  <2>4. ScanAgreesWithPieces'
    BY <1>4 DEF ScanAgreesWithPieces
  <2>5. /\ input' \in Texts /\ ~Malformed(input')
        /\ SplitUpTo(input')[begin'].last = <<>>
        /\ \A i \in 1..Len(SplitUpTo(input')[begin'].before) :
             SplitUpTo(input')[begin'].before[i] # Traversal
        /\ KeptOf(Named(SplitUpTo(input')[begin'].before)) = Named(components')
    BY <1>1, <1>2, <1>4, <2>1, <2>2, <2>3
  <2>6. QED
    BY <1>4, <2>4, <2>5 DEF PiecesFit
<1>5. QED
  BY <1>1, <1>3, <1>4

\* The component that is read is the next piece, and becomes a component or not
\* as the definition says.
LEMMA ScanFits ==
  ASSUME IInv, PiecesFit, ScanComponent
  PROVE  PiecesFit'
<1> DEFINE end == Find(input, begin)
           piece == Component(input, begin, end)
           before == SplitUpTo(input)[begin].before
<1>1. /\ pc = "scan" /\ joined = 0 /\ input \in Texts /\ ~Malformed(input)
      /\ input \in Seq(Character) /\ begin \in 0..Len(input)
      /\ components \in Seq(Seq(Character))
  BY DEF ScanComponent, IInv, TypeOK, JoinedSoFar, PiecesFit
<1>2. /\ SplitUpTo(input)[begin].last = <<>>
      /\ \A i \in 1..Len(before) : before[i] # Traversal
      /\ KeptOf(Named(before)) = Named(components)
  BY <1>1 DEF PiecesFit
<1>3. /\ components' = IF piece \in {<<>>, <<".">>, Traversal} THEN components
                                                               ELSE Append(components, piece)
      /\ begin' = IF end = {} THEN begin ELSE 1 + CHOOSE i \in end : TRUE
      /\ \/ piece = Traversal /\ pc' = "failed" /\ error' = {"path_error"}
         \/ piece # Traversal /\ pc' = IF end = {} THEN "join" ELSE "scan"
      /\ UNCHANGED <<input, joined, value>>
  BY DEF ScanComponent, Traversal
<1>4. before \in Seq(Seq(Character)) /\ Len(before) \in Nat
  <2>1. SplitUpTo(input)[begin] \in Splits
    BY <1>1, SplitIs
  <2>2. QED
    BY <2>1, LenProperties DEF Splits
<1>5. /\ piece \in Seq(Character)
      /\ \/ /\ end = {}
            /\ SplitUpTo(input)[Len(input)].before = before
            /\ SplitUpTo(input)[Len(input)].last = piece
         \/ \E i \in Nat :
              /\ end = {i} /\ i + 1 \in 0..Len(input)
              /\ SplitUpTo(input)[i + 1].before = Append(before, piece)
              /\ SplitUpTo(input)[i + 1].last = <<>>
  BY <1>1, <1>2, ScannedPiece
<1> HIDE DEF end, piece, before
<1>6. PICK more : more = Append(before, piece)
  OBVIOUS
<1>7. /\ more \in Seq(Seq(Character)) /\ Len(more) = Len(before) + 1
      /\ \A i \in 1..Len(before) : more[i] = before[i]
      /\ more[Len(before) + 1] = piece
  BY <1>4, <1>5, <1>6, AppendProperties
\* The piece is one of the text.
<1>8. /\ Len(before) + 1 \in DOMAIN PiecesOf(input)
      /\ PiecesOf(input)[Len(before) + 1] = piece
  <2>1. CASE /\ end = {}
             /\ SplitUpTo(input)[Len(input)].before = before
             /\ SplitUpTo(input)[Len(input)].last = piece
    <3>1. PICK s : s = SplitUpTo(input)[Len(input)]
      OBVIOUS
    <3>2. /\ DOMAIN PiecesOf(input) = 1..(Len(s.before) + 1)
          /\ PiecesOf(input)[Len(s.before) + 1] = s.last
      BY <1>1, <3>1, PiecesAre
    <3>3. QED
      BY <1>4, <2>1, <3>1, <3>2
  <2>2. ASSUME NEW i \in Nat, i + 1 \in 0..Len(input),
               SplitUpTo(input)[i + 1].before = Append(before, piece)
        PROVE  /\ Len(before) + 1 \in DOMAIN PiecesOf(input)
               /\ PiecesOf(input)[Len(before) + 1] = piece
    <3>1. Len(before) + 1 \in 1..Len(SplitUpTo(input)[i + 1].before)
      BY <1>4, <1>6, <1>7, <2>2
    <3>2. SplitUpTo(input)[i + 1].before[Len(before) + 1] = piece
      BY <1>6, <1>7, <2>2
    <3>3. QED
      BY <1>1, <2>2, <3>1, <3>2, EndedPiece
  <2>3. QED
    BY <1>5, <2>1, <2>2
<1>9. CASE piece = Traversal /\ pc' = "failed" /\ error' = {"path_error"}
  <2>1. Traverses(input)
    BY <1>8, <1>9 DEF Traverses
  <2>2. ParsePath(Named(PiecesOf(input))) = Fail("path_error")
    BY <1>1, <2>1, ParsePathIs
  <2>3. ParsePath(Named(PiecesOf(input))).error = {"path_error"}
    BY <2>2 DEF Fail
  <2>4. ScanAgreesWithPieces'
    BY <1>3, <1>9, <2>3 DEF ScanAgreesWithPieces
  <2>5. QED
    BY <1>9, <2>4 DEF PiecesFit
<1>10. CASE piece # Traversal /\ pc' = IF end = {} THEN "join" ELSE "scan"
  <2>1. \A i \in 1..Len(more) : more[i] # Traversal
    <3>1. \A i \in 1..Len(more) : i \in 1..Len(before) \/ i = Len(before) + 1
      BY <1>4, <1>7
    <3>2. QED
      BY <1>2, <1>7, <1>10, <3>1
  <2>2. KeptOf(Named(more)) = Named(components')
    <3>1. Named(more) = Append(Named(before), Names[piece])
      BY <1>4, <1>5, <1>6, NamedAppend
    <3>2. Named(before) \in Seq(NameSet) /\ Names[piece] \in NameSet
      BY <1>4, <1>5, NamedIs DEF NameSet
    <3>3. KeptOf(Named(more)) = IF Skipped(Names[piece]) THEN KeptOf(Named(before))
                                ELSE Append(KeptOf(Named(before)), Names[piece])
      BY <3>1, <3>2, KeptAppend
    <3>4. Skipped(Names[piece]) <=> piece \in {<<>>, <<".">>}
      BY <1>1, <1>8, NameIs
    <3>5. CASE piece \in {<<>>, <<".">>}
      <4>1. components' = components
        BY <1>3, <3>5
      <4>2. QED
        BY <1>2, <3>3, <3>4, <3>5, <4>1
    <3>6. CASE piece \notin {<<>>, <<".">>}
      <4>1. components' = Append(components, piece)
        BY <1>3, <1>10, <3>6
      <4>2. Named(components') = Append(Named(components), Names[piece])
        BY <1>1, <1>5, <4>1, NamedAppend
      <4>3. QED
        BY <1>2, <3>3, <3>4, <3>6, <4>2
    <3>7. QED
      BY <3>5, <3>6
  <2>3. ScanAgreesWithPieces'
    BY <1>10 DEF ScanAgreesWithPieces
  <2>4. CASE /\ end = {}
             /\ SplitUpTo(input)[Len(input)].before = before
             /\ SplitUpTo(input)[Len(input)].last = piece
    <3>1. pc' = "join"
      BY <1>10, <2>4
    <3>2. PiecesOf(input) = more
      BY <1>1, <1>6, <2>4, PiecesAre
    <3>3. ~Traverses(input)
      BY <1>7, <2>1, <3>2, LenProperties DEF Traverses
    <3>4. /\ input' \in Texts /\ ~Malformed(input')
          /\ ~Traverses(input')
          /\ KeptOf(Named(PiecesOf(input'))) = Named(components')
          /\ joined' = 0
      BY <1>1, <1>3, <2>2, <3>2, <3>3
    <3>5. QED
      BY <2>3, <3>1, <3>4 DEF PiecesFit
  <2>5. ASSUME NEW i \in Nat, end = {i},
               SplitUpTo(input)[i + 1].before = Append(before, piece),
               SplitUpTo(input)[i + 1].last = <<>>
        PROVE  PiecesFit'
    <3>1. pc' = "scan"
      BY <1>10, <2>5
    <3>2. begin' = i + 1
      BY <1>3, <2>5
    <3>3. PICK s : s = SplitUpTo(input)[i + 1]
      OBVIOUS
    <3>4. s.before = more /\ s.last = <<>> /\ SplitUpTo(input')[begin'] = s
      BY <1>3, <1>6, <2>5, <3>2, <3>3
    <3>5. /\ input' \in Texts /\ ~Malformed(input')
          /\ SplitUpTo(input')[begin'].last = <<>>
          /\ \A j \in 1..Len(SplitUpTo(input')[begin'].before) :
               SplitUpTo(input')[begin'].before[j] # Traversal
          /\ KeptOf(Named(SplitUpTo(input')[begin'].before)) = Named(components')
      BY <1>1, <1>3, <2>1, <2>2, <3>4
    <3>6. QED
      BY <2>3, <3>1, <3>5 DEF PiecesFit
  <2>6. QED
    BY <1>5, <2>4, <2>5
<1>11. QED
  BY <1>3, <1>9, <1>10

\* Joining a component adds a piece.
LEMMA JoinFits ==
  ASSUME IInv, PiecesFit, JoinComponent
  PROVE  PiecesFit'
<1>1. /\ pc = "join" /\ joined < Len(components) /\ joined \in Nat
      /\ components \in Seq(Seq(Character)) /\ value \in Seq(Character)
      /\ \A i \in 1..Len(components) : Plain(components[i])
  BY LenProperties DEF JoinComponent, IInv, TypeOK, Scanned
<1>2. /\ value' = value \o Separator \o components[joined + 1]
      /\ joined' = joined + 1
      /\ UNCHANGED <<pc, input, components>>
  BY DEF JoinComponent
<1>3. joined + 1 \in 1..Len(components)
  BY <1>1, LenProperties
<1>4. PICK component : component = components[joined + 1]
  OBVIOUS
<1>5. /\ component \in Seq(Character)
      /\ \A i \in 1..Len(component) : component[i] # "/"
  BY <1>1, <1>3, <1>4 DEF Plain
<1>6. PiecesOf(value') = SubSeq(components, 1, joined + 1)
  <2>1. CASE joined = 0
    <3>1. value = <<>> /\ Separator = <<>>
      BY <1>1, <2>1 DEF IInv, JoinedSoFar, Separator
    <3>2. value' = component
      <4>1. <<>> \in Seq(Character)
        BY EmptySeq
      <4>2. <<>> \o <<>> = <<>>
        BY <4>1, ConcatEmptySeq
      <4>3. <<>> \o component = component
        BY <1>5, ConcatEmptySeq
      <4>4. QED
        BY <1>2, <1>4, <3>1, <4>2, <4>3
    <3>3. PiecesOf(value') = <<component>>
      BY <1>5, <3>2, PieceOfOne
    <3>4. SubSeq(components, 1, joined + 1) = <<components[1]>>
      BY <1>1, <2>1, FirstComponents
    <3>5. component = components[1]
      BY <1>4, <2>1
    <3>6. QED
      BY <3>3, <3>4, <3>5
  <2>2. CASE joined # 0
    <3>1. Separator = <<"/">> /\ PiecesOf(value) = SubSeq(components, 1, joined)
      BY <1>1, <2>2 DEF Separator, PiecesFit
    <3>2. value' = (value \o <<"/">>) \o component
      BY <1>2, <1>4, <3>1
    <3>3. "/" \in Character
      BY DEF Character
    <3>4. PiecesOf(value') = Append(PiecesOf(value), component)
      BY <1>1, <1>5, <3>2, <3>3, PieceMore
    <3>5. SubSeq(components, 1, joined + 1)
            = Append(SubSeq(components, 1, joined), components[joined + 1])
      BY <1>1, FirstComponents
    <3>6. QED
      BY <1>4, <3>1, <3>4, <3>5
  <2>3. QED
    BY <2>1, <2>2
<1>7. ScanAgreesWithPieces'
  BY <1>1, <1>2 DEF ScanAgreesWithPieces
<1>8. /\ input \in Texts /\ ~Malformed(input) /\ ~Traverses(input)
      /\ KeptOf(Named(PiecesOf(input))) = Named(components)
  BY <1>1 DEF PiecesFit
<1>9. PiecesOf(value') = SubSeq(components', 1, joined')
  BY <1>2, <1>6
<1>10. QED
  BY <1>1, <1>2, <1>7, <1>8, <1>9 DEF PiecesFit

\* The path that is returned has the components the definition says, and no path
\* is returned where it says none is.
LEMMA EndFits ==
  ASSUME IInv, PiecesFit, EndJoin
  PROVE  PiecesFit'
<1>1. /\ pc = "join" /\ joined = Len(components)
      /\ components \in Seq(Seq(Character))
  BY DEF EndJoin, IInv, TypeOK
<1>2. /\ input \in Texts /\ ~Malformed(input) /\ ~Traverses(input)
      /\ KeptOf(Named(PiecesOf(input))) = Named(components)
      /\ joined # 0 => PiecesOf(value) = SubSeq(components, 1, joined)
  BY <1>1 DEF PiecesFit
<1>3. /\ UNCHANGED <<input, components, value>>
      /\ \/ components = <<>> /\ pc' = "failed" /\ error' = {"path_error"}
         \/ components # <<>> /\ pc' = "parsed"
  BY DEF EndJoin
<1>4. PICK names : names = Named(components)
  OBVIOUS
<1>5. ParsePath(Named(PiecesOf(input))) = IF names = <<>> THEN Fail("path_error") ELSE Ok(names)
  BY <1>2, <1>4, ParsePathIs
<1>6. CASE components = <<>> /\ pc' = "failed" /\ error' = {"path_error"}
  <2>1. names = <<>>
    BY <1>4, <1>6, NamedNone
  <2>2. ParsePath(Named(PiecesOf(input))).error = {"path_error"}
    BY <1>5, <2>1 DEF Fail
  <2>3. ScanAgreesWithPieces'
    BY <1>3, <1>6, <2>2 DEF ScanAgreesWithPieces
  <2>4. QED
    BY <1>6, <2>3 DEF PiecesFit
<1>7. CASE components # <<>> /\ pc' = "parsed"
  <2>1. Len(components) # 0 /\ Len(components) \in Nat
    BY <1>1, <1>7, EmptySeq, LenProperties
  <2>2. names # <<>>
    <3>1. Len(names) = Len(components)
      BY <1>1, <1>4, NamedIs
    <3>2. Len(<<>>) = 0
      OBVIOUS
    <3>3. QED
      BY <2>1, <3>1, <3>2
  <2>3. PiecesOf(value) = components
    <3>1. SubSeq(components, 1, Len(components)) = components
      BY <1>1, SubSeqFull
    <3>2. QED
      BY <1>1, <1>2, <2>1, <3>1
  <2>4. ParsePath(Named(PiecesOf(input))) = Ok(Named(PiecesOf(value)))
    BY <1>4, <1>5, <2>2, <2>3
  <2>5. ScanAgreesWithPieces'
    BY <1>3, <1>7, <2>4 DEF ScanAgreesWithPieces
  <2>6. QED
    BY <1>7, <2>5 DEF PiecesFit
<1>8. QED
  BY <1>3, <1>6, <1>7

-----------------------------------------------------------------------------
(***************************************************************************)
(* The theorems.                                                           *)
(***************************************************************************)

\* The invariant of parsing and climbing.
THEOREM Invariance == Spec => []IInv
<1>1. Init => IInv
  BY InitInv
<1>2. IInv /\ [Next]_pathVars => IInv'
  BY NextInv
<1>3. QED
  BY <1>1, <1>2, PTL DEF Spec

\* Every path that parse or parent returns is one that parse would return as
\* it is.
THEOREM Canonicity == Spec => []HeldPathIsCanonical
<1>1. IInv => HeldPathIsCanonical
  BY DEF IInv, Climbed, HeldPathIsCanonical
<1>2. QED
  BY <1>1, Invariance, PTL

\* is_ancestor_of holds of exactly the paths that repeated parent meets.
THEOREM Ancestry == Spec => []AncestorsAreParents
<1>1. IInv => AncestorsAreParents
  <2> SUFFICES ASSUME IInv, pc = "top",
                      NEW other \in Others \union ancestors
               PROVE  IsAncestorOf(other, origin) <=> other \in ancestors
    BY DEF AncestorsAreParents
  <2>1. /\ origin \in Seq(Character) /\ value \in Seq(Character)
        /\ value = SubSeq(origin, 1, Len(value)) /\ Len(value) \in 0..Len(origin)
        /\ Len(value) \in Nat
        /\ ancestors = AncestorsFrom(origin, Len(value)) /\ Separators(value) = {}
    BY LenProperties DEF IInv, TypeOK, Climbed
  <2>2. \A i \in Separators(origin) : i \in Nat /\ i >= Len(value) /\ i \in 0..Len(origin)
    <3>1. TAKE i \in Separators(origin)
    <3>2. i \in Nat /\ i < Len(origin) /\ Len(origin) \in Nat
      BY <2>1, SeparatorIs, LenProperties
    <3>3. ~(i < Len(value))
      BY <2>1, PrefixSeparators
    <3>4. QED
      BY <2>1, <3>2, <3>3
  <2>3. ancestors = {SubSeq(origin, 1, i) : i \in Separators(origin)}
    <3>1. {k \in Separators(origin) : k >= Len(value)} = Separators(origin)
      BY <2>2
    <3>2. QED
      BY <2>1, <3>1 DEF AncestorsFrom
  <2>4. other \in Seq(Character)
    <3>1. CASE other \in Others
      BY <3>1, TextTyped
    <3>2. CASE other \in ancestors
      <4>1. PICK i \in Separators(origin) : other = SubSeq(origin, 1, i)
        BY <2>3, <3>2
      <4>2. i \in 0..Len(origin)
        BY <2>2
      <4>3. QED
        BY <2>1, <4>1, <4>2, PrefixIs
    <3>3. QED
      BY <3>1, <3>2
  <2>5. IsAncestorOf(other, origin) <=> \E i \in Separators(origin) : other = SubSeq(origin, 1, i)
    BY <2>1, <2>4, AncestorIs
  <2>6. QED
    BY <2>3, <2>5
<1>2. QED
  BY <1>1, Invariance, PTL

\* parent and filename are the two parts of a path at its last separator.
THEOREM Splitting == Spec => []ParentAndFilename
<1>1. IInv => ParentAndFilename
  <2> SUFFICES ASSUME IInv
               PROVE  /\ \A i \in DOMAIN Filename(value) : Filename(value)[i] # "/"
                      /\ Parent(value) = {} => Filename(value) = value
                      /\ \A up \in Parent(value) :
                           (up \o <<"/">>) \o Filename(value) = value
    BY DEF ParentAndFilename
  <2>1. value \in Seq(Character) /\ DOMAIN value = 1..Len(value)
    BY LenProperties DEF IInv, TypeOK
  <2>2. CASE Rfind(value) = {}
    BY <2>1, <2>2, WholeFilename
  <2>3. ASSUME NEW at, Rfind(value) = {at}
        PROVE  /\ \A i \in DOMAIN Filename(value) : Filename(value)[i] # "/"
               /\ Parent(value) = {} => Filename(value) = value
               /\ \A up \in Parent(value) :
                    (up \o <<"/">>) \o Filename(value) = value
    <3>1. PICK name : name = Filename(value)
      OBVIOUS
    <3>2. /\ name \in Seq(Character)
          /\ \A i \in 1..Len(name) : name[i] # "/"
          /\ Parent(value) = {SubSeq(value, 1, at)}
          /\ (SubSeq(value, 1, at) \o <<"/">>) \o name = value
      BY <2>1, <2>3, <3>1, SplitAtLast
    <3>3. DOMAIN name = 1..Len(name)
      BY <3>2, LenProperties
    <3>4. QED
      BY <3>1, <3>2, <3>3
  <2>4. QED
    BY <2>1, <2>2, <2>3, RfindIs
<1>2. QED
  BY <1>1, Invariance, PTL

\* The scan of parse accepts exactly the texts that the definition on pieces
\* accepts, with the same components.
THEOREM Scanning == Spec => []ScanAgreesWithPieces
<1>1. Init => PiecesFit
  BY DEF Init, PiecesFit, ScanAgreesWithPieces
<1>2. IInv /\ PiecesFit /\ [Next]_pathVars => PiecesFit'
  <2> SUFFICES ASSUME IInv, PiecesFit, [Next]_pathVars
               PROVE  PiecesFit'
    OBVIOUS
  <2>1. CASE UNCHANGED pathVars
    BY <2>1 DEF pathVars, PiecesFit, ScanAgreesWithPieces
  <2>2. CASE \E text \in Texts : Parse(text)
    BY <2>2, ParseFits
  <2>3. CASE ScanComponent
    BY <2>3, ScanFits
  <2>4. CASE JoinComponent
    BY <2>4, JoinFits
  <2>5. CASE EndJoin
    BY <2>5, EndFits
  <2>6. CASE Climb
    <3>1. pc' \in {"climb", "top"}
      BY <2>6 DEF Climb
    <3>2. QED
      BY <3>1 DEF PiecesFit, ScanAgreesWithPieces
  <2>7. CASE Stopped
    BY <2>1, <2>7 DEF Stopped
  <2>8. QED
    BY <2>1, <2>2, <2>3, <2>4, <2>5, <2>6, <2>7 DEF Next
<1>3. PiecesFit => ScanAgreesWithPieces
  BY DEF PiecesFit
<1>4. QED
  BY <1>1, <1>2, <1>3, Invariance, PTL DEF Spec

=============================================================================
