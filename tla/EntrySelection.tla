--------------------------- MODULE EntrySelection ---------------------------
(***************************************************************************)
(* entry_selection: the regular entries of one image that a replay emits.  *)
(***************************************************************************)
EXTENDS PackageImage, FiniteSets

\* Entries, or what is selected of them, in the order of their ids.
SortedById(set) ==
  CHOOSE list \in [1..Cardinality(set) -> set] :
    \A i, j \in 1..Cardinality(set) : i < j => list[i].id < list[j].id

SelectedEntry(e) ==
  [id |-> e.id, path |-> e.path, content |-> CHOOSE d \in e.content : TRUE]

\* entry_selection::from_ids: ids in any order, each regular, none twice.
FromIds(image, ids) ==
  LET chosen == UNION {EntryAt(image, ids[i]) : i \in DOMAIN ids}
  IN  IF \/ \E i \in DOMAIN ids : EntryAt(image, ids[i]) = {}
         \/ \E e \in chosen : e.type # "regular"
         \/ \E i, j \in DOMAIN ids : i # j /\ ids[i] = ids[j]
        THEN Fail("selection_error")
        ELSE Ok([imageIdentity |-> Identify(image),
                 imageSize     |-> Len(image),
                 selected      |-> {e.id : e \in chosen},
                 entries       |-> SortedById({SelectedEntry(e) : e \in chosen})])

\* entry_selection::all_regular.
AllRegular(image) ==
  LET regular == SortedById({e \in {image[i] : i \in DOMAIN image} : e.type = "regular"})
  IN  FromIds(image, [i \in DOMAIN regular |-> regular[i].id])

\* entry_selection::contains.  (Variant: the bound is one too low.)
ContainsBelowLast(selection, id) ==
  id < selection.imageSize - 1 /\ id \in selection.selected

Contains(selection, id) == id < selection.imageSize /\ id \in selection.selected

\* entry_selection::size.
SelectionSize(selection) == Len(selection.entries)

\* entry_selection::validate: the selection belongs to this image.  (Variant:
\* an image of that size will do.)
ValidForSize(selection, image) == Len(image) = selection.imageSize

ValidFor(selection, image) ==
  /\ Identify(image) = selection.imageIdentity
  /\ Len(image) = selection.imageSize
  /\ \A i \in DOMAIN selection.entries :
       \E e \in EntryAt(image, selection.entries[i].id) :
         /\ e.type = "regular"
         /\ e.path = selection.entries[i].path
         /\ e.content = {selection.entries[i].content}

=============================================================================
