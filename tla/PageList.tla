------------------------------ MODULE PageList ------------------------------
(***************************************************************************)
(* What the page tree of a PDF writer promises a reader: the document is   *)
(* a list of pages, each with its effective resources and its             *)
(* annotations.  Inserting a page after page a puts it at position a + 1  *)
(* (first for a = -1) and changes no other page; annotating a page        *)
(* appends to its annotations only.  PageTree implements this             *)
(* specification under the mapping of its PageListRefinement property.     *)
(***************************************************************************)
EXTENDS Integers, Sequences, SequencesExt

CONSTANTS
  ResSet,     \* effective resource dictionaries a page may have
  Annots,     \* annotation references
  NoRef       \* no insertion yet

VARIABLES
  pages,      \* the pages in document order
  rsrc,       \* page -> its effective resources
  annotsOf,   \* page -> its annotations
  lastInsert  \* the after index and page of the last insertion

OnPages(p) == \E i \in DOMAIN pages : pages[i] = p

Insert(a, p) ==
  /\ a \in -1 .. Len(pages) - 1
  /\ ~OnPages(p)
  /\ pages' = InsertAt(pages, a + 2, p)
  /\ \E e \in ResSet : rsrc' = rsrc @@ (p :> e)
  /\ annotsOf' = annotsOf @@ (p :> << >>)
  /\ lastInsert' = [after |-> a, page |-> p]

Annotate(p, x) ==
  /\ OnPages(p)
  /\ annotsOf' = [annotsOf EXCEPT ![p] = Append(@, x)]
  /\ UNCHANGED <<pages, rsrc, lastInsert>>

Init ==
  /\ \A i, j \in DOMAIN pages : pages[i] = pages[j] => i = j
  /\ DOMAIN rsrc = {pages[i] : i \in DOMAIN pages}
  /\ DOMAIN annotsOf = DOMAIN rsrc
  /\ lastInsert = NoRef

\* The new page is any object not yet a page; as a property of PageTree the
\* candidates are the pages of the next state.
Next ==
  \/ \E a \in -1 .. Len(pages) - 1, p \in DOMAIN rsrc' : Insert(a, p)
  \/ \E p \in DOMAIN annotsOf, x \in Annots : Annotate(p, x)

Spec == Init /\ [][Next]_<<pages, rsrc, annotsOf, lastInsert>>
=============================================================================
