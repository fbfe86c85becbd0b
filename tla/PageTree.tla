------------------------------ MODULE PageTree ------------------------------
(***************************************************************************)
(* The page tree navigator/mutator of BasePdfFileWriter                    *)
(* (src/pdf_utils/writer.py): _walk_page_tree with its two front ends      *)
(* find_page_container and find_page_for_modification, insert_page,       *)
(* register_annotation and the mark_update hook.                           *)
(*                                                                         *)
(* Nodes are object numbers.  A Pages node has /Kids (held directly or in  *)
(* an indirect array object), /Count, maybe /Resources and, below the      *)
(* root, /Parent; a Page has /Parent, maybe /Resources and maybe /Annots   *)
(* (direct or an indirect array).  Resource dictionaries are values of     *)
(* ResVals or Empty (an empty dictionary); NoRes is an absent entry.       *)
(* The initial tree is one an existing file may hold (InitTrees): an       *)
(* incremental writer starts from it, and `marked' is what mark_update     *)
(* has been told to re-emit.                                               *)
(***************************************************************************)
EXTENDS Naturals, Sequences, SequencesExt, FiniteSets

CONSTANTS
  InitTrees,  \* page trees a writer may start from (records, see Init)
  ResVals,    \* non-empty resource dictionaries
  Empty,      \* an empty resource dictionary
  NoRes,      \* no /Resources entry
  NoRef,      \* None: no /Parent; /Kids or /Annots held directly
  Absent,     \* no /Annots entry
  None,       \* insert_page(after=None)
  Annots,     \* annotation references
  MaxInserts, \* bound on the pages inserted
  MaxAnnots   \* bound on the /Annots length of a page

VARIABLES
  root,       \* the /Pages entry of the catalog
  kind,       \* object number -> "Pages" | "Page"
  kids,       \* Pages node -> its /Kids (<< >> for a Page)
  kidsRef,    \* Pages node -> NoRef, or the indirect array holding /Kids
  count,      \* Pages node -> /Count
  parent,     \* node -> /Parent or NoRef
  res,        \* node -> /Resources (NoRes when absent)
  annots,     \* Page -> /Annots
  annotsRef,  \* Page -> Absent (no /Annots), NoRef (direct) or an array
  lastobj,    \* _lastobj_id
  marked,     \* the references passed to mark_update
  lastInsert, \* history: the after index and page of the last insert_page
  base        \* history: each object's serialisation in the initial file

vars == <<root, kind, kids, kidsRef, count, parent, res, annots, annotsRef,
          lastobj, marked, lastInsert, base>>

PagesNodes == {n \in DOMAIN kind : kind[n] = "Pages"}
PageNodes == {n \in DOMAIN kind : kind[n] = "Page"}
NotFound == [error |-> "Page not found"]     \* line 348

\* The objects of the file: nodes and the indirect /Kids and /Annots arrays.
Objects == DOMAIN kind \cup ({kidsRef[n] : n \in PagesNodes} \ {NoRef})
           \cup ({annotsRef[p] : p \in PageNodes} \ {Absent, NoRef})

\* What an incremental update would have to re-emit for an object.
Ser(o) ==
  CASE o \in PagesNodes ->
         [count |-> count[o], parent |-> parent[o], res |-> res[o],
          kids |-> IF kidsRef[o] = NoRef THEN kids[o] ELSE kidsRef[o]]
    [] o \in PageNodes ->
         [parent |-> parent[o], res |-> res[o],
          annots |-> IF annotsRef[o] \in {Absent, NoRef}
                     THEN <<annotsRef[o], annots[o]>> ELSE annotsRef[o]]
    [] \E n \in PagesNodes : kidsRef[n] = o ->
         kids[CHOOSE n \in PagesNodes : kidsRef[n] = o]
    [] OTHER ->
         annots[CHOOSE p \in PageNodes : annotsRef[p] = o]

-----------------------------------------------------------------------------
(***************************************************************************)
(* _walk_page_tree (lines 281-352).  Recurse is _recurse: it takes the     *)
(* node's own /Resources if present and scans its kids with the running    *)
(* page index `cur'.  A Pages kid is entered when ix falls in              *)
(* [cur, cur + /Count) and skipped otherwise; a Page kid matches when      *)
(* cur = ix.  With retrieve the result is the container, the kid index,    *)
(* the resources inherited so far and the node to mark (prev_last_indir,  *)
(* which is always the container itself); without it, the page and its    *)
(* own /Resources or the inherited ones.  `last_indir' (lines 298-303) is  *)
(* computed and never used, and is left out.                               *)
(***************************************************************************)
RECURSIVE WalkKidsWideRange(_, _, _, _, _, _, _),
          WalkKids(_, _, _, _, _, _, _),
          Recurse(_, _, _, _, _, _)

OwnOr(n, inherited) == IF res[n] # NoRes THEN res[n] ELSE inherited

Found(node, k, kid, rsrc, prevIndir, retrieve) ==
  IF retrieve
  THEN [container |-> node, kidIx |-> k - 1, rsrc |-> rsrc, upd |-> prevIndir]
  ELSE [page |-> kid, rsrc |-> OwnOr(kid, rsrc)]

\* Mutant: the descent test admits ix = cur + /Count.
WalkKidsWideRange(node, k, cur, rsrc, prevIndir, ix, retrieve) ==
  IF k > Len(kids[node]) THEN NotFound
  ELSE LET kid == kids[node][k]
       IN IF kind[kid] = "Pages"
          THEN IF cur <= ix /\ ix <= cur + count[kid]
               THEN Recurse(cur, kid, rsrc, kid, ix, retrieve)
               ELSE WalkKidsWideRange(node, k + 1, cur + count[kid], rsrc,
                                      prevIndir, ix, retrieve)
          ELSE IF cur = ix
               THEN Found(node, k, kid, rsrc, prevIndir, retrieve)
               ELSE WalkKidsWideRange(node, k + 1, cur + 1, rsrc, prevIndir,
                                      ix, retrieve)

WalkKids(node, k, cur, rsrc, prevIndir, ix, retrieve) ==
  IF k > Len(kids[node]) THEN NotFound
  ELSE LET kid == kids[node][k]
       IN IF kind[kid] = "Pages"
          THEN IF cur <= ix /\ ix < cur + count[kid]
               THEN Recurse(cur, kid, rsrc, kid, ix, retrieve)
               ELSE WalkKids(node, k + 1, cur + count[kid], rsrc, prevIndir,
                             ix, retrieve)
          ELSE IF cur = ix
               THEN Found(node, k, kid, rsrc, prevIndir, retrieve)
               ELSE WalkKids(node, k + 1, cur + 1, rsrc, prevIndir, ix,
                             retrieve)

Recurse(first, node, rsrc, prevIndir, ix, retrieve) ==
  WalkKids(node, 1, first, OwnOr(node, rsrc), prevIndir, ix, retrieve)

\* The root's /Resources, else a fresh empty dictionary (lines 287-290).
WalkPageTree(ix, retrieve) ==
  Recurse(0, root, OwnOr(root, Empty), root, ix, retrieve)

InRange(ix) == 0 <= ix /\ ix < count[root]        \* line 293

FindPageContainer(ix) == WalkPageTree(ix, TRUE)          \* lines 354-370
FindPageForModification(ix) == WalkPageTree(ix, FALSE)   \* lines 372-383

-----------------------------------------------------------------------------
(***************************************************************************)
(* insert_page (lines 385-436).                                            *)
(***************************************************************************)
\* The id add_object gives the new page (lines 193-196, called at 429).
NewPageIdSkip == lastobj + 2        \* Mutant: one id skipped.
NewPageId == lastobj + 1

\* The ancestors reached by `parent = parent.get('/Parent')' (lines 423-428).
RECURSIVE AncestorsContainerOnly(_), Ancestors(_)
AncestorsContainerOnly(n) == {n}    \* Mutant: the loop stops at once.
Ancestors(n) == IF parent[n] = NoRef THEN {n} ELSE {n} \cup Ancestors(parent[n])

\* kids.insert(kid_ix + 1, new_page_ref) (line 430), 1-based.
\* Mutant: kids.append(new_page_ref), the position ignored.
NewKidsAppend(c, kidIx, p) == Append(kids[c], p)
NewKids(c, kidIx, p) == InsertAt(kids[c], kidIx + 2, p)

\* `after' defaults to the last page (lines 402-404); -1 means the root
\* itself as container (lines 406-409), anything else is walked to.
Location(a) ==
  IF a = -1 THEN [container |-> root, kidIx |-> -1, upd |-> root]
  ELSE FindPageContainer(a)

InsertPage(after, r) ==
  LET a == IF after = None THEN count[root] - 1 ELSE after
      loc == Location(a)
      c == loc.container
      kidsBoundary == IF kidsRef[c] # NoRef THEN kidsRef[c] ELSE loc.upd
      p == NewPageId
  IN /\ Cardinality(DOMAIN kind \ DOMAIN base) < MaxInserts
     /\ a = -1 \/ InRange(a)
     /\ count' = [n \in DOMAIN count |->
                    IF n \in Ancestors(c) THEN count[n] + 1 ELSE count[n]]
     /\ lastobj' = lastobj + 1
     /\ kind' = kind @@ (p :> "Page")
     /\ kids' = [kids EXCEPT ![c] = NewKids(c, loc.kidIx, p)] @@ (p :> << >>)
     /\ parent' = parent @@ (p :> c)
     /\ res' = res @@ (p :> r)
     /\ annots' = annots @@ (p :> << >>)
     /\ annotsRef' = annotsRef @@ (p :> Absent)
     /\ marked' = marked \cup {loc.upd, kidsBoundary}
     /\ lastInsert' = [after |-> a, page |-> p]
     /\ UNCHANGED <<root, kidsRef, base>>

(***************************************************************************)
(* register_annotation (lines 261-278): an indirect /Annots array is       *)
(* appended to and `annot_ref' is marked (line 267); a direct array, or a  *)
(* new one stored in the page, marks the page.                             *)
(***************************************************************************)
RegisterAnnotation(page, annot) ==
  /\ Len(annots[page]) < MaxAnnots
  /\ annots' = [annots EXCEPT ![page] = Append(@, annot)]
  /\ IF annotsRef[page] \in {Absent, NoRef}
     THEN /\ marked' = marked \cup {page}
          /\ annotsRef' = [annotsRef EXCEPT ![page] = NoRef]
     ELSE /\ marked' = marked \cup {annot}
          /\ UNCHANGED annotsRef
  /\ UNCHANGED <<root, kind, kids, kidsRef, count, parent, res, lastobj,
                 lastInsert, base>>

-----------------------------------------------------------------------------
Init ==
  \E t \in InitTrees :
    /\ root = t.root
    /\ kind = t.kind
    /\ kids = t.kids
    /\ kidsRef = t.kidsRef
    /\ count = t.count
    /\ parent = t.parent
    /\ res = t.res
    /\ annots = t.annots
    /\ annotsRef = t.annotsRef
    /\ lastobj = t.lastobj
    /\ marked = {}
    /\ lastInsert = NoRef
    /\ base = [o \in Objects |-> Ser(o)]

Next ==
  \/ \E after \in {None} \cup (-1 .. count[root] - 1),
        r \in ResVals \cup {Empty, NoRes} :
       InsertPage(after, r)
  \/ \E page \in PageNodes, annot \in Annots : RegisterAnnotation(page, annot)

Spec == Init /\ [][Next]_vars

-----------------------------------------------------------------------------
(***************************************************************************)
(* Reference definitions: the pages in document order (depth-first over   *)
(* /Kids) and resource inheritance up the /Parent chain (ISO 32000-1      *)
(* 7.7.3.4), independent of the /Count-guided walk.                       *)
(***************************************************************************)
RECURSIVE Leaves(_)
Leaves(n) == IF kind[n] = "Page" THEN <<n>>
             ELSE FlattenSeq([i \in DOMAIN kids[n] |-> Leaves(kids[n][i])])

RECURSIVE InheritedRes(_)
InheritedRes(n) == IF res[n] # NoRes THEN res[n]
                   ELSE IF parent[n] = NoRef THEN Empty
                   ELSE InheritedRes(parent[n])

\* The spec's wording: the nearest non-empty /Resources.
RECURSIVE NearestNonEmptyRes(_)
NearestNonEmptyRes(n) == IF res[n] \in ResVals THEN res[n]
                         ELSE IF parent[n] = NoRef THEN Empty
                         ELSE NearestNonEmptyRes(parent[n])

TypeOK ==
  /\ lastobj \in Nat
  /\ \A n \in DOMAIN kind : n <= lastobj
  /\ root \in PagesNodes
  /\ \A n \in PagesNodes : count[n] \in Nat /\ kids[n] \in Seq(DOMAIN kind)
  /\ \A n \in DOMAIN kind : parent[n] \in PagesNodes \cup {NoRef}
                          /\ res[n] \in ResVals \cup {Empty, NoRes}
  /\ \A p \in PageNodes : annots[p] \in Seq(Annots)

(***************************************************************************)
(* The tree stays a tree whose counts are right: every /Count is the       *)
(* number of pages below the node, and every node but the root is listed  *)
(* exactly once, in the /Kids of its /Parent.  insert_page bumps /Count    *)
(* along the /Parent chain (lines 423-428) while the walk navigates by     *)
(* /Kids and /Count, so a slip in either shows up on a later insert.       *)
(***************************************************************************)
TreeConsistent ==
  /\ \A n \in PagesNodes : count[n] = Len(Leaves(n))
  /\ parent[root] = NoRef
  /\ \A n \in DOMAIN kind \ {root} :
       /\ parent[n] # NoRef
       /\ Cardinality(UNION {{<<m, i>> : i \in {j \in DOMAIN kids[m] :
                                                 kids[m][j] = n}} :
                             m \in PagesNodes}) = 1
       /\ \E i \in DOMAIN kids[parent[n]] : kids[parent[n]][i] = n

(***************************************************************************)
(* For every index in range, find_page_for_modification returns the page   *)
(* at that position in document order with the resources it inherits, and *)
(* find_page_container returns the node whose /Kids hold it at kid_ix and  *)
(* that node as the update boundary (lines 281-383).                       *)
(***************************************************************************)
WalkLocatesEveryPage ==
  \A i \in 0 .. count[root] - 1 :
    LET m == FindPageForModification(i)
        c == FindPageContainer(i)
    IN /\ m # NotFound /\ c # NotFound
       /\ m.page = Leaves(root)[i + 1]
       /\ m.rsrc = InheritedRes(m.page)
       /\ kids[c.container][c.kidIx + 1] = m.page
       /\ c.upd = c.container

(***************************************************************************)
(* The page tree implements the page list a reader sees (PageList): the   *)
(* pages are the leaves in /Kids order, a page's effective resources are   *)
(* what it inherits up the /Parent chain, its annotations its /Annots.    *)
(* So insert_page(after=a) (lines 385-436) puts the new page right after   *)
(* page a and changes no other page's position, resources or annotations, *)
(* and register_annotation (lines 261-278) appends to one page only.       *)
(***************************************************************************)
PL == INSTANCE PageList
        WITH pages <- Leaves(root),
             rsrc <- [p \in PageNodes |-> InheritedRes(p)],
             annotsOf <- [p \in PageNodes |-> annots[p]],
             ResSet <- ResVals \cup {Empty}

PageListRefinement == PL!Spec

(***************************************************************************)
(* Incremental update: every Pages node or indirect /Kids array whose      *)
(* serialisation changed since the file was read has been passed to       *)
(* mark_update, as the hook's contract requires (spec 4.1).               *)
(***************************************************************************)
PagesUpdatesMarked ==
  \A o \in DOMAIN base :
    (o \in PagesNodes \/ \E n \in PagesNodes : kidsRef[n] = o)
      /\ Ser(o) # base[o] => o \in marked

(***************************************************************************)
(* Incremental update: every Page or indirect /Annots array whose          *)
(* serialisation changed since the file was read has been marked.         *)
(***************************************************************************)
PageUpdatesMarked ==
  \A o \in DOMAIN base :
    (o \in PageNodes \/ \E p \in PageNodes : annotsRef[p] = o)
      /\ Ser(o) # base[o] => o \in marked

(***************************************************************************)
(* The spec's resource inheritance (section 3): a page's effective        *)
(* resources are the nearest non-empty /Resources from the page upwards;   *)
(* find_page_for_modification takes the nearest present one (lines        *)
(* 305-308, 340-344), and PageObject always sets one (line 445).           *)
(***************************************************************************)
ResourcesInheritedNonEmpty ==
  \A i \in 0 .. count[root] - 1 :
    LET m == FindPageForModification(i)
    IN m # NotFound => m.rsrc = NearestNonEmptyRes(m.page)
=============================================================================
