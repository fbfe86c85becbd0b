----------------------------- MODULE PdfDocument -----------------------------
(***************************************************************************)
(* A writer of src/pdf_utils/writer.py with its page tree: insert_page     *)
(* (PageTree) changes the tree objects held in self.objects, and write()   *)
(* (PdfWriter) serialises self.objects.  The two share the object          *)
(* allocator (_lastobj_id) and the object store: here self.objects is not  *)
(* a variable of its own but the serialisation of the catalog (object 1),  *)
(* the info dictionary (object 2) and the tree's objects, so that every    *)
(* insert_page is seen by the next write().                                *)
(*                                                                         *)
(* The file is then read back the way a PDF reader does, with nothing but  *)
(* its bytes: startxref, the cross-reference section, /Root, /Pages,       *)
(* /Kids (resolving an indirect /Kids array) and /Resources inherited up   *)
(* the /Parent chain.  Object lengths are abstract but grow with /Kids and *)
(* /Count, so an insert shifts the offsets of every later object.          *)
(***************************************************************************)
EXTENDS Naturals, Sequences, SequencesExt, FiniteSets

CONSTANTS
  Starts,     \* [tree, header, sx]: the tree and writer a document starts as
  ResVals, Empty, NoRes, NoRef, Absent, None, Annots,
  MaxInserts, MaxAnnots,
  NoFile

VARIABLES
  root, kind, kids, kidsRef, count, parent, res, annots, annotsRef,
  lastobj, marked, lastInsert, base,    \* the page tree (PageTree)
  streamXrefs, hasHeader, file,         \* the writer (PdfWriter)
  written     \* history: the in-memory walk of every page when file was written

treeVars == <<root, kind, kids, kidsRef, count, parent, res, annots,
              annotsRef, lastobj, marked, lastInsert, base>>
vars == <<treeVars, streamXrefs, hasHeader, file, written>>

T == INSTANCE PageTree WITH InitTrees <- {s.tree : s \in Starts}

-----------------------------------------------------------------------------
(***************************************************************************)
(* The body each object serialises to.  The catalog holds /Pages (line    *)
(* 496); a Pages node /Count, /Kids (direct or an indirect array),         *)
(* /Parent and /Resources; a Page /Parent and /Resources; an indirect     *)
(* array its items.                                                        *)
(***************************************************************************)
CatalogBody == [len |-> 40, val |-> [type |-> "Catalog", pages |-> root]]
InfoBody == [len |-> 30, val |-> [type |-> "Info"]]

TreeBody(o) ==
  CASE o \in T!PagesNodes ->
         [len |-> 30 + count[o]
                  + (IF kidsRef[o] = NoRef THEN 5 * Len(kids[o]) ELSE 5),
          val |-> [type |-> "Pages", count |-> count[o], parent |-> parent[o],
                   res |-> res[o], kidsRef |-> kidsRef[o],
                   kids |-> IF kidsRef[o] = NoRef THEN kids[o] ELSE << >>]]
    [] o \in T!PageNodes ->
         [len |-> 60,
          val |-> [type |-> "Page", parent |-> parent[o], res |-> res[o]]]
    [] OTHER ->
         [len |-> 2 + 5 * Len(T!Ser(o)),
          val |-> [type |-> "Array", items |-> T!Ser(o)]]

Objs == [k \in {<<0, o>> : o \in {1, 2} \cup T!Objects} |->
           IF k[2] = 1 THEN CatalogBody
           ELSE IF k[2] = 2 THEN InfoBody
           ELSE TreeBody(k[2])]

W == INSTANCE PdfWriter
       WITH objects <- Objs, rootRef <- 1, infoRef <- 2,
            StartIds <- {0}, BodyLens <- {1}, MaxId <- 0

-----------------------------------------------------------------------------
(***************************************************************************)
(* The operations: insert_page (lines 385-436) and write(stream) (lines    *)
(* 223-259), each leaving the other component's state alone.  The         *)
(* written history records what find_page_for_modification (lines        *)
(* 372-383) returns for every page index at the moment of the write.      *)
(***************************************************************************)
InsertPage(after, r) ==
  /\ T!InsertPage(after, r)
  /\ UNCHANGED <<streamXrefs, hasHeader, file, written>>

Write ==
  /\ UNCHANGED treeVars
  /\ W!Write
  /\ written' = [i \in 0 .. count[root] - 1 |-> T!FindPageForModification(i)]

(***************************************************************************)
(* PdfFileWriter() (lines 473-496) is the fresh tree with a header and     *)
(* stream_xrefs True; a BasePdfFileWriter (lines 161-179) on a direct      *)
(* catalog and info has no header, either xref mode, and the caller may   *)
(* have added a page tree with add_object before wiring it into /Pages.    *)
(***************************************************************************)
Init ==
  /\ T!Init
  /\ \E s \in Starts :
    /\ s.tree.kind = kind /\ s.tree.kids = kids
    /\ hasHeader = s.header
    /\ streamXrefs \in s.sx
  /\ file = NoFile
  /\ written = << >>

Next ==
  \/ \E after \in {None} \cup (-1 .. count[root] - 1),
        r \in ResVals \cup {Empty, NoRes} :
       InsertPage(after, r)
  \/ Write

Spec == Init /\ [][Next]_vars

-----------------------------------------------------------------------------
(***************************************************************************)
(* The reader.  Val is the body found where the section says object n      *)
(* begins (Missing when n is not listed or the bytes there are not its    *)
(* `n gen obj' line); the pages are the leaves in /Kids order and a       *)
(* page's resources the nearest /Resources up the /Parent chain.          *)
(***************************************************************************)
Missing == [type |-> "missing", pages |-> NoRef, res |-> NoRes,
            parent |-> NoRef, kidsRef |-> NoRef, kids |-> << >>,
            items |-> << >>]

Val(f, x, n) ==
  LET P == f.pieces
      at == IF n \in DOMAIN x
            THEN {i \in {j \in 1 .. Len(P) - 1 :
                           P[j] = W!ObjHeader(n, x[n].gen)} :
                    W!Offset(P, i) = x[n].pos /\ P[i + 1].w = "body"}
            ELSE {}
  IN IF at = {} THEN Missing ELSE P[(CHOOSE i \in at : TRUE) + 1].val

ReadKids(f, x, v) ==
  IF v.kidsRef = NoRef THEN v.kids ELSE Val(f, x, v.kidsRef).items

RECURSIVE ReadLeaves(_, _, _)
ReadLeaves(f, x, n) ==
  LET v == Val(f, x, n)
      ks == ReadKids(f, x, v)
  IN IF v.type = "Page" THEN <<n>>
     ELSE IF v.type = "Pages"
     THEN FlattenSeq([i \in DOMAIN ks |-> ReadLeaves(f, x, ks[i])])
     ELSE << >>

RECURSIVE ReadRes(_, _, _)
ReadRes(f, x, n) ==
  LET v == Val(f, x, n)
  IN IF v.res # NoRes THEN v.res
     ELSE IF v.parent = NoRef THEN Empty
     ELSE ReadRes(f, x, v.parent)

TypeOK ==
  /\ T!TypeOK
  /\ W!TypeOK
  /\ DOMAIN written = 0 .. Cardinality(DOMAIN written) - 1
  /\ \A i \in DOMAIN written : written[i].rsrc \in ResVals \cup {Empty}

(***************************************************************************)
(* Round trip (spec section 8): reading the file write() produced gives    *)
(* the pages the writer's own walk (find_page_for_modification) saw when   *)
(* it wrote, in the same order and with the same inherited resources.     *)
(* It rests on insert_page keeping /Count, /Kids and /Parent in step       *)
(* (lines 423-431), on the walk navigating by /Count while the reader      *)
(* follows /Kids and /Parent, and on write() putting every object at the   *)
(* offset its cross-reference entry gives (lines 201-259).               *)
(***************************************************************************)
RoundTrip ==
  file # NoFile =>
    \E x \in W!ReadXref(file) :
      LET pages == ReadLeaves(file, x, Val(file, x, file.root).pages)
      IN /\ Len(pages) = Cardinality(DOMAIN written)
         /\ \A i \in DOMAIN written :
              /\ pages[i + 1] = written[i].page
              /\ ReadRes(file, x, pages[i + 1]) = written[i].rsrc
=============================================================================
