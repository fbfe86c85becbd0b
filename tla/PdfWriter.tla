------------------------------ MODULE PdfWriter ------------------------------
(***************************************************************************)
(* BasePdfFileWriter and PdfFileWriter of src/pdf_utils/writer.py: object  *)
(* allocation (add_object) and write(), which lays out the objects in key  *)
(* order, records each object's offset in the position dictionary and      *)
(* ends the file with a cross-reference table or stream, the trailer and   *)
(* the startxref pointer.                                                  *)
(*                                                                         *)
(* An object is abstracted to its body: the length it serialises to and a  *)
(* value (Opaque here; the page tree objects in PdfDocument).  The        *)
(* output stream is the sequence of the pieces write() emits, each with   *)
(* its byte length; stream.tell() is the sum of the lengths written so     *)
(* far.  The written file is kept so that a reader can be run on it.       *)
(***************************************************************************)
EXTENDS XRef, Folds

CONSTANTS
  StartIds,   \* obj_id_start values a writer is constructed with
  BodyLens,   \* lengths an object body may serialise to
  MaxId,      \* bound on _lastobj_id
  NoRef,      \* `None' for an absent /Info
  NoFile      \* before the first write()

ASSUME StartIds \subseteq Nat /\ BodyLens \subseteq Nat \ {0} /\ MaxId \in Nat

VARIABLES
  lastobj,     \* self._lastobj_id
  objects,     \* self.objects: key <<generation, id>> -> [len, val]
  rootRef,     \* self._root (an object number)
  infoRef,     \* self._info (an object number or NoRef)
  streamXrefs, \* self.stream_xrefs
  hasHeader,   \* PdfFileWriter overrides _write_header (lines 498-503)
  file         \* the bytes of the last write(stream), as pieces

vars == <<lastobj, objects, rootRef, infoRef, streamXrefs, hasHeader, file>>

RECURSIVE Digits(_)
Digits(n) == IF n < 10 THEN 1 ELSE 1 + Digits(n \div 10)

Tell(out) == FoldLeft(LAMBDA acc, piece : acc + piece.len, 0, out)

\* `%d %d obj' (lines 206, 244)
ObjHeader(id, gen) ==
  [w |-> "obj", id |-> id, gen |-> gen, len |-> Digits(id) + Digits(gen) + 5]

\* An object added with no further structure: only its length matters.
Opaque(n) == [len |-> n, val |-> "opaque"]

Body(o) == [w |-> "body", val |-> o.val, len |-> o.len]
EndObj == [w |-> "endobj", len |-> 8]                       \* `\nendobj\n'

\* `%PDF-1.7\n' and the binary comment line (lines 498-503)
Header == << [w |-> "header", len |-> 9], [w |-> "header", len |-> 8] >>

\* `xref\n', the subsection headers `%d %d\n' and 20 bytes per entry.
TablePiece(t) ==
  [w |-> "xref", table |-> t,
   len |-> 5 + FoldLeft(LAMBDA acc, s : acc + Digits(s.first) + Digits(s.count)
                                        + 2 + 20 * Len(s.entries), 0, t)]

\* The stream object's dictionary and its 11-byte entries (widths 1, 8, 2).
StreamPiece(index, body) ==
  [w |-> "xrefstream", index |-> index, body |-> body,
   len |-> 40 + 11 * Len(body)]

StartXref(loc) == [w |-> "startxref", at |-> loc, len |-> 18 + Digits(loc)]

-----------------------------------------------------------------------------
(***************************************************************************)
(* add_object (lines 193-196): the next id, generation 0.                 *)
(***************************************************************************)
\* Mutant: the id is bumped after the key is formed from the next-next id.
AddObjectKeySkip(obj) ==
  /\ lastobj' = lastobj + 1
  /\ objects' = objects @@ (<<0, lastobj + 2>> :> obj)

AddObjectKey(obj) ==
  /\ lastobj' = lastobj + 1
  /\ objects' = objects @@ (<<0, lastobj + 1>> :> obj)

AddObject ==
  \E n \in BodyLens :
    /\ lastobj < MaxId
    /\ AddObjectKey(Opaque(n))
    /\ UNCHANGED <<rootRef, infoRef, streamXrefs, hasHeader, file>>

(***************************************************************************)
(* The loop of _write_objects (lines 201-212): the offset of each object  *)
(* is stream.tell() taken before its `id gen obj' line.  Objects are never *)
(* encrypted here: self._encrypt is None in both writers of this file.    *)
(***************************************************************************)
\* Mutant: the offset is taken after the `id gen obj' line is written.
RECURSIVE WriteObjectsLateTell(_, _, _, _)
WriteObjectsLateTell(objs, keys, out, pd) ==
  IF keys = << >> THEN [out |-> out, pd |-> pd]
  ELSE LET ix == Head(keys)
           hdr == ObjHeader(ix[2], ix[1])
       IN WriteObjectsLateTell(objs, Tail(keys),
                               out \o << hdr, Body(objs[ix]), EndObj >>,
                               pd @@ (ix :> Tell(out \o <<hdr>>)))

RECURSIVE WriteObjects(_, _, _, _)
WriteObjects(objs, keys, out, pd) ==
  IF keys = << >> THEN [out |-> out, pd |-> pd]
  ELSE LET ix == Head(keys)
       IN WriteObjects(objs, Tail(keys),
                       out \o << ObjHeader(ix[2], ix[1]), Body(objs[ix]),
                                 EndObj >>,
                       pd @@ (ix :> Tell(out)))

\* sorted(self.objects.keys()): tuples compare generation first (line 202).
RECURSIVE ObjectOrder(_)
ObjectOrder(S) ==
  IF S = {} THEN << >>
  ELSE LET m == CHOOSE k \in S : \A j \in S :
                  k[1] < j[1] \/ (k[1] = j[1] /\ k[2] <= j[2])
       IN <<m>> \o ObjectOrder(S \ {m})

(***************************************************************************)
(* The cross-reference stream branch of write() (lines 237-246): the      *)
(* stream takes id _lastobj_id + 1, its own offset is put into the shared  *)
(* position dictionary before the stream reads it to build /Index.         *)
(***************************************************************************)
\* Mutant: /Size is set to the stream's own id.
XrefStreamTailShortSize(out, pd, last) ==
  LET loc == Tell(out)
      xid == last + 1
      pd2 == pd @@ (<<0, xid>> :> loc)
  IN [out |-> out \o << ObjHeader(xid, 0),
                         StreamPiece(XrefStreamIndex(pd2), XrefStreamBody(pd2)),
                         EndObj, StartXref(loc) >>,
      size |-> xid]

XrefStreamTail(out, pd, last) ==
  LET loc == Tell(out)
      xid == last + 1
      pd2 == pd @@ (<<0, xid>> :> loc)
  IN [out |-> out \o << ObjHeader(xid, 0),
                         StreamPiece(XrefStreamIndex(pd2), XrefStreamBody(pd2)),
                         EndObj, StartXref(loc) >>,
      size |-> xid + 1]

\* The classic branch (lines 247-255): table, `trailer\n' and dictionary.
XrefTableTail(out, pd, last) ==
  LET loc == Tell(out)
  IN [out |-> out \o << TablePiece(WriteXrefTable(pd)),
                         [w |-> "trailer", len |-> 40], StartXref(loc) >>,
      size |-> last + 1]

\* _populate_trailer (lines 213-222): /Root, and /Info unless it is None
\* (kept as NoRef); /ID is left out, no property reads it.
PopulateTrailer == [root |-> rootRef, info |-> infoRef]

(***************************************************************************)
(* write(stream) (lines 223-259) on a fresh stream: header, trailer       *)
(* entries, the objects, then the cross-reference section and startxref.   *)
(* In table mode an empty self.objects makes next() of the chunk generator *)
(* raise (line 75); the guard excludes it.                                 *)
(***************************************************************************)
Write ==
  /\ streamXrefs \/ DOMAIN objects # {}
  /\ LET objs == WriteObjects(objects, ObjectOrder(DOMAIN objects),
                              IF hasHeader THEN Header ELSE << >>, << >>)
         tail == IF streamXrefs
                 THEN XrefStreamTail(objs.out, objs.pd, lastobj)
                 ELSE XrefTableTail(objs.out, objs.pd, lastobj)
     IN file' = [pieces |-> tail.out, size |-> tail.size] @@ PopulateTrailer
  /\ UNCHANGED <<lastobj, objects, rootRef, infoRef, streamXrefs, hasHeader>>

(***************************************************************************)
(* The two constructors.  BasePdfFileWriter.__init__ (lines 163-179) adds  *)
(* a direct root and a direct info (or takes None for info).               *)
(* PdfFileWriter.__init__ (lines 473-496) adds the catalog, the info       *)
(* dictionary and the page tree root, keeps stream_xrefs=True and writes a *)
(* header.                                                                 *)
(***************************************************************************)
InitBase ==
  \E start \in StartIds, rootLen \in BodyLens, withInfo \in BOOLEAN,
     infoLen \in BodyLens, sx \in BOOLEAN :
    /\ lastobj = start + (IF withInfo THEN 2 ELSE 1)
    /\ rootRef = start + 1
    /\ infoRef = IF withInfo THEN start + 2 ELSE NoRef
    /\ objects = IF withInfo
                 THEN (<<0, start + 1>> :> Opaque(rootLen))
                        @@ (<<0, start + 2>> :> Opaque(infoLen))
                 ELSE (<<0, start + 1>> :> Opaque(rootLen))
    /\ streamXrefs = sx
    /\ hasHeader = FALSE

InitPdfFileWriter ==
  \E lens \in [1 .. 3 -> BodyLens] :
    /\ lastobj = 3
    /\ rootRef = 1
    /\ infoRef = 2
    /\ objects = [k \in {<<0, 1>>, <<0, 2>>, <<0, 3>>} |-> Opaque(lens[k[2]])]
    /\ streamXrefs = TRUE
    /\ hasHeader = TRUE

Init == (InitBase \/ InitPdfFileWriter) /\ file = NoFile

Next == AddObject \/ Write

Spec == Init /\ [][Next]_vars

-----------------------------------------------------------------------------
(***************************************************************************)
(* A reader of the written file: it follows startxref to the cross-       *)
(* reference section and parses it (the Decode operators of XRef).      *)
(***************************************************************************)
Offset(out, i) == Tell(SubSeq(out, 1, i - 1))

PiecesAt(out, off) == {i \in DOMAIN out : Offset(out, i) = off}

\* The map a reader recovers, or the empty set when startxref does not lead
\* to a well-formed section.
ReadXref(f) ==
  LET P == f.pieces
      at == PiecesAt(P, P[Len(P)].at)
      i == CHOOSE j \in at : TRUE
  IN IF at = {} THEN {}
     ELSE IF P[i].w = "xref" /\ TableWellFormed(P[i].table)
     THEN {DecodeTable(P[i].table)}
     ELSE IF P[i].w = "obj" /\ i < Len(P) /\ P[i + 1].w = "xrefstream"
             /\ StreamWellFormed(P[i + 1].index, P[i + 1].body)
     THEN {DecodeStream(P[i + 1].index, P[i + 1].body)}
     ELSE {}

ObjectNumbersIn(P) == {P[i].id : i \in {j \in DOMAIN P : P[j].w = "obj"}}

TypeOK ==
  /\ lastobj \in Nat
  /\ \A k \in DOMAIN objects : k[1] = 0 /\ k[2] \in 1 .. lastobj
  /\ rootRef \in 1 .. lastobj
  /\ infoRef \in (1 .. lastobj) \cup {NoRef}
  /\ streamXrefs \in BOOLEAN /\ hasHeader \in BOOLEAN
  /\ file = NoFile
     \/ /\ file.size \in Nat
        /\ \A i \in DOMAIN file.pieces : file.pieces[i].len \in Nat \ {0}

(***************************************************************************)
(* The file write() produced is indexed: startxref leads to a section      *)
(* that parses, whose entry 0 is the free-list head, which lists exactly   *)
(* the objects in the file, each at the offset where its `id gen obj'      *)
(* begins.  This rests on the offset being taken before the object header  *)
(* (line 205) and, in stream mode, on the stream's own offset entering the *)
(* shared dictionary before the stream is serialised (lines 241-245).      *)
(***************************************************************************)
XrefLocatesEveryObject ==
  file # NoFile =>
    LET P == file.pieces
    IN \E x \in ReadXref(file) :
         /\ x[0] = FreeEntry
         /\ DOMAIN x \ {0} = ObjectNumbersIn(P)
         /\ \A n \in DOMAIN x \ {0} :
              \E i \in PiecesAt(P, x[n].pos) :
                 P[i] = ObjHeader(n, x[n].gen) /\ x[n].type = "n"

(***************************************************************************)
(* The trailer /Size is one more than the highest object number the        *)
(* section lists (7.5.5), and /Root and /Info name listed objects: the     *)
(* stream takes _lastobj_id + 1 and /Size xrefs_id + 1 (lines 239-242),    *)
(* the table /Size _lastobj_id + 1 (line 250).                             *)
(***************************************************************************)
TrailerMatchesXref ==
  file # NoFile =>
    \E x \in ReadXref(file) :
      /\ file.size = 1 + CHOOSE m \in DOMAIN x : \A n \in DOMAIN x : n <= m
      /\ file.root \in DOMAIN x
      /\ file.info # NoRef => file.info \in DOMAIN x
=============================================================================
