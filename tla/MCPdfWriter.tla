---------------------------- MODULE MCPdfWriter ----------------------------
(***************************************************************************)
(* Writers constructed from scratch (obj_id_start 0) and with a start      *)
(* above 1, as the incremental writer does, so that the first object       *)
(* number is 1 in some runs and larger in others (the free-entry folding   *)
(* of write_xref_table).  With start 8 the ids cross from one to two       *)
(* digits (9, 10 and the stream 11), so the `%d %d obj' width changes      *)
(* within a file; two body lengths make the offsets of a file depend on    *)
(* every earlier object.  MaxId lets a fresh writer add up to 3 objects.   *)
(***************************************************************************)
EXTENDS PdfWriter

MCStartIds == {0, 8}
MCBodyLens == {1, 60}
MCMaxId == 6
=============================================================================
