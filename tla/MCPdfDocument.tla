--------------------------- MODULE MCPdfDocument ---------------------------
(***************************************************************************)
(* Two documents.  PdfFileWriter() starts from the fresh tree (object 3)   *)
(* with a header and a cross-reference stream.  A BasePdfFileWriter on a   *)
(* direct catalog and info (objects 1 and 2) whose caller added the nested *)
(* tree of MCPageTree (objects 3 to 9: an indirect /Kids array, an         *)
(* intermediate node, resources at the root and on page 7) is written with *)
(* either a table or a stream.  Two inserts reach both containers of the  *)
(* nested tree and put a page before, between and after the others.        *)
(***************************************************************************)
EXTENDS PdfDocument

CONSTANTS R1, R2

Tree == INSTANCE MCPageTree WITH A1 <- R1, InitTrees <- {}

MCStarts ==
  { [tree |-> Tree!FreshTree, header |-> TRUE, sx |-> {TRUE}],
    [tree |-> Tree!NestedTree, header |-> FALSE, sx |-> BOOLEAN] }
MCResVals == {R1, R2}
=============================================================================
