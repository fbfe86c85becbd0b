---------------------------- MODULE MCPageTree ----------------------------
(***************************************************************************)
(* Two page trees to start from.  FreshTree is the one PdfFileWriter        *)
(* builds (an empty root, object 3).  NestedTree is what an existing file   *)
(* may hold: the root 3 keeps its /Kids in the indirect array 4 and        *)
(* carries resources R1; the intermediate Pages node 5 holds pages 6 and   *)
(* 7 directly; page 7 has its own resources R2 and an indirect, empty      *)
(* /Annots array 9; page 8 hangs off the root and has a direct /Annots.    *)
(* Objects 1 and 2 are the catalog and the info dictionary.                *)
(***************************************************************************)
EXTENDS PageTree

CONSTANTS R1, R2, A1

NoAnnots == [p \in {} |-> << >>]

FreshTree ==
  [root |-> 3, lastobj |-> 3,
   kind |-> (3 :> "Pages"), kids |-> (3 :> << >>), kidsRef |-> (3 :> NoRef),
   count |-> (3 :> 0), parent |-> (3 :> NoRef), res |-> (3 :> NoRes),
   annots |-> NoAnnots, annotsRef |-> NoAnnots]

NestedTree ==
  [root |-> 3, lastobj |-> 9,
   kind |-> (3 :> "Pages") @@ (5 :> "Pages") @@ (6 :> "Page")
            @@ (7 :> "Page") @@ (8 :> "Page"),
   kids |-> (3 :> <<5, 8>>) @@ (5 :> <<6, 7>>) @@ (6 :> << >>)
            @@ (7 :> << >>) @@ (8 :> << >>),
   kidsRef |-> (3 :> 4) @@ (5 :> NoRef),
   count |-> (3 :> 3) @@ (5 :> 2),
   parent |-> (3 :> NoRef) @@ (5 :> 3) @@ (6 :> 5) @@ (7 :> 5) @@ (8 :> 3),
   res |-> (3 :> R1) @@ (5 :> NoRes) @@ (6 :> NoRes) @@ (7 :> R2)
           @@ (8 :> NoRes),
   annots |-> (6 :> << >>) @@ (7 :> << >>) @@ (8 :> << >>),
   annotsRef |-> (6 :> Absent) @@ (7 :> 9) @@ (8 :> NoRef)]

MCInitTrees == {FreshTree, NestedTree}
MCResVals == {R1, R2}
MCAnnots == {A1}
=============================================================================
