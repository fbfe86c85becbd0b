------------------------------- MODULE MCXRef -------------------------------
(***************************************************************************)
(* Checks the cross-reference encoder of XRef against the reader side over *)
(* every position dictionary on a bounded id range: any non-empty set of   *)
(* object numbers, each with generation 0 (objects this writer allocates)  *)
(* or a non-zero generation (objects an incremental update re-emits).      *)
(* Steps add or drop one key, so every such dictionary is reached.         *)
(***************************************************************************)
EXTENDS XRef

CONSTANTS
  Ids,    \* the object numbers a dictionary may hold, e.g. 1..5
  Gens    \* the generations an object may have

VARIABLE pd

PosDicts ==
  UNION { { [k \in {<<g[i], i>> : i \in S} |-> 10 * k[2] + k[1]] :
              g \in [S -> Gens] } : S \in (SUBSET Ids) \ {{}} }

Init == pd \in {d \in PosDicts : Cardinality(DOMAIN d) = 1}

AddKey == \E i \in Ids \ {IdOf(k) : k \in DOMAIN pd}, g \in Gens :
            pd' = pd @@ (<<g, i>> :> 10 * i + g)

DropKey == \E k \in DOMAIN pd :
             /\ Cardinality(DOMAIN pd) > 1
             /\ pd' = [x \in DOMAIN pd \ {k} |-> pd[x]]

Next == AddKey \/ DropKey

(***************************************************************************)
(* _contiguous_xref_chunks yields runs that are consecutive, cover the     *)
(* dictionary in id order and are maximal: the next run starts after a gap *)
(* (lines 36-54, the split test at line 43).                               *)
(***************************************************************************)
ChunksAreMaximalRuns ==
  LET C == ContiguousXrefChunks(pd)
      claimed(c) == C[c][1] .. C[c][1] + Len(C[c][2]) - 1
  IN /\ \A c \in DOMAIN C : \A n \in claimed(c) :
          \E k \in DOMAIN pd : /\ IdOf(k) = n
                               /\ C[c][2][n - C[c][1] + 1] = InUse(pd[k], k[1])
     /\ \A k \in DOMAIN pd : \E c \in DOMAIN C : IdOf(k) \in claimed(c)
     /\ \A c \in 1 .. Len(C) - 1 : C[c + 1][1] > C[c][1] + Len(C[c][2])

(***************************************************************************)
(* The classic table written by write_xref_table parses, and a reader      *)
(* finds the free-list head at 0 and every object at its offset, whether   *)
(* or not the lowest object number is 1 (the folding at lines 81-92).      *)
(***************************************************************************)
TableDecodesToPositions ==
  LET t == WriteXrefTable(pd)
  IN TableWellFormed(t) /\ DecodeTable(t) = Expected(pd)

(***************************************************************************)
(* The /Index array and the body of an XRefStream agree entry for entry,   *)
(* and a reader recovers the same map (lines 122-136).                     *)
(***************************************************************************)
StreamDecodesToPositions ==
  LET index == XrefStreamIndex(pd)
      body == XrefStreamBody(pd)
  IN StreamWellFormed(index, body) /\ DecodeStream(index, body) = Expected(pd)
=============================================================================
