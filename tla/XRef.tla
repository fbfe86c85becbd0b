-------------------------------- MODULE XRef --------------------------------
(***************************************************************************)
(* The cross-reference encoder of src/pdf_utils/writer.py:                *)
(*   _contiguous_xref_chunks  -- split the position dictionary into runs   *)
(*                               of consecutive object numbers;            *)
(*   write_xref_table         -- the classic `xref' table;                 *)
(*   XRefStream.write_to_stream -- the /Index array and binary body of a  *)
(*                               cross-reference stream.                   *)
(* A position dictionary is a function from object keys <<generation, id>> *)
(* (the key order the code uses) to byte offsets.  Table and stream are    *)
(* kept as what a reader parses out of them (subsection headers with their *)
(* counts, entries); the byte layout of an entry is fixed width (20 bytes  *)
(* in a table, 1+8+2 bytes in a stream) and is reflected in Len only.      *)
(* Decode* are the reader side: they are the reference the encoder is      *)
(* checked against, not a translation of code.                             *)
(***************************************************************************)
EXTENDS Naturals, Sequences, SequencesExt, FiniteSets

\* The entry of the head of the free list, `0000000000 65535 f' (line 80),
\* and the type-0 entry written first into a stream body (line 126).
FreeEntry == [type |-> "f", pos |-> 0, gen |-> 65535]

\* An in-use entry `%010d %05d n' (line 72), type 1 in a stream (line 131).
InUse(pos, gen) == [type |-> "n", pos |-> pos, gen |-> gen]

IdOf(key) == key[2]

\* The keys of a set in ascending object number (ids are distinct).
RECURSIVE KeysById(_)
KeysById(S) ==
  IF S = {} THEN << >>
  ELSE LET m == CHOOSE k \in S : \A j \in S : IdOf(k) <= IdOf(j)
       IN <<m>> \o KeysById(S \ {m})

\* sorted(position_dict.keys(), key=lambda t: t[1])  (line 36)
SortedKeys(pd) == KeysById(DOMAIN pd)

(***************************************************************************)
(* Plausible slips in the encoder, used to show the properties of the      *)
(* MC modules can tell them apart from the code.                           *)
(***************************************************************************)
\* The run split tested against prev + 2: an id gap of one is not a split.
RECURSIVE ChunkLoopGapOfTwo(_, _, _, _, _, _)
ChunkLoopGapOfTwo(pd, keys, first, cur, prev, out) ==
  IF keys = << >>
  THEN Append(out, <<first, cur>>)
  ELSE LET ix == Head(keys)
           entry == InUse(pd[ix], ix[1])
       IN IF cur # << >> /\ IdOf(ix) > prev + 2
          THEN ChunkLoopGapOfTwo(pd, Tail(keys), IdOf(ix), <<entry>>, IdOf(ix),
                                 Append(out, <<first, cur>>))
          ELSE ChunkLoopGapOfTwo(pd, Tail(keys), first, Append(cur, entry),
                                 IdOf(ix), out)

(***************************************************************************)
(* The generator loop of _contiguous_xref_chunks (lines 32-54): `first'   *)
(* is first_idnum, `cur' current_chunk, `prev' previous_idnum, `out' the   *)
(* chunks yielded so far.  A chunk is <<first_idnum, entries>>.            *)
(***************************************************************************)
RECURSIVE ChunkLoop(_, _, _, _, _, _)
ChunkLoop(pd, keys, first, cur, prev, out) ==
  IF keys = << >>
  THEN Append(out, <<first, cur>>)
  ELSE LET ix == Head(keys)
           entry == InUse(pd[ix], ix[1])
       IN IF cur # << >> /\ IdOf(ix) # prev + 1
          THEN ChunkLoop(pd, Tail(keys), IdOf(ix), <<entry>>, IdOf(ix),
                         Append(out, <<first, cur>>))
          ELSE ChunkLoop(pd, Tail(keys), first, Append(cur, entry), IdOf(ix),
                         out)

\* peek() takes the first id without consuming it (line 37).
ContiguousXrefChunks(pd) ==
  LET keys == SortedKeys(pd)
  IN ChunkLoop(pd, keys, IdOf(keys[1]), << >>, 0, << >>)

Subsection(first, entries) ==
  [first |-> first, count |-> Len(entries), entries |-> entries]

\* The first chunk absorbs the free entry but its header keeps the chunk's
\* own length.
WriteXrefTableShortHeader(pd) ==
  LET chunks == ContiguousXrefChunks(pd)
      first == chunks[1][1]
      sub == chunks[1][2]
      head == IF first = 1
              THEN << [first |-> 0, count |-> Len(sub),
                       entries |-> <<FreeEntry>> \o sub] >>
              ELSE << Subsection(0, <<FreeEntry>>), Subsection(first, sub) >>
  IN head \o [i \in 1 .. Len(chunks) - 1 |->
                Subsection(chunks[i + 1][1], chunks[i + 1][2])]

(***************************************************************************)
(* write_xref_table (lines 57-98): the first chunk absorbs the free entry  *)
(* when it starts at object 1, otherwise the free entry gets its own `0 1' *)
(* subsection in front of it; the other chunks follow unchanged.          *)
(***************************************************************************)
WriteXrefTable(pd) ==
  LET chunks == ContiguousXrefChunks(pd)
      first == chunks[1][1]
      sub == chunks[1][2]
      head == IF first = 1
              THEN << [first |-> 0, count |-> Len(sub) + 1,
                       entries |-> <<FreeEntry>> \o sub] >>
              ELSE << Subsection(0, <<FreeEntry>>), Subsection(first, sub) >>
  IN head \o [i \in 1 .. Len(chunks) - 1 |->
                Subsection(chunks[i + 1][1], chunks[i + 1][2])]

\* /Index without the leading [0 1] pair of the free entry.
XrefStreamIndexNoFree(pd) ==
  FlattenSeq([c \in DOMAIN ContiguousXrefChunks(pd) |->
                << ContiguousXrefChunks(pd)[c][1],
                   Len(ContiguousXrefChunks(pd)[c][2]) >>])

(***************************************************************************)
(* XRefStream.write_to_stream (lines 116-138): /Index starts with [0 1]   *)
(* for the free entry that opens the body; every chunk adds its first id   *)
(* and length to /Index and its entries to the body.  It refuses an        *)
(* encryption key (line 119); the writer always passes None (line 245).   *)
(***************************************************************************)
XrefStreamIndex(pd) ==
  <<0, 1>> \o FlattenSeq([c \in DOMAIN ContiguousXrefChunks(pd) |->
                 << ContiguousXrefChunks(pd)[c][1],
                    Len(ContiguousXrefChunks(pd)[c][2]) >>])

XrefStreamBody(pd) ==
  <<FreeEntry>> \o FlattenSeq([c \in DOMAIN ContiguousXrefChunks(pd) |->
                                 ContiguousXrefChunks(pd)[c][2]])

-----------------------------------------------------------------------------
(***************************************************************************)
(* Reader side (ISO 32000-1 7.5.4 and 7.5.8): what a parser recovers.      *)
(***************************************************************************)

\* The object numbers a table subsection claims.
SubIds(s) == s.first .. s.first + s.count - 1

\* A table parses when every header count matches its entries and no
\* object number is claimed twice.
TableWellFormed(t) ==
  /\ \A i \in DOMAIN t : t[i].count = Len(t[i].entries)
  /\ \A i, j \in DOMAIN t : i # j => SubIds(t[i]) \cap SubIds(t[j]) = {}

DecodeTable(t) ==
  LET ids == UNION {SubIds(t[i]) : i \in DOMAIN t}
      sub(n) == CHOOSE i \in DOMAIN t : n \in SubIds(t[i])
  IN [n \in ids |-> t[sub(n)].entries[n - t[sub(n)].first + 1]]

\* /Index pairs, consumed against the body in order.
IndexPairs(index) == [k \in 1 .. Len(index) \div 2 |->
                        <<index[2 * k - 1], index[2 * k]>>]

\* Number of body entries before the k-th pair.
RECURSIVE Before(_, _)
Before(pairs, k) == IF k = 1 THEN 0 ELSE Before(pairs, k - 1) + pairs[k - 1][2]

StreamWellFormed(index, body) ==
  LET pairs == IndexPairs(index)
  IN /\ Len(index) % 2 = 0
     /\ Before(pairs, Len(pairs) + 1) = Len(body)
     /\ \A i, j \in DOMAIN pairs :
          i # j => (pairs[i][1] .. pairs[i][1] + pairs[i][2] - 1)
                   \cap (pairs[j][1] .. pairs[j][1] + pairs[j][2] - 1) = {}

DecodeStream(index, body) ==
  LET pairs == IndexPairs(index)
      ids == UNION {pairs[k][1] .. pairs[k][1] + pairs[k][2] - 1 :
                      k \in DOMAIN pairs}
      pair(n) == CHOOSE k \in DOMAIN pairs :
                   n \in pairs[k][1] .. pairs[k][1] + pairs[k][2] - 1
  IN [n \in ids |-> body[Before(pairs, pair(n)) + n - pairs[pair(n)][1] + 1]]

\* What the position dictionary says a reader must find: the free-list head
\* at object 0 and every key at its recorded offset.
Expected(pd) ==
  [n \in {0} \cup {IdOf(k) : k \in DOMAIN pd} |->
     IF n = 0 THEN FreeEntry
     ELSE LET k == CHOOSE key \in DOMAIN pd : IdOf(key) = n
          IN InUse(pd[k], k[1])]
=============================================================================
