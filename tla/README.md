# TLA+ models of pyHanko's PDF writer, page tree and CMS attribute providers

This directory holds TLA+ models of the three source files under `src/`:

- `src/pdf_utils/writer.py`: the PDF object writer, the cross-reference
  encoder and the page tree navigator/mutator;
- `src/pyhanko/sign/attributes.py`: the asynchronous CMS attribute providers;
- `src/pdfstamp/beid.py`: opening a PKCS#11 session on a Belgian eID card.

Every module is translated from those lines.  `PROJECT.json` maps each
definition to the lines it models, lists the runs, their mutants, the findings
and the hazards the properties are aimed at.

## 1. Inventory

### Components, their state and operations

| Component | Source | State it keeps | Operations |
|---|---|---|---|
| Object graph & writer orchestrator | `writer.py` 160-259, 471-503 | `objects` (key `(generation, id)` to object), `_lastobj_id`, `_root`, `_info`, `_document_id`, `stream_xrefs`, `_encrypt`/`_encrypt_key` (always `None` here) | `__init__`, `add_object`, `get_object`, `write` (`_write_header`, `_populate_trailer`, `_write_objects`, xref section, startxref) |
| Cross-reference encoder | `writer.py` 28-138 | none (pure); `XRefStream` holds a *reference* to the writer's position dictionary | `_contiguous_xref_chunks`, `write_xref_table`, `XRefStream.write_to_stream` |
| Per-object key derivation | `writer.py` 18-25 | none (pure) | `_derive_key` (only reachable with `_encrypt` set, which no class here does) |
| Page tree navigator/mutator | `writer.py` 261-436 | the page tree in `objects`: Pages nodes (`/Kids` direct or indirect, `/Count`, `/Resources`, `/Parent`), Page nodes (`/Resources`, `/Annots`, `/Parent`) | `_walk_page_tree` (`find_page_container`, `find_page_for_modification`), `insert_page`, `register_annotation`, `mark_update` (a no-op hook overridden by an incremental writer outside `src/`) |
| Page object constructor | `writer.py` 439-468 | none | `PageObject.__init__` (validation, `/Resources` defaulted to an empty dictionary) |
| XObject helper | `writer.py` 141-157 | none | `init_xobject_dictionary` (pure construction) |
| CMS attribute providers | `attributes.py` 1-161 | `AdobeRevinfoProvider.value` (a cache); the others are immutable | `build_attr_value(dry_run)` per provider, `get_attribute` |
| eID session opener | `beid.py` 12-36 | none (a search over the token slots) | `open_beid_session` |
| eID CA chain loader | `beid.py` 39-56 | none | `BEIDSigner._load_ca_chain` |

### How they interact

- `write()` reads `objects` in key order, records each object's offset in a
  local position dictionary, and hands that dictionary to the encoder.  In
  stream mode the `XRefStream` is built *before* any object is written and
  keeps a reference to the dictionary; `write()` adds the stream's own offset
  to it (line 241) before the stream serialises itself (line 245).
- `insert_page` calls the page-tree walk, mutates `/Count` on every ancestor
  via `/Parent`, allocates the new page with `add_object` and calls
  `mark_update` on what it changed.  `register_annotation` calls
  `mark_update` too.  An incremental writer (outside `src/`) writes exactly the
  marked objects, so a missed mark is a stale object in the updated file.
- Both share `self.objects`: the page tree lives in it, so what
  `insert_page` changed is what the next `write()` serialises, and the
  walk's view of the pages (navigating by `/Count`) must be the view a
  reader of the written bytes gets (navigating by `/Kids`, inheriting by
  `/Parent`).
- The CMS providers are awaited by a signer outside `src/`; `TSTProvider`
  suspends on the timestamper.  In dry-run mode the timestamper returns a
  dummy token whose size must equal the real one.
- `open_beid_session` walks the PKCS#11 slots; `get_token` may raise for any
  slot.  The slot list is fixed at `get_slots()`, but each reader is asked
  only when the loop reaches it, while the user may be inserting or
  pulling cards.

### What is hard here

There is no thread: the writer and the page tree are sequential, and the only
suspension point is the timestamper await in `TSTProvider`.  The difficulty is
in *sequences of legal calls* and *boundary values*: offsets recorded before
or after a write, a dictionary read after it is mutated, the free-entry
folding when the first object number is or is not 1, id gaps in incremental
updates, `/Count` kept consistent over repeated insertions into nested trees,
the objects an incremental update must re-emit, resource inheritance, and
the state left behind by a search loop that swallows errors.

### Properties that make each component correct

- Encoder: chunks are maximal consecutive runs covering the dictionary; the
  table and the stream parse and decode back to the dictionary plus the free
  entry.
- Writer: following `startxref` leads to a section that lists every object in
  the file at the offset of its `id gen obj` line; `/Size` is one more than the
  highest number; `/Root` and `/Info` are listed.
- Page tree: every `/Count` equals the number of leaves below the node; the
  walk returns the i-th leaf in document order with its inherited resources;
  `insert_page(after=a)` puts the new page at position `a+1` and keeps the
  others in order; `/Parent` links agree with `/Kids`; every object whose
  serialisation changed is marked for update.
- CMS providers: the dry-run attribute set has the same shape and sizes as
  the real one; a real run carries real timestamp tokens over each
  provider's own data.
- eID: the token handed to `token.open()` is a `BELPIC` token, or an error
  is raised.

## 2. Plan

In order of importance:

1. `XRef` (pure operators) with `MCXRef`, checked against a reference reader
   over every position dictionary on a bounded id range. **Done.**
2. `PdfWriter` (extends `XRef`): constructors, `add_object`, `write` in both
   xref modes, with a reader on the written file. **Done.**
3. `PageTree`: walk, `insert_page`, `register_annotation`, `mark_update`, on
   nested initial trees as an incremental update would find them. **Done.**
4. `BeidSession`: the slot search of `open_beid_session`. **Done.**
5. `CmsAttributes`: the providers as asynchronous tasks (the timestamper
   suspends), the signer's join (spec-modelled), dry run against real run.
   **Done.**
6. `IncrementalUpdate`: composes `PageTree` with `PdfWriter`, writing only the
   marked objects, and states as an abstract specification the document a
   reader sees after the update (the page tree of the in-memory writer), with
   the overlay of old and new objects refining it.
7. `_derive_key`: dropped. No path of `src/` calls it (`_encrypt` is only
   ever None), and a check against ISO 32000-1 Algorithm 1 could only
   restate its definition.
8. `PageList`: the abstract page list that `PageTree` implements, checked
   as a refinement. **Done.**
9. `PdfDocument`: composes `PageTree` with `PdfWriter` over one object
   store and reads the written file back (spec 8, round trip). **Done.**

Item 6 is what is left; item 9 is its full-write counterpart. The incremental writer that emits the marked
objects is not under `src/`, so it could only be spec-modelled. What it
depends on, that every changed object is marked, is already stated
directly by `PagesUpdatesMarked` and `PageUpdatesMarked`.

## 3. Modules and runs

### Modules

- `XRef.tla`: pure operators. `ChunkLoop`/`ContiguousXrefChunks` are the
  generator of `_contiguous_xref_chunks` (state `first_idnum`,
  `current_chunk`, `previous_idnum` as parameters). `WriteXrefTable` is
  `write_xref_table` with its two free-entry cases. `XrefStreamIndex` and
  `XrefStreamBody` are `XRefStream.write_to_stream`. The `Decode*` and
  `*WellFormed` operators are a reader (ISO 32000-1 7.5.4 and 7.5.8). They
  are the reference the encoder is checked against, not a translation of code.
- `MCXRef.tla`: a variable `pd` ranges over position dictionaries on ids
  1..5 with generations {0, 2}. Keys are added and dropped one at a time,
  so every non-empty dictionary, gaps included, is reached.
- `PdfWriter.tla`: the writer's state is `lastobj` (`_lastobj_id`),
  `objects` (key `<<gen, id>>` to a body: its length and a value, `Opaque`
  for objects added through `add_object`), `rootRef`, `infoRef`,
  `streamXrefs` and `hasHeader`. `file` is the output of the last `write()`.
  `file` is kept as a sequence of pieces with lengths, so `Tell` is
  `stream.tell()`. Actions are `AddObject` (`add_object`) and `Write`
  (all of `write()`: header, objects in key order, the xref table or
  stream, trailer, `startxref`). The initial states are those of
  `BasePdfFileWriter.__init__` and `PdfFileWriter.__init__`.
- `PageTree.tla`: the page tree as functions over object ids: `kind`,
  `kids` (with `kidsRef`: direct or an indirect array id), `count`,
  `parent`, `res`, `annots` (with `annotsRef`). `marked` is the set
  `mark_update` was called on, and `base` is the serialisation of each
  object as the file was read. `WalkPageTree` is `_walk_page_tree`
  (recursive `Recurse`/`WalkKids`). The actions are `InsertPage`
  (`insert_page`, the walk, the `/Parent` loop, the allocation and the marks
  in one step) and `RegisterAnnotation`.
- `PageList.tla`: the abstract specification of the page tree, the document
  as a reader sees it. It holds a list of pages, each page's effective
  resources and its annotations. `Insert(a, p)` puts a fresh page at
  position `a + 1` and leaves the other pages alone. `Annotate` appends to
  one page. `PageTree` maps `pages` to the leaves in `/Kids` order, `rsrc`
  to the resources inherited up `/Parent`, and `annotsOf` to `/Annots`
  (`PL == INSTANCE PageList WITH ...`). Its `PageListRefinement` property
  is `PL!Spec`.
- `MCPageTree.tla`: two initial trees. One is the fresh tree of
  `PdfFileWriter.__init__`. The other is a nested tree as an incremental
  writer would find it: an indirect root `/Kids` with root resources, an
  intermediate Pages node holding two pages (one with its own resources
  and an indirect `/Annots`), and a page with a direct `/Annots`.
- `PdfDocument.tla`: the composition. `T == INSTANCE PageTree` and
  `W == INSTANCE PdfWriter WITH objects <- Objs, rootRef <- 1,
  infoRef <- 2`. `Objs` is `self.objects` derived from the tree: the
  catalog (`/Pages`), the info dictionary, each Pages node (`/Count`,
  `/Kids` direct or as an indirect array, `/Parent`, `/Resources`), each
  Page (`/Parent`, `/Resources`, the dictionary `PageObject` builds) and
  each indirect array. Its actions are `T!InsertPage` and `W!Write`, each
  leaving the other side unchanged; `written` records what
  `find_page_for_modification` returned for every index when the file was
  written. `Val`, `ReadLeaves` and `ReadRes` are a reader that sees only
  the pieces of `file`: startxref, the xref section, each object at its
  listed offset, `/Kids` resolved through an indirect array, resources
  inherited up `/Parent`.
- `MCPdfDocument.tla`: `PdfFileWriter()` on the fresh tree (header, xref
  stream) and a `BasePdfFileWriter` (no header, table or stream) whose
  caller added the nested tree of `MCPageTree` with `add_object`.
- `BeidSession.tla`: `slots` is what `get_token()` does per slot (raise,
  a BELPIC token, another token). `session` is the outcome of the last
  `open_beid_session` call. The call with `slot_no=None` is
  `OpenBeidSession(None)` (entering the loop), one `SearchStep` per slot
  (lines 18-24, with the `break`) and `SearchEnd` (lines 25-26); `pc`, `k`
  and `token` are the loop's state. A numbered call checks its slot in one
  step, with Python's negative indexing. Both paths end in `Open`
  (`token.open()`, line 36), a step of its own: on a slot whose card
  changed since it was read, the open raises or opens the card now there. `CardChange` is the user changing a card at
  any moment, and `steady` records the slots that held the eID since the
  search began.
- `CmsAttributes.tla`: one signed-attribute build after another. `dry` is
  the mode of the build in progress, and `pc` and `res` are the providers' tasks. `value`, `ocsp` and `crls` are `AdobeRevinfoProvider`'s
  state, and `builds` is the history of finished builds.
  - `RunProvider` is `build_attr_value` with `get_attribute`. For a
    `TSTProvider` it is the part up to the await at line 162.
  - `TimestampReply` and `TimestampFail` are the timestamper answering or
    raising at that await.
  - `StartBuild`, `Join` and `Assemble` are the signer. They are
    spec-modelled (spec 4.4 and 5), because the signer is not under `src/`.
  - `CallerChangesLists` is a caller that changes, between builds, the lists
    it handed to the revinfo provider.
  - MD5 digests and tokens are records, and sizes are abstract.
  `MCCmsAttributes.tla` configures two timestamp providers, a revinfo
  provider, a signing-certificate provider and an algorithm-protection
  provider.

### Runs

| Run | cfg | Expect | Shows |
|---|---|---|---|
| `xref_encoding` | `MCXRef.cfg` | pass | chunks are maximal runs, and table and stream decode to the dictionary plus the free entry (242 states) |
| `writer_file` | `MCPdfWriter.cfg` | pass | every object of every written file is indexed at its header offset, and `/Size`, `/Root`, `/Info` and `startxref` agree with the xref section (3352 states) |
| `page_tree` | `MCPageTree.cfg` | pass | `/Count` equals the leaves below, `/Parent` agrees with `/Kids`, the walk finds page i with its inherited resources, and the tree refines `PageList`: each insert lands at `after + 1` and no other page changes (10641 states) |
| `page_tree_ancestor_marks` | `MCPageTree_PagesUpdatesMarked.cfg` | violation | the ancestors whose `/Count` changed are not marked |
| `page_tree_annots_marks` | `MCPageTree_PageUpdatesMarked.cfg` | violation | an indirect `/Annots` array is changed but the annotation is marked |
| `page_tree_resources` | `MCPageTree_ResourcesInheritedNonEmpty.cfg` | violation | an empty `/Resources` shadows inherited ones |
| `beid_search` | `BeidSession.cfg` | pass | with cards changing between any two `get_token()` calls, an eID card that stays in its reader while the loop runs makes the loop hand a BELPIC token to `token.open()`; the open itself may still fail on a card pulled after it was read (69039 states) |
| `beid_wrong_token` | `BeidSession_OpensOnlyBelpic.cfg` | violation | a session is opened on a non-BELPIC token |
| `cms_attributes` | `MCCmsAttributes.cfg` | pass | a dry run has the attribute types and sizes of a later real run over the same lists, and every timestamp of a real run is a real token over its own provider's data, whatever order the two round-trips complete in (52936 states) |
| `document_round_trip` | `MCPdfDocument.cfg` | pass | after any sequence of inserts, the file `write()` produces reads back, through its xref section, `/Kids` and `/Parent`, to exactly the pages, in order, and the inherited resources that the writer's own walk reported when it wrote (2802 states, about 80 s) |

Each property of a passing run has a mutant in `PROJECT.json`: a plausible
slip in the mapped code that TLC reports as a violation of that property.

### Bounds

- XRef: 5 ids give gaps of one and of more, runs starting at 1 and above 1,
  and up to three chunks. Two generations show the generation is carried.
- PdfWriter: start ids {0, 8} cover a fresh writer and an incremental one
  (the free entry gets its own subsection). Bodies of length 1 and 60 make
  offsets cross a digit boundary. `MaxId` 6 allows several objects and id
  gaps between the two constructors.
- PageTree: two inserts on the nested tree reach every container kind:
  root, intermediate node, after the last page, and `after = -1`. One
  annotation on each `/Annots` kind. Three inserts took almost 4 minutes,
  too close to the 5-minute budget of a run.
- PdfDocument: two inserts, as in PageTree, with writes before, between
  and after them. On the nested tree an insert into the intermediate node
  changes the `/Count` of both Pages nodes and the length of the node
  and, in the xref table case, of every later object's offset; the root's
  `/Kids` is read through the indirect array 4.
- BeidSession: 4 slots cover every order of error, other and BELPIC before
  and after the steady eID slot, with changes to slots already passed and
  still ahead; slot numbers range over -5..4, past both ends.
- CmsAttributes: two timestamp providers give two pending round-trips that
  complete in either order, interleaved with the synchronous providers.
  They are declared around the others, so completion order and declaration
  order differ. One OCSP response and one CRL give every combination of
  "no value", "only one list" and "both lists", plus a pre-formatted value.
  Two builds are enough for a dry run followed by a real run, or a failed
  build followed by another.

### Fairness and deadlock

The writer, the page tree, the eID search and the attribute providers are
libraries driven by their caller, and only safety is checked. That every
attribute build ends follows from the spec-modelled signer's join alone, so
no liveness property is stated and no fairness is assumed.

`MCPageTree.cfg` and `MCCmsAttributes.cfg` say `CHECK_DEADLOCK FALSE`.
Their bounds on inserts, annotations and builds end every behaviour, and a
client may stop calling at any point. The other runs always have an
enabled step (`MCPdfDocument` included: `write()` is always enabled).

### Findings

1. `insert_page` (writer.py 432) marks only the container and the `/Kids`
   array. The ancestors whose `/Count` it raised are not marked, so an
   incremental update leaves the old `/Count` in the file.
2. `register_annotation` (writer.py 267) marks `annot_ref` instead of
   `annots_ref` when `/Annots` is indirect, so the array with the new entry
   is never written.
3. `find_page_for_modification` takes the nearest *present* `/Resources`.
   `PageObject` always sets one, empty by default, so inherited resources
   are shadowed. This disagrees with the "nearest non-empty" wording of
   the spec, but matches ISO 32000.
4. `open_beid_session` (beid.py 25) opens a session on a non-BELPIC token
   when no BELPIC token exists and some other token could be read.

### Not modelled

- The call of `_derive_key` inside `_write_objects`, and object encryption.
  No class under `src/` sets `_encrypt`, so `_derive_key` is unreachable
  and not modelled.
- The `IndirectObject` root and info of `BasePdfFileWriter.__init__` (lines
  168-169, 173-174): the models start from direct dictionaries.
- The revocation-info cache keeps its first archival across builds; spec
  4.4 says it should, so no property asks otherwise.
- After a timestamper failure, the tasks still pending are dropped. Under
  `asyncio.gather` they would run on unobserved. The only state they could
  change is the revinfo cache, and its value depends only on the lists.
- The generic PDF object model. An object's serialisation is its length
  and, in `PdfDocument`, the entries a reader of the page tree uses;
  `/MediaBox`, `/Contents` and `/ID` are left out.
- `register_annotation` in `PdfDocument`: the round trip is about pages and
  resources, and `PageTree` checks annotations.
- The parsing of an existing file: the nested tree is given as an initial
  state.
- `parent.get('/Parent')` is assumed to resolve.
- `SigningTimeProvider` is not in the MC instance. Its task is
  `RunProvider`'s constructor-argument case, which `SigningCertificateV2Provider`
  already exercises.
- `_load_ca_chain` and `init_xobject_dictionary`: no state is kept.
  `_load_ca_chain` is two PKCS#11 queries that raise `ValueError` unless
  exactly one certificate carries each label. Spec section 1 puts token
  session management out of scope, and there is no interleaving or order
  to explore.
