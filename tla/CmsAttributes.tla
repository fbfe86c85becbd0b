---------------------------- MODULE CmsAttributes ----------------------------
(***************************************************************************)
(* The CMS attribute providers of src/pyhanko/sign/attributes.py, driven   *)
(* by a signer that builds the signed-attribute set, first in dry-run      *)
(* (size estimation) mode and then for real.                               *)
(*                                                                         *)
(* A build starts one get_attribute task per configured provider.  The     *)
(* tasks run on one event loop in any order; a provider runs to            *)
(* completion in one step except TSTProvider, which suspends on the        *)
(* timestamper (line 162) until it answers or fails.  The set is           *)
(* assembled once every task has completed (the join).  The signer and     *)
(* the timestamper are outside src/ and are modelled from the spec         *)
(* (sections 4.4, 5 and 6).                                                *)
(***************************************************************************)
EXTENDS Naturals, Sequences, SequencesExt, FiniteSets

CONSTANTS
  Decl,          \* the providers in declaration order: [cls, type, data]
  Ocsp, Crls,    \* OCSP responses and CRLs a caller may hand over
  PreValue,      \* a pre-formatted RevocationInfoArchival (value=...)
  TokenSize,     \* the encoded size of a timestamp token (spec 6)
  MaxBuilds,     \* builds a signer runs before it stops
  None

Provs == 1 .. Len(Decl)
RevProvs == {i \in Provs : Decl[i].cls = "AdobeRevinfoProvider"}

VARIABLES
  value,      \* AdobeRevinfoProvider.value, per revinfo provider
  ocsp, crls, \* its ocsp_responses and crls (a list; empty is None or [])
  dry,        \* the dry_run flag of the build in progress, None if idle
  pc,         \* per provider task: "idle", "ready", "awaiting", "done"
  res,        \* per provider: what get_attribute returned, None if nothing
  builds      \* history: every build with its mode, the revinfo lists it
              \* ran with and its outcome

vars == <<value, ocsp, crls, dry, pc, res, builds>>

\* The value the RevocationInfoArchival constructor builds (line 118).
Archival(o, c) == [ocsp |-> o, crl |-> c]

\* simple_cms_attribute(self.attribute_type, value) (line 44).
Attr(i, v) == [type |-> Decl[i].type, prov |-> i, val |-> v]

\* The value a provider builds from its constructor arguments alone.
Fixed(i) == [fixed |-> Decl[i].cls]

\* The timestamper's answers (spec 6): a dummy token that contacts no
\* network, or a real token over the digest md.finalize() (line 160).
DummyToken(alg) == [token |-> "dummy", alg |-> alg]
RealToken(digest, alg) == [token |-> "real", alg |-> alg, digest |-> digest]
Digest(data, alg) == [hashOf |-> data, alg |-> alg]

\* The encoded size of an attribute value, to the precision the dry run
\* needs: a token's is TokenSize whether dummy or real.
Size(a) ==
  IF a.val = PreValue THEN 1
  ELSE IF "token" \in DOMAIN a.val THEN TokenSize
  ELSE IF "ocsp" \in DOMAIN a.val
       THEN 1 + Cardinality(a.val.ocsp) + Cardinality(a.val.crl)
  ELSE 1

\* AdobeRevinfoProvider.build_attr_value (lines 107-121): the cached value
\* if any; else an archival of the non-empty lists, cached; else None.
\* Returns <<result, new cache>>.
BuildRevinfo(i) ==
  IF value[i] # None THEN <<value[i], value[i]>>
  ELSE IF ocsp[i] = {} /\ crls[i] = {} THEN <<None, None>>
  ELSE LET v == Archival(ocsp[i], crls[i]) IN <<v, v>>

\* Mutant: the None check of get_attribute dropped.
GetAttributeNoNoneCheck(i, v) == Attr(i, v)

\* CMSAttributeProvider.get_attribute (lines 40-46).
GetAttribute(i, v) == IF v # None THEN Attr(i, v) ELSE None

\* A provider's task runs.  Signing certificate, signing time and algorithm
\* protection build their value from constructor arguments (lines 62-63,
\* 80-81, 132-139) and complete; the revinfo provider may fill its cache;
\* TSTProvider hashes its data and suspends on the timestamper (151-162).
RunProvider(i) ==
  /\ pc[i] = "ready"
  /\ CASE Decl[i].cls = "TSTProvider" ->
            /\ pc' = [pc EXCEPT ![i] = "awaiting"]
            /\ UNCHANGED <<value, res>>
       [] Decl[i].cls = "AdobeRevinfoProvider" ->
            LET r == BuildRevinfo(i) IN
            /\ value' = [value EXCEPT ![i] = r[2]]
            /\ res' = [res EXCEPT ![i] = GetAttribute(i, r[1])]
            /\ pc' = [pc EXCEPT ![i] = "done"]
       [] OTHER ->
            /\ res' = [res EXCEPT ![i] = GetAttribute(i, Fixed(i))]
            /\ pc' = [pc EXCEPT ![i] = "done"]
            /\ UNCHANGED value
  /\ UNCHANGED <<ocsp, crls, dry, builds>>

\* Mutant: the dry run skips the timestamp token (no dummy requested).
TimestampReplyNoDummy(i) ==
  LET alg == Decl[i].alg
      tok == IF dry THEN None
             ELSE RealToken(Digest(Decl[i].data, alg), alg)
  IN /\ pc[i] = "awaiting"
     /\ res' = [res EXCEPT ![i] = GetAttribute(i, tok)]
     /\ pc' = [pc EXCEPT ![i] = "done"]
     /\ UNCHANGED <<value, ocsp, crls, dry, builds>>

\* The lists the revinfo providers hold (fixed while a build runs).
Lists == [i \in RevProvs |-> <<ocsp[i], crls[i]>>]

TimestampReply(i) ==
  LET alg == Decl[i].alg
      tok == IF dry THEN DummyToken(alg)
             ELSE RealToken(Digest(Decl[i].data, alg), alg)
  IN /\ pc[i] = "awaiting"
     /\ res' = [res EXCEPT ![i] = GetAttribute(i, tok)]
     /\ pc' = [pc EXCEPT ![i] = "done"]
     /\ UNCHANGED <<value, ocsp, crls, dry, builds>>

\* The timestamper raises; the error propagates out of the await and the
\* build (spec 7: no retry in this core).  The other tasks are dropped.
TimestampFail(i) ==
  /\ pc[i] = "awaiting"
  /\ builds' = Append(builds, [dry |-> dry, ok |-> FALSE, lists |-> Lists,
                                   attrs |-> << >>])
  /\ dry' = None
  /\ pc' = [j \in Provs |-> "idle"]
  /\ UNCHANGED <<value, ocsp, crls, res>>

-----------------------------------------------------------------------------
(***************************************************************************)
(* The signer (spec_modelled, spec 4.4 and 5): start every provider, join  *)
(* when all completed, keep the non-empty results in declaration order.    *)
(***************************************************************************)
StartBuild(d) ==
  /\ dry = None
  /\ Len(builds) < MaxBuilds
  /\ dry' = d
  /\ pc' = [i \in Provs |-> "ready"]
  /\ res' = [i \in Provs |-> None]
  /\ UNCHANGED <<value, ocsp, crls, builds>>

Assemble == SelectSeq([i \in Provs |-> res[i]], LAMBDA a : a # None)

Join ==
  /\ dry # None
  /\ \A i \in Provs : pc[i] = "done"
  /\ builds' = Append(builds, [dry |-> dry, ok |-> TRUE, lists |-> Lists,
                               attrs |-> Assemble])
  /\ dry' = None
  /\ UNCHANGED <<value, ocsp, crls, pc, res>>

\* Between builds the caller replaces the contents of the lists it passed.
CallerChangesLists(i, o, c) ==
  /\ dry = None
  /\ <<o, c>> # <<ocsp[i], crls[i]>>
  /\ ocsp' = [ocsp EXCEPT ![i] = o]
  /\ crls' = [crls EXCEPT ![i] = c]
  /\ UNCHANGED <<value, dry, pc, res, builds>>

\* The constructor (lines 99-105): a pre-formatted value or none, and the
\* lists handed over.
Init ==
  /\ value \in [RevProvs -> {None, PreValue}]
  /\ ocsp \in [RevProvs -> SUBSET Ocsp]
  /\ crls \in [RevProvs -> SUBSET Crls]
  /\ dry = None
  /\ pc = [i \in Provs |-> "idle"]
  /\ res = [i \in Provs |-> None]
  /\ builds = << >>

Next ==
  \/ \E d \in BOOLEAN : StartBuild(d)
  \/ \E i \in Provs : RunProvider(i) \/ TimestampReply(i) \/ TimestampFail(i)
  \/ Join
  \/ \E i \in RevProvs, o \in SUBSET Ocsp, c \in SUBSET Crls :
       CallerChangesLists(i, o, c)

Spec == Init /\ [][Next]_vars
-----------------------------------------------------------------------------
Values ==
  {None, PreValue} \cup {Archival(o, c) : o \in SUBSET Ocsp, c \in SUBSET Crls}

TypeOK ==
  /\ value \in [RevProvs -> Values]
  /\ ocsp \in [RevProvs -> SUBSET Ocsp] /\ crls \in [RevProvs -> SUBSET Crls]
  /\ dry \in BOOLEAN \cup {None}
  /\ pc \in [Provs -> {"idle", "ready", "awaiting", "done"}]
  /\ \A i \in Provs : res[i] = None \/ (res[i].prov = i /\ res[i].val # None)
  /\ \A k \in DOMAIN builds : builds[k].dry \in BOOLEAN

\* The attribute types a completed build carries, with their sizes.
Shape(attrs) == [k \in DOMAIN attrs |-> <<attrs[k].type, Size(attrs[k])>>]

(***************************************************************************)
(* Dry-run size equality (spec 4.4, 6): the attribute set of a dry run has *)
(* the types and encoded sizes of the set a later real run produces, so    *)
(* the signature container sized by the dry run fits, whatever the caller *)
(* did to its lists in between as long as they hold the same responses     *)
(* again.  It rests on the dummy token of line 157 and the revinfo value   *)
(* and cache of lines 109-121.                                             *)
(***************************************************************************)
DryRunMatchesReal ==
  \A j, k \in DOMAIN builds :
    /\ j < k /\ builds[j].ok /\ builds[k].ok
    /\ builds[j].dry /\ ~builds[k].dry
    /\ builds[j].lists = builds[k].lists
    => Shape(builds[j].attrs) = Shape(builds[k].attrs)

=============================================================================
