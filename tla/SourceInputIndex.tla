-------------------------- MODULE SourceInputIndex --------------------------
(***************************************************************************)
(* The index of source inputs that all variants of all configurations      *)
(* share (internal/kconfig/compact_content.go).  While metadata is built,  *)
(* an interner numbers files and groups of files in the order in which it  *)
(* meets them; then both are sorted, so that the numbers say nothing about *)
(* that order, every reference is renumbered and the index is validated.   *)
(* Writing the metadata sorts, renumbers and validates it again.           *)
(*                                                                         *)
(* A group is the set of its file numbers (the code writes them down in    *)
(* increasing order), an input a pair <<path, digest>>.                    *)
(***************************************************************************)
EXTENDS Naturals, Sequences, FiniteSets

CONSTANTS
  Owners,        \* objects and families of generated headers, by their identity
  Kind(_),       \* "family", "action" (one compilation) or "composite"
  Primary(_),    \* {} or the source file an action cannot do without
  Paths,         \* places of source paths in the order of their names
  Digests,       \* well-formed SHA-256 digests
  List(_),       \* the input list of an owner: its identity is a digest of it and more
  Before(_, _)   \* the order of the texts of two groups

Inputs == Paths \X Digests

ASSUME PathsAssumption == Paths \subseteq Nat
ASSUME ListAssumption ==
  \A o \in Owners : List(o) \in Seq(Paths \X (Digests \cup {"malformed"}))

VARIABLES
  files,         \* SourceFiles
  groups,        \* SourceInputGroups
  ref,           \* SourceInputGroup of each owner in the metadata, 0 for none
  phase          \* "collecting", "loaded", "published" or "refused"

vars == <<files, groups, ref, phase>>

Elements(s) == {s[i] : i \in DOMAIN s}

\* The listings of a set in strict order
Listings(S, before(_, _)) ==
  {s \in [1 .. Cardinality(S) -> S] :
     /\ Elements(s) = S
     /\ \A i, j \in DOMAIN s : i < j => before(s[i], s[j]) /\ s[i] # s[j]}

byPath(a, b) == a[1] < b[1]

numberOf(x, s) == CHOOSE i \in DOMAIN s : s[i] = x

expanded(owner) == IF ref[owner] = 0 THEN {} ELSE {files[i] : i \in groups[ref[owner]]}

-----------------------------------------------------------------------------
(***************************************************************************)
(* The interner.                                                           *)
(***************************************************************************)
canonical(list) ==
  /\ Elements(list) \subseteq Inputs
  /\ \A i, j \in DOMAIN list : i # j => list[i][1] # list[j][1]

\* Fault: a path that is known keeps its first digest.
conflictsNever(list) == FALSE

conflicts(list) ==
  \E i \in DOMAIN list, f \in DOMAIN files :
    list[i][1] = files[f][1] /\ list[i][2] # files[f][2]

Init == files = <<>> /\ groups = <<>> /\ ref = [o \in {} |-> 0] /\ phase = "collecting"

referTo(owner, group) ==
  ref' = [o \in DOMAIN ref \cup {owner} |-> IF o = owner THEN group ELSE ref[o]]

\* Every path that is new gets the next number, in the order of paths.
newInputs(list) == {f \in Elements(list) : \A i \in DOMAIN files : files[i][1] # f[1]}

\* Of inputs that are known, only the path is looked at: the digest is the same.
indices(list, numbered) ==
  {i \in DOMAIN numbered : \E k \in DOMAIN list : numbered[i][1] = list[k][1]}

\* Fault: a group that is known is numbered again.
internGroupAgain(owner, group) ==
  groups' = Append(groups, group) /\ referTo(owner, Len(groups) + 1)

internGroup(owner, group) ==
  IF group \in Elements(groups)
  THEN groups' = groups /\ referTo(owner, numberOf(group, groups))
  ELSE groups' = Append(groups, group) /\ referTo(owner, Len(groups) + 1)

Intern(owner, list) ==
  /\ phase = "collecting"
  /\ list # <<>> /\ canonical(list) /\ ~ conflicts(list)
  /\ \E added \in Listings(newInputs(list), byPath) : files' = files \o added
  /\ internGroup(owner, indices(list, files'))
  /\ UNCHANGED phase

InternNothing(owner, list) ==
  /\ phase = "collecting"
  /\ list = <<>>
  /\ referTo(owner, 0) /\ UNCHANGED <<files, groups, phase>>

InternFails(list) ==
  /\ phase = "collecting"
  /\ ~ canonical(list) \/ conflicts(list)
  /\ phase' = "refused" /\ UNCHANGED <<files, groups, ref>>

-----------------------------------------------------------------------------
(***************************************************************************)
(* Validation, of what was built here and of what was loaded.              *)
(***************************************************************************)
strictlyOrdered ==
  /\ \A i, j \in DOMAIN files : i < j => files[i][1] < files[j][1]
  /\ \A i, j \in DOMAIN groups : i < j => Before(groups[i], groups[j])

\* What decodeCompactSourceInputGroup accepts
decodes(group) == group # {} /\ group \subseteq DOMAIN files

validateReference(owner) ==
  /\ ref[owner] \in DOMAIN groups
  /\ Primary(owner) \subseteq {files[i][1] : i \in groups[ref[owner]]}

validOwner(owner) ==
  CASE Kind(owner) = "family"    -> ref[owner] = 0 \/ ref[owner] \in DOMAIN groups
    [] Kind(owner) = "composite" -> ref[owner] = 0
    [] OTHER                     -> validateReference(owner)

allReferenced ==
  /\ {ref[o] : o \in DOMAIN ref} \ {0} = DOMAIN groups
  /\ UNION Elements(groups) = DOMAIN files

\* Fault: groups and files that nobody refers to are let through.
validateReferencesOnly ==
  /\ Elements(files) \subseteq Inputs /\ strictlyOrdered
  /\ \A i \in DOMAIN groups : decodes(groups[i])
  /\ \A o \in DOMAIN ref : validOwner(o)

validateSourceInputIndex ==
  /\ Elements(files) \subseteq Inputs /\ strictlyOrdered
  /\ \A i \in DOMAIN groups : decodes(groups[i])
  /\ \A o \in DOMAIN ref : validOwner(o)
  /\ allReferenced

-----------------------------------------------------------------------------
(***************************************************************************)
(* The canonical form.                                                     *)
(***************************************************************************)
renumbered(group, sorted) == {numberOf(files[i], sorted) : i \in group}

remapGroup(sorted, new) ==
  [o \in DOMAIN ref |->
     IF ref[o] = 0 THEN 0 ELSE numberOf(renumbered(groups[ref[o]], sorted), new)]

canonicalizeSourceInputIndex ==
  /\ \E sorted \in Listings(Elements(files), byPath) :
       \E new \in Listings({renumbered(g, sorted) : g \in Elements(groups)}, Before) :
         files' = sorted /\ groups' = new /\ ref' = remapGroup(sorted, new)
  /\ phase' = IF validateSourceInputIndex' THEN "published" ELSE "refused"

CompactMetadataBatch == phase = "collecting" /\ canonicalizeSourceInputIndex

\* Metadata may be written any number of times.
JSON == phase = "published" /\ canonicalizeSourceInputIndex

Next ==
  \/ \E owner \in Owners :
       \/ Intern(owner, List(owner))
       \/ InternNothing(owner, List(owner))
       \/ InternFails(List(owner))
  \/ CompactMetadataBatch \/ JSON

Spec == Init /\ [][Next]_vars

\* Metadata from elsewhere: any numbers (phase "loaded"), validated as they are.
validateContentIDs ==
  /\ phase = "loaded"
  /\ phase' = IF validateSourceInputIndex THEN "published" ELSE "refused"
  /\ UNCHANGED <<files, groups, ref>>

-----------------------------------------------------------------------------
(***************************************************************************)
(* Properties.                                                             *)
(***************************************************************************)

\* Between interning and publishing, numbers stay numbers: paths and groups are
\* distinct, groups are of existing files, and everything is referred to
\* (newCompactSourceInputInterner, intern).
IndexOK ==
  /\ \A i, j \in DOMAIN files : i # j => files[i][1] # files[j][1]
  /\ \A i, j \in DOMAIN groups : i # j => groups[i] # groups[j]
  /\ \A i \in DOMAIN groups : decodes(groups[i])
  /\ \A o \in DOMAIN ref : ref[o] \in 0 .. Len(groups)
  /\ allReferenced

broughtBy(owner) == Elements(List(owner))

acceptable(owner) == canonical(List(owner))

\* What an owner must have (validateReference and its callers)
complete(owner) ==
  CASE Kind(owner) = "family"    -> TRUE
    [] Kind(owner) = "composite" -> broughtBy(owner) = {}
    [] OTHER -> /\ broughtBy(owner) # {}
                /\ Primary(owner) \subseteq {f[1] : f \in broughtBy(owner)}

\* The index keeps what the store promises: interning, sorting and writing never
\* give an owner other inputs than it brought, never publish a path with two
\* digests or an owner that lacks what it needs, and refuse nothing else: the
\* canonical form always passes the validation (compact_content.go intern,
\* canonicalizeSourceInputIndex, validateSourceInputIndex).
Store == INSTANCE ContentStore
           WITH content <- [o \in DOMAIN ref |-> expanded(o)], InputsOf <- broughtBy,
                Acceptable <- acceptable, Complete <- complete

StoreRefined == Store!StoreSpec

\* Published metadata with the same inputs is the same: files and groups are
\* exactly those in use, in order, so neither the order of the configurations nor
\* whoever wrote a loaded file shows (validateSourceInputIndex).
CanonicalForm ==
  phase = "published" =>
    LET used == UNION {expanded(o) : o \in DOMAIN ref}
        sets == {expanded(o) : o \in DOMAIN ref} \ {{}}
    IN  /\ files \in Listings(used, byPath)
        /\ groups \in Listings({{numberOf(f, files) : f \in S} : S \in sets}, Before)
=============================================================================
