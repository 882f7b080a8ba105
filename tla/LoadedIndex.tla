---------------------------- MODULE LoadedIndex ----------------------------
(***************************************************************************)
(* Both ways for an index of source inputs to be published: one that this  *)
(* invocation built is sorted and validated (SourceInputIndex), one that   *)
(* came with metadata from elsewhere is validated as it is.                *)
(***************************************************************************)
EXTENDS SourceInputIndex

CONSTANTS
  LoadedFiles,   \* what the metadata may list as files,
  LoadedGroups,  \* as groups
  LoadedRefs     \* and as the group of each owner

ASSUME LoadedAssumption ==
  /\ \A f \in LoadedFiles : f \in Seq(Paths \X (Digests \cup {"malformed"}))
  /\ \A g \in LoadedGroups : g \in Seq(SUBSET Nat)
  /\ \A r \in LoadedRefs : \A o \in DOMAIN r : r[o] \in Nat

\* Texts of groups are ordered as texts are.
ASSUME OrderAssumption ==
  IsFiniteSet(Paths) /\ \A g \in SUBSET (1 .. Cardinality(Paths)) : ~ Before(g, g)

VARIABLES loadedIndex, loadedPhase
loadedVars == <<loadedIndex, loadedPhase>>
allVars == <<vars, loadedVars>>

Loaded == INSTANCE SourceInputIndex
            WITH files <- loadedIndex.files, groups <- loadedIndex.groups, ref <- loadedIndex.ref,
                 phase <- loadedPhase

BothInit ==
  /\ Init
  /\ \/ loadedPhase = "absent" /\ loadedIndex = [files |-> <<>>, groups |-> <<>>, ref |-> <<>>]
     \/ \E f \in LoadedFiles, g \in LoadedGroups, r \in LoadedRefs :
          loadedPhase = "loaded" /\ loadedIndex = [files |-> f, groups |-> g, ref |-> r]

BothNext ==
  \/ loadedPhase = "absent" /\ Next /\ UNCHANGED loadedVars
  \/ UNCHANGED <<vars, loadedIndex>> /\ Loaded!validateContentIDs

BothSpec == BothInit /\ [][BothNext]_allVars

\* What is published is canonical, whether it was built here or loaded: files and
\* groups are exactly those in use, in order, so neither the order of the
\* configurations nor whoever wrote a loaded file shows (validateSourceInputIndex,
\* canonicalizeSourceInputIndex).
PublishedIsCanonical == CanonicalForm /\ Loaded!CanonicalForm
=============================================================================
