---------------------------- MODULE ContentStore ----------------------------
(***************************************************************************)
(* What the source input index of the metadata promises: every owner (an   *)
(* object or a family of generated headers) keeps exactly the source       *)
(* inputs it was recorded with, a path has one digest for all owners,      *)
(* nothing incomplete is published and nothing published ever changes.     *)
(***************************************************************************)
EXTENDS Naturals, FiniteSets

CONSTANTS
  Owners,        \* objects and families, by their identity
  InputsOf(_),   \* the inputs an owner brings: sets of <<path, digest>>
  Acceptable(_), \* are they well formed?
  Complete(_)    \* are they all the owner needs?

VARIABLES
  content,    \* the inputs of each owner recorded so far
  phase       \* "collecting", "refused" or "published"

storeVars == <<content, phase>>

OneDigest(inputs) == \A a, b \in inputs : a[1] = b[1] => a[2] = b[2]

allInputs == UNION {content[o] : o \in DOMAIN content}

StoreInit == content = [o \in {} |-> {}] /\ phase = "collecting"

Record(owner) ==
  /\ phase = "collecting" /\ owner \notin DOMAIN content
  /\ Acceptable(owner) /\ OneDigest(allInputs \cup InputsOf(owner))
  /\ content' = [o \in DOMAIN content \cup {owner} |->
                   IF o = owner THEN InputsOf(owner) ELSE content[o]]
  /\ UNCHANGED phase

Refuse(owner) ==
  /\ phase = "collecting"
  /\ ~ (Acceptable(owner) /\ OneDigest(allInputs \cup InputsOf(owner)))
  /\ phase' = "refused" /\ UNCHANGED content

Publish ==
  /\ phase = "collecting"
  /\ phase' = IF \A o \in DOMAIN content : Complete(o) THEN "published" ELSE "refused"
  /\ UNCHANGED content

StoreNext == (\E owner \in Owners : Record(owner) \/ Refuse(owner)) \/ Publish

StoreSpec == StoreInit /\ [][StoreNext]_storeVars
=============================================================================
