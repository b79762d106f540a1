----------------------------- MODULE CopyIntents -----------------------------
(***************************************************************************)
(* Copying a product to another shop, as far as the code goes: previews,   *)
(* the intent made of one, and its rows. Nothing in the repository calls   *)
(* the intents yet: editors are the callers, and what publishes a stored   *)
(* intent is outside. A preview is what its input determines, and its hash *)
(* is the input.                                                           *)
(***************************************************************************)
EXTENDS Naturals, FiniteSets

CONSTANTS
  Editors,
  Sources,     \* [product, organization, shop, complete, length, attributes]
  Inputs,      \* [source : Sources, requirement : [organization, shop, complete, maximum,
               \*  categories, required], category]
  Ours,        \* the organization of the callers
  Accessible,  \* the shops they may read
  MaxVersion,  \* bound: command version of an intent
  None

CopyAssumption ==
  /\ \A i \in Inputs : i.source \in Sources
  /\ MaxVersion \in Nat \ {0} /\ None \notin Inputs

VARIABLES
  canonical,   \* the source snapshot the repository holds
  shown,       \* previews the API has shown
  held,        \* the intent each editor works on, and the publication it last read of it
  previews, intents,  \* the two tables
  publication  \* outside: how far the publication of a stored intent is

vars == <<canonical, shown, held, previews, intents, publication>>

IdOf(input) == <<input.source, input.requirement.shop>>
Ids == {IdOf(i) : i \in Inputs}
Intents == [id : Ids, active : Inputs, version : 1..MaxVersion, generation : 1..MaxVersion]
Publications == {"none", "started", "published"}
NoIntent == [intent |-> None, read |-> "none"]

TypeOK ==
  /\ canonical \in Sources
  /\ shown \subseteq Inputs /\ previews \subseteq Inputs
  /\ held \in [Editors -> [intent : Intents \cup {None}, read : Publications]]
  /\ intents \in [Ids -> Intents \cup {None}]
  /\ publication \in [Ids -> Publications]

Init ==
  /\ canonical \in Sources
  /\ shown = {} /\ previews = {}
  /\ held = [e \in Editors |-> NoIntent]
  /\ intents = [i \in Ids |-> None]
  /\ publication = [i \in Ids |-> "none"]

-----------------------------------------------------------------------------
\* validatePreview.
Errors(input) ==
  LET source == input.source
      requirement == input.requirement
      Raised(code, holds) == IF holds THEN {<<code>>} ELSE {}
  IN Raised("organization_mismatch", source.organization # requirement.organization)
       \cup Raised("source_incomplete", ~source.complete)
       \cup Raised("requirements_incomplete", ~requirement.complete)
       \cup Raised("destination_category_unsupported", input.category \notin requirement.categories)
       \cup Raised("title_too_long", source.length > requirement.maximum)
       \cup {<<"required_attribute_missing", a>> : a \in requirement.required \ source.attributes}

IsValid(input) == Errors(input) = {}

\* createCopyPreviewApiHandler, for the destinations of one source: it must be the
\* snapshot held, and one destination that is refused refuses them all.
Allowed(batch) ==
  \A i \in batch : /\ i.source.organization = Ours /\ i.source.shop \in Accessible
                   /\ i.source = canonical
                   /\ i.requirement.organization = Ours /\ i.requirement.shop \in Accessible

Preview(batch) ==
  /\ \A i, j \in batch : i.source = j.source
  /\ shown' = IF Allowed(batch) THEN shown \cup batch ELSE shown
  /\ UNCHANGED <<canonical, held, previews, intents, publication>>

\* The product is read again.
Recapture(source) ==
  /\ source # canonical /\ canonical' = source
  /\ UNCHANGED <<shown, held, previews, intents, publication>>

\* createStableCopyIntent.
CreateIntent(e, input) ==
  /\ input \in shown /\ IsValid(input)
  /\ held' = [held EXCEPT ![e] =
       [intent |-> [id |-> IdOf(input), active |-> input, version |-> 1, generation |-> 1],
        read |-> "none"]]
  /\ UNCHANGED <<canonical, shown, previews, intents, publication>>

\* The editor finds out about the publication of its intent.
ReadPublication(e) ==
  /\ held[e].intent # None
  /\ held' = [held EXCEPT ![e].read = publication[held[e].intent.id]]
  /\ UNCHANGED <<canonical, shown, previews, intents, publication>>

\* supersedeCopyIntent, on what was read. The next preview may be of anything.
Supersede(e, input) ==
  /\ held[e].intent # None /\ held[e].intent.version < MaxVersion
  /\ input \in shown /\ IsValid(input)
  /\ held[e].read = "none"
  /\ held' = [held EXCEPT ![e].intent.active = input,
                          ![e].intent.version = @ + 1, ![e].intent.generation = @ + 1]
  /\ UNCHANGED <<canonical, shown, previews, intents, publication>>

-----------------------------------------------------------------------------
(* PostgresCopyPreviewRepository. *)

\* Mutant: the row of an intent that is there is updated.
Upsertable(id) == TRUE

\* The key of the table.
Insertable(id) == intents[id] = None

\* save: another shop's preview is a scope_mismatch, and a preview or an intent that is
\* there already fails the transaction, in which case nothing is kept.
Save(e) ==
  LET intent == held[e].intent
  IN /\ intent # None
     /\ intent.active.requirement.shop = intent.id[2]
     /\ intent.active \notin previews /\ Insertable(intent.id)
     /\ previews' = previews \cup {intent.active}
     /\ intents' = [intents EXCEPT ![intent.id] = intent]
     /\ UNCHANGED <<canonical, shown, held, publication>>

\* read. (node-postgres gives the jsonb attributes as an object, which mapValue refuses: with
\* it a read only throws. With a driver that gives the text, or the tests' fake, it succeeds.)
Load(e, id) ==
  /\ intents[id] # None
  /\ held' = [held EXCEPT ![e] = [intent |-> intents[id], read |-> "none"]]
  /\ UNCHANGED <<canonical, shown, previews, intents, publication>>

\* Outside: the stored intent is published.
Publish(id) ==
  /\ intents[id] # None /\ publication[id] # "published"
  /\ publication' = [publication EXCEPT ![id] = IF @ = "none" THEN "started" ELSE "published"]
  /\ UNCHANGED <<canonical, shown, held, previews, intents>>

Next ==
  \/ \E batch \in SUBSET Inputs : Preview(batch)
  \/ \E s \in Sources : Recapture(s)
  \/ \E e \in Editors, i \in Inputs : CreateIntent(e, i) \/ Supersede(e, i)
  \/ \E e \in Editors : ReadPublication(e) \/ Save(e)
  \/ \E e \in Editors, id \in Ids : Load(e, id)
  \/ \E id \in Ids : Publish(id)

Spec == Init /\ [][Next]_vars

-----------------------------------------------------------------------------
\* What is to be published is stored once and for all, with a valid preview for its shop
\* that was shown: an editor that supersedes its intent, from a publication read too
\* early or beside another editor, cannot change it under way.
StoredIntentsStay ==
  [][\A id \in Ids :
       intents'[id] # intents[id] =>
         /\ intents[id] = None /\ publication[id] = "none"
         /\ intents'[id].active \in previews' \cap shown
         /\ IsValid(intents'[id].active)
         /\ intents'[id].active.requirement.shop = id[2]]_vars
=============================================================================
