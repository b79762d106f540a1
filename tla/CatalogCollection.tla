-------------------------- MODULE CatalogCollection --------------------------
(***************************************************************************)
(* A catalog request: the access check and the pages a collection asks the *)
(* provider for. The provider's list is paged by offset and may change     *)
(* between any two calls. What a product is made of is left out.           *)
(***************************************************************************)
EXTENDS Naturals, Sequences, FiniteSets

CONSTANTS
  Products,
  PageSize,
  MaxOffset,  \* bound: offsets the provider may name
  None

VARIABLES
  shelf,    \* the provider's list of this shop
  request,  \* the request being served
  steady    \* history: since the request began the provider has kept its list, named
            \* honest offsets and answered in full

vars == <<shelf, request, steady>>

Offsets == 0..MaxOffset
\* A cursor is an offset; a collection may begin with none, which is another way to say 0.
Cursors == Offsets \cup {None}
OffsetOf(cursor) == IF cursor = None THEN 0 ELSE cursor
Shelves == {s \in UNION {[1..n -> Products] : n \in 0..Cardinality(Products)} :
              \A i, j \in DOMAIN s : i # j => s[i] # s[j]}
Reasons == {"missing_next_cursor", "cursor_repeated", "duplicate_product", "malformed_page"}
Denials == {"authentication_required", "invalid_catalog_request", "organization_mismatch",
            "shop_not_accessible", "capability_unavailable"}

CatalogAssumption ==
  /\ PageSize \in Nat \ {0} /\ MaxOffset \in Nat
  /\ None \notin Products \cup Nat \cup Reasons \cup Denials

\* What may be wrong with a request: the first of these refuses it.
Contexts == [caller : BOOLEAN, query : BOOLEAN, organization : BOOLEAN, shop : BOOLEAN,
             enabled : BOOLEAN]

\* phase: "list" is before get_item_list, "details" before get_item_base_info, "loop"
\* when the adapter has returned a page; reason None is complete.
Idle == [phase |-> "idle", start |-> None, cursor |-> None, requested |-> {}, page |-> {},
         found |-> {}, next |-> None, products |-> {}, reason |-> None, denial |-> None]

TypeOK ==
  /\ shelf \in Shelves
  /\ request \in [phase : {"idle", "list", "details", "loop", "collected", "denied", "failed"},
                  start : Cursors, cursor : Cursors, requested : SUBSET Cursors,
                  page : SUBSET Products, found : SUBSET Products, next : Cursors,
                  products : SUBSET Products, reason : Reasons \cup {None},
                  denial : Denials \cup {None}]
  /\ steady \in BOOLEAN

Init == shelf \in Shelves /\ request = Idle /\ steady = TRUE

-----------------------------------------------------------------------------
\* createCatalogApiHandler refuses the caller, the query or another organization,
\* requestCatalogSync a shop the caller may not read and a capability that is off.
Denial(context) ==
  IF ~context.caller THEN "authentication_required"
  ELSE IF ~context.query THEN "invalid_catalog_request"
  ELSE IF ~context.organization THEN "organization_mismatch"
  ELSE IF ~context.shop THEN "shop_not_accessible"
  ELSE IF ~context.enabled THEN "capability_unavailable"
  ELSE None

\* The caller may name the cursor to start from.
Begin(context, start) ==
  /\ request.phase = "idle"
  /\ request' = [Idle EXCEPT
                   !.denial = Denial(context), !.start = start, !.cursor = start,
                   !.phase = IF Denial(context) # None THEN "denied" ELSE "list"]
  /\ steady' = TRUE
  /\ UNCHANGED shelf

\* Mutant: the cursors already asked for are not remembered.
AskAgain(r) == [r EXCEPT !.phase = "list"]

\* The head of the loop: a cursor asked for twice ends the collection.
AskFor(r) ==
  IF r.cursor \in r.requested
  THEN [r EXCEPT !.phase = "collected", !.reason = "cursor_repeated"]
  ELSE [r EXCEPT !.phase = "list"]

Slice(offset) == {shelf[i] : i \in (offset + 1)..(IF offset + PageSize < Len(shelf)
                                                  THEN offset + PageSize ELSE Len(shelf))}

\* get_item_list: has_next_page and next_offset are the provider's word, and a page with
\* a next one and no offset is an error.
ListPage(next) ==
  /\ request.phase = "list"
  /\ LET offset == OffsetOf(request.cursor)
         more == offset + PageSize < Len(shelf)
         honest == IF more THEN next = offset + PageSize ELSE next = None
     IN /\ request' = [request EXCEPT
                         !.phase = "details",
                         !.requested = @ \cup {request.cursor},
                         !.page = Slice(offset), !.next = next]
        /\ steady' = (steady /\ honest)
  /\ UNCHANGED shelf

\* get_item_base_info of the items listed gives those that are still there, or fewer;
\* attachEngagementStats may fail without a trace. For an empty page nothing is asked, and
\* the empty answer put in its place does not parse: it fails (ProviderFails).
PageDetails(found) ==
  /\ request.phase = "details" /\ request.page # {}
  /\ found \subseteq request.page
  /\ request' = [request EXCEPT !.phase = "loop", !.found = found]
  /\ steady' = (steady /\ found = request.page)
  /\ UNCHANGED shelf

\* The body of the loop: a product seen before is dropped and leaves a reason.
Merge(r) ==
  [r EXCEPT !.products = @ \cup r.found, !.page = {}, !.found = {},
            !.reason = IF r.found \cap r.products # {} THEN "duplicate_product" ELSE @]

CollectPage ==
  /\ request.phase = "loop"
  /\ request' =
       IF request.next = None
       THEN [Merge(request) EXCEPT !.phase = "collected"]
       ELSE AskFor([Merge(request) EXCEPT !.cursor = request.next, !.next = None])
  /\ UNCHANGED <<shelf, steady>>

\* An adapter that answers with something else: not a page, or no cursor of the next.
BadPage(reason) ==
  /\ request.phase = "loop"
  /\ reason \in {"malformed_page", "missing_next_cursor"}
  /\ request' = [IF reason = "malformed_page" THEN request ELSE Merge(request)
                   EXCEPT !.phase = "collected", !.reason = reason,
                          !.page = {}, !.found = {}, !.next = None]
  /\ UNCHANGED <<shelf, steady>>

\* The provider fails, or the cursor is not an offset: 502, whatever was collected.
ProviderFails ==
  /\ request.phase \in {"list", "details"}
  /\ request' = [request EXCEPT !.phase = "failed"]
  /\ UNCHANGED <<shelf, steady>>

\* The shop edits its list.
ShelfChanges ==
  /\ request.phase \in {"list", "details"}
  /\ shelf' \in Shelves \ {shelf} /\ steady' = FALSE
  /\ UNCHANGED request

\* The answer is out.
Finish ==
  /\ request.phase \in {"collected", "denied", "failed"}
  /\ request' = Idle /\ steady' = TRUE
  /\ UNCHANGED shelf

Next ==
  \/ \E c \in Contexts, start \in Cursors : Begin(c, start)
  \/ \E next \in Cursors : ListPage(next)
  \/ \E found \in SUBSET Products : PageDetails(found)
  \/ CollectPage \/ ProviderFails \/ ShelfChanges \/ Finish
  \/ \E reason \in Reasons : BadPage(reason)

Spec == Init /\ [][Next]_vars

-----------------------------------------------------------------------------
\* A collection said to be complete and begun at the first page has every product of a
\* list that was steady meanwhile, a collection sends no cursor twice, whatever cursors
\* the provider names, and a caller who is denied costs no call.
CollectionIsSound ==
  /\ request.phase = "collected" /\ request.reason = None /\ OffsetOf(request.start) = 0 /\ steady
       => request.products = {shelf[i] : i \in DOMAIN shelf}
  /\ request.phase = "list" => request.cursor \notin request.requested
  /\ request.phase = "denied" => request.requested = {}
=============================================================================
