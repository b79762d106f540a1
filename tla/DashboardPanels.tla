-------------------------- MODULE DashboardPanels --------------------------
(***************************************************************************)
(* The panels the dashboard mounts: their effects, the requests these make *)
(* of the web API, and the answers, which come in any order. App (module   *)
(* Dashboard) may render them with any shop and connection at any time. A  *)
(* render and the effects it causes are one step with the event behind it. *)
(*                                                                         *)
(* A panel's data is the key it was asked for: shop and range, shop and    *)
(* ad type, shop and product. A request whose effect was cleaned up is     *)
(* gone: its answer changes nothing.                                       *)
(***************************************************************************)
EXTENDS Naturals, FiniteSets

CONSTANTS
  Shops,
  Ranges,   \* complete date ranges of the picker
  AdTypes,  \* the ad type filter; AllTypes is where it starts
  AllTypes,
  PageSize, \* rows of one page of the product table
  MaxRows,  \* bound: rows of the product table
  None

VARIABLES
  view,         \* the view App shows; "login" when it shows the login form
  shop, ready,  \* what App passes: active shop, whether its connection is ready
  range, adType,
  table,        \* rows left by the filter, page, selected product and its drawer
  panels,       \* data, loading and error of each panel
  requests      \* unanswered requests

vars == <<view, shop, ready, range, adType, table, panels, requests>>

Views == {"dashboard", "produk", "ads", "inspektur"}
Panels == {"performance", "ads", "campaigns", "raw", "detail"}
HomeOf == [performance |-> "dashboard", ads |-> "ads", campaigns |-> "ads",
           raw |-> "inspektur", detail |-> "produk"]

Keys == Shops \X (Ranges \cup AdTypes \cup 1..MaxRows)

PanelsAssumption ==
  /\ PageSize \in Nat \ {0}
  /\ MaxRows \in Nat
  /\ AllTypes \in AdTypes
  /\ None \notin Shops \cup Ranges \cup AdTypes \cup Nat
  /\ \A key \in Keys : key # None

Requests == [panel : Panels, key : Keys]
Blank == [data |-> None, loading |-> FALSE, error |-> FALSE]
NoTable == [rows |-> 0, page |-> 1, selected |-> None, opened |-> FALSE, shortened |-> FALSE]

TypeOK ==
  /\ view \in Views \cup {"login"}
  /\ shop \in Shops \cup {None} /\ ready \in BOOLEAN
  /\ range \in Ranges \cup {None} /\ adType \in AdTypes
  /\ table \in [rows : 0..MaxRows, page : Nat, selected : 1..MaxRows \cup {None},
                opened : BOOLEAN, shortened : BOOLEAN]
  /\ panels \in [Panels -> [data : Keys \cup {None}, loading : BOOLEAN, error : BOOLEAN]]
  /\ requests \subseteq Requests

Init ==
  /\ view = "login" /\ shop = None /\ ready = FALSE
  /\ range \in Ranges /\ adType = AllTypes
  /\ table = NoTable
  /\ panels = [p \in Panels |-> Blank]
  /\ requests = {}

-----------------------------------------------------------------------------
(* What a panel asks for, and its effect. *)

WantsPerformance == IF shop = None \/ range = None THEN None ELSE <<shop, range>>
WantsAds == IF shop = None \/ ~ready \/ range = None THEN None ELSE <<shop, range>>
WantsCampaigns == IF shop = None \/ ~ready THEN None ELSE <<shop, adType>>
WantsDetail ==
  IF ~table.opened \/ table.selected = None \/ shop = None THEN None
  ELSE <<shop, table.selected>>

Wanted(p) ==
  CASE p = "performance" -> WantsPerformance
    [] p \in {"ads", "raw"} -> WantsAds
    [] p = "campaigns" -> WantsCampaigns
    [] p = "detail" -> WantsDetail

\* The dependencies of each effect.
Deps(p) ==
  CASE p = "performance" -> <<shop, range>>
    [] p \in {"ads", "raw"} -> <<shop, ready, range>>
    [] p = "campaigns" -> <<shop, ready, adType>>
    [] p = "detail" -> <<table.opened, table.selected, shop>>

\* ShopPerformance: with nothing to ask it leaves everything as it was.
PerformanceEffect(state, key) ==
  IF key = None THEN state ELSE [state EXCEPT !.loading = TRUE, !.error = FALSE]
\* AdsWorkspace: with nothing to ask it clears everything.
AdsEffect(state, key) == [Blank EXCEPT !.loading = key # None]
\* AdsProductCampaigns: it clears data and error, and not loading.
CampaignsEffect(state, key) ==
  IF key = None THEN [state EXCEPT !.data = None, !.error = FALSE]
  ELSE [state EXCEPT !.loading = TRUE, !.error = FALSE]
\* AdsRawInspector: the same.
RawEffect(state, key) ==
  IF key = None THEN [state EXCEPT !.data = None, !.error = FALSE]
  ELSE [state EXCEPT !.loading = TRUE, !.error = FALSE]
\* ProductDetailDrawer: a closed drawer keeps what it had.
DetailEffect(state, key) == IF key = None THEN state ELSE [Blank EXCEPT !.loading = TRUE]

Effect(p, state, key) ==
  CASE p = "performance" -> PerformanceEffect(state, key)
    [] p = "ads" -> AdsEffect(state, key)
    [] p = "campaigns" -> CampaignsEffect(state, key)
    [] p = "raw" -> RawEffect(state, key)
    [] p = "detail" -> DetailEffect(state, key)

\* Mutant: the effect has no cleanup.
LeaveRunning(rs, ps) == rs

\* The cleanup an effect returns: the answers will be ignored.
Cancel(rs, ps) == {r \in rs : r.panel \notin ps}

\* What a render does: a panel that is gone loses its state, one that is new starts
\* from nothing, one whose dependencies changed (or that counts refreshes, when
\* there was one) runs its effect again.
React(refreshed) ==
  LET gone == {p \in Panels : view' # HomeOf[p]}
      fresh == {p \in Panels : view # HomeOf[p] /\ view' = HomeOf[p]}
      again == {p \in Panels \ (gone \cup fresh) : Deps(p)' # Deps(p) \/ p \in refreshed}
      asking == {p \in fresh \cup again : Wanted(p)' # None}
  IN /\ panels' = [p \in Panels |->
                     IF p \in gone THEN Blank
                     ELSE IF p \in fresh \cup again THEN Effect(p, panels[p], Wanted(p)')
                     ELSE panels[p]]
     /\ requests' = Cancel(requests, gone \cup again)
                      \cup {[panel |-> p, key |-> Wanted(p)'] : p \in asking}

-----------------------------------------------------------------------------
(* What App does to its panels. *)

\* App shows another view, or the login form. The ad type goes with the ads view,
\* filter, page and drawer with the product table.
Switch(v) ==
  /\ v # view /\ view' = v
  /\ adType' = AllTypes
  /\ \E n \in 0..MaxRows : table' = [NoTable EXCEPT !.rows = IF v = "produk" THEN n ELSE 0]
  /\ UNCHANGED <<shop, ready, range>>
  /\ React({})

PageCount(rows) == IF rows = 0 THEN 1 ELSE (rows + PageSize - 1) \div PageSize

\* App renders with another shop, connection or catalog; it has a shop until it shows
\* the login form. An effect of the table goes back to the first page when the shop
\* changes, and only then.
Render ==
  /\ shop' \in Shops \cup (IF shop = None \/ view = "login" THEN {None} ELSE {})
  /\ ready' \in BOOLEAN
  /\ \E n \in 0..MaxRows :
       IF view # "produk" THEN n = 0 /\ UNCHANGED table
       ELSE table' = [table EXCEPT
                        !.rows = n,
                        !.page = IF shop' = shop THEN @ ELSE 1,
                        !.shortened = shop' = shop /\ table.page > PageCount(n)]
  /\ UNCHANGED <<view, range, adType>>
  /\ React({})

\* refreshTick: three of the effects depend on it.
Refresh ==
  /\ UNCHANGED <<view, shop, ready, range, adType, table>>
  /\ React({"ads", "campaigns", "raw"})

-----------------------------------------------------------------------------
(* What the user does. *)

\* The picker of the top bar; it reports a range as soon as its first day is chosen.
ChangeRange(r) ==
  /\ view \in {"dashboard", "ads", "inspektur"} /\ r # range
  /\ range' = r
  /\ UNCHANGED <<view, shop, ready, adType, table>>
  /\ React({})

ChangeAdType(t) ==
  /\ view = "ads" /\ t # adType
  /\ adType' = t
  /\ UNCHANGED <<view, shop, ready, range, table>>
  /\ React({})

\* The rows of the page shown.
PageRows == {n \in 1..table.rows : (n - 1) \div PageSize = table.page - 1}

\* Another query, status or order, and its effect: back to the first page.
Filtered(n) == [table EXCEPT !.rows = n, !.page = 1, !.shortened = FALSE]

ChangeFilter ==
  /\ view = "produk" /\ ~table.opened
  /\ \E n \in 0..MaxRows : table' = Filtered(n)
  /\ UNCHANGED <<view, shop, ready, range, adType>>
  /\ React({})

SetPage(n) ==
  /\ view = "produk" /\ ~table.opened /\ table.rows > 0
  /\ n \in 1..PageCount(table.rows)
  /\ table' = [table EXCEPT !.page = n, !.shortened = FALSE]
  /\ UNCHANGED <<view, shop, ready, range, adType>>
  /\ React({})

OpenDetail(n) ==
  /\ view = "produk" /\ ~table.opened /\ n \in PageRows
  /\ table' = [table EXCEPT !.selected = n, !.opened = TRUE]
  /\ UNCHANGED <<view, shop, ready, range, adType>>
  /\ React({})

CloseDetail ==
  /\ table.opened
  /\ table' = [table EXCEPT !.opened = FALSE]
  /\ UNCHANGED <<view, shop, ready, range, adType>>
  /\ React({})

-----------------------------------------------------------------------------
(* The answers, and what is shown. *)

\* getJson gives the body of an ok response; every other one is an error.
Outcome(p, state, key, ok) ==
  IF ok THEN [state EXCEPT !.data = key, !.loading = FALSE]
  ELSE IF p \in {"ads", "detail"} THEN [state EXCEPT !.error = TRUE, !.loading = FALSE]
  ELSE [data |-> None, loading |-> FALSE, error |-> TRUE]

Answer(r, ok) ==
  /\ r \in requests
  /\ requests' = requests \ {r}
  /\ panels' = [panels EXCEPT ![r.panel] = Outcome(r.panel, @, r.key, ok)]
  /\ UNCHANGED <<view, shop, ready, range, adType, table>>

Status(state) ==
  IF state.loading THEN "loading"
  ELSE IF state.error THEN "error"
  ELSE IF state.data = None THEN "empty"
  ELSE "data"

PerformanceShown == IF shop = None THEN "connect" ELSE Status(panels["performance"])
\* The figures are those of visibleData, beside a loader or an error.
AdsShown ==
  LET state == panels["ads"]
  IN IF state.data # None /\ state.data[1] = shop THEN "data"
     ELSE IF state.loading THEN "loading" ELSE IF state.error THEN "error" ELSE "empty"
CampaignsShown == IF shop = None \/ ~ready THEN "connect" ELSE Status(panels["campaigns"])
RawShown == IF shop = None \/ ~ready THEN "connect" ELSE Status(panels["raw"])
DetailShown == IF ~table.opened THEN "closed" ELSE Status(panels["detail"])

Shown(p) ==
  CASE p = "performance" -> PerformanceShown
    [] p = "ads" -> AdsShown
    [] p = "campaigns" -> CampaignsShown
    [] p = "raw" -> RawShown
    [] p = "detail" -> DetailShown

-----------------------------------------------------------------------------
Next ==
  \/ \E v \in Views \cup {"login"} : Switch(v)
  \/ Render \/ Refresh
  \/ \E r \in Ranges \cup {None} : ChangeRange(r)
  \/ \E t \in AdTypes : ChangeAdType(t)
  \/ ChangeFilter
  \/ \E n \in 1..MaxRows : SetPage(n) \/ OpenDetail(n)
  \/ CloseDetail
  \/ \E r \in requests, ok \in BOOLEAN : Answer(r, ok)

Spec == Init /\ [][Next]_vars

-----------------------------------------------------------------------------
\* Figures on display are those of the active shop and of the range, ad type or
\* product chosen, however the answers overtake each other.
FiguresAreCurrent ==
  \A p \in Panels :
    view = HomeOf[p] /\ Shown(p) = "data" /\ Wanted(p) # None => panels[p].data = Wanted(p)

\* A panel waits for one answer at most, and a spinner for one that will be taken.
\* Two panels keep theirs when the range becomes incomplete under a request.
SpinnersAreAwaited ==
  \A p \in Panels :
    LET waiting == {r \in requests : r.panel = p}
    IN /\ Cardinality(waiting) <= 1
       /\ view = HomeOf[p] /\ Shown(p) = "loading"
            => \/ \E r \in waiting : r.key = Wanted(p)
               \/ p \in {"performance", "raw"} /\ range = None

\* A table with rows shows some, unless a new catalog ended before the page shown.
PagesAreFilled == view = "produk" /\ table.rows > 0 => PageRows # {} \/ table.shortened

\* What is on display is what was asked for.
DisplayIsCurrent == FiguresAreCurrent /\ SpinnersAreAwaited /\ PagesAreFilled
=============================================================================
