----------------------------- MODULE Dashboard -----------------------------
(***************************************************************************)
(* App, the root of the single-page dashboard: session, stores, active     *)
(* shop and catalog, each loaded by requests that nothing cancels. Its     *)
(* panels are module DashboardPanels. A state update, the render and the   *)
(* effects it causes are one step.                                         *)
(***************************************************************************)
EXTENDS Naturals

CONSTANTS
  Shops,
  MaxPending,  \* bound: unanswered base loads, and catalog loads of one shop
  None

DashboardAssumption == None \notin Shops /\ MaxPending \in Nat \ {0}

VARIABLES
  session,  \* authed, the login form, and whether a logout is under way
  base,     \* stores, shops whose connection is ready, baseLoading; loads unanswered
  shop,     \* activeShopId
  catalog   \* the shop whose products are held, catalogLoading, catalogError; loads
            \* unanswered by shop

vars == <<session, base, shop, catalog>>

TypeOK ==
  /\ session \in [authed : {"unknown", "yes", "no"},
                  login : {"idle", "submitting", "failed"}, leaving : BOOLEAN]
  /\ base \in [stores : SUBSET Shops, ready : SUBSET Shops, loading : BOOLEAN, pending : Nat]
  /\ shop \in Shops \cup {None}
  /\ catalog \in [products : Shops \cup {None}, loading : BOOLEAN, error : BOOLEAN,
                  pending : [Shops -> Nat]]

\* The session is asked for at once; baseLoading starts true.
Init ==
  /\ session = [authed |-> "unknown", login |-> "idle", leaving |-> FALSE]
  /\ base = [stores |-> {}, ready |-> {}, loading |-> TRUE, pending |-> 0]
  /\ shop = None
  /\ catalog = [products |-> None, loading |-> FALSE, error |-> FALSE,
                pending |-> [s \in Shops |-> 0]]

-----------------------------------------------------------------------------
Authed == session.authed = "yes"

LoadBase == base' = [base EXCEPT !.loading = TRUE, !.pending = @ + 1]

\* loadCatalog of the shop, if there is one.
LoadCatalog(c, s) ==
  IF s = None THEN c
  ELSE [c EXCEPT !.loading = TRUE, !.error = FALSE, !.pending[s] = @ + 1]

Bounded == base'.pending <= MaxPending /\ \A s \in Shops : catalog'.pending[s] <= MaxPending

\* The effects on authed: they load the stores, and the catalog of a shop that is
\* active from before.
Enter ==
  /\ session' = [session EXCEPT !.authed = "yes", !.login = "idle"]
  /\ LoadBase /\ catalog' = LoadCatalog(catalog, shop)
  /\ Bounded
  /\ UNCHANGED shop

\* sessionStatus: anything but an authenticated answer is a no.
SessionAnswer ==
  /\ session.authed = "unknown"
  /\ \/ Enter
     \/ session' = [session EXCEPT !.authed = "no"] /\ UNCHANGED <<base, shop, catalog>>

\* The form of Login.
LoginSubmit ==
  /\ session.authed = "no" /\ session.login # "submitting"
  /\ session' = [session EXCEPT !.login = "submitting"]
  /\ UNCHANGED <<base, shop, catalog>>

LoginAnswer ==
  /\ session.authed = "no" /\ session.login = "submitting"
  /\ \/ Enter
     \/ session' = [session EXCEPT !.login = "failed"] /\ UNCHANGED <<base, shop, catalog>>

\* Mutant: the first store of the answer becomes active, whatever shop was.
FirstShop(stores) == IF stores = {} THEN {None} ELSE stores

\* setActiveShopId((current) => current ?? first store).
ActiveShop(stores) == IF shop # None \/ stores = {} THEN {shop} ELSE stores

\* loadBase succeeds, in whatever session; a shop that becomes active is loaded.
BaseAnswer(stores, ready) ==
  /\ base.pending > 0
  /\ base' = [stores |-> stores, ready |-> ready, loading |-> FALSE,
              pending |-> base.pending - 1]
  /\ shop' \in ActiveShop(stores)
  /\ catalog' = IF Authed /\ shop' # shop THEN LoadCatalog(catalog, shop') ELSE catalog
  /\ Bounded
  /\ UNCHANGED session

\* loadBase fails: a 401 ends the session, anything else is ignored.
BaseFails ==
  /\ base.pending > 0
  /\ base' = [base EXCEPT !.loading = FALSE, !.pending = @ - 1]
  /\ session' \in {session, [session EXCEPT !.authed = "no"]}
  /\ UNCHANGED <<shop, catalog>>

\* loadCatalog succeeds, whichever shop is active by now.
CatalogAnswer(s) ==
  /\ catalog.pending[s] > 0
  /\ catalog' = [catalog EXCEPT !.products = s, !.loading = FALSE, !.pending[s] = @ - 1]
  /\ UNCHANGED <<session, base, shop>>

\* loadCatalog fails: a 401 ends the session, anything else is the error shown.
CatalogFails(s) ==
  /\ catalog.pending[s] > 0
  /\ \E unauthorized \in BOOLEAN :
       /\ session' = [session EXCEPT !.authed = IF unauthorized THEN "no" ELSE @]
       /\ catalog' = [catalog EXCEPT !.products = None, !.loading = FALSE,
                                     !.error = @ \/ ~unauthorized, !.pending[s] = @ - 1]
  /\ UNCHANGED <<base, shop>>

\* onLogout awaits the server, then clears some of the state: the unanswered loads,
\* collectedAt and catalogError stay.
Logout ==
  /\ Authed /\ ~session.leaving
  /\ session' = [session EXCEPT !.leaving = TRUE]
  /\ UNCHANGED <<base, shop, catalog>>

LoggedOut ==
  /\ session.leaving
  /\ session' = [session EXCEPT !.leaving = FALSE, !.authed = "no"]
  /\ base' = [base EXCEPT !.stores = {}, !.ready = {}]
  /\ catalog' = [catalog EXCEPT !.products = None]
  /\ shop' = None

\* onRefresh; the button is disabled while anything loads.
Refresh ==
  /\ Authed /\ ~base.loading /\ ~catalog.loading
  /\ LoadBase /\ catalog' = LoadCatalog(catalog, shop)
  /\ Bounded
  /\ UNCHANGED <<session, shop>>

\* onShopChange, from the shop select of a view.
ChangeShop(s) ==
  /\ Authed /\ s \in base.stores \ {shop}
  /\ shop' = s /\ base' = base
  /\ catalog' = LoadCatalog(catalog, s)
  /\ Bounded
  /\ UNCHANGED session

\* ProductStatusDonut.
DonutShown ==
  IF catalog.loading THEN "loading"
  ELSE IF catalog.products = None THEN "empty"
  ELSE "chart"

\* ProductCatalog.
TableShown ==
  IF catalog.error THEN "error"
  ELSE IF catalog.loading THEN "loading"
  ELSE IF base.stores = {} THEN "no stores"
  ELSE IF catalog.products = None THEN "empty"
  ELSE "table"

Next ==
  \/ SessionAnswer \/ LoginSubmit \/ LoginAnswer
  \/ \E stores \in SUBSET Shops : \E ready \in SUBSET stores : BaseAnswer(stores, ready)
  \/ BaseFails
  \/ \E s \in Shops : CatalogAnswer(s) \/ CatalogFails(s) \/ ChangeShop(s)
  \/ Logout \/ LoggedOut \/ Refresh

Spec == Init /\ [][Next]_vars

-----------------------------------------------------------------------------
\* A session keeps the shop it works on until the user takes another or the login
\* form is back: no answer, however late, moves it. It is what DashboardPanels
\* assumes of App.
ShopIsKept ==
  [][\A s \in Shops :
       Authed /\ Authed' /\ shop = s /\ shop' # s
         => \E t \in Shops \ {s} : shop' = t /\ t \in base.stores /\ base' = base]_vars

\* What is shown as loading waits for an answer.
LoadsAreAwaited ==
  /\ Authed /\ base.loading => base.pending > 0
  /\ "loading" \in {DonutShown, TableShown} => \E s \in Shops : catalog.pending[s] > 0

\* The donut is of the active shop.
DonutIsOfActiveShop == Authed /\ DonutShown = "chart" => catalog.products = shop
=============================================================================
