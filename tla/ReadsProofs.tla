---------------------------- MODULE ReadsProofs ----------------------------
(***************************************************************************)
(* Proofs about the parts of WebRuntime that read and show: the panels and *)
(* the dashboard, the catalog and its store, the sections of the provider, *)
(* the analytics and the measurements. Each theorem is about the part      *)
(* alone; WebRuntimeProofs takes them together.                            *)
(***************************************************************************)
EXTENDS WebRuntime, Integers, FiniteSetTheorems, TLAPS

-----------------------------------------------------------------------------
(* The dashboard. *)

\* The types of the two resources of App.
BaseTypes == [stores : SUBSET Shops, ready : SUBSET Shops, loading : BOOLEAN, pending : Nat]
CatalogTypes == [products : Shops \cup {None}, loading : BOOLEAN, error : BOOLEAN,
                 pending : [Shops -> Nat]]

\* A catalog that is loading waits for an answer about some shop.
CatalogIsAwaited(c) == c.loading => \E s \in Shops : c.pending[s] > 0

\* The inductive invariant of App.
DashboardInv ==
  /\ D!TypeOK
  /\ D!Authed /\ dBase.loading => dBase.pending > 0
  /\ CatalogIsAwaited(dCatalog)

\* A load keeps the types, and is awaited.
LEMMA LoadFacts ==
  ASSUME NEW c \in CatalogTypes, CatalogIsAwaited(c), NEW s \in Shops \cup {None}
  PROVE  D!LoadCatalog(c, s) \in CatalogTypes /\ CatalogIsAwaited(D!LoadCatalog(c, s))
<1>1. CASE s = None
  BY <1>1 DEF D!LoadCatalog
<1>2. CASE s # None
  <2>. DEFINE n == D!LoadCatalog(c, s)
  <2>1. s \in Shops /\ c.pending \in [Shops -> Nat]
    BY <1>2 DEF CatalogTypes
  <2>2. n = [c EXCEPT !.loading = TRUE, !.error = FALSE, !.pending[s] = @ + 1]
    BY <1>2 DEF D!LoadCatalog
  <2>3. n.products = c.products /\ n.loading = TRUE /\ n.error = FALSE
        /\ n.pending = [c.pending EXCEPT ![s] = @ + 1]
        /\ n = [products |-> n.products, loading |-> n.loading, error |-> n.error,
               pending |-> n.pending]
    BY <2>2 DEF CatalogTypes
  <2>4. n.pending \in [Shops -> Nat] /\ n.pending[s] > 0
    BY <2>1, <2>3
  <2>. HIDE DEF n
  <2>. QED
    BY <2>1, <2>3, <2>4 DEF CatalogTypes, CatalogIsAwaited, n
<1>. QED
  BY <1>1, <1>2

\* A load that ends leaves one less to wait for.
LEMMA AnswerFacts ==
  ASSUME NEW c \in CatalogTypes, NEW s \in Shops, c.pending[s] > 0,
         NEW n, NEW x \in Shops \cup {None}, NEW e \in BOOLEAN,
         n = [c EXCEPT !.products = x, !.loading = FALSE, !.error = e, !.pending[s] = @ - 1]
  PROVE  n \in CatalogTypes /\ n.loading = FALSE
<1>1. c.pending \in [Shops -> Nat]
  BY DEF CatalogTypes
<1>2. n.products = x /\ n.loading = FALSE /\ n.error = e
      /\ n.pending = [c.pending EXCEPT ![s] = @ - 1]
      /\ n = [products |-> n.products, loading |-> n.loading, error |-> n.error,
             pending |-> n.pending]
  BY DEF CatalogTypes
<1>3. n.pending \in [Shops -> Nat]
  <2>1. c.pending[s] - 1 \in Nat
    BY <1>1
  <2>. QED
    BY <1>1, <1>2, <2>1
<1>. QED
  BY <1>2, <1>3 DEF CatalogTypes

\* The same of the loads of the stores.
LEMMA BaseFacts ==
  ASSUME NEW b \in BaseTypes, NEW n \in Nat, NEW l \in BOOLEAN
  PROVE  /\ [b EXCEPT !.loading = l, !.pending = n] \in BaseTypes
         /\ [b EXCEPT !.loading = l, !.pending = n].loading = l
         /\ [b EXCEPT !.loading = l, !.pending = n].pending = n
BY DEF BaseTypes

\* The inductive step.
LEMMA DashboardStep ==
  ASSUME DashboardInv, [D!Next]_(D!vars)
  PROVE  DashboardInv'
<1>. USE PartsAssumption DEF D!DashboardAssumption
<1>0. /\ dCatalog \in CatalogTypes /\ CatalogIsAwaited(dCatalog) /\ dBase \in BaseTypes
      /\ dShop \in Shops \cup {None}
      /\ dSession \in [authed : {"unknown", "yes", "no"},
                       login : {"idle", "submitting", "failed"}, leaving : BOOLEAN]
      /\ (dSession.authed = "yes" /\ dBase.loading => dBase.pending > 0)
  BY DEF DashboardInv, D!TypeOK, CatalogTypes, BaseTypes, D!Authed
<1>1. ASSUME /\ dCatalog' \in CatalogTypes /\ CatalogIsAwaited(dCatalog') /\ dBase' \in BaseTypes
             /\ dShop' \in Shops \cup {None}
             /\ dSession' \in [authed : {"unknown", "yes", "no"},
                               login : {"idle", "submitting", "failed"}, leaving : BOOLEAN]
             /\ (dSession'.authed = "yes" /\ dBase'.loading => dBase'.pending > 0)
      PROVE  DashboardInv'
  BY <1>1 DEF DashboardInv, D!TypeOK, CatalogTypes, BaseTypes, D!Authed, CatalogIsAwaited
<1>2. CASE D!Enter
  <2>1. dBase' = [dBase EXCEPT !.loading = TRUE, !.pending = @ + 1]
        /\ dSession' = [dSession EXCEPT !.authed = "yes", !.login = "idle"]
        /\ dCatalog' = D!LoadCatalog(dCatalog, dShop) /\ dShop' = dShop
    BY <1>2 DEF D!Enter, D!LoadBase
  <2>2. dBase' \in BaseTypes /\ dBase'.pending > 0
    <3>1. dBase.pending + 1 \in Nat /\ dBase.pending + 1 > 0
      BY <1>0 DEF BaseTypes
    <3>2. dBase' = [dBase EXCEPT !.loading = TRUE, !.pending = dBase.pending + 1]
      BY <2>1
    <3>3. dBase' \in BaseTypes /\ dBase'.pending = dBase.pending + 1
      BY <1>0, <3>1, <3>2, BaseFacts
    <3>. QED
      BY <3>1, <3>3
  <2>3. dCatalog' \in CatalogTypes /\ CatalogIsAwaited(dCatalog')
    BY <1>0, <2>1, LoadFacts
  <2>. QED
    BY <1>0, <1>1, <2>1, <2>2, <2>3
<1>3. CASE D!SessionAnswer
  BY <1>0, <1>1, <1>2, <1>3 DEF D!SessionAnswer
<1>4. CASE D!LoginSubmit
  BY <1>0, <1>1, <1>4 DEF D!LoginSubmit
<1>5. CASE D!LoginAnswer
  BY <1>0, <1>1, <1>2, <1>5 DEF D!LoginAnswer
<1>6. ASSUME NEW stores \in SUBSET Shops, NEW ready \in SUBSET stores, D!BaseAnswer(stores, ready)
      PROVE  DashboardInv'
  <2>1. dBase' = [stores |-> stores, ready |-> ready, loading |-> FALSE,
            pending |-> dBase.pending - 1]
        /\ dBase.pending > 0 /\ dShop' \in D!ActiveShop(stores) /\ dSession' = dSession
        /\ dCatalog' \in {dCatalog, D!LoadCatalog(dCatalog, dShop')}
    BY <1>6 DEF D!BaseAnswer
  <2>2. dBase' \in BaseTypes /\ dBase'.loading = FALSE
    BY <1>0, <2>1 DEF BaseTypes
  <2>3. dShop' \in Shops \cup {None}
    BY <1>0, <2>1 DEF D!ActiveShop
  <2>4. dCatalog' \in CatalogTypes /\ CatalogIsAwaited(dCatalog')
    BY <1>0, <2>1, <2>3, LoadFacts
  <2>. QED
    BY <1>0, <1>1, <2>1, <2>2, <2>3, <2>4
<1>7. CASE D!BaseFails
  <2>1. dBase' \in BaseTypes /\ dBase'.loading = FALSE
    <3>1. dBase.pending - 1 \in Nat
      BY <1>0, <1>7 DEF BaseTypes, D!BaseFails
    <3>. QED
      BY <1>0, <1>7, <3>1, BaseFacts DEF D!BaseFails
  <2>. QED
    BY <1>0, <1>1, <1>7, <2>1 DEF D!BaseFails
<1>8. ASSUME NEW s \in Shops, D!CatalogAnswer(s) PROVE DashboardInv'
  <2>1. dCatalog' \in CatalogTypes /\ dCatalog'.loading = FALSE
    <3>1. dCatalog' = [dCatalog EXCEPT !.products = s, !.loading = FALSE,
              !.error = dCatalog.error,
                                       !.pending[s] = @ - 1]
      BY <1>0, <1>8 DEF D!CatalogAnswer, CatalogTypes
    <3>2. dCatalog.error \in BOOLEAN /\ dCatalog.pending[s] > 0 /\ s \in Shops \cup {None}
      BY <1>0, <1>8 DEF D!CatalogAnswer, CatalogTypes
    <3>. QED
      BY <1>0, <3>1, <3>2, AnswerFacts
  <2>. QED
    BY <1>0, <1>1, <1>8, <2>1 DEF D!CatalogAnswer, CatalogIsAwaited
<1>9. ASSUME NEW s \in Shops, D!CatalogFails(s) PROVE DashboardInv'
  <2>1. PICK unauthorized \in BOOLEAN :
          /\ dSession' = [dSession EXCEPT !.authed = IF unauthorized THEN "no" ELSE @]
          /\ dCatalog' = [dCatalog EXCEPT !.products = None, !.loading = FALSE,
                                          !.error = @ \/ ~unauthorized, !.pending[s] = @ - 1]
    BY <1>9 DEF D!CatalogFails
  <2>2. dCatalog.pending[s] > 0 /\ UNCHANGED <<dBase, dShop>>
    BY <1>9 DEF D!CatalogFails
  <2>3. dCatalog' \in CatalogTypes /\ dCatalog'.loading = FALSE
    <3>1. (dCatalog.error \/ ~unauthorized) \in BOOLEAN
      OBVIOUS
    <3>. QED
      BY <1>0, <2>1, <2>2, <3>1, AnswerFacts
  <2>4. dSession' \in [authed : {"unknown", "yes", "no"},
                       login : {"idle", "submitting", "failed"}, leaving : BOOLEAN]
        /\ dSession'.authed \in {dSession.authed, "no"}
    BY <1>0, <2>1
  <2>. QED
    BY <1>0, <1>1, <2>2, <2>3, <2>4 DEF CatalogIsAwaited
<1>10. CASE D!Logout
  BY <1>0, <1>1, <1>10 DEF D!Logout
<1>11. CASE D!LoggedOut
  <2>1. dBase' \in BaseTypes /\ dCatalog' \in CatalogTypes
        /\ dCatalog'.loading = dCatalog.loading /\ dCatalog'.pending = dCatalog.pending
    BY <1>0, <1>11 DEF D!LoggedOut, BaseTypes, CatalogTypes
  <2>. QED
    BY <1>0, <1>1, <1>11, <2>1 DEF D!LoggedOut, CatalogIsAwaited
<1>12. CASE D!Refresh
  <2>1. dBase' = [dBase EXCEPT !.loading = TRUE, !.pending = @ + 1]
        /\ dCatalog' = D!LoadCatalog(dCatalog, dShop) /\ UNCHANGED <<dSession, dShop>>
    BY <1>12 DEF D!Refresh, D!LoadBase
  <2>2. dBase' \in BaseTypes /\ dBase'.pending > 0
    <3>1. dBase.pending + 1 \in Nat /\ dBase.pending + 1 > 0
      BY <1>0 DEF BaseTypes
    <3>2. dBase' = [dBase EXCEPT !.loading = TRUE, !.pending = dBase.pending + 1]
      BY <2>1
    <3>3. dBase' \in BaseTypes /\ dBase'.pending = dBase.pending + 1
      BY <1>0, <3>1, <3>2, BaseFacts
    <3>. QED
      BY <3>1, <3>3
  <2>3. dCatalog' \in CatalogTypes /\ CatalogIsAwaited(dCatalog')
    BY <1>0, <2>1, LoadFacts
  <2>. QED
    BY <1>0, <1>1, <2>1, <2>2, <2>3
<1>13. ASSUME NEW s \in Shops, D!ChangeShop(s) PROVE DashboardInv'
  <2>1. dCatalog' \in CatalogTypes /\ CatalogIsAwaited(dCatalog')
    BY <1>0, <1>13, LoadFacts DEF D!ChangeShop
  <2>. QED
    BY <1>0, <1>1, <1>13, <2>1 DEF D!ChangeShop
<1>14. CASE UNCHANGED D!vars
  BY <1>0, <1>1, <1>14 DEF D!vars
<1>. QED
  BY <1>3, <1>4, <1>5, <1>6, <1>7, <1>8, <1>9, <1>10, <1>11, <1>12, <1>13, <1>14 DEF D!Next

\* The invariant of App is inductive.
THEOREM DashboardInvariant == D!Spec => []DashboardInv
<1>1. D!Init => DashboardInv
  BY DEF D!Init, DashboardInv, D!TypeOK, D!Authed, CatalogIsAwaited
<1>. QED
  BY <1>1, DashboardStep, PTL DEF D!Spec

\* What the dashboard shows as loading is awaited: an answer is due that ends it (App).
THEOREM LoadsAreAwaitedAlways == D!Spec => []D!LoadsAreAwaited
<1>1. DashboardInv => D!LoadsAreAwaited
  BY DEF DashboardInv, CatalogIsAwaited, D!LoadsAreAwaited, D!DonutShown, D!TableShown
<1>. QED
  BY <1>1, DashboardInvariant, PTL

\* A shop stays chosen for a session until another that was loaded is chosen (App.chooseShop).
THEOREM ShopIsKeptAlways == D!Spec => D!ShopIsKept
<1>. DEFINE Kept == \A s \in Shops :
       D!Authed /\ D!Authed' /\ dShop = s /\ dShop' # s
         => \E t \in Shops \ {s} : dShop' = t /\ t \in dBase.stores /\ dBase' = dBase
<1>1. DashboardInv /\ [D!Next]_(D!vars) => [Kept]_(D!vars)
  <2>. SUFFICES ASSUME DashboardInv, D!Next, NEW s \in Shops, D!Authed, D!Authed', dShop = s,
                       dShop' # s
                PROVE  \E t \in Shops \ {s} : dShop' = t /\ t \in dBase.stores /\ dBase' = dBase
    OBVIOUS
  <2>1. s # None
    BY PartsAssumption DEF D!DashboardAssumption
  <2>2. ~D!LoggedOut
    BY DEF D!LoggedOut, D!Authed, DashboardInv, D!TypeOK
  <2>3. \A stores \in SUBSET Shops : \A ready \in SUBSET stores : ~D!BaseAnswer(stores, ready)
    BY <2>1 DEF D!BaseAnswer, D!ActiveShop
  <2>4. \E t \in Shops : D!ChangeShop(t)
    BY <2>2, <2>3 DEF D!Next, D!SessionAnswer, D!Enter, D!LoginSubmit, D!LoginAnswer, D!BaseFails,
       D!CatalogAnswer, D!CatalogFails, D!Logout, D!Refresh
  <2>. QED
    BY <2>4 DEF D!ChangeShop
<1>. HIDE DEF Kept
<1>2. D!Spec => [][Kept]_(D!vars)
  BY <1>1, DashboardInvariant, PTL DEF D!Spec
<1>. QED
  BY <1>2 DEF Kept, D!ShopIsKept

-----------------------------------------------------------------------------
(* The panels. *)

\* The types of a panel and of the table.
PanelStates == [data : P!Keys \cup {None}, loading : BOOLEAN, error : BOOLEAN]
Tables == [rows : 0..MaxRows, page : Nat, selected : 1..MaxRows \cup {None},
           opened : BOOLEAN, shortened : BOOLEAN]

\* What a panel wants, of the values its effect depends on.
WantedOf(p, s, ready, range, type, opened, selected) ==
  IF p = "performance" THEN IF s = None \/ range = None THEN None ELSE <<s, range>>
  ELSE IF p \in {"ads", "raw"} THEN IF s = None \/ ~ready \/ range = None THEN None ELSE <<s,
      range>>
  ELSE IF p = "campaigns" THEN IF s = None \/ ~ready THEN None ELSE <<s, type>>
  ELSE IF ~opened \/ selected = None \/ s = None THEN None ELSE <<s, selected>>

\* A panel that is shown and wants something waits for it, or shows it.
PanelIsCurrent(p) ==
  pView = P!HomeOf[p] /\ P!Wanted(p) # None =>
    /\ pPanels[p].loading => [panel |-> p, key |-> P!Wanted(p)] \in pRequests
    /\ pPanels[p].data # None /\ (~pPanels[p].loading \/ p \in {"ads", "detail"})
         => pPanels[p].data = P!Wanted(p)

\* A request is for what its panel, which is shown, wants.
RequestsAreCurrent ==
  \A r \in pRequests : pView = P!HomeOf[r.panel] /\ r.key = P!Wanted(r.panel)

\* A panel that is not shown has no state, and two that want nothing wait for nothing:
\* the ads figures, and the detail while there is no shop.
NothingIsLeft ==
  /\ \A p \in P!Panels : pView # P!HomeOf[p] => pPanels[p] = P!Blank
  /\ pPanels["ads"].loading => P!Wanted("ads") # None
  /\ pPanels["detail"].loading => pShop # None

\* The page of the table is one it has, or the table was cut short under it.
PageIsThere ==
  /\ pTable.page >= 1
  /\ \A n \in 0..MaxRows : pTable.rows = n => pTable.page <= P!PageCount(n) \/ pTable.shortened
  /\ pTable.opened => pTable.selected # None

\* The inductive invariant of the panels.
PanelsInv ==
  /\ P!TypeOK
  /\ \A p \in P!Panels : PanelIsCurrent(p)
  /\ RequestsAreCurrent /\ NothingIsLeft /\ PageIsThere

\* Wanted depends on nothing else.
LEMMA WantedIsOf ==
  /\ \A p \in P!Panels : P!Wanted(p) = WantedOf(p, pShop, pReady, pRange, pAdType, pTable.opened,
         pTable.selected)
  /\ \A p \in P!Panels : P!Wanted(p)' = WantedOf(p, pShop', pReady', pRange', pAdType',
         pTable'.opened, pTable'.selected)
BY DEF P!Panels, P!Wanted, P!WantsPerformance, P!WantsAds, P!WantsCampaigns, P!WantsDetail,
   WantedOf

\* What is wanted is a key or nothing.
LEMMA WantedFacts ==
  ASSUME NEW p \in P!Panels, NEW s \in Shops \cup {None}, NEW ready \in BOOLEAN,
         NEW range \in Ranges \cup {None}, NEW type \in AdTypes, NEW opened \in BOOLEAN,
         NEW selected \in 1..MaxRows \cup {None}
  PROVE  /\ WantedOf(p, s, ready, range, type, opened, selected) \in P!Keys \cup {None}
         /\ WantedOf(p, s, ready, range, type, opened, selected) = None =>
                           \/ s = None
                           \/ p \in {"performance", "ads", "raw"} /\ range = None
                           \/ p \in {"ads", "raw", "campaigns"} /\ ~ready
                           \/ p = "detail" /\ (~opened \/ selected = None)
<1>. DEFINE Second == Ranges \cup AdTypes \cup 1..MaxRows
<1>1. \A a \in Shops : \A b \in Second : <<a, b>> \in P!Keys /\ <<a, b>> # None
  BY PartsAssumption DEF P!Keys, P!PanelsAssumption
<1>2. None \notin Shops \cup Ranges \cup AdTypes
  BY PartsAssumption DEF P!PanelsAssumption
<1>. QED
  BY <1>1, <1>2 DEF WantedOf, P!Panels

\* With the same dependencies a panel wants the same.
LEMMA SameDeps ==
  ASSUME NEW p \in P!Panels, P!Deps(p)' = P!Deps(p)
  PROVE  P!Wanted(p)' = P!Wanted(p)
<1>1. CASE p = "performance"
  BY <1>1, WantedIsOf DEF WantedOf, P!Deps
<1>2. CASE p \in {"ads", "raw"}
  BY <1>2, WantedIsOf DEF WantedOf, P!Deps
<1>3. CASE p = "campaigns"
  BY <1>3, WantedIsOf DEF WantedOf, P!Deps
<1>4. CASE p = "detail"
  BY <1>4, WantedIsOf DEF WantedOf, P!Deps
<1>. QED
  BY <1>1, <1>2, <1>3, <1>4 DEF P!Panels

\* A panel begins with nothing shown and nothing awaited.
LEMMA BlankFacts == P!Blank \in PanelStates /\ P!Blank.data = None /\ ~P!Blank.loading
BY DEF P!Blank, PanelStates

\* An effect that asks for something says so, and forgets in two panels what was shown.
LEMMA EffectFacts ==
  ASSUME NEW p \in P!Panels, NEW state \in PanelStates, NEW key \in P!Keys \cup {None}
  PROVE  /\ P!Effect(p, state, key) \in PanelStates
         /\ key # None => /\ P!Effect(p, state, key).loading
                          /\ p \in {"ads", "detail"} => P!Effect(p, state, key).data = None
         /\ key = None => /\ p = "ads" => ~P!Effect(p, state, key).loading
                          /\ ~state.loading => ~P!Effect(p, state, key).loading
<1>1. CASE p = "performance"
  BY <1>1 DEF P!Effect, P!PerformanceEffect, PanelStates
<1>2. CASE p = "ads"
  BY <1>2 DEF P!Effect, P!AdsEffect, PanelStates, P!Blank
<1>3. CASE p = "campaigns"
  BY <1>3 DEF P!Effect, P!CampaignsEffect, PanelStates
<1>4. CASE p = "raw"
  BY <1>4 DEF P!Effect, P!RawEffect, PanelStates
<1>5. CASE p = "detail"
  BY <1>5 DEF P!Effect, P!DetailEffect, PanelStates, P!Blank
<1>. QED
  BY <1>1, <1>2, <1>3, <1>4, <1>5 DEF P!Panels

\* A render keeps every panel current, whatever changed.
LEMMA ReactKeeps ==
  ASSUME P!TypeOK, \A p \in P!Panels : PanelIsCurrent(p), RequestsAreCurrent, NothingIsLeft,
         NEW refreshed, P!React(refreshed),
         pView' \in P!Views \cup {"login"}, pShop' \in Shops \cup {None}, pReady' \in BOOLEAN,
         pRange' \in Ranges \cup {None}, pAdType' \in AdTypes, pTable' \in Tables,
         pView' = pView /\ pView # "login" /\ pShop # None => pShop' # None
  PROVE  /\ pPanels' \in [P!Panels -> PanelStates] /\ pRequests' \subseteq P!Requests
         /\ \A p \in P!Panels : PanelIsCurrent(p)'
         /\ RequestsAreCurrent' /\ NothingIsLeft'
<1>. DEFINE gone == {p \in P!Panels : pView' # P!HomeOf[p]}
            fresh == {p \in P!Panels : pView # P!HomeOf[p] /\ pView' = P!HomeOf[p]}
            again == {p \in P!Panels \ (gone \cup fresh) : 
                        P!Deps(p)' # P!Deps(p) \/ p \in refreshed}
            asking == {p \in fresh \cup again : P!Wanted(p)' # None}
            W1(p) == P!Wanted(p)'
<1>1. /\ pPanels' = [p \in P!Panels |->
                     IF p \in gone THEN P!Blank
                     ELSE IF p \in fresh \cup again THEN P!Effect(p, pPanels[p], W1(p))
                     ELSE pPanels[p]]
      /\ pRequests' = P!Cancel(pRequests, gone \cup again)
                      \cup {[panel |-> p, key |-> W1(p)] : p \in asking}
  BY DEF P!React
<1>2. \A p \in P!Panels : /\ pPanels[p] \in PanelStates
                          /\ P!Wanted(p) \in P!Keys \cup {None}
                          /\ W1(p) \in P!Keys \cup {None}
  <2>1. \A p \in P!Panels : pPanels[p] \in PanelStates
    BY DEF P!TypeOK, PanelStates
  <2>2. /\ pTable.opened \in BOOLEAN /\ pTable.selected \in 1..MaxRows \cup {None}
        /\ pTable'.opened \in BOOLEAN /\ pTable'.selected \in 1..MaxRows \cup {None}
    BY DEF P!TypeOK, Tables
  <2>3. /\ pShop \in Shops \cup {None} /\ pReady \in BOOLEAN /\ pRange \in Ranges \cup {None}
        /\ pAdType \in AdTypes
    BY DEF P!TypeOK
  <2>4. \A p \in P!Panels : P!Wanted(p) \in P!Keys \cup {None}
    <3>. SUFFICES ASSUME NEW p \in P!Panels PROVE P!Wanted(p) \in P!Keys \cup {None}
      OBVIOUS
    <3>. DEFINE o == pTable.opened
                n == pTable.selected
    <3>1. P!Wanted(p) = WantedOf(p, pShop, pReady, pRange, pAdType, o, n)
      BY WantedIsOf
    <3>2. o \in BOOLEAN /\ n \in 1..MaxRows \cup {None}
      BY <2>2
    <3>. HIDE DEF o, n
    <3>3. WantedOf(p, pShop, pReady, pRange, pAdType, o, n) \in P!Keys \cup {None}
      BY <2>3, <3>2, WantedFacts
    <3>. QED
      BY <3>1, <3>3
  <2>5. \A p \in P!Panels : W1(p) \in P!Keys \cup {None}
    <3>. SUFFICES ASSUME NEW p \in P!Panels PROVE P!Wanted(p)' \in P!Keys \cup {None}
      OBVIOUS
    <3>. DEFINE o == pTable'.opened
                n == pTable'.selected
    <3>1. P!Wanted(p)' = WantedOf(p, pShop', pReady', pRange', pAdType', o, n)
      BY WantedIsOf
    <3>2. o \in BOOLEAN /\ n \in 1..MaxRows \cup {None}
      BY <2>2
    <3>. HIDE DEF o, n
    <3>3. WantedOf(p, pShop', pReady', pRange', pAdType', o, n) \in P!Keys \cup {None}
      BY <3>2, WantedFacts
    <3>. QED
      BY <3>1, <3>3
  <2>. QED
    BY <2>1, <2>4, <2>5
<1>3. \A p \in P!Panels : p \notin gone \cup fresh \cup again =>
        pView' = P!HomeOf[p] /\ pView = P!HomeOf[p] /\ W1(p) = P!Wanted(p)
  BY SameDeps
<1>4. \A p \in gone : pView' # P!HomeOf[p]
  OBVIOUS
<1>5. \A p \in fresh \cup again : p \in P!Panels /\ p \notin gone /\ pView' = P!HomeOf[p]
  OBVIOUS
<1>6. \A p \in fresh : pPanels[p] = P!Blank /\ pView # P!HomeOf[p] /\ pView' # pView
  BY DEF NothingIsLeft
<1>6a. \A p \in again : pView = P!HomeOf[p] /\ pView' = pView
  OBVIOUS
<1>7. \A p \in P!Panels : p \in asking <=> p \in fresh \cup again /\ W1(p) # None
  OBVIOUS
<1>8. gone \subseteq P!Panels /\ fresh \cup again \subseteq P!Panels /\ asking \subseteq P!Panels
      /\ asking \subseteq fresh \cup again
  OBVIOUS
<1>. HIDE DEF gone, fresh, again, asking
<1>9. \A r : r \in pRequests' <=> \/ r \in pRequests /\ r.panel \notin gone \cup again
                                  \/ \E p \in asking : r = [panel |-> p, key |-> W1(p)]
  BY <1>1 DEF P!Cancel
<1>. HIDE DEF W1
<1>10. pRequests' \subseteq P!Requests
  BY <1>2, <1>7, <1>8, <1>9 DEF P!Requests, P!TypeOK
<1>11. \A p \in P!Panels : pPanels'[p] = IF p \in gone THEN P!Blank
                                         ELSE IF p \in fresh \cup again THEN P!Effect(p,
                                             pPanels[p], W1(p))
                                         ELSE pPanels[p]
  BY <1>1
<1>12. pPanels' \in [P!Panels -> PanelStates]
  <2>1. \A p \in P!Panels : pPanels'[p] \in PanelStates
    BY <1>2, <1>11, BlankFacts, EffectFacts
  <2>2. pPanels' = [p \in P!Panels |-> pPanels'[p]]
    BY <1>1
  <2>. QED
    BY <2>1, <2>2
<1>13. RequestsAreCurrent'
  <2>. SUFFICES ASSUME NEW r \in pRequests'
                PROVE  pView' = P!HomeOf[r.panel] /\ r.key = W1(r.panel)
    BY DEF RequestsAreCurrent, W1
  <2>1. CASE r \in pRequests /\ r.panel \notin gone \cup again
    <3>1. r.panel \in P!Panels /\ pView = P!HomeOf[r.panel] /\ r.key = P!Wanted(r.panel)
      BY <2>1 DEF P!TypeOK, P!Requests, RequestsAreCurrent
    <3>2. r.panel \notin fresh
      BY <1>6, <3>1
    <3>. QED
      BY <1>3, <2>1, <3>1, <3>2
  <2>2. CASE \E p \in asking : r = [panel |-> p, key |-> W1(p)]
    BY <1>5, <1>8, <2>2
  <2>. QED
    BY <1>9, <2>1, <2>2
<1>14. ASSUME NEW p \in P!Panels PROVE PanelIsCurrent(p)'
  <2>. SUFFICES ASSUME pView' = P!HomeOf[p], W1(p) # None
                PROVE  /\ pPanels'[p].loading => [panel |-> p, key |-> W1(p)] \in pRequests'
                       /\ /\ pPanels'[p].data # None
                          /\ ~pPanels'[p].loading \/ p \in {"ads", "detail"}
                          => pPanels'[p].data = W1(p)
    BY DEF PanelIsCurrent, W1
  <2>1. p \notin gone
    BY <1>4
  <2>2. CASE p \in fresh \cup again
    <3>1. [panel |-> p, key |-> W1(p)] \in pRequests'
      BY <1>7, <1>9, <2>2
    <3>2. pPanels'[p] = P!Effect(p, pPanels[p], W1(p))
      BY <1>11, <2>1, <2>2
    <3>. QED
      BY <1>2, <3>1, <3>2, EffectFacts
  <2>3. CASE p \notin fresh \cup again
    <3>1. pPanels'[p] = pPanels[p] /\ pView = P!HomeOf[p] /\ W1(p) = P!Wanted(p)
      BY <1>3, <1>11, <2>1, <2>3
    <3>2. \A r : r \in pRequests /\ r.panel = p => r \in pRequests'
      BY <1>9, <2>1, <2>3
    <3>. QED
      BY <3>1, <3>2 DEF PanelIsCurrent
  <2>. QED
    BY <2>2, <2>3
<1>15. NothingIsLeft'
  <2>1. ASSUME NEW p \in P!Panels, pView' # P!HomeOf[p] PROVE pPanels'[p] = P!Blank
    <3>1. p \in gone
      BY <1>3, <1>5, <2>1
    <3>. QED
      BY <1>11, <3>1
  <2>2. pPanels'["ads"].loading => W1("ads") # None
    <3>0. "ads" \in P!Panels
      BY DEF P!Panels
    <3>1. CASE "ads" \in gone
      BY <1>11, <3>0, <3>1, BlankFacts
    <3>2. CASE "ads" \notin gone /\ "ads" \in fresh \cup again
      BY <1>2, <1>11, <3>0, <3>2, EffectFacts
    <3>3. CASE "ads" \notin gone \cup fresh \cup again
      BY <1>3, <1>11, <3>0, <3>3 DEF NothingIsLeft
    <3>. QED
      BY <3>1, <3>2, <3>3
  <2>3. pPanels'["detail"].loading => pShop' # None
    <3>. DEFINE p == "detail"
    <3>0. p \in P!Panels /\ P!HomeOf[p] = "produk"
      BY DEF P!Panels, P!HomeOf
    <3>1. W1(p) # None => pShop' # None
      BY WantedIsOf, <3>0 DEF W1, WantedOf
    <3>. HIDE DEF p
    <3>2. CASE p \in gone
      BY <1>11, <3>0, <3>2, BlankFacts DEF p
    <3>3. CASE p \notin gone /\ p \in fresh
      BY <1>2, <1>6, <1>11, <3>0, <3>1, <3>3, EffectFacts, BlankFacts DEF p
    <3>4. CASE p \notin gone /\ p \notin fresh
      <4>1. pView = "produk" /\ pView' = pView
        BY <1>3, <1>6a, <3>0, <3>4
      <4>2. pPanels[p].loading => pShop' # None
        BY <4>1 DEF NothingIsLeft, p
      <4>3. CASE p \in again
        BY <1>2, <1>11, <3>0, <3>1, <3>4, <4>2, <4>3, EffectFacts DEF p
      <4>4. CASE p \notin again
        BY <1>11, <3>0, <3>4, <4>2, <4>4 DEF p
      <4>. QED
        BY <4>3, <4>4
    <3>. QED
      BY <3>2, <3>3, <3>4
  <2>. QED
    BY <2>1, <2>2, <2>3 DEF NothingIsLeft, W1
<1>. QED
  BY <1>10, <1>12, <1>13, <1>14, <1>15

\* The first row of a page is on it.
LEMMA FirstOfPage ==
  ASSUME NEW k \in Nat, NEW size \in Nat \ {0}
  PROVE  ((k * size + 1) - 1) \div size = k
<1>1. (k * size + 1) - 1 = k * size
  OBVIOUS
<1>2. (k * size) \div size = k
  OBVIOUS
<1>. QED
  BY <1>1, <1>2

\* How many pages a table has: n is one of them exactly when its first row is there.
LEMMA PageFacts ==
  ASSUME NEW rows \in Nat
  PROVE  /\ P!PageCount(rows) \in Nat /\ P!PageCount(rows) >= 1
         /\ \A n \in Nat : n >= 1 /\ n <= P!PageCount(rows) /\ rows > 0 =>
              \E row \in 1..rows : (row - 1) \div TablePageSize = n - 1
<1>1. TablePageSize \in Nat \ {0}
  BY PartsAssumption DEF P!PanelsAssumption
<1>2. CASE rows = 0
  BY <1>2 DEF P!PageCount
<1>3. CASE rows # 0
  <2>. DEFINE size == TablePageSize
              q == (rows + size - 1) \div size
  <2>1. P!PageCount(rows) = q
    BY <1>3 DEF P!PageCount
  <2>2. rows + size - 1 \in Nat
    BY <1>1, <1>3
  <2>3. q \in Nat /\ q * size <= rows + size - 1 /\ rows + size - 1 < (q + 1) * size
    BY <1>1, <2>2
  <2>. HIDE DEF size, q
  <2>4. q >= 1
    <3>1. CASE q = 0
      BY <1>1, <1>3, <2>3, <3>1 DEF size
    <3>. QED
      BY <2>3, <3>1
  <2>5. ASSUME NEW n \in Nat, n >= 1, n <= q
        PROVE  \E row \in 1..rows : (row - 1) \div size = n - 1
    <3>. DEFINE k == n - 1
    <3>1. k \in Nat /\ k + 1 <= q
      BY <2>3, <2>5
    <3>2. (k + 1) * size <= q * size
      BY <1>1, <2>3, <3>1 DEF size
    <3>3. k * size \in Nat /\ (k + 1) * size = k * size + size
      BY <1>1, <3>1 DEF size
    <3>4. k * size + 1 \in 1..rows
      BY <1>1, <2>3, <3>2, <3>3 DEF size
    <3>. HIDE DEF k
    <3>5. ((k * size + 1) - 1) \div size = k
      BY <1>1, <3>1, FirstOfPage DEF size
    <3>6. PICK row \in 1..rows : row = k * size + 1
      BY <3>4
    <3>7. (row - 1) \div size = k
      BY <3>5, <3>6
    <3>. QED
      BY <3>7 DEF k
  <2>. QED
    BY <2>1, <2>3, <2>4, <2>5 DEF size
<1>. QED
  BY <1>2, <1>3

\* An answer is the one its panel waits for.
LEMMA AnswerStep ==
  ASSUME PanelsInv, NEW r \in pRequests, NEW ok \in BOOLEAN, P!Answer(r, ok)
  PROVE  PanelsInv'
<1>1. /\ r.panel \in P!Panels /\ r.key \in P!Keys /\ pView = P!HomeOf[r.panel]
      /\ r.key = P!Wanted(r.panel)
      /\ pPanels \in [P!Panels -> PanelStates]
  BY DEF PanelsInv, P!TypeOK, P!Requests, RequestsAreCurrent, PanelStates
<1>2. r.key # None
  BY <1>1, PartsAssumption DEF P!PanelsAssumption
<1>. DEFINE q == r.panel
            old == pPanels[q]
            new == P!Outcome(q, old, r.key, ok)
<1>3. /\ pRequests' = pRequests \ {r} /\ pPanels' = [pPanels EXCEPT ![q] = new]
      /\ pView' = pView /\ pShop' = pShop /\ pReady' = pReady /\ pRange' = pRange
      /\ pAdType' = pAdType
      /\ pTable' = pTable
  BY DEF P!Answer
<1>4. /\ new \in PanelStates /\ ~new.loading
      /\ new.data = r.key \/ new.data = None \/ (q \in {"ads", "detail"} /\ new.data = old.data)
  BY <1>1 DEF P!Outcome, PanelStates
<1>. HIDE DEF new
<1>5. pPanels'[q] = new /\ (\A p \in P!Panels \ {q} : pPanels'[p] = pPanels[p])
      /\ pPanels' \in [P!Panels -> PanelStates]
  BY <1>1, <1>3, <1>4
<1>6. \A p \in P!Panels : P!Wanted(p)' = P!Wanted(p)
  BY <1>3, WantedIsOf
<1>7. P!TypeOK'
  BY <1>3, <1>5 DEF PanelsInv, P!TypeOK, PanelStates
<1>8. ASSUME NEW p \in P!Panels PROVE PanelIsCurrent(p)'
  <2>1. CASE p = q
    BY <1>1, <1>3, <1>4, <1>5, <1>6, <2>1 DEF PanelsInv, PanelIsCurrent
  <2>2. CASE p # q
    <3>1. \A key : [panel |-> p, key |-> key] \in pRequests
              => [panel |-> p, key |-> key] \in pRequests'
      BY <1>3, <2>2
    <3>. QED
      BY <1>3, <1>5, <1>6, <2>2, <3>1 DEF PanelsInv, PanelIsCurrent
  <2>. QED
    BY <2>1, <2>2
<1>9. RequestsAreCurrent'
  <2>1. \A s \in pRequests : s.panel \in P!Panels
    BY DEF PanelsInv, P!TypeOK, P!Requests
  <2>. QED
    BY <1>3, <1>6, <2>1 DEF PanelsInv, RequestsAreCurrent
<1>10. NothingIsLeft'
  <2>1. "ads" \in P!Panels /\ "detail" \in P!Panels
    BY DEF P!Panels
  <2>. QED
    BY <1>1, <1>3, <1>4, <1>5, <1>6, <2>1 DEF PanelsInv, NothingIsLeft
<1>11. PageIsThere'
  BY <1>3 DEF PanelsInv, PageIsThere
<1>. QED
  BY <1>7, <1>8, <1>9, <1>10, <1>11 DEF PanelsInv

\* Every other step renders, with a table whose page is there.
LEMMA RenderStep ==
  ASSUME PanelsInv, NEW refreshed, P!React(refreshed),
         pView' \in P!Views \cup {"login"}, pShop' \in Shops \cup {None}, pReady' \in BOOLEAN,
         pRange' \in Ranges \cup {None}, pAdType' \in AdTypes, pTable' \in Tables,
         pView' = pView /\ pView # "login" /\ pShop # None => pShop' # None,
         PageIsThere'
  PROVE  PanelsInv'
BY ReactKeeps DEF PanelsInv, P!TypeOK, PanelStates, Tables

\* The inductive step.
LEMMA PanelsStep ==
  ASSUME PanelsInv, [P!Next]_(P!vars)
  PROVE  PanelsInv'
<1>0. /\ pView \in P!Views \cup {"login"} /\ pShop \in Shops \cup {None} /\ pReady \in BOOLEAN
      /\ pRange \in Ranges \cup {None} /\ pAdType \in AdTypes /\ pTable \in Tables
      /\ MaxRows \in Nat /\ AllTypes \in AdTypes /\ None \notin 1..MaxRows
  BY PartsAssumption DEF PanelsInv, P!TypeOK, Tables, P!PanelsAssumption
<1>1. PICK t \in Tables : t = pTable
  BY <1>0
<1>2. /\ t.page >= 1
      /\ \A n \in 0..MaxRows : t.rows = n => t.page <= P!PageCount(n) \/ t.shortened
      /\ t.opened => t.selected # None
  BY <1>1 DEF PanelsInv, PageIsThere
<1>2a. t.rows \in Nat /\ t.page \in Nat
  BY <1>1 DEF Tables
<1>3. \A n \in 0..MaxRows : P!PageCount(n) \in Nat /\ P!PageCount(n) >= 1
  BY PageFacts
<1>4. ASSUME NEW v \in P!Views \cup {"login"}, P!Switch(v) PROVE PanelsInv'
  <2>1. PICK n \in 0..MaxRows : pTable' = [P!NoTable EXCEPT !.rows = n]
    <3>1. 0 \in 0..MaxRows
      BY <1>0
    <3>. QED
      BY <1>4, <3>1 DEF P!Switch
  <2>2. pTable' = [rows |-> n, page |-> 1, selected |-> None, opened |-> FALSE,
            shortened |-> FALSE]
    BY <2>1 DEF P!NoTable
  <2>3. pTable' \in Tables
    BY <2>2 DEF Tables
  <2>4. PageIsThere'
    <3>. QED
      BY <1>3, <2>2 DEF PageIsThere
  <2>5. /\ P!React({}) /\ pView' = v /\ pView' # pView /\ pShop' = pShop /\ pReady' = pReady
        /\ pRange' = pRange
        /\ pAdType' = AllTypes
    BY <1>4 DEF P!Switch
  <2>. QED
    BY <1>0, <2>3, <2>4, <2>5, RenderStep
<1>5. CASE P!Render
  <2>1. /\ P!React({}) /\ pView' = pView /\ pRange' = pRange /\ pAdType' = pAdType
        /\ pReady' \in BOOLEAN
        /\ pShop' \in Shops \cup {None}
        /\ pView # "login" /\ pShop # None => pShop' # None
    BY <1>5, PartsAssumption DEF P!Render, P!PanelsAssumption
  <2>2. pTable' \in Tables /\ PageIsThere'
    <3>1. CASE pTable' = pTable
      BY <1>0, <3>1 DEF PanelsInv, PageIsThere
    <3>2. ASSUME NEW n \in 0..MaxRows,
                 pTable' = [pTable EXCEPT !.rows = n, !.page = IF pShop' = pShop THEN @ ELSE 1,
                              !.shortened = pShop' = pShop /\ pTable.page > P!PageCount(n)]
          PROVE  pTable' \in Tables /\ PageIsThere'
      <4>. DEFINE page == IF pShop' = pShop THEN t.page ELSE 1
                  short == pShop' = pShop /\ t.page > P!PageCount(n)
      <4>1. pTable' = [t EXCEPT !.rows = n, !.page = page, !.shortened = short]
        BY <1>1, <3>2
      <4>2. page \in Nat /\ page >= 1 /\ short \in BOOLEAN /\ (page <= P!PageCount(n) \/ short)
        <5>1. P!PageCount(n) \in Nat /\ P!PageCount(n) >= 1
          BY <1>3
        <5>2. CASE pShop' = pShop
          <6>1. page = t.page /\ (short <=> t.page > P!PageCount(n))
            BY <5>2
          <6>. QED
            BY <1>2, <1>2a, <5>1, <6>1
        <5>3. CASE pShop' # pShop
          BY <5>1, <5>3
        <5>. QED
          BY <5>2, <5>3
      <4>. HIDE DEF page, short
      <4>3. /\ pTable' \in Tables /\ pTable'.rows = n /\ pTable'.page = page
            /\ pTable'.shortened = short
            /\ pTable'.opened = t.opened /\ pTable'.selected = t.selected
        BY <4>1, <4>2 DEF Tables
      <4>. QED
        BY <1>2, <4>2, <4>3 DEF PageIsThere
    <3>. QED
      BY <1>5, <3>1, <3>2 DEF P!Render
  <2>. QED
    BY <1>0, <2>1, <2>2, RenderStep
<1>6. ASSUME pTable' = pTable, pView' = pView, pShop' = pShop, pReady' = pReady,
             pRange' \in Ranges \cup {None}, pAdType' \in AdTypes, NEW refreshed,
                 P!React(refreshed)
      PROVE  PanelsInv'
  <2>1. PageIsThere'
    BY <1>6 DEF PanelsInv, PageIsThere
  <2>. QED
    BY <1>0, <1>6, <2>1, RenderStep
<1>7. ASSUME pView' = pView, pShop' = pShop, pReady' = pReady, pRange' = pRange,
             pAdType' = pAdType,
             P!React({}), pTable' \in Tables, PageIsThere'
      PROVE  PanelsInv'
  BY <1>0, <1>7, RenderStep
<1>8. CASE P!Refresh
  BY <1>0, <1>6, <1>8 DEF P!Refresh
<1>9. ASSUME NEW r \in Ranges \cup {None}, P!ChangeRange(r) PROVE PanelsInv'
  BY <1>0, <1>6, <1>9 DEF P!ChangeRange
<1>10. ASSUME NEW type \in AdTypes, P!ChangeAdType(type) PROVE PanelsInv'
  BY <1>0, <1>6, <1>10 DEF P!ChangeAdType
<1>11. CASE P!ChangeFilter
  <2>1. PICK n \in 0..MaxRows : pTable' = [pTable EXCEPT !.rows = n, !.page = 1,
            !.shortened = FALSE]
    BY <1>11 DEF P!ChangeFilter, P!Filtered
  <2>2. /\ pTable' \in Tables /\ pTable'.rows = n /\ pTable'.page = 1
        /\ pTable'.opened = t.opened /\ pTable'.selected = t.selected
    BY <1>1, <2>1 DEF Tables
  <2>3. PageIsThere'
    BY <1>2, <1>3, <2>2 DEF PageIsThere
  <2>. QED
    BY <1>7, <1>11, <2>2, <2>3 DEF P!ChangeFilter
<1>12. ASSUME NEW n \in 1..MaxRows, P!SetPage(n) PROVE PanelsInv'
  <2>1. pTable' = [pTable EXCEPT !.page = n, !.shortened = FALSE] /\ n <= P!PageCount(t.rows)
        /\ n \in Nat /\ n >= 1
    BY <1>0, <1>1, <1>12 DEF P!SetPage
  <2>2. /\ pTable' \in Tables /\ pTable'.rows = t.rows /\ pTable'.page = n
        /\ pTable'.opened = t.opened /\ pTable'.selected = t.selected
    BY <1>1, <2>1 DEF Tables
  <2>3. PageIsThere'
    BY <1>2, <2>1, <2>2 DEF PageIsThere
  <2>. QED
    BY <1>7, <1>12, <2>2, <2>3 DEF P!SetPage
<1>13. ASSUME NEW n \in 1..MaxRows, P!OpenDetail(n) PROVE PanelsInv'
  <2>1. pTable' = [pTable EXCEPT !.selected = n, !.opened = TRUE]
    BY <1>13 DEF P!OpenDetail
  <2>2. /\ pTable' \in Tables /\ pTable'.rows = t.rows /\ pTable'.page = t.page
        /\ pTable'.selected = n /\ pTable'.shortened = t.shortened
    BY <1>1, <2>1 DEF Tables
  <2>3. PageIsThere'
    BY <1>0, <1>2, <2>2 DEF PageIsThere
  <2>. QED
    BY <1>7, <1>13, <2>2, <2>3 DEF P!OpenDetail
<1>14. CASE P!CloseDetail
  <2>1. pTable' = [pTable EXCEPT !.opened = FALSE]
    BY <1>14 DEF P!CloseDetail
  <2>2. /\ pTable' \in Tables /\ pTable'.rows = t.rows /\ pTable'.page = t.page
        /\ ~pTable'.opened /\ pTable'.shortened = t.shortened
    BY <1>1, <2>1 DEF Tables
  <2>3. PageIsThere'
    BY <1>2, <2>2 DEF PageIsThere
  <2>. QED
    BY <1>7, <1>14, <2>2, <2>3 DEF P!CloseDetail
<1>15. CASE UNCHANGED P!vars
  <2>1. /\ pView' = pView /\ pShop' = pShop /\ pReady' = pReady /\ pRange' = pRange
        /\ pAdType' = pAdType
        /\ pTable' = pTable /\ pPanels' = pPanels /\ pRequests' = pRequests
    BY <1>15 DEF P!vars
  <2>2. \A p \in P!Panels : P!Wanted(p)' = P!Wanted(p)
    BY <2>1, WantedIsOf
  <2>3. \A p \in P!Panels : PanelIsCurrent(p)'
    BY <2>1, <2>2 DEF PanelsInv, PanelIsCurrent
  <2>4. RequestsAreCurrent'
    <3>1. \A s \in pRequests : s.panel \in P!Panels
      BY DEF PanelsInv, P!TypeOK, P!Requests
    <3>. QED
      BY <2>1, <2>2, <3>1 DEF PanelsInv, RequestsAreCurrent
  <2>5. NothingIsLeft'
    <3>1. "ads" \in P!Panels
      BY DEF P!Panels
    <3>. QED
      BY <2>1, <2>2, <3>1 DEF PanelsInv, NothingIsLeft
  <2>6. P!TypeOK' /\ PageIsThere'
    BY <2>1 DEF PanelsInv, P!TypeOK, PageIsThere
  <2>. QED
    BY <2>3, <2>4, <2>5, <2>6 DEF PanelsInv
<1>. QED
  BY <1>4, <1>5, <1>8, <1>9, <1>10, <1>11, <1>12, <1>13, <1>14, <1>15, AnswerStep DEF P!Next

\* The invariant of the panels is inductive.
THEOREM PanelsInvariant == P!Spec => []PanelsInv
<1>1. P!Init => PanelsInv
  <2>. SUFFICES ASSUME P!Init PROVE PanelsInv
    OBVIOUS
  <2>1. /\ pView = "login" /\ pShop = None /\ pReady = FALSE /\ pRange \in Ranges
        /\ pAdType = AllTypes
        /\ pTable = [rows |-> 0, page |-> 1, selected |-> None, opened |-> FALSE,
               shortened |-> FALSE]
        /\ pPanels = [p \in P!Panels |-> P!Blank] /\ pRequests = {}
    BY DEF P!Init, P!NoTable
  <2>2. P!TypeOK
    <3>1. pTable \in Tables
      BY <2>1, PartsAssumption DEF Tables, P!PanelsAssumption
    <3>2. pPanels \in [P!Panels -> PanelStates]
      BY <2>1, BlankFacts
    <3>. QED
      BY <2>1, <3>1, <3>2, PartsAssumption DEF P!TypeOK, PanelStates, Tables, P!PanelsAssumption
  <2>3. \A p \in P!Panels : PanelIsCurrent(p)
    BY <2>1 DEF PanelIsCurrent, P!HomeOf, P!Panels
  <2>4. RequestsAreCurrent /\ PageIsThere
    <3>1. \A n \in 0..MaxRows : P!PageCount(n) >= 1
      BY PageFacts
    <3>. QED
      BY <2>1, <3>1 DEF RequestsAreCurrent, PageIsThere
  <2>5. NothingIsLeft
    BY <2>1, BlankFacts DEF NothingIsLeft, P!Panels
  <2>. QED
    BY <2>2, <2>3, <2>4, <2>5 DEF PanelsInv
<1>. QED
  BY <1>1, PanelsStep, PTL DEF P!Spec

\* Every figure shown is about the shop, the range and the type that are chosen, and the
\* page of the table is one it has.
THEOREM FiguresHold == P!Spec => []P!DisplayIsCurrent
<1>1. PanelsInv => P!FiguresAreCurrent
  <2>. SUFFICES ASSUME PanelsInv, NEW p \in P!Panels, pView = P!HomeOf[p], P!Shown(p) = "data",
                       P!Wanted(p) # None
                PROVE  pPanels[p].data = P!Wanted(p)
    BY DEF P!FiguresAreCurrent
  <2>1. pPanels[p].data # None /\ (~pPanels[p].loading \/ p \in {"ads", "detail"})
    BY DEF P!Shown, P!Panels, P!PerformanceShown, P!AdsShown, P!CampaignsShown, P!RawShown,
       P!DetailShown, P!Status
  <2>. QED
    BY <2>1 DEF PanelsInv, PanelIsCurrent
<1>2. PanelsInv => P!SpinnersAreAwaited
  <2>. SUFFICES ASSUME PanelsInv, NEW p \in P!Panels
                PROVE  LET waiting == {r \in pRequests : r.panel = p}
                       IN /\ P!Cardinality(waiting) <= 1
                          /\ pView = P!HomeOf[p] /\ P!Shown(p) = "loading"
                               => \/ \E r \in waiting : r.key = P!Wanted(p)
                                  \/ p \in {"performance", "raw"} /\ pRange = None
    BY DEF P!SpinnersAreAwaited
  <2>. DEFINE waiting == {r \in pRequests : r.panel = p}
              only == [panel |-> p, key |-> P!Wanted(p)]
  <2>1. waiting = {} \/ waiting = {only}
    <3>1. \A r \in waiting : r = only
      BY DEF PanelsInv, P!TypeOK, P!Requests, RequestsAreCurrent
    <3>. QED
      BY <3>1
  <2>2. P!Cardinality(waiting) <= 1
    <3>1. Cardinality(waiting) <= 1
      <4>1. Cardinality({}) = 0
        BY FS_EmptySet
      <4>2. Cardinality({only}) = 1
        BY FS_Singleton
      <4>. HIDE DEF waiting, only
      <4>3. Cardinality(waiting) \in {0, 1}
        BY <2>1, <4>1, <4>2
      <4>. QED
        BY <4>3
    <3>2. P!Cardinality(waiting) = Cardinality(waiting)
      BY DEF P!Cardinality, Cardinality
    <3>. QED
      BY <3>1, <3>2
  <2>3. ASSUME pView = P!HomeOf[p], P!Shown(p) = "loading"
        PROVE  \/ only \in waiting
               \/ p \in {"performance", "raw"} /\ pRange = None
    <3>1. pPanels[p].loading
      BY <2>3 DEF P!Shown, P!Panels, P!PerformanceShown, P!AdsShown, P!CampaignsShown, P!RawShown,
         P!DetailShown, P!Status
    <3>2. P!Wanted(p) # None => only \in waiting
      BY <2>3, <3>1 DEF PanelsInv, PanelIsCurrent
    <3>3. P!Wanted(p) = None => p \in {"performance", "raw"} /\ pRange = None
      <4>. SUFFICES ASSUME P!Wanted(p) = None PROVE p \in {"performance", "raw"} /\ pRange = None
        OBVIOUS
      <4>0. /\ pTable.opened \in BOOLEAN /\ pTable.selected \in 1..MaxRows \cup {None}
            /\ pShop \in Shops \cup {None} /\ pReady \in BOOLEAN /\ pRange \in Ranges \cup {None}
            /\ pAdType \in AdTypes
        BY DEF PanelsInv, P!TypeOK
      <4>1. \/ pShop = None
            \/ p \in {"performance", "ads", "raw"} /\ pRange = None
            \/ p \in {"ads", "raw", "campaigns"} /\ ~pReady
            \/ p = "detail" /\ (~pTable.opened \/ pTable.selected = None)
        <5>. DEFINE o == pTable.opened
                    n == pTable.selected
        <5>1. WantedOf(p, pShop, pReady, pRange, pAdType, o, n) = None
          BY WantedIsOf
        <5>2. o \in BOOLEAN /\ n \in 1..MaxRows \cup {None}
          BY <4>0
        <5>. HIDE DEF o, n
        <5>3. /\ pShop \in Shops \cup {None} /\ pReady \in BOOLEAN
              /\ pRange \in Ranges \cup {None} /\ pAdType \in AdTypes
          BY <4>0
        <5>. HIDE DEF waiting, only
        <5>4. \/ pShop = None
              \/ p \in {"performance", "ads", "raw"} /\ pRange = None
              \/ p \in {"ads", "raw", "campaigns"} /\ ~pReady
              \/ p = "detail" /\ (~o \/ n = None)
          BY <5>1, <5>2, <5>3, WantedFacts
        <5>. QED
          BY <5>4 DEF o, n
      <4>2. CASE p = "performance"
        BY <2>3, <4>1, <4>2 DEF P!Shown, P!PerformanceShown
      <4>3. CASE p = "ads"
        BY <3>1, <4>3 DEF PanelsInv, NothingIsLeft
      <4>4. CASE p = "campaigns"
        BY <2>3, <4>1, <4>4 DEF P!Shown, P!CampaignsShown
      <4>5. CASE p = "raw"
        BY <2>3, <4>1, <4>5 DEF P!Shown, P!RawShown
      <4>6. CASE p = "detail"
        <5>1. pTable.opened
          BY <2>3, <4>6 DEF P!Shown, P!DetailShown
        <5>. QED
          BY <3>1, <4>1, <4>6, <5>1 DEF PanelsInv, NothingIsLeft, PageIsThere
      <4>. QED
        BY <4>2, <4>3, <4>4, <4>5, <4>6 DEF P!Panels
    <3>. QED
      BY <3>2, <3>3
  <2>. QED
    BY <2>2, <2>3
<1>3. PanelsInv => P!PagesAreFilled
  <2>. SUFFICES ASSUME PanelsInv, pTable.rows > 0, ~pTable.shortened PROVE P!PageRows # {}
    BY DEF P!PagesAreFilled
  <2>1. PICK t \in Tables : t = pTable
    BY DEF PanelsInv, P!TypeOK, Tables
  <2>2. /\ t.rows \in Nat /\ t.rows > 0 /\ t.page \in Nat /\ t.page >= 1
        /\ t.page <= P!PageCount(t.rows)
    BY <2>1 DEF PanelsInv, PageIsThere, Tables
  <2>3. PICK row \in 1..t.rows : (row - 1) \div TablePageSize = t.page - 1
    BY <2>2, PageFacts
  <2>4. row \in P!PageRows
    BY <2>1, <2>3 DEF P!PageRows
  <2>. QED
    BY <2>4
<1>4. PanelsInv => P!DisplayIsCurrent
  BY <1>1, <1>2, <1>3 DEF P!DisplayIsCurrent
<1>. QED
  BY <1>4, PanelsInvariant, PTL

-----------------------------------------------------------------------------
(* The catalog. *)

\* The first products of the provider's list.
First(n) == {cShelf[i] : i \in 1..n}
Everything == {cShelf[i] : i \in DOMAIN cShelf}

\* What the provider said of the next page is so.
IsHonest(offset) ==
  IF offset + CatalogPageSize < Len(cShelf) THEN cRequest.next = offset + CatalogPageSize
  ELSE cRequest.next = None

\* Of a list that was steady since the first page was asked for, a collection has what
\* comes before its offset, and the page it holds comes next.
HasComeTo(offset) ==
  /\ cRequest.phase \in {"list", "details", "loop"} =>
       offset <= Len(cShelf) /\ cRequest.products = First(offset)
  /\ cRequest.phase \in {"details", "loop"} => IsHonest(offset)
  /\ cRequest.phase = "details" => cRequest.page = C!Slice(offset)
  /\ cRequest.phase = "loop" => cRequest.found = C!Slice(offset)
  /\ cRequest.phase = "collected" /\ cRequest.reason = None => cRequest.products = Everything

\* The inductive invariant of a collection.
CatalogInv ==
  /\ C!TypeOK
  /\ cSteady /\ C!OffsetOf(cRequest.start) = 0 => HasComeTo(C!OffsetOf(cRequest.cursor))
  /\ cRequest.phase = "list" => cRequest.cursor \notin cRequest.requested
  /\ cRequest.phase = "denied" => cRequest.requested = {}

\* A shelf is a sequence of products.
LEMMA ShelfFacts ==
  ASSUME NEW s \in C!Shelves
  PROVE  Len(s) \in Nat /\ DOMAIN s = 1..Len(s) /\ \A i \in 1..Len(s) : s[i] \in Products
<1>1. PICK n \in Nat : s \in [1..n -> Products]
  BY DEF C!Shelves
<1>3. s \in Seq(Products)
  BY <1>1
<1>. QED
  BY <1>3

\* A page follows what comes before its offset.
LEMMA SliceFacts ==
  ASSUME cShelf \in C!Shelves, NEW offset \in Nat, offset <= Len(cShelf)
  PROVE  /\ C!Slice(offset) \in SUBSET Products
         /\ offset + CatalogPageSize < Len(cShelf) =>
              First(offset) \cup C!Slice(offset) = First(offset + CatalogPageSize)
         /\ ~(offset + CatalogPageSize < Len(cShelf)) =>
              First(offset) \cup C!Slice(offset) = Everything
<1>1. CatalogPageSize \in Nat \ {0}
  BY PartsAssumption DEF C!CatalogAssumption
<1>2. Len(cShelf) \in Nat /\ DOMAIN cShelf = 1..Len(cShelf) /\ \A i \in 1..Len(cShelf) :
          cShelf[i] \in Products
  BY ShelfFacts
<1>3. CASE offset + CatalogPageSize < Len(cShelf)
  <2>1. C!Slice(offset) = {cShelf[i] : i \in (offset + 1)..(offset + CatalogPageSize)}
    BY <1>3 DEF C!Slice
  <2>2. \A i : i \in 1..(offset + CatalogPageSize) <=>
               i \in 1..offset \/ i \in (offset + 1)..(offset + CatalogPageSize)
    BY <1>1
  <2>3. \A i \in (offset + 1)..(offset + CatalogPageSize) : i \in 1..Len(cShelf)
    BY <1>1, <1>2, <1>3
  <2>4. First(offset) \cup C!Slice(offset) = First(offset + CatalogPageSize)
    BY <2>1, <2>2 DEF First
  <2>. QED
    BY <1>2, <1>3, <2>1, <2>3, <2>4
<1>4. CASE ~(offset + CatalogPageSize < Len(cShelf))
  <2>1. C!Slice(offset) = {cShelf[i] : i \in (offset + 1)..Len(cShelf)}
    BY <1>4 DEF C!Slice
  <2>2. \A i : i \in 1..Len(cShelf) <=> i \in 1..offset \/ i \in (offset + 1)..Len(cShelf)
    BY <1>2
  <2>3. First(offset) \cup C!Slice(offset) = Everything
    BY <1>2, <2>1, <2>2 DEF First, Everything
  <2>. QED
    BY <1>2, <1>4, <2>1, <2>2, <2>3
<1>. QED
  BY <1>3, <1>4

\* A page of any offset the provider may name is of its products.
LEMMA SliceTypes ==
  ASSUME cShelf \in C!Shelves, NEW offset \in Nat
  PROVE  C!Slice(offset) \in SUBSET Products
<1>1. CatalogPageSize \in Nat \ {0}
  BY PartsAssumption DEF C!CatalogAssumption
<1>2. Len(cShelf) \in Nat /\ \A i \in 1..Len(cShelf) : cShelf[i] \in Products
  BY ShelfFacts
<1>. DEFINE last == IF offset + CatalogPageSize < Len(cShelf) THEN offset + CatalogPageSize
                    ELSE Len(cShelf)
<1>3. last \in Nat /\ last <= Len(cShelf)
  BY <1>1, <1>2
<1>4. C!Slice(offset) = {cShelf[i] : i \in (offset + 1)..last}
  BY DEF C!Slice
<1>. HIDE DEF last
<1>. QED
  BY <1>2, <1>3, <1>4

\* A cursor names an offset, and the first page has none.
LEMMA CursorFacts ==
  /\ None \in C!Cursors /\ C!OffsetOf(None) = 0
  /\ \A c \in C!Cursors : C!OffsetOf(c) \in Nat
BY PartsAssumption DEF C!CatalogAssumption, C!Cursors, C!Offsets, C!OffsetOf

\* The types of a collection that runs.
CatalogRequests ==
  [phase : {"idle", "list", "details", "loop", "collected", "denied", "failed"},
   start : C!Cursors, cursor : C!Cursors, requested : SUBSET C!Cursors,
   page : SUBSET Products, found : SUBSET Products, next : C!Cursors,
   products : SUBSET Products, reason : C!Reasons \cup {None},
   denial : C!Denials \cup {None}]

\* The inductive step.
LEMMA CatalogStep ==
  ASSUME CatalogInv, [C!Next]_(C!vars)
  PROVE  CatalogInv'
<1>. USE PartsAssumption DEF C!CatalogAssumption
<1>0. cRequest \in CatalogRequests /\ cShelf \in C!Shelves /\ cSteady \in BOOLEAN
  BY DEF CatalogInv, C!TypeOK, CatalogRequests
<1>1. PICK r \in CatalogRequests : r = cRequest
  BY <1>0
<1>2. ASSUME NEW c \in C!Contexts, NEW start \in C!Cursors, C!Begin(c, start) PROVE CatalogInv'
  <2>1. C!Denial(c) \in C!Denials \cup {None}
    BY DEF C!Denial, C!Denials
  <2>2. /\ cRequest'.phase \in {"denied", "list"} /\ cRequest'.start = start
        /\ cRequest'.cursor = start /\ cRequest'.requested = {} /\ cRequest'.products = {}
        /\ cRequest'.reason = None
        /\ cShelf' = cShelf /\ cSteady' = TRUE
    BY <1>2 DEF C!Begin, C!Idle
  <2>3. cRequest' \in CatalogRequests
    BY <1>2, <2>1, CursorFacts DEF C!Begin, C!Idle, CatalogRequests
  <2>4. C!OffsetOf(start) = 0 => HasComeTo(C!OffsetOf(cRequest.cursor))'
    <3>1. First(0)' = {} /\ Len(cShelf) \in Nat
      BY <1>0, ShelfFacts DEF First
    <3>. QED
      BY <2>2, <3>1 DEF HasComeTo, C!OffsetOf
  <2>. QED
    BY <1>0, <2>2, <2>3, <2>4 DEF CatalogInv, C!TypeOK, CatalogRequests, C!OffsetOf
<1>3. ASSUME NEW next \in C!Cursors, C!ListPage(next) PROVE CatalogInv'
  <2>. DEFINE offset == C!OffsetOf(r.cursor)
              page == C!Slice(offset)
  <2>1. /\ r.phase = "list"
        /\ cRequest' = [r EXCEPT !.phase = "details", !.requested = @ \cup {r.cursor},
                                 !.page = page, !.next = next]
        /\ cSteady' = (cSteady /\ IF offset + CatalogPageSize < Len(cShelf)
                                  THEN next = offset + CatalogPageSize ELSE next = None)
        /\ cShelf' = cShelf
    BY <1>1, <1>3 DEF C!ListPage
  <2>2. page \in SUBSET Products /\ offset \in Nat
    BY <1>0, <1>1, CursorFacts, SliceTypes DEF CatalogRequests
  <2>3. page' = page
    BY <2>1 DEF C!Slice
  <2>. HIDE DEF page
  <2>4. /\ cRequest' \in CatalogRequests
        /\ cRequest'.phase = "details" /\ cRequest'.page = page /\ cRequest'.next = next
        /\ cRequest'.start = r.start /\ cRequest'.cursor = r.cursor
        /\ cRequest'.products = r.products
    BY <2>1, <2>2 DEF CatalogRequests
  <2>5. cSteady' /\ C!OffsetOf(r.start) = 0 => HasComeTo(offset)'
    <3>. SUFFICES ASSUME cSteady', C!OffsetOf(r.start) = 0 PROVE HasComeTo(offset)'
      OBVIOUS
    <3>1. cSteady /\ offset <= Len(cShelf) /\ r.products = First(offset)
      BY <1>1, <2>1 DEF CatalogInv, HasComeTo
    <3>2. IsHonest(offset)'
      BY <2>1, <2>4 DEF IsHonest
    <3>3. C!Slice(offset)' = page /\ First(offset)' = First(offset)
      BY <2>1 DEF C!Slice, First, page
    <3>. QED
      BY <2>1, <2>4, <3>1, <3>2, <3>3 DEF HasComeTo
  <2>. QED
    BY <1>0, <2>1, <2>4, <2>5 DEF CatalogInv, C!TypeOK, CatalogRequests, C!OffsetOf
<1>4. ASSUME NEW found \in SUBSET Products, C!PageDetails(found) PROVE CatalogInv'
  <2>1. /\ r.phase = "details" /\ cRequest' = [r EXCEPT !.phase = "loop", !.found = found]
        /\ cSteady' = (cSteady /\ found = r.page) /\ cShelf' = cShelf
    BY <1>1, <1>4 DEF C!PageDetails
  <2>2. /\ cRequest' \in CatalogRequests
        /\ cRequest'.phase = "loop" /\ cRequest'.found = found /\ cRequest'.next = r.next
        /\ cRequest'.start = r.start /\ cRequest'.cursor = r.cursor
        /\ cRequest'.products = r.products
    BY <2>1 DEF CatalogRequests
  <2>3. cSteady' /\ C!OffsetOf(r.start) = 0 => HasComeTo(C!OffsetOf(r.cursor))'
    <3>. DEFINE offset == C!OffsetOf(r.cursor)
    <3>. SUFFICES ASSUME cSteady', C!OffsetOf(r.start) = 0 PROVE HasComeTo(offset)'
      OBVIOUS
    <3>1. /\ offset <= Len(cShelf) /\ r.products = First(offset)
          /\ IsHonest(offset) /\ r.page = C!Slice(offset) /\ found = r.page
      BY <1>1, <2>1 DEF CatalogInv, HasComeTo
    <3>2. IsHonest(offset)'
      BY <1>1, <2>1, <2>2, <3>1 DEF IsHonest
    <3>3. /\ C!Slice(offset)' = C!Slice(offset) /\ First(offset)' = First(offset)
          /\ Len(cShelf)' = Len(cShelf)
      BY <2>1 DEF C!Slice, First
    <3>. QED
      BY <2>2, <3>1, <3>2, <3>3 DEF HasComeTo
  <2>. QED
    BY <1>0, <2>1, <2>2, <2>3 DEF CatalogInv, C!TypeOK, CatalogRequests, C!OffsetOf
<1>5. CASE C!CollectPage
  <2>. DEFINE m == C!Merge(r)
              offset == C!OffsetOf(r.cursor)
  <2>1. /\ r.phase = "loop" /\ cShelf' = cShelf /\ cSteady' = cSteady
        /\ cRequest' = IF r.next = None THEN [m EXCEPT !.phase = "collected"]
                       ELSE C!AskFor([m EXCEPT !.cursor = r.next, !.next = None])
    BY <1>1, <1>5 DEF C!CollectPage
  <2>2. m \in CatalogRequests /\ m.start = r.start /\ m.cursor = r.cursor
        /\ m.products = r.products \cup r.found /\ m.requested = r.requested /\ m.next = r.next
    BY DEF C!Merge, CatalogRequests, C!Reasons
  <2>. HIDE DEF m
  <2>3. offset \in Nat /\ Len(cShelf) \in Nat /\ CatalogPageSize \in Nat \ {0}
    BY <1>0, CursorFacts, ShelfFacts DEF CatalogRequests
  <2>4. cSteady /\ C!OffsetOf(r.start) = 0 =>
          /\ offset <= Len(cShelf)
          /\ IF offset + CatalogPageSize < Len(cShelf)
             THEN /\ r.next = offset + CatalogPageSize
                  /\ m.products = First(offset + CatalogPageSize)
             ELSE r.next = None /\ m.products = Everything
    <3>. SUFFICES ASSUME cSteady, C!OffsetOf(r.start) = 0
                  PROVE  /\ offset <= Len(cShelf)
                         /\ IF offset + CatalogPageSize < Len(cShelf)
                            THEN /\ r.next = offset + CatalogPageSize
                                 /\ m.products = First(offset + CatalogPageSize)
                            ELSE r.next = None /\ m.products = Everything
      OBVIOUS
    <3>1. /\ offset <= Len(cShelf) /\ r.products = First(offset) /\ r.found = C!Slice(offset)
          /\ IsHonest(offset)
      BY <1>1, <2>1 DEF CatalogInv, HasComeTo
    <3>. QED
      BY <1>0, <1>1, <2>2, <2>3, <3>1, SliceFacts DEF IsHonest
  <2>5. CASE r.next = None
    <3>1. cRequest' = [m EXCEPT !.phase = "collected"]
      BY <2>1, <2>5
    <3>2. /\ cRequest' \in CatalogRequests /\ cRequest'.phase = "collected"
          /\ cRequest'.products = m.products
          /\ cRequest'.start = r.start
      BY <2>2, <3>1 DEF CatalogRequests
    <3>3. cSteady /\ C!OffsetOf(r.start) = 0 => m.products = Everything
      BY <2>3, <2>4, <2>5
    <3>4. Everything' = Everything
      BY <2>1 DEF Everything
    <3>. QED
      BY <1>0, <2>1, <3>2, <3>3, <3>4 DEF CatalogInv, C!TypeOK, CatalogRequests, HasComeTo,
         C!OffsetOf
  <2>6. CASE r.next # None
    <3>. DEFINE a == [m EXCEPT !.cursor = r.next, !.next = None]
    <3>0. r.next \in C!Cursors /\ C!OffsetOf(r.next) = r.next
      BY <2>6 DEF CatalogRequests, C!OffsetOf
    <3>1. /\ a \in CatalogRequests /\ a.cursor = r.next /\ a.start = r.start
          /\ a.products = m.products
          /\ a.requested = r.requested
      BY <2>2, <3>0, CursorFacts DEF CatalogRequests
    <3>2. cRequest' = C!AskFor(a)
      BY <2>1, <2>6
    <3>. HIDE DEF a
    <3>3. CASE a.cursor \in a.requested
      <4>1. cRequest' = [a EXCEPT !.phase = "collected", !.reason = "cursor_repeated"]
        BY <3>2, <3>3 DEF C!AskFor
      <4>2. /\ cRequest' \in CatalogRequests /\ cRequest'.phase = "collected"
            /\ cRequest'.reason # None
        BY <3>1, <4>1 DEF CatalogRequests, C!Reasons
      <4>. QED
        BY <1>0, <2>1, <4>2 DEF CatalogInv, C!TypeOK, CatalogRequests, HasComeTo
    <3>4. CASE a.cursor \notin a.requested
      <4>1. cRequest' = [a EXCEPT !.phase = "list"]
        BY <3>2, <3>4 DEF C!AskFor
      <4>2. cRequest' \in CatalogRequests /\ cRequest'.phase = "list" /\ cRequest'.cursor = r.next
            /\ cRequest'.requested = r.requested /\ cRequest'.products = m.products
            /\ cRequest'.start = r.start
        BY <3>1, <4>1 DEF CatalogRequests
      <4>3. cSteady /\ C!OffsetOf(r.start) = 0 =>
              r.next <= Len(cShelf) /\ m.products = First(r.next)
        BY <2>3, <2>4, <2>6
      <4>4. \A n : First(n)' = First(n)
        BY <2>1 DEF First
      <4>5. cSteady /\ C!OffsetOf(r.start) = 0 => HasComeTo(r.next)'
        BY <2>1, <4>2, <4>3, <4>4 DEF HasComeTo
      <4>. QED
        BY <1>0, <2>1, <3>0, <3>1, <3>4, <4>2, <4>5 DEF CatalogInv, C!TypeOK, CatalogRequests,
           C!OffsetOf
    <3>. QED
      BY <3>3, <3>4
  <2>. QED
    BY <2>5, <2>6
<1>6. ASSUME NEW reason \in C!Reasons, C!BadPage(reason) PROVE CatalogInv'
  <2>. DEFINE m == IF reason = "malformed_page" THEN r ELSE C!Merge(r)
  <2>1. /\ cRequest' = [m EXCEPT !.phase = "collected", !.reason = reason,
                                 !.page = {}, !.found = {}, !.next = None]
        /\ cShelf' = cShelf /\ cSteady' = cSteady
    BY <1>1, <1>6 DEF C!BadPage
  <2>2. m \in CatalogRequests
    BY DEF C!Merge, CatalogRequests, C!Reasons
  <2>. HIDE DEF m
  <2>3. cRequest' \in CatalogRequests /\ cRequest'.phase = "collected" /\ cRequest'.reason # None
    BY <2>1, <2>2, CursorFacts DEF CatalogRequests
  <2>. QED
    BY <1>0, <2>1, <2>3 DEF CatalogInv, C!TypeOK, CatalogRequests, HasComeTo
<1>7. CASE C!ProviderFails
  <2>1. cRequest' = [r EXCEPT !.phase = "failed"] /\ cShelf' = cShelf /\ cSteady' = cSteady
    BY <1>1, <1>7 DEF C!ProviderFails
  <2>2. cRequest' \in CatalogRequests /\ cRequest'.phase = "failed"
    BY <2>1 DEF CatalogRequests
  <2>. QED
    BY <1>0, <2>1, <2>2 DEF CatalogInv, C!TypeOK, CatalogRequests, HasComeTo
<1>8. CASE C!ShelfChanges
  BY <1>0, <1>8 DEF C!ShelfChanges, CatalogInv, C!TypeOK
<1>9. CASE C!Finish
  <2>1. cRequest' = C!Idle /\ cShelf' = cShelf /\ cSteady' = TRUE
    BY <1>9 DEF C!Finish
  <2>2. C!Idle \in CatalogRequests /\ C!Idle.phase = "idle"
    BY CursorFacts DEF C!Idle, CatalogRequests
  <2>. QED
    BY <1>0, <2>1, <2>2 DEF CatalogInv, C!TypeOK, CatalogRequests, HasComeTo
<1>10. CASE UNCHANGED C!vars
  BY <1>10 DEF C!vars, CatalogInv, C!TypeOK, HasComeTo, IsHonest, C!Slice, First, Everything,
     C!OffsetOf
<1>. QED
  BY <1>2, <1>3, <1>4, <1>5, <1>6, <1>7, <1>8, <1>9, <1>10 DEF C!Next

\* The invariant of a collection is inductive.
THEOREM CatalogInvariant == C!Spec => []CatalogInv
<1>1. C!Init => CatalogInv
  <2>1. C!Idle \in CatalogRequests /\ C!Idle.phase = "idle"
    BY CursorFacts DEF C!Idle, CatalogRequests
  <2>. QED
    BY <2>1 DEF C!Init, CatalogInv, C!TypeOK, CatalogRequests, HasComeTo
<1>. QED
  BY <1>1, CatalogStep, PTL DEF C!Spec

\* A collection that calls itself complete, of a list that was steady, has every product of
\* it, and a loop of cursors is never taken for the end.
THEOREM CollectionsAreSound == C!Spec => []C!CollectionIsSound
<1>1. CatalogInv => C!CollectionIsSound
  BY DEF CatalogInv, C!CollectionIsSound, HasComeTo, Everything
<1>. QED
  BY <1>1, CatalogInvariant, PTL

-----------------------------------------------------------------------------
(* The store of collections. *)

\* The rows of the tables that belong to a run, and to a product of it.
RunRows(run) == {r \in bRuns : r.run = run}
ProductsOf(run) == {p \in bProducts : p.run = run}
VariantsOf(p) == {v \in bVariants : v.run = p.run /\ v.product = p.product}

\* The tables have of a run what was saved under it and nothing else.
IsStored(run, c) ==
  /\ RunRows(run) = {B!RunRow(run, c)}
  /\ ProductsOf(run) = {B!ProductRow(run, p) : p \in B!Elements(c.products)}
  /\ \A p \in B!Elements(c.products) :
       VariantsOf(B!ProductRow(run, p)) = {B!VariantRow(run, p, v) : v \in B!Elements(p.variants)}

\* The tables agree with what was saved under a run, or have no row of it.
Agrees(run) ==
  \A c \in Collections \cup {None} :
    bSaved[run] = c => IF c = None THEN RunRows(run) = {} ELSE IsStored(run, c)

\* What was read is what was saved, and is there still.
WasSaved ==
  bAnswer # None /\ bAnswer.collection # None =>
    \E run \in StoredRuns, c \in Collections :
      /\ bAnswer.run = run /\ bSaved[run] = c /\ bAnswer.scope = c.scope
      /\ bAnswer.collection = B!Unordered(c)

\* The inductive invariant of the store.
StoreInv == B!TypeOK /\ (\A run \in StoredRuns : Agrees(run)) /\ WasSaved

\* The shape of a collection, a product and a variant.
LEMMA CollectionFacts ==
  ASSUME NEW c \in Collections
  PROVE  /\ c # None /\ c.scope \in Shops
         /\ c = [scope |-> c.scope, reason |-> c.reason, products |-> c.products]
         /\ \A p \in B!Elements(c.products) :
              /\ p = [id |-> p.id, stock |-> p.stock, variants |-> p.variants]
              /\ \A run \in StoredRuns : B!ProductRow(run, p) # None
              /\ \A v \in B!Elements(p.variants) :
                   /\ v = [id |-> v.id, stock |-> v.stock]
                   /\ \A run \in StoredRuns : B!VariantRow(run, p, v) # None
BY PartsAssumption DEF B!StoreAssumption

\* What the statement joins of a run that has one row.
LEMMA JoinFacts ==
  ASSUME NEW scope, NEW run, NEW R0, RunRows(run) = {R0}, R0.run = run, R0.scope = scope,
         NEW PR, PR = ProductsOf(run), \A p \in PR : p # None,
         \A p \in PR : \A v \in VariantsOf(p) : v # None,
         NEW rows, rows = B!JoinedRows(scope, run)
  PROVE  /\ \A row : row \in rows <=>
              IF PR = {} THEN row = <<<<R0, None>>, None>>
              ELSE \E p \in PR : IF VariantsOf(p) = {} THEN row = <<<<R0, p>>, None>>
                                 ELSE \E v \in VariantsOf(p) : row = <<<<R0, p>>, v>>
<1>. DEFINE found == {r \in bRuns : r.run = run /\ r.scope = scope}
            withProducts == UNION {B!LeftJoin(r, {p \in bProducts : p.run = r.run}) : r \in found}
            V(p) == {v \in bVariants : v.run = p.run /\ v.product = p.product}
            Branch(row) == B!LeftJoin(row, IF row[2] = None THEN {} ELSE V(row[2]))
            joined == UNION {Branch(row) : row \in withProducts}
<1>1. rows = joined
  BY DEF B!JoinedRows
<1>2. found = {R0}
  BY DEF RunRows
<1>3. withProducts = B!LeftJoin(R0, PR)
  <2>1. {p \in bProducts : p.run = R0.run} = PR
    BY DEF ProductsOf
  <2>. HIDE DEF found
  <2>. QED
    BY <1>2, <2>1
<1>4. \A p : V(p) = VariantsOf(p)
  BY DEF VariantsOf
<1>. HIDE DEF found, V, withProducts
<1>5. CASE PR = {}
  <2>1. withProducts = {<<R0, None>>}
    BY <1>3, <1>5 DEF B!LeftJoin
  <2>2. Branch(<<R0, None>>) = B!LeftJoin(<<R0, None>>, {})
    OBVIOUS
  <2>. HIDE DEF Branch
  <2>3. joined = B!LeftJoin(<<R0, None>>, {})
    BY <2>1, <2>2
  <2>. HIDE DEF joined
  <2>. QED
    BY <1>1, <1>5, <2>3 DEF B!LeftJoin
<1>6. CASE PR # {}
  <2>1. withProducts = {<<R0, p>> : p \in PR}
    BY <1>3, <1>6 DEF B!LeftJoin
  <2>. DEFINE Joined(p, row) == IF VariantsOf(p) = {} THEN row = <<<<R0, p>>, None>>
                                ELSE \E v \in VariantsOf(p) : row = <<<<R0, p>>, v>>
  <2>2. \A p \in PR : Branch(<<R0, p>>) = B!LeftJoin(<<R0, p>>, VariantsOf(p))
    BY <1>4
  <2>3. \A p \in PR : \A row : row \in B!LeftJoin(<<R0, p>>, VariantsOf(p)) <=> Joined(p, row)
    BY DEF B!LeftJoin
  <2>. HIDE DEF Branch, Joined
  <2>4. \A row : row \in joined <=> \E w \in withProducts : row \in Branch(w)
    OBVIOUS
  <2>. HIDE DEF joined
  <2>5. \A w : w \in withProducts <=> \E p \in PR : w = <<R0, p>>
    BY <2>1
  <2>6. \A p \in PR : \A row : row \in Branch(<<R0, p>>) <=> Joined(p, row)
    BY <2>2, <2>3
  <2>7. \A row : row \in rows <=> \E p \in PR : Joined(p, row)
    <3>. SUFFICES ASSUME NEW row PROVE row \in joined <=> \E p \in PR : Joined(p, row)
      BY <1>1
    <3>1. row \in joined => \E p \in PR : Joined(p, row)
      BY <2>4, <2>5, <2>6
    <3>2. ASSUME NEW p \in PR, Joined(p, row) PROVE row \in joined
      BY <2>4, <2>5, <2>6, <3>2
    <3>. QED
      BY <3>1, <3>2
  <2>. QED
    BY <1>6, <2>7 DEF Joined
<1>. QED
  BY <1>5, <1>6

\* And what mapCollection makes of these rows.
LEMMA MapFacts ==
  ASSUME NEW R0, NEW PR, \A p \in PR : p # None,
         \A p \in PR : \A v \in VariantsOf(p) : v # None,
         NEW rows,
         \A row : row \in rows <=>
              IF PR = {} THEN row = <<<<R0, None>>, None>>
              ELSE \E p \in PR : IF VariantsOf(p) = {} THEN row = <<<<R0, p>>, None>>
                                 ELSE \E v \in VariantsOf(p) : row = <<<<R0, p>>, v>>
  PROVE  /\ rows # {}
         /\ B!MapCollection(rows) =
              [scope |-> R0.scope, reason |-> R0.reason,
               products |-> {[id |-> p.product, stock |-> p.stock,
                              variants |-> {[id |-> v.variant, stock |-> v.stock] :
                                  v \in VariantsOf(p)}] :
                               p \in PR}]
<1>. DEFINE first == (CHOOSE row \in rows : TRUE)[1][1]
            found == {row[1][2] : row \in rows} \ {None}
            Mine(p) == {r \in rows : r[1][2] = p /\ r[2] # None}
<1>1. B!MapCollection(rows) =
        [scope |-> first.scope, reason |-> first.reason,
         products |-> {[id |-> p.product, stock |-> p.stock,
                        variants |-> {[id |-> row[2].variant, stock |-> row[2].stock] :
                            row \in Mine(p)}] :
                         p \in found}]
  BY DEF B!MapCollection
<1>2. rows # {}
  <2>1. CASE PR = {}
    BY <2>1
  <2>2. CASE PR # {}
    <3>1. PICK p \in PR : TRUE
      BY <2>2
    <3>2. CASE VariantsOf(p) = {}
      BY <2>2, <3>1, <3>2
    <3>3. CASE VariantsOf(p) # {}
      BY <2>2, <3>1, <3>3
    <3>. QED
      BY <3>2, <3>3
  <2>. QED
    BY <2>1, <2>2
<1>3. \A row \in rows : row[1][1] = R0
  OBVIOUS
<1>4. first = R0
  BY <1>2, <1>3
<1>5. \A row \in rows : row[1][2] = None \/ row[1][2] \in PR
  OBVIOUS
<1>6. \A p \in PR : \E row \in rows : row[1][2] = p
  <2>. SUFFICES ASSUME NEW p \in PR PROVE \E row \in rows : row[1][2] = p
    OBVIOUS
  <2>1. CASE VariantsOf(p) = {}
    <3>1. <<<<R0, p>>, None>> \in rows
      BY <2>1
    <3>. QED
      BY <3>1
  <2>2. CASE VariantsOf(p) # {}
    <3>1. PICK v \in VariantsOf(p) : TRUE
      BY <2>2
    <3>2. <<<<R0, p>>, v>> \in rows
      BY <2>2
    <3>. QED
      BY <3>2
  <2>. QED
    BY <2>1, <2>2
<1>7. found = PR
  BY <1>5, <1>6
<1>8. ASSUME NEW p \in PR
      PROVE  {[id |-> row[2].variant, stock |-> row[2].stock] : row \in Mine(p)} =
             {[id |-> v.variant, stock |-> v.stock] : v \in VariantsOf(p)}
  <2>1. \A row \in Mine(p) : row[2] \in VariantsOf(p)
    OBVIOUS
  <2>2. \A v \in VariantsOf(p) : \E row \in Mine(p) : row[2] = v
    <3>. SUFFICES ASSUME NEW v \in VariantsOf(p) PROVE \E row \in Mine(p) : row[2] = v
      OBVIOUS
    <3>1. <<<<R0, p>>, v>> \in rows
      OBVIOUS
    <3>. QED
      BY <3>1
  <2>. HIDE DEF Mine
  <2>. QED
    BY <2>1, <2>2
<1>. HIDE DEF first, found, Mine
<1>. QED
  BY <1>1, <1>2, <1>4, <1>7, <1>8

\* The rows of a run with a saved collection read as that collection.
LEMMA StoredReadsBack ==
  ASSUME NEW run \in StoredRuns, NEW c \in Collections, IsStored(run, c)
  PROVE  /\ B!JoinedRows(c.scope, run) # {}
         /\ B!MapCollection(B!JoinedRows(c.scope, run)) = B!Unordered(c)
<1>. DEFINE rows == B!JoinedRows(c.scope, run)
            R0 == B!RunRow(run, c)
            PR == ProductsOf(run)
            P0 == B!Elements(c.products)
<1>1. RunRows(run) = {R0} /\ R0.run = run /\ R0.scope = c.scope /\ R0.reason = c.reason
  BY DEF IsStored, B!RunRow
<1>2. PR = {B!ProductRow(run, p) : p \in P0}
      /\ \A p \in P0 : VariantsOf(B!ProductRow(run, p)) = {B!VariantRow(run, p, v) :
             v \in B!Elements(p.variants)}
  BY DEF IsStored
<1>. HIDE DEF rows, R0, PR, P0
<1>3. (\A p \in PR : p # None) /\ \A p \in PR : \A v \in VariantsOf(p) : v # None
  BY <1>2, CollectionFacts DEF P0
<1>4. \A row : row \in rows <=>
              IF PR = {} THEN row = <<<<R0, None>>, None>>
              ELSE \E p \in PR : IF VariantsOf(p) = {} THEN row = <<<<R0, p>>, None>>
                                 ELSE \E v \in VariantsOf(p) : row = <<<<R0, p>>, v>>
  BY <1>1, <1>3, JoinFacts DEF rows, PR
<1>5. /\ rows # {}
      /\ B!MapCollection(rows) =
              [scope |-> R0.scope, reason |-> R0.reason,
               products |-> {[id |-> p.product, stock |-> p.stock,
                              variants |-> {[id |-> v.variant, stock |-> v.stock] :
                                  v \in VariantsOf(p)}] :
                               p \in PR}]
  BY <1>3, <1>4, MapFacts
<1>6. {[id |-> p.product, stock |-> p.stock,
        variants |-> {[id |-> v.variant, stock |-> v.stock] : v \in VariantsOf(p)}] : p \in PR} =
      {[p EXCEPT !.variants = B!Elements(p.variants)] : p \in P0}
  <2>. DEFINE Read(p) == [id |-> p.product, stock |-> p.stock,
                          variants |-> {[id |-> v.variant, stock |-> v.stock] :
                              v \in VariantsOf(p)}]
              Flat(p) == [p EXCEPT !.variants = B!Elements(p.variants)]
  <2>1. ASSUME NEW p \in P0 PROVE Read(B!ProductRow(run, p)) = Flat(p)
    <3>1. p = [id |-> p.id, stock |-> p.stock, variants |-> p.variants]
          /\ \A v \in B!Elements(p.variants) : v = [id |-> v.id, stock |-> v.stock]
      BY CollectionFacts DEF P0
    <3>2. B!ProductRow(run, p).product = p.id /\ B!ProductRow(run, p).stock = p.stock
      BY DEF B!ProductRow
    <3>3. {[id |-> v.variant, stock |-> v.stock] :
              v \in VariantsOf(B!ProductRow(run, p))} = B!Elements(p.variants)
      <4>1. \A v \in B!Elements(p.variants) :
              [id |-> B!VariantRow(run, p, v).variant,
                  stock |-> B!VariantRow(run, p, v).stock] = v
        BY <3>1 DEF B!VariantRow
      <4>. HIDE DEF VariantsOf
      <4>. QED
        BY <1>2, <4>1
    <3>4. Flat(p) = [id |-> p.id, stock |-> p.stock, variants |-> B!Elements(p.variants)]
      <4>. DEFINE e == B!Elements(p.variants)
      <4>1. Flat(p) = [p EXCEPT !.variants = e]
        OBVIOUS
      <4>. HIDE DEF e, Flat
      <4>2. Flat(p) = [id |-> p.id, stock |-> p.stock, variants |-> e]
        BY <3>1, <4>1
      <4>. QED
        BY <4>2 DEF e
    <3>. QED
      BY <3>2, <3>3, <3>4
  <2>. HIDE DEF Read, Flat
  <2>2. {Read(p) : p \in PR} = {Flat(p) : p \in P0}
    BY <1>2, <2>1
  <2>. QED
    BY <2>2 DEF Read, Flat
<1>7. B!Unordered(c) = [scope |-> c.scope, reason |-> c.reason,
                        products |-> {[p EXCEPT !.variants = B!Elements(p.variants)] : p \in P0}]
  <2>. DEFINE flat == {[p EXCEPT !.variants = B!Elements(p.variants)] : p \in P0}
  <2>1. B!Unordered(c) = [c EXCEPT !.products = flat]
    BY DEF B!Unordered, P0
  <2>. HIDE DEF flat
  <2>2. B!Unordered(c) = [scope |-> c.scope, reason |-> c.reason, products |-> flat]
    BY <2>1, CollectionFacts
  <2>. QED
    BY <2>2 DEF flat
<1>. QED
  BY <1>1, <1>5, <1>6, <1>7 DEF rows

\* Saving a collection keeps the invariant.
LEMMA SaveStep ==
  ASSUME StoreInv, NEW run \in StoredRuns, NEW c \in Collections, B!SaveCollection(run, c)
  PROVE  StoreInv'
<1>. DEFINE P0 == B!Elements(c.products)
            newVariants == UNION {{B!VariantRow(run, p, v) : v \in B!Elements(p.variants)} :
                p \in P0}
<1>1. /\ RunRows(run) = {}
      /\ bRuns' = bRuns \cup {B!RunRow(run, c)}
      /\ bProducts' = bProducts \cup {B!ProductRow(run, p) : p \in P0}
      /\ bVariants' = bVariants \cup newVariants
      /\ bSaved' = [bSaved EXCEPT ![run] = c] /\ bAnswer' = bAnswer
  BY DEF B!SaveCollection, RunRows
<1>2. \A p, q \in P0 : p.id = q.id => p = q
  BY DEF B!SaveCollection, B!Distinct, B!Elements
<1>3. bSaved \in [StoredRuns -> Collections \cup {None}] /\ bSaved[run] = None /\ c # None
  BY <1>1, CollectionFacts DEF StoreInv, B!TypeOK, Agrees, IsStored
<1>4. ProductsOf(run) = {} /\ \A v \in bVariants : v.run # run
  BY <1>1 DEF StoreInv, B!TypeOK, RunRows, ProductsOf
<1>5. B!RunRow(run, c).run = run
      /\ \A p \in P0 : B!ProductRow(run, p).run = run /\ B!ProductRow(run, p).product = p.id
  BY DEF B!RunRow, B!ProductRow
<1>6. \A p \in P0 : \A v :
        B!VariantRow(run, p, v).run = run /\ B!VariantRow(run, p, v).product = p.id
  BY DEF B!VariantRow
<1>7. \A w : w \in newVariants <=> \E p \in P0 : \E v \in B!Elements(p.variants) :
          w = B!VariantRow(run, p, v)
  OBVIOUS
<1>. HIDE DEF P0, newVariants
<1>8. B!TypeOK'
  <2>1. \A r \in bRuns' : r.run \in StoredRuns
    BY <1>1, <1>5 DEF StoreInv, B!TypeOK
  <2>2. \A p \in bProducts' : \E r \in bRuns' : r.run = p.run
    BY <1>1, <1>5 DEF StoreInv, B!TypeOK
  <2>3. \A w \in bVariants' : \E p \in bProducts' : p.run = w.run /\ p.product = w.product
    <3>. SUFFICES ASSUME NEW w \in bVariants' PROVE
                   \E p \in bProducts' : p.run = w.run /\ p.product = w.product
      OBVIOUS
    <3>1. CASE w \in bVariants
      BY <1>1, <3>1 DEF StoreInv, B!TypeOK
    <3>2. CASE w \in newVariants
      <4>1. PICK p \in P0 : \E v \in B!Elements(p.variants) : w = B!VariantRow(run, p, v)
        BY <1>7, <3>2
      <4>2. B!ProductRow(run, p) \in bProducts' /\ w.run = run /\ w.product = p.id
        BY <1>1, <1>6, <4>1
      <4>. QED
        BY <1>5, <4>2
    <3>. QED
      BY <1>1, <3>1, <3>2
  <2>4. bSaved' \in [StoredRuns -> Collections \cup {None}]
    BY <1>1, <1>3
  <2>. QED
    BY <2>1, <2>2, <2>3, <2>4 DEF B!TypeOK
<1>9. IsStored(run, c)'
  <2>1. RunRows(run)' = {B!RunRow(run, c)}
    BY <1>1, <1>5 DEF RunRows
  <2>2. ProductsOf(run)' = {B!ProductRow(run, p) : p \in P0}
    BY <1>1, <1>4, <1>5 DEF ProductsOf
  <2>3. ASSUME NEW p \in P0
        PROVE  {v \in bVariants' :
                  v.run = B!ProductRow(run, p).run /\ v.product = B!ProductRow(run, p).product}
               = {B!VariantRow(run, p, v) : v \in B!Elements(p.variants)}
    <3>1. \A w \in bVariants' : w.run = run /\ w.product = p.id =>
            \E v \in B!Elements(p.variants) : w = B!VariantRow(run, p, v)
      <4>. SUFFICES ASSUME NEW w \in bVariants', w.run = run, w.product = p.id
                    PROVE  \E v \in B!Elements(p.variants) : w = B!VariantRow(run, p, v)
        OBVIOUS
      <4>1. w \in newVariants
        BY <1>1, <1>4
      <4>2. PICK q \in P0 : \E v \in B!Elements(q.variants) : w = B!VariantRow(run, q, v)
        BY <1>7, <4>1
      <4>3. q.id = p.id
        BY <1>6, <4>2
      <4>. QED
        BY <1>2, <4>2, <4>3
    <3>2. \A v \in B!Elements(p.variants) :
            B!VariantRow(run, p, v) \in bVariants' /\ B!VariantRow(run, p, v).run = run
            /\ B!VariantRow(run, p, v).product = p.id
      BY <1>1, <1>6, <1>7
    <3>. QED
      BY <1>5, <3>1, <3>2
  <2>. QED
    BY <2>1, <2>2, <2>3 DEF IsStored, VariantsOf, P0, B!RunRow, B!ProductRow, B!VariantRow,
       B!Elements
<1>10. ASSUME NEW other \in StoredRuns, other # run
       PROVE  /\ RunRows(other)' = RunRows(other)
              /\ \A d \in Collections : IsStored(other, d) => IsStored(other, d)'
  <2>1. RunRows(other)' = RunRows(other)
    BY <1>1, <1>5, <1>10 DEF RunRows
  <2>2. ProductsOf(other)' = ProductsOf(other)
    BY <1>1, <1>5, <1>10 DEF ProductsOf
  <2>3. \A p :
          {v \in bVariants' :
             v.run = B!ProductRow(other, p).run /\ v.product = B!ProductRow(other, p).product}
             = VariantsOf(B!ProductRow(other, p))
    <3>1. \A p : B!ProductRow(other, p).run = other
      BY DEF B!ProductRow
    <3>2. \A w \in newVariants : w.run = run
      BY <1>6, <1>7
    <3>. QED
      BY <1>1, <1>10, <3>1, <3>2 DEF VariantsOf
  <2>. QED
    BY <2>1, <2>2, <2>3 DEF IsStored, VariantsOf, B!RunRow, B!ProductRow, B!VariantRow, B!Elements
<1>11. ASSUME NEW r \in StoredRuns PROVE Agrees(r)'
  <2>1. CASE r = run
    <3>1. bSaved'[r] = c
      BY <1>1, <1>3, <2>1
    <3>. QED
      BY <1>3, <1>9, <2>1, <3>1 DEF Agrees
  <2>2. CASE r # run
    <3>1. bSaved'[r] = bSaved[r]
      BY <1>1, <1>3, <2>2
    <3>. QED
      BY <1>10, <2>2, <3>1 DEF StoreInv, Agrees
  <2>. QED
    BY <2>1, <2>2
<1>12. WasSaved'
  <2>. SUFFICES ASSUME bAnswer # None, bAnswer.collection # None PROVE WasSaved'
    BY <1>1 DEF WasSaved
  <2>1. PICK r \in StoredRuns, d \in Collections :
          /\ bAnswer.run = r /\ bSaved[r] = d /\ bAnswer.scope = d.scope
          /\ bAnswer.collection = B!Unordered(d)
    BY DEF StoreInv, WasSaved
  <2>2. bSaved'[r] = d
    BY <1>1, <1>3, <2>1, CollectionFacts
  <2>. QED
    BY <1>1, <2>1, <2>2 DEF WasSaved
<1>. QED
  BY <1>8, <1>11, <1>12 DEF StoreInv

\* Reading a collection keeps the invariant.
LEMMA ReadStep ==
  ASSUME StoreInv, NEW run \in StoredRuns, NEW scope \in Shops, B!ReadCollection(scope, run)
  PROVE  StoreInv'
<1>. DEFINE rows == B!JoinedRows(scope, run)
            what == IF rows = {} THEN None ELSE B!MapCollection(rows)
<1>1. bAnswer' = [run |-> run, scope |-> scope, collection |-> what]
      /\ UNCHANGED <<bRuns, bProducts, bVariants, bSaved>>
  BY DEF B!ReadCollection
<1>2. ASSUME what # None
      PROVE  \E c \in Collections : bSaved[run] = c /\ what = B!Unordered(c) /\ scope = c.scope
  <2>1. rows # {} /\ what = B!MapCollection(rows)
    BY <1>2
  <2>2. \E r \in bRuns : r.run = run /\ r.scope = scope
    <3>. SUFFICES ASSUME {r \in bRuns : r.run = run /\ r.scope = scope} = {} PROVE FALSE
      OBVIOUS
    <3>. DEFINE none == {r \in bRuns : r.run = run /\ r.scope = scope}
    <3>1. rows = {}
      BY none = {} DEF B!JoinedRows
    <3>. QED
      BY <2>1, <3>1
  <2>3. RunRows(run) # {}
    BY <2>2 DEF RunRows
  <2>4. PICK c \in Collections : bSaved[run] = c /\ IsStored(run, c)
    BY <2>3 DEF StoreInv, B!TypeOK, Agrees
  <2>5. c.scope = scope
    BY <2>2, <2>4 DEF IsStored, RunRows, B!RunRow
  <2>6. what = B!Unordered(c)
    BY <2>1, <2>4, <2>5, StoredReadsBack
  <2>. QED
    BY <2>4, <2>5, <2>6
<1>. HIDE DEF what
<1>3. bAnswer'.run = run /\ bAnswer'.collection = what /\ bAnswer'.scope = scope
  BY <1>1
<1>4. WasSaved'
  BY <1>1, <1>2, <1>3 DEF WasSaved
<1>5. B!TypeOK' /\ \A r \in StoredRuns : Agrees(r)'
  BY <1>1 DEF StoreInv, B!TypeOK, Agrees, RunRows, IsStored, ProductsOf, VariantsOf
<1>. QED
  BY <1>4, <1>5 DEF StoreInv

\* The invariant of the store is inductive.
THEOREM StoreInvariant == B!Spec => []StoreInv
<1>1. B!Init => StoreInv
  BY CollectionFacts DEF B!Init, StoreInv, B!TypeOK, RunRows, Agrees, WasSaved
<1>2. StoreInv /\ [B!Next]_(B!vars) => StoreInv'
  <2>. SUFFICES ASSUME StoreInv, [B!Next]_(B!vars) PROVE StoreInv'
    OBVIOUS
  <2>1. CASE UNCHANGED B!vars
    BY <2>1 DEF B!vars, StoreInv, B!TypeOK, Agrees, RunRows, IsStored, ProductsOf, VariantsOf,
       WasSaved
  <2>. QED
    BY <2>1, SaveStep, ReadStep DEF B!Next
<1>. QED
  BY <1>1, <1>2, PTL DEF B!Spec

\* A collection is read as it was saved, up to the order of its rows.
THEOREM ReadsGiveWhatWasSaved == B!Spec => []B!ReadIsWhatWasSaved
<1>1. StoreInv => B!ReadIsWhatWasSaved
  <2>. SUFFICES ASSUME WasSaved, bAnswer # None, bAnswer.collection # None
                PROVE  /\ bSaved[bAnswer.run] # None
                       /\ bAnswer.collection = B!Unordered(bSaved[bAnswer.run])
                       /\ bAnswer.collection.scope = bAnswer.scope
    BY DEF StoreInv, B!ReadIsWhatWasSaved
  <2>1. PICK run \in StoredRuns, c \in Collections :
          /\ bAnswer.run = run /\ bSaved[run] = c /\ bAnswer.scope = c.scope
          /\ bAnswer.collection = B!Unordered(c)
    BY DEF WasSaved
  <2>2. B!Unordered(c).scope = c.scope
    <3>. DEFINE flat == {[p EXCEPT !.variants = B!Elements(p.variants)] :
             p \in B!Elements(c.products)}
    <3>1. B!Unordered(c) = [c EXCEPT !.products = flat]
      BY DEF B!Unordered
    <3>. HIDE DEF flat
    <3>. QED
      BY <3>1, CollectionFacts
  <2>. QED
    BY <2>1, <2>2, CollectionFacts
<1>. QED
  BY <1>1, StoreInvariant, PTL

-----------------------------------------------------------------------------
(* The sections of the provider. *)

\* The calls whose answers the later stages of a request use.
CallNames == {"ids", "settings", "campaignDaily", "campaignHourly", "keywords", "roi"}

\* The stages of a request are apart, campaigns are listed in the first and their settings
\* read in the second.
LEMMA StageFacts ==
  ASSUME NEW kind \in R!Kinds
  PROVE  /\ R!StageCount(kind) \in 1..3
         /\ \A i \in 1..R!StageCount(kind) :
              /\ R!Stages(kind)[i] \subseteq R!Sections
              /\ "ids" \in R!Stages(kind)[i] => i = 1
              /\ "settings" \in R!Stages(kind)[i] /\ kind = "raw" => i = 2
              /\ \A j \in 1..R!StageCount(kind) :
                   i # j => R!Stages(kind)[i] \cap R!Stages(kind)[j] = {}
<1>0. R!Stages(kind)[1] \subseteq R!Sections
  BY DEF R!Sections
<1>1. CASE kind = "raw"
  <2>1. R!StageCount(kind) = 3 /\ R!Stages(kind)[1] = PlainSections \cup {"ids"}
        /\ R!Stages(kind)[2] = {"settings", "campaignDaily", "campaignHourly"}
        /\ R!Stages(kind)[3] = {"keywords", "roi"}
    BY <1>1 DEF R!StageCount, R!Stages, R!RawStages
  <2>2. \A s \in CallNames : s \notin PlainSections
    BY PartsAssumption DEF R!ReadsAssumption, CallNames
  <2>3. R!Stages(kind)[2] \subseteq R!Sections /\ R!Stages(kind)[3] \subseteq R!Sections
    BY <2>1 DEF R!Sections
  <2>4. \A i \in 1..3 : i = 1 \/ i = 2 \/ i = 3
    OBVIOUS
  <2>. QED
    BY <1>0, <2>1, <2>2, <2>3, <2>4 DEF CallNames
<1>2. CASE kind = "campaigns"
  <2>1. R!StageCount(kind) = 2 /\ R!Stages(kind)[1] = {"ids"} /\ R!Stages(kind)[2] = {"settings"}
    BY <1>2 DEF R!StageCount, R!Stages, R!CampaignStages
  <2>2. R!Stages(kind)[2] \subseteq R!Sections
    BY <2>1 DEF R!Sections
  <2>3. \A i \in 1..2 : i = 1 \/ i = 2
    OBVIOUS
  <2>. QED
    BY <1>0, <1>2, <2>1, <2>2, <2>3
<1>3. CASE kind \in {"daily", "insights", "detail"}
  <2>1. R!StageCount(kind) = 1
    BY <1>3 DEF R!StageCount
  <2>2. \A i \in 1..1 : i = 1
    OBVIOUS
  <2>. QED
    BY <1>0, <1>3, <2>1, <2>2
<1>. QED
  BY <1>1, <1>2, <1>3 DEF R!Kinds

\* The request has come to a stage, whose calls are under way.
RequestIsStaged ==
  /\ rRequest.kind = None => rRequest = R!Idle
  /\ rRequest.stage = 0 =>
       rSaid = R!Nothing /\ rRequest.pending = {} /\ rRequest.status # "answered"
  /\ rRequest.stage # 0 =>
       /\ rRequest.kind \in R!Kinds
       /\ rRequest.stage \in 1..R!StageCount(rRequest.kind)
       /\ rRequest.pending \subseteq R!Stages(rRequest.kind)[rRequest.stage]
       /\ rRequest.status # None => rRequest.pending = {}
       /\ rRequest.status = "answered" => rRequest.stage = R!StageCount(rRequest.kind)
       /\ "ids" \in rRequest.pending => rRequest.campaigns = 0
       /\ \A s \in R!Sections : rSaid[s] # None =>
            \E i \in 1..rRequest.stage : s \in R!Stages(rRequest.kind)[i]

\* Why a section has nothing of the provider.
IsSkipped(s) ==
  \/ rRequest.results[s] = "no_campaigns" /\ rRequest.campaigns = 0 /\ rRequest.stage >= 2
  \/ rRequest.results[s] = "no_reference_item" /\ ~rRequest.item /\ rRequest.stage >= 3

\* In the inspector and the detail of a product every call made has its own answer.
SectionsAreOwn ==
  R!Sectioned(rRequest.kind) /\ rRequest.stage # 0 =>
    /\ rRequest.status # "provider_unavailable"
    /\ \A s \in R!Sections : rSaid[s] # None => rRequest.results[s] = rSaid[s]
    /\ \A i \in 1..rRequest.stage : \A s \in R!Stages(rRequest.kind)[i] :
         s \in rRequest.pending \/ rSaid[s] # None \/ IsSkipped(s)

\* The inductive invariant of the requests.
ReadsInv == R!TypeOK /\ RequestIsStaged /\ SectionsAreOwn

\* Nothing is shown and nothing said before the first answer.
LEMMA NothingFacts ==
  /\ R!Nothing \in [R!Sections -> R!Shown \cup {None}]
  /\ R!Nothing \in [R!Sections -> R!Outcomes \cup {None}]
  /\ \A s \in R!Sections : R!Nothing[s] = None
BY DEF R!Nothing

\* The types of a request.
RequestTypes ==
  [kind : R!Kinds \cup {None}, stage : 0..3, pending : SUBSET R!Sections,
   results : [R!Sections -> R!Shown \cup {None}],
   campaigns : 0..MaxCampaigns, asked : 0..CampaignLimit, item : BOOLEAN,
   status : R!Denials \cup {"answered", "provider_unavailable", None}]

\* A request that is over, or has not begun.
LEMMA IdleFacts ==
  R!Idle \in RequestTypes
BY NothingFacts, PartsAssumption DEF R!Idle, RequestTypes, R!ReadsAssumption

\* A call ends: what is left of the request, by field.
LEMMA AnswerCases ==
  ASSUME rRequest \in RequestTypes, NEW s \in R!Sections, NEW outcome \in R!Outcomes,
         NEW n \in 0..MaxCampaigns, NEW item \in BOOLEAN, R!SectionAnswer(s, outcome, n, item)
  PROVE  /\ s \in rRequest.pending
         /\ UNCHANGED <<rRequest.kind, rRequest.stage, rRequest.asked>>
         /\ rRequest'.campaigns = rRequest.campaigns + n /\ (s # "ids" => n = 0)
         /\ rRequest'.item = (rRequest.item \/ item) /\ (s # "settings" => ~item)
         /\ rRequest' = [kind |-> rRequest'.kind, stage |-> rRequest'.stage,
                pending |-> rRequest'.pending,
                         results |-> rRequest'.results, campaigns |-> rRequest'.campaigns,
                         asked |-> rRequest'.asked, item |-> rRequest'.item,
                             status |-> rRequest'.status]
         /\ IF R!Sectioned(rRequest.kind) \/ R!Accepted(outcome)
            THEN /\ rRequest'.results = [rRequest.results EXCEPT ![s] = outcome]
                 /\ rRequest'.pending = rRequest.pending \ {s}
                 /\ rRequest'.status = rRequest.status
            ELSE /\ rRequest'.results = rRequest.results
                 /\ rRequest'.pending = {}
                 /\ rRequest'.status = "provider_unavailable"
<1>. DEFINE c == R!Collect(rRequest, s, outcome)
<1>1. rRequest' = [c EXCEPT !.campaigns = @ + n, !.item = @ \/ item]
  BY DEF R!SectionAnswer
<1>2. c \in [kind : R!Kinds \cup {None}, stage : 0..3, pending : SUBSET R!Sections,
             results : [R!Sections -> R!Shown \cup {None}],
             campaigns : 0..MaxCampaigns, asked : 0..CampaignLimit, item : BOOLEAN,
             status : R!Denials \cup {"answered", "provider_unavailable", None}]
  BY DEF R!Collect, RequestTypes, R!Shown
<1>3. /\ c.kind = rRequest.kind /\ c.stage = rRequest.stage /\ c.asked = rRequest.asked
      /\ c.campaigns = rRequest.campaigns /\ c.item = rRequest.item
      /\ IF R!Sectioned(rRequest.kind) \/ R!Accepted(outcome)
         THEN /\ c.results = [rRequest.results EXCEPT ![s] = outcome]
              /\ c.pending = rRequest.pending \ {s}
              /\ c.status = rRequest.status
         ELSE c.results = rRequest.results /\ c.pending = {} /\ c.status = "provider_unavailable"
  BY DEF R!Collect, RequestTypes
<1>. HIDE DEF c
<1>4. /\ rRequest'.kind = c.kind /\ rRequest'.stage = c.stage /\ rRequest'.asked = c.asked
      /\ rRequest'.campaigns = c.campaigns + n /\ rRequest'.item = (c.item \/ item)
      /\ rRequest'.results = c.results /\ rRequest'.pending = c.pending
      /\ rRequest'.status = c.status
  BY <1>1, <1>2
<1>5. rRequest' = [kind |-> rRequest'.kind, stage |-> rRequest'.stage,
          pending |-> rRequest'.pending,
                  results |-> rRequest'.results, campaigns |-> rRequest'.campaigns,
                  asked |-> rRequest'.asked, item |-> rRequest'.item, status |-> rRequest'.status]
  BY <1>1, <1>2
<1>6. s \in rRequest.pending /\ (s # "ids" => n = 0) /\ (s # "settings" => ~item)
  BY DEF R!SectionAnswer
<1>. QED
  BY <1>3, <1>4, <1>5, <1>6

\* An answer to a section keeps the invariant.
LEMMA ReadsAnswerStep ==
  ASSUME ReadsInv, NEW s \in R!Sections, NEW outcome \in R!Outcomes,
         NEW n \in 0..MaxCampaigns, NEW item \in BOOLEAN, R!SectionAnswer(s, outcome, n, item)
  PROVE  ReadsInv'
<1>0. rRequest \in RequestTypes /\ rSaid \in [R!Sections -> R!Outcomes \cup {None}]
  BY DEF ReadsInv, R!TypeOK, RequestTypes
<1>1. PICK f \in RequestTypes : f = rRequest
  BY <1>0
<1>2. /\ s \in f.pending
      /\ rRequest'.kind = f.kind /\ rRequest'.stage = f.stage /\ rRequest'.asked = f.asked
      /\ rRequest'.campaigns = f.campaigns + n /\ (s # "ids" => n = 0)
      /\ rRequest'.item = (f.item \/ item) /\ (s # "settings" => ~item)
      /\ rRequest' = [kind |-> rRequest'.kind, stage |-> rRequest'.stage,
             pending |-> rRequest'.pending,
                      results |-> rRequest'.results, campaigns |-> rRequest'.campaigns,
                      asked |-> rRequest'.asked, item |-> rRequest'.item,
                          status |-> rRequest'.status]
      /\ IF R!Sectioned(f.kind) \/ R!Accepted(outcome)
         THEN /\ rRequest'.results = [f.results EXCEPT ![s] = outcome]
              /\ rRequest'.pending = f.pending \ {s}
              /\ rRequest'.status = f.status
         ELSE /\ rRequest'.results = f.results /\ rRequest'.pending = {}
              /\ rRequest'.status = "provider_unavailable"
  BY <1>0, <1>1, AnswerCases
<1>3. rSaid' = [rSaid EXCEPT ![s] = outcome]
  BY DEF R!SectionAnswer
<1>4. /\ f.stage # 0 /\ f.kind \in R!Kinds /\ f.stage \in 1..R!StageCount(f.kind)
      /\ f.pending \subseteq R!Stages(f.kind)[f.stage]
      /\ f.status = None
      /\ ("ids" \in f.pending => f.campaigns = 0)
      /\ \A x \in R!Sections : rSaid[x] # None => \E i \in 1..f.stage : x \in R!Stages(f.kind)[i]
  BY <1>1, <1>2 DEF ReadsInv, RequestIsStaged
<1>5. /\ s \in R!Stages(f.kind)[f.stage]
      /\ s = "ids" => f.stage = 1
      /\ s = "settings" /\ f.kind = "raw" => f.stage = 2
  BY <1>2, <1>4, StageFacts
<1>6. outcome # None /\ outcome \in R!Shown /\ MaxCampaigns \in Nat
  BY PartsAssumption DEF R!ReadsAssumption, R!Shown, R!Outcomes
<1>7. /\ rRequest'.campaigns \in 0..MaxCampaigns
      /\ "ids" \in rRequest'.pending => rRequest'.campaigns = 0
  <2>1. CASE s = "ids"
    <3>1. rRequest'.campaigns = n /\ "ids" \notin rRequest'.pending
      BY <1>2, <1>4, <2>1
    <3>. QED
      BY <3>1
  <2>2. CASE s # "ids"
    <3>1. rRequest'.campaigns = f.campaigns /\ rRequest'.pending \subseteq f.pending
      BY <1>2, <1>6, <2>2 DEF RequestTypes
    <3>. QED
      BY <1>4, <3>1 DEF RequestTypes
  <2>. QED
    BY <2>1, <2>2
<1>8. R!TypeOK'
  <2>1. rRequest'.results \in [R!Sections -> R!Shown \cup {None}]
    BY <1>2, <1>6 DEF RequestTypes
  <2>2. rRequest'.pending \in SUBSET R!Sections /\ rRequest'.item \in BOOLEAN
        /\ rRequest'.status \in R!Denials \cup {"answered", "provider_unavailable", None}
    BY <1>2 DEF RequestTypes
  <2>3. /\ rRequest'.kind \in R!Kinds \cup {None} /\ rRequest'.stage \in 0..3
        /\ rRequest'.asked \in 0..CampaignLimit
    BY <1>2 DEF RequestTypes
  <2>4. rRequest' \in RequestTypes
    BY <1>2, <1>7, <2>1, <2>2, <2>3 DEF RequestTypes
  <2>. QED
    BY <1>0, <1>3, <2>4 DEF R!TypeOK, RequestTypes
<1>9. RequestIsStaged'
  <2>1. rRequest'.kind # None /\ rRequest'.stage # 0
    BY <1>2, <1>4, PartsAssumption DEF R!ReadsAssumption
  <2>2. /\ rRequest'.pending \subseteq f.pending
        /\ rRequest'.status # None => rRequest'.pending = {}
        /\ rRequest'.status # "answered"
    BY <1>2, <1>4, PartsAssumption DEF R!ReadsAssumption
  <2>3. ASSUME NEW x \in R!Sections, rSaid'[x] # None
        PROVE  \E i \in 1..f.stage : x \in R!Stages(f.kind)[i]
    <3>1. CASE x = s
      BY <1>4, <1>5, <3>1
    <3>2. CASE x # s
      BY <1>0, <1>3, <1>4, <2>3, <3>2
    <3>. QED
      BY <3>1, <3>2
  <2>. QED
    BY <1>2, <1>4, <1>7, <2>1, <2>2, <2>3 DEF RequestIsStaged
<1>10. SectionsAreOwn'
  <2>. SUFFICES ASSUME R!Sectioned(f.kind)
                PROVE  /\ rRequest'.status # "provider_unavailable"
                       /\ \A x \in R!Sections : rSaid'[x] # None
                              => rRequest'.results[x] = rSaid'[x]
                       /\ \A i \in 1..f.stage : \A x \in R!Stages(f.kind)[i] :
                            x \in rRequest'.pending \/ rSaid'[x] # None \/ IsSkipped(x)'
    BY <1>2 DEF SectionsAreOwn
  <2>1. /\ rRequest'.results = [f.results EXCEPT ![s] = outcome]
        /\ rRequest'.pending = f.pending \ {s} /\ rRequest'.status = None
    BY <1>2, <1>4
  <2>2. /\ \A x \in R!Sections : rSaid[x] # None => f.results[x] = rSaid[x]
        /\ \A i \in 1..f.stage : \A x \in R!Stages(f.kind)[i] :
             x \in f.pending \/ rSaid[x] # None \/ IsSkipped(x)
    BY <1>1, <1>4 DEF ReadsInv, SectionsAreOwn
  <2>3. rSaid'[s] = outcome /\ rRequest'.results[s] = outcome
        /\ \A x \in R!Sections \ {s} : rSaid'[x] = rSaid[x] /\ rRequest'.results[x] = f.results[x]
    BY <1>0, <1>3, <2>1 DEF RequestTypes
  <2>4. \A x \in R!Sections \ {s} : IsSkipped(x) => IsSkipped(x)'
    <3>. SUFFICES ASSUME NEW x \in R!Sections \ {s}, IsSkipped(x) PROVE IsSkipped(x)'
      OBVIOUS
    <3>0. f.stage \in 1..3 /\ f.campaigns \in Nat
      BY <1>4, StageFacts DEF RequestTypes
    <3>1. CASE f.results[x] = "no_campaigns" /\ f.campaigns = 0 /\ f.stage >= 2
      <4>1. n = 0
        BY <1>2, <1>5, <3>0, <3>1
      <4>. QED
        BY <1>2, <2>3, <3>1, <4>1 DEF IsSkipped
    <3>2. CASE f.results[x] = "no_reference_item" /\ ~f.item /\ f.stage >= 3
      <4>1. f.kind = "raw"
        BY <3>0, <3>2, <1>4 DEF R!Sectioned, R!StageCount
      <4>2. ~item
        BY <1>2, <1>5, <3>0, <3>2, <4>1
      <4>. QED
        BY <1>2, <2>3, <3>2, <4>2 DEF IsSkipped
    <3>. QED
      BY <1>1, <3>1, <3>2 DEF IsSkipped
  <2>5. ASSUME NEW i \in 1..f.stage, NEW x \in R!Stages(f.kind)[i]
        PROVE  x \in rRequest'.pending \/ rSaid'[x] # None \/ IsSkipped(x)'
    <3>1. x \in R!Sections
      <4>1. i \in 1..R!StageCount(f.kind)
        BY <1>4, StageFacts
      <4>. QED
        BY <1>4, <4>1, StageFacts
    <3>2. CASE x = s
      BY <1>6, <2>3, <3>2
    <3>3. CASE x # s
      BY <2>1, <2>2, <2>3, <2>4, <3>1, <3>3
    <3>. QED
      BY <3>2, <3>3
  <2>6. \A x \in R!Sections : rSaid'[x] # None => rRequest'.results[x] = rSaid'[x]
    BY <2>2, <2>3
  <2>. QED
    BY <2>1, <2>5, <2>6, PartsAssumption DEF R!ReadsAssumption
<1>. QED
  BY <1>8, <1>9, <1>10 DEF ReadsInv

\* Beginning the next stage keeps the invariant.
LEMMA NextStageStep ==
  ASSUME ReadsInv, R!NextStage
  PROVE  ReadsInv'
<1>0. rRequest \in RequestTypes /\ rSaid \in [R!Sections -> R!Outcomes \cup {None}]
  BY DEF ReadsInv, R!TypeOK, RequestTypes
<1>1. PICK f \in RequestTypes : f = rRequest
  BY <1>0
<1>. DEFINE next == f.stage + 1
<1>2. f.stage # 0 /\ f.status = None /\ f.pending = {} /\ rSaid' = rSaid
  BY <1>1 DEF R!NextStage
<1>3. /\ f.kind \in R!Kinds /\ f.stage \in 1..R!StageCount(f.kind) /\ f.stage \in 1..3
      /\ \A x \in R!Sections : rSaid[x] # None => \E i \in 1..f.stage : x \in R!Stages(f.kind)[i]
      /\ \A i \in 1..R!StageCount(f.kind) : R!Stages(f.kind)[i] \subseteq R!Sections
  BY <1>1, <1>2, StageFacts DEF ReadsInv, RequestIsStaged
<1>4. R!Sectioned(f.kind) =>
        /\ \A x \in R!Sections : rSaid[x] # None => f.results[x] = rSaid[x]
        /\ \A i \in 1..f.stage : \A x \in R!Stages(f.kind)[i] : rSaid[x] # None \/ IsSkipped(x)
  BY <1>1, <1>2 DEF ReadsInv, SectionsAreOwn
<1>5. CASE f.stage = R!StageCount(f.kind)
  <2>1. rRequest' = [f EXCEPT !.status = "answered"]
    BY <1>1, <1>5 DEF R!NextStage
  <2>2. rRequest' \in RequestTypes /\ rRequest'.status = "answered" /\ rRequest'.kind = f.kind
        /\ rRequest'.stage = f.stage /\ rRequest'.pending = {} /\ rRequest'.results = f.results
        /\ rRequest'.campaigns = f.campaigns /\ rRequest'.item = f.item
    BY <1>2, <2>1 DEF RequestTypes
  <2>3. \A x : IsSkipped(x) => IsSkipped(x)'
    BY <1>1, <2>2 DEF IsSkipped
  <2>4. R!TypeOK'
    BY <1>0, <1>2, <2>2 DEF R!TypeOK, RequestTypes
  <2>5. RequestIsStaged'
    BY <1>2, <1>3, <1>5, <2>2, PartsAssumption DEF RequestIsStaged, R!ReadsAssumption
  <2>6. SectionsAreOwn'
    BY <1>2, <1>4, <2>2, <2>3 DEF SectionsAreOwn
  <2>. QED
    BY <2>4, <2>5, <2>6 DEF ReadsInv
<1>6. (next \in 2..R!StageCount(f.kind) /\ next \in 1..3) \/ f.stage = R!StageCount(f.kind)
  BY <1>3, StageFacts
<1>7. ASSUME f.stage # R!StageCount(f.kind)
      PROVE  /\ next \in 2..R!StageCount(f.kind) /\ next \in 1..3
             /\ \A x \in R!Stages(f.kind)[next] : x \in R!Sections /\ rSaid[x] = None
             /\ "ids" \notin R!Stages(f.kind)[next]
  <2>1. next \in 2..R!StageCount(f.kind) /\ next \in 1..3 /\ next \in 1..R!StageCount(f.kind)
    BY <1>3, <1>6, <1>7, StageFacts
  <2>2. \A i \in 1..f.stage : i \in 1..R!StageCount(f.kind) /\ i # next
    BY <1>3, <2>1, StageFacts
  <2>3. \A i \in 1..f.stage : R!Stages(f.kind)[i] \cap R!Stages(f.kind)[next] = {}
    BY <1>3, <2>1, <2>2, StageFacts
  <2>4. next # 1 /\ R!Stages(f.kind)[next] \subseteq R!Sections
    BY <1>3, <2>1
  <2>5. \A x \in R!Stages(f.kind)[next] : rSaid[x] = None
    BY <1>3, <2>3, <2>4
  <2>. HIDE DEF next
  <2>. QED
    BY <1>3, <2>1, <2>4, <2>5, StageFacts
<1>8. CASE f.stage # R!StageCount(f.kind) /\ R!Skipped(f) # None
  <2>1. rRequest' = [f EXCEPT !.stage = next,
                       !.results = [s \in R!Sections |-> IF s \in R!Stages(f.kind)[next]
                                                          THEN R!Skipped(f) ELSE @[s]]]
    BY <1>1, <1>8 DEF R!NextStage
  <2>2. R!Skipped(f) \in R!Shown
        /\ \/ R!Skipped(f) = "no_campaigns" /\ f.stage = 1 /\ f.campaigns = 0
           \/ R!Skipped(f) = "no_reference_item" /\ f.stage = 2 /\ ~f.item
    BY <1>8 DEF R!Skipped, R!Shown
  <2>3. /\ rRequest'.kind = f.kind /\ rRequest'.stage = next /\ rRequest'.pending = {}
        /\ rRequest'.status = None /\ rRequest'.campaigns = f.campaigns /\ rRequest'.item = f.item
        /\ rRequest'.asked = f.asked
        /\ rRequest'.results = [s \in R!Sections |-> IF s \in R!Stages(f.kind)[next]
                                                     THEN R!Skipped(f) ELSE f.results[s]]
        /\ rRequest' = [kind |-> rRequest'.kind, stage |-> rRequest'.stage,
               pending |-> rRequest'.pending,
                        results |-> rRequest'.results, campaigns |-> rRequest'.campaigns,
                        asked |-> rRequest'.asked, item |-> rRequest'.item,
                            status |-> rRequest'.status]
    <3>. HIDE DEF next
    <3>. QED
      BY <1>2, <2>1 DEF RequestTypes
  <2>4. next \in 2..R!StageCount(f.kind) /\ next \in 1..3 /\ next = f.stage + 1
        /\ \A x \in R!Stages(f.kind)[next] : x \in R!Sections /\ rSaid[x] = None
    BY <1>7, <1>8
  <2>. HIDE DEF next
  <2>5. rRequest'.results \in [R!Sections -> R!Shown \cup {None}]
    BY <2>2, <2>3 DEF RequestTypes
  <2>6. R!TypeOK'
    <3>1. rRequest' \in RequestTypes
      BY <2>3, <2>4, <2>5 DEF RequestTypes
    <3>. QED
      BY <1>0, <1>2, <3>1 DEF R!TypeOK, RequestTypes
  <2>7. RequestIsStaged'
    <3>1. next \in 1..R!StageCount(f.kind) /\ next # 0 /\ f.kind # None
          /\ \A i \in 1..f.stage : i \in 1..next
      BY <1>3, <2>4, PartsAssumption DEF R!ReadsAssumption
    <3>. QED
      BY <1>2, <1>3, <2>3, <3>1, PartsAssumption DEF RequestIsStaged, R!ReadsAssumption
  <2>8. SectionsAreOwn'
    <3>. SUFFICES ASSUME R!Sectioned(f.kind)
                  PROVE  /\ \A x \in R!Sections : rSaid[x] # None
                                => rRequest'.results[x] = rSaid[x]
                         /\ \A i \in 1..next : \A x \in R!Stages(f.kind)[i] :
                              rSaid[x] # None \/ IsSkipped(x)'
      BY <1>2, <2>3, PartsAssumption DEF SectionsAreOwn, R!ReadsAssumption
    <3>1. \A x \in R!Sections : rSaid[x] # None => rRequest'.results[x] = rSaid[x]
      BY <1>4, <2>3, <2>4
    <3>2. ASSUME NEW x \in R!Stages(f.kind)[next] PROVE IsSkipped(x)'
      BY <2>2, <2>3, <2>4 DEF IsSkipped
    <3>3. ASSUME NEW i \in 1..f.stage, NEW x \in R!Stages(f.kind)[i]
          PROVE  rSaid[x] # None \/ IsSkipped(x)'
      <4>1. CASE x \in R!Stages(f.kind)[next]
        BY <3>2, <4>1
      <4>2. CASE x \notin R!Stages(f.kind)[next]
        <5>1. x \in R!Sections
          BY <1>3, StageFacts
        <5>2. rRequest'.results[x] = f.results[x]
          BY <2>3, <4>2, <5>1
        <5>3. f.stage >= 2 => next >= 2 /\ (f.stage >= 3 => next >= 3)
          BY <1>3, <2>4
        <5>. QED
          BY <1>1, <1>3, <1>4, <2>3, <5>2, <5>3 DEF IsSkipped
      <4>. QED
        BY <4>1, <4>2
    <3>4. \A i \in 1..next : i = next \/ i \in 1..f.stage
      BY <1>3, <2>4
    <3>. QED
      BY <3>1, <3>2, <3>3, <3>4
  <2>. QED
    BY <2>6, <2>7, <2>8 DEF ReadsInv
<1>9. CASE f.stage # R!StageCount(f.kind) /\ R!Skipped(f) = None
  <2>. DEFINE some == IF f.campaigns > CampaignLimit THEN CampaignLimit ELSE f.campaigns
  <2>1. rRequest' = [f EXCEPT !.stage = next, !.pending = R!Stages(f.kind)[next], !.asked = some]
    BY <1>1, <1>9 DEF R!NextStage
  <2>2. some \in 0..CampaignLimit
    BY PartsAssumption DEF RequestTypes, R!ReadsAssumption
  <2>3. /\ rRequest'.kind = f.kind /\ rRequest'.stage = next /\ rRequest'.asked = some
        /\ rRequest'.pending = R!Stages(f.kind)[next]
        /\ rRequest'.status = None /\ rRequest'.campaigns = f.campaigns /\ rRequest'.item = f.item
        /\ rRequest'.results = f.results
        /\ rRequest' = [kind |-> rRequest'.kind, stage |-> rRequest'.stage,
               pending |-> rRequest'.pending,
                        results |-> rRequest'.results, campaigns |-> rRequest'.campaigns,
                        asked |-> rRequest'.asked, item |-> rRequest'.item,
                            status |-> rRequest'.status]
    <3>. HIDE DEF next, some
    <3>. QED
      BY <1>2, <2>1 DEF RequestTypes
  <2>4. next \in 2..R!StageCount(f.kind) /\ next \in 1..3 /\ next = f.stage + 1
        /\ \A x \in R!Stages(f.kind)[next] : x \in R!Sections /\ rSaid[x] = None
        /\ "ids" \notin R!Stages(f.kind)[next]
    BY <1>7, <1>9
  <2>. HIDE DEF next, some
  <2>5. R!TypeOK'
    <3>1. rRequest' \in RequestTypes
      BY <2>2, <2>3, <2>4 DEF RequestTypes
    <3>. QED
      BY <1>0, <1>2, <3>1 DEF R!TypeOK, RequestTypes
  <2>6. RequestIsStaged'
    <3>1. next \in 1..R!StageCount(f.kind) /\ next # 0 /\ f.kind # None
          /\ \A i \in 1..f.stage : i \in 1..next
      BY <1>3, <2>4, PartsAssumption DEF R!ReadsAssumption
    <3>. QED
      BY <1>2, <1>3, <2>3, <2>4, <3>1, PartsAssumption DEF RequestIsStaged, R!ReadsAssumption
  <2>7. SectionsAreOwn'
    <3>1. \A i \in 1..next : i = next \/ i \in 1..f.stage
      BY <1>3, <2>4
    <3>2. (f.stage >= 2 => next >= 2) /\ (f.stage >= 3 => next >= 3)
      BY <1>3, <2>4
    <3>3. \A x : IsSkipped(x) => IsSkipped(x)'
      BY <1>1, <2>3, <3>2 DEF IsSkipped
    <3>. QED
      BY <1>2, <1>4, <2>3, <3>1, <3>3, PartsAssumption DEF SectionsAreOwn, R!ReadsAssumption
  <2>. QED
    BY <2>5, <2>6, <2>7 DEF ReadsInv
<1>. QED
  BY <1>5, <1>8, <1>9

\* The inductive step.
LEMMA ReadsStep ==
  ASSUME ReadsInv, [R!Next]_(R!vars)
  PROVE  ReadsInv'
<1>. USE PartsAssumption DEF R!ReadsAssumption
<1>1. ASSUME NEW kind \in R!Kinds, NEW reason \in R!Denials, R!Deny(kind, reason) PROVE ReadsInv'
  <2>1. /\ rRequest' = [R!Idle EXCEPT !.kind = kind, !.status = reason] /\ rSaid' = rSaid
        /\ rSaid = R!Nothing
    BY <1>1 DEF R!Deny, ReadsInv, RequestIsStaged, R!Idle
  <2>2. /\ rRequest' \in RequestTypes /\ rRequest'.kind = kind /\ rRequest'.stage = 0
        /\ rRequest'.pending = {}
        /\ rRequest'.status = reason
    BY <2>1, IdleFacts DEF RequestTypes, R!Idle
  <2>. QED
    BY <2>1, <2>2, NothingFacts DEF ReadsInv, R!TypeOK, RequestTypes, RequestIsStaged,
       SectionsAreOwn, R!Denials
<1>2. ASSUME NEW kind \in R!Kinds, NEW accessible \in BOOLEAN, R!Begin(kind, accessible)
             PROVE ReadsInv'
  <2>0. rSaid' = R!Nothing
    BY <1>2 DEF R!Begin
  <2>1. CASE accessible
    <3>. DEFINE first == R!Stages(kind)[1]
    <3>1. rRequest' = [R!Idle EXCEPT !.kind = kind, !.stage = 1, !.pending = first]
      BY <1>2, <2>1 DEF R!Begin
    <3>2. 1 \in 1..R!StageCount(kind) /\ R!Stages(kind)[1] \subseteq R!Sections
      BY StageFacts
    <3>3. /\ rRequest' \in RequestTypes /\ rRequest'.kind = kind /\ rRequest'.stage = 1
          /\ rRequest'.pending = R!Stages(kind)[1] /\ rRequest'.status = None
          /\ rRequest'.campaigns = 0
      <4>1. /\ rRequest'.kind = kind /\ rRequest'.stage = 1 /\ rRequest'.pending = first
            /\ rRequest'.status = None /\ rRequest'.campaigns = 0 /\ rRequest'.asked = 0
            /\ rRequest'.item = FALSE /\ rRequest'.results = R!Nothing
            /\ rRequest' = [kind |-> rRequest'.kind, stage |-> rRequest'.stage,
                            pending |-> rRequest'.pending, results |-> rRequest'.results,
                            campaigns |-> rRequest'.campaigns, asked |-> rRequest'.asked,
                            item |-> rRequest'.item, status |-> rRequest'.status]
        <5>. HIDE DEF first
        <5>. QED
          BY <3>1 DEF R!Idle
      <4>2. /\ first \in SUBSET R!Sections /\ 0 \in 0..MaxCampaigns /\ 0 \in 0..CampaignLimit
            /\ 1 \in 0..3
        BY <3>2
      <4>. HIDE DEF first
      <4>3. rRequest' \in RequestTypes
        BY <4>1, <4>2, NothingFacts DEF RequestTypes
      <4>. QED
        BY <4>1, <4>3 DEF first
    <3>4. RequestIsStaged'
      BY <2>0, <3>2, <3>3, NothingFacts DEF RequestIsStaged
    <3>5. SectionsAreOwn'
      BY <2>0, <3>3, NothingFacts DEF SectionsAreOwn
    <3>. QED
      BY <2>0, <3>3, <3>4, <3>5, NothingFacts DEF ReadsInv, R!TypeOK, RequestTypes
  <2>2. CASE ~accessible
    <3>1. rRequest' = [R!Idle EXCEPT !.kind = kind, !.status = "provider_unavailable"]
      BY <1>2, <2>2 DEF R!Begin
    <3>2. /\ rRequest' \in RequestTypes /\ rRequest'.kind = kind /\ rRequest'.stage = 0
          /\ rRequest'.pending = {}
          /\ rRequest'.status = "provider_unavailable"
      BY <3>1, IdleFacts DEF RequestTypes, R!Idle
    <3>. QED
      BY <2>0, <3>2, NothingFacts DEF ReadsInv, R!TypeOK, RequestTypes, RequestIsStaged,
         SectionsAreOwn
  <2>. QED
    BY <2>1, <2>2
<1>3. CASE R!Answered
  BY <1>3, IdleFacts, NothingFacts DEF R!Answered, ReadsInv, R!TypeOK, RequestTypes,
     RequestIsStaged,
     SectionsAreOwn, R!Idle
<1>4. CASE UNCHANGED R!vars
  BY <1>4 DEF R!vars, ReadsInv, R!TypeOK, RequestIsStaged, SectionsAreOwn, IsSkipped
<1>. QED
  BY <1>1, <1>2, <1>3, <1>4, ReadsAnswerStep, NextStageStep DEF R!Next

\* The invariant of the requests is inductive.
THEOREM ReadsInvariant == R!Spec => []ReadsInv
<1>1. R!Init => ReadsInv
  BY IdleFacts, NothingFacts, PartsAssumption
     DEF R!ReadsAssumption, R!Init, ReadsInv, R!TypeOK, RequestTypes, RequestIsStaged,
         SectionsAreOwn, R!Idle
<1>. QED
  BY <1>1, ReadsStep, PTL DEF R!Spec

\* What a request shows of a section is what the provider answered to that section, and one
\* that failed takes no other with it.
THEOREM SectionsStandAloneAlways == R!Spec => []R!SectionsStandAlone
<1>1. ReadsInv => R!SectionsStandAlone
  <2>. SUFFICES ASSUME ReadsInv, R!Sectioned(rRequest.kind)
                PROVE  /\ rRequest.status = "provider_unavailable" => rSaid = R!Nothing
                       /\ rRequest.status = "answered" =>
                            \A s \in R!CallsOf(rRequest.kind) :
                              IF rSaid[s] # None THEN rRequest.results[s] = rSaid[s]
                              ELSE \/ /\ rRequest.results[s] = "no_campaigns"
                                      /\ rRequest.campaigns = 0
                                   \/ rRequest.results[s] = "no_reference_item" /\ ~rRequest.item
    BY DEF R!SectionsStandAlone
  <2>1. rRequest.status = "provider_unavailable" => rSaid = R!Nothing
    BY DEF ReadsInv, SectionsAreOwn, RequestIsStaged
  <2>2. ASSUME rRequest.status = "answered", NEW s \in R!CallsOf(rRequest.kind)
        PROVE  IF rSaid[s] # None THEN rRequest.results[s] = rSaid[s]
               ELSE \/ rRequest.results[s] = "no_campaigns" /\ rRequest.campaigns = 0
                    \/ rRequest.results[s] = "no_reference_item" /\ ~rRequest.item
    <3>1. /\ rRequest.kind \in R!Kinds /\ rRequest.stage # 0
          /\ rRequest.stage = R!StageCount(rRequest.kind)
          /\ rRequest.pending = {}
      BY <2>2, PartsAssumption DEF ReadsInv, RequestIsStaged, R!ReadsAssumption
    <3>2. PICK i \in 1..rRequest.stage : s \in R!Stages(rRequest.kind)[i]
      BY <3>1 DEF R!CallsOf
    <3>3. s \in R!Sections
      BY <3>1, <3>2, StageFacts
    <3>. QED
      BY <3>1, <3>2, <3>3 DEF ReadsInv, SectionsAreOwn, IsSkipped
  <2>. QED
    BY <2>1, <2>2
<1>. QED
  BY <1>1, ReadsInvariant, PTL

-----------------------------------------------------------------------------
(* The analytics. *)

\* The run is what was built of what the provider returned: a product it said nothing
\* about was not returned, and a run is complete only with every page and product.
RunIsBuilt ==
  aRun # None =>
    /\ aRun.requested \subseteq Products
    /\ \A p \in aRun.requested :
         aRun.snapshots[p] = IF aSource[p] = None THEN A!NotReturned ELSE aSource[p]
    /\ aRun.status = "complete" =>
         /\ aPages.observed = aPages.expected
         /\ \A p \in aRun.requested : aRun.snapshots[p].state # "not_returned"

\* The inductive invariant of the analytics.
AnalyticsInv == A!TypeOK /\ RunIsBuilt /\ A!ClaimsAreFounded

\* What a snapshot is made of.
LEMMA SnapshotTypes ==
  /\ A!NotReturned \in A!Snapshots
  /\ \A c \in A!Capabilities : A!SnapshotsOf(c) \subseteq A!Snapshots
  /\ \A s \in A!Snapshots : s.asOf \in A!Times /\ (s.state = "value" => s.value \in Nat)
  /\ A!Times \subseteq Nat /\ 0 \in A!Times
<1>1. A!Times \subseteq Nat /\ 0 \in A!Times
  BY PartsAssumption DEF A!AnalyticsAssumption, A!Times
<1>2. \A c \in A!Capabilities : A!SnapshotsOf(c) \subseteq A!Snapshots
  BY DEF A!Snapshots
<1>3. A!NotReturned \in A!SnapshotsOf("enabled") /\ "enabled" \in A!Capabilities
  BY DEF A!NotReturned, A!SnapshotsOf, A!Capabilities
<1>4. ASSUME NEW s \in A!Snapshots
      PROVE  s.asOf \in A!Times /\ (s.state = "value" => s.value \in Nat)
  <2>1. PICK c \in A!Capabilities : s \in A!SnapshotsOf(c)
    BY DEF A!Snapshots
  <2>. QED
    BY <1>1, <2>1, PartsAssumption DEF A!SnapshotsOf, A!AnalyticsAssumption
<1>. QED
  BY <1>1, <1>2, <1>3, <1>4

\* A number on display is the snapshot's, and it is recent.
LEMMA ProjectionFacts ==
  ASSUME NEW s \in A!Snapshots, NEW now \in A!Times, NEW age \in A!Times,
         A!Project(s, now, age).kind = "value"
  PROVE  s.state = "value" /\ A!Project(s, now, age).value = s.value /\ now - s.asOf <= age
<1>1. now \in Nat /\ age \in Nat /\ s.asOf \in Nat
  BY SnapshotTypes
<1>. QED
  BY <1>1 DEF A!Project, A!IsStale

\* A comparison is eligible only between two fresh values of a complete run.
LEMMA ComparisonFacts ==
  ASSUME NEW l \in A!Snapshots, NEW r \in A!Snapshots, NEW now \in A!Times, NEW age \in A!Times,
         NEW status,
         A!Compare(l, r, status, now, age).kind = "eligible"
  PROVE  /\ status = "complete" /\ l.state = "value" /\ r.state = "value"
         /\ now - l.asOf <= age /\ now - r.asOf <= age
         /\ A!Compare(l, r, status, now, age).delta = r.value - l.value
<1>1. now \in Nat /\ age \in Nat /\ l.asOf \in Nat /\ r.asOf \in Nat
  BY SnapshotTypes
<1>. QED
  BY <1>1 DEF A!Compare, A!IsStale, A!Ineligible

\* The inductive step.
LEMMA AnalyticsStep ==
  ASSUME AnalyticsInv, [A!Next]_(A!vars)
  PROVE  AnalyticsInv'
<1>0. A!TypeOK /\ RunIsBuilt
  BY DEF AnalyticsInv
<1>1. ASSUME NEW capability \in A!Capabilities, NEW requested \in SUBSET Products,
             NEW n \in [expected : 0..MaxPages, observed : 0..MaxPages], NEW inOrder \in BOOLEAN,
             NEW returned \in [requested -> A!SnapshotsOf(capability) \cup {None}],
             A!Build(capability, requested, returned, n, inOrder)
      PROVE  AnalyticsInv'
  <2>. DEFINE snapshots == [p \in requested |->
                             IF returned[p] = None THEN A!NotReturned ELSE returned[p]]
              status == A!Downgrade(A!RunStatus(n, inOrder), snapshots)
  <2>1. /\ aPages' = n /\ aAnswer = A!NoAnswer /\ aAnswer' = aAnswer
        /\ aSource' = [p \in Products |-> IF p \in requested THEN returned[p] ELSE None]
        /\ aRun' = [requested |-> requested, capability |-> capability, snapshots |-> snapshots,
                    status |-> status]
    BY <1>1 DEF A!Build
  <2>2. \A p \in requested : returned[p] \in A!Snapshots \cup {None}
    BY SnapshotTypes
  <2>3. snapshots \in [requested -> A!Snapshots]
    BY <2>2, SnapshotTypes
  <2>4. snapshots \in UNION {[some -> A!Snapshots] : some \in SUBSET Products}
    BY <2>3
  <2>5. aSource' \in [Products -> A!Snapshots \cup {None}]
    BY <2>1, <2>2
  <2>6. status \in {"complete", "partial", "failed"}
    BY DEF A!Downgrade, A!RunStatus
  <2>7. \A p \in requested :
            snapshots[p] = IF aSource'[p] = None THEN A!NotReturned ELSE aSource'[p]
    BY <2>1
  <2>8. status = "complete" => /\ n.observed = n.expected
                               /\ \A p \in requested : snapshots[p].state # "not_returned"
    <3>1. DOMAIN snapshots = requested
      OBVIOUS
    <3>. HIDE DEF snapshots
    <3>. QED
      BY <3>1 DEF A!Downgrade, A!RunStatus
  <2>. HIDE DEF snapshots, status
  <2>9. aRun' \in A!Runs
    BY <2>1, <2>4, <2>6 DEF A!Runs
  <2>10. n \in [expected : Nat, observed : Nat]
    BY PartsAssumption DEF A!AnalyticsAssumption
  <2>11. A!TypeOK'
    BY <2>1, <2>5, <2>9, <2>10 DEF A!TypeOK, A!NoAnswer
  <2>12. RunIsBuilt'
    BY <2>1, <2>7, <2>8 DEF RunIsBuilt
  <2>13. A!ClaimsAreFounded'
    BY <2>1 DEF A!ClaimsAreFounded, A!NoAnswer
  <2>. QED
    BY <2>11, <2>12, <2>13 DEF AnalyticsInv
<1>2. ASSUME NEW p \in Products, NEW q \in Products \cup {None}, NEW now \in A!Times,
             NEW age \in A!Times,
             A!Read(p, q, now, age)
      PROVE  AnalyticsInv'
  <2>. DEFINE metric == A!Project(aRun.snapshots[p], now, age)
              comparison == IF q = None THEN A!Ineligible("not_asked") ELSE A!Comparison(p, q,
                  now, age)
  <2>1. /\ aRun # None /\ p \in aRun.requested /\ UNCHANGED <<aPages, aSource, aRun>>
        /\ aAnswer' = [kind |-> "shown", product |-> p, other |-> q, now |-> now, age |-> age,
                       status |-> aRun.status, metric |-> metric, comparison |-> comparison]
    BY <1>2 DEF A!Read
  <2>2. \A x \in aRun.requested : /\ aRun.snapshots[x] \in A!Snapshots
                                 /\ aRun.snapshots[x] =
                                      IF aSource[x] = None THEN A!NotReturned ELSE aSource[x]
    <3>1. \A x \in aRun.requested : aSource[x] \in A!Snapshots \cup {None}
      BY <1>0, <2>1 DEF A!TypeOK, RunIsBuilt
    <3>. QED
      BY <1>0, <2>1, <3>1, SnapshotTypes DEF RunIsBuilt
  <2>3. \A x \in aRun.requested : aRun.snapshots[x].state # "not_returned"
          => aSource[x] # None /\ aRun.snapshots[x] = aSource[x]
    BY <2>2 DEF A!NotReturned
  <2>4. metric.kind = "value" => /\ aSource[p] # None /\ metric.value = aSource[p].value
                                 /\ now - aSource[p].asOf <= age
    BY <2>1, <2>2, <2>3, ProjectionFacts
  <2>5. comparison.kind = "eligible" =>
          /\ aPages.observed = aPages.expected
          /\ \A x \in aRun.requested : aSource[x] # None /\ aSource[x].state # "not_returned"
          /\ now - aSource[p].asOf <= age /\ now - aSource[q].asOf <= age
          /\ comparison.delta = aSource[p].value - aSource[q].value
    <3>. SUFFICES ASSUME comparison.kind = "eligible"
                  PROVE  /\ aPages.observed = aPages.expected
                         /\ \A x \in aRun.requested :
                              aSource[x] # None /\ aSource[x].state # "not_returned"
                         /\ now - aSource[p].asOf <= age /\ now - aSource[q].asOf <= age
                         /\ comparison.delta = aSource[p].value - aSource[q].value
      OBVIOUS
    <3>1. q \in aRun.requested
          /\ comparison = A!Compare(aRun.snapshots[q], aRun.snapshots[p], aRun.status, now, age)
      BY DEF A!Ineligible, A!Comparison
    <3>2. /\ aRun.status = "complete" /\ aRun.snapshots[q].state = "value"
          /\ aRun.snapshots[p].state = "value"
          /\ now - aRun.snapshots[q].asOf <= age /\ now - aRun.snapshots[p].asOf <= age
          /\ comparison.delta = aRun.snapshots[p].value - aRun.snapshots[q].value
      BY <2>1, <2>2, <3>1, ComparisonFacts
    <3>3. aRun.snapshots[q] = aSource[q] /\ aRun.snapshots[p] = aSource[p]
      BY <2>1, <2>3, <3>1, <3>2
    <3>4. aPages.observed = aPages.expected
          /\ \A x \in aRun.requested : aRun.snapshots[x].state # "not_returned"
      BY <1>0, <2>1, <3>2 DEF RunIsBuilt
    <3>5. \A x \in aRun.requested : aSource[x] # None /\ aSource[x].state # "not_returned"
      BY <2>3, <3>4
    <3>. HIDE DEF comparison
    <3>. QED
      BY <3>2, <3>3, <3>4, <3>5
  <2>. HIDE DEF metric, comparison
  <2>6. A!ClaimsAreFounded'
    BY <2>1, <2>4, <2>5 DEF A!ClaimsAreFounded, A!Recent
  <2>. QED
    BY <1>0, <2>1, <2>6 DEF AnalyticsInv, A!TypeOK, RunIsBuilt
<1>3. ASSUME UNCHANGED <<aPages, aSource, aRun>>, aAnswer' \in {A!Denied, A!NoAnswer}
             PROVE AnalyticsInv'
  BY <1>3 DEF AnalyticsInv, A!TypeOK, RunIsBuilt, A!ClaimsAreFounded, A!Denied, A!NoAnswer
<1>4. CASE UNCHANGED A!vars
  BY <1>4 DEF A!vars, AnalyticsInv, A!TypeOK, RunIsBuilt, A!ClaimsAreFounded, A!Recent
<1>. QED
  BY <1>1, <1>2, <1>3, <1>4 DEF A!Next, A!BuildRefused, A!ReadDenied, A!Answered

\* The invariant of the analytics is inductive.
THEOREM AnalyticsInvariant == A!Spec => []AnalyticsInv
<1>1. A!Init => AnalyticsInv
  BY DEF A!Init, A!NoAnswer, AnalyticsInv, A!TypeOK, RunIsBuilt, A!ClaimsAreFounded
<1>. QED
  BY <1>1, AnalyticsStep, PTL DEF A!Spec

\* What the analytics claim of a product is what the provider said of it.
THEOREM ClaimsHold == A!Spec => []A!ClaimsAreFounded
<1>1. AnalyticsInv => A!ClaimsAreFounded
  BY DEF AnalyticsInv
<1>. QED
  BY <1>1, AnalyticsInvariant, PTL

-----------------------------------------------------------------------------
(* The measurements. *)

\* A floor division, of a negative number too.
LEMMA FloorDivision ==
  ASSUME NEW n \in Int, NEW d \in Nat \ {0}
  PROVE  /\ n \div d \in Int
         /\ d * (n \div d) <= n
         /\ n < d * (n \div d) + d
OBVIOUS

\* What a capture is judged to be, by its minutes.
IsFair(c, outcome) ==
  LET gain == 20000 * (c.baseline - c.observed)
  IN IF outcome = "target_met" THEN gain >= (200 * c.target - 1) * c.baseline
     ELSE gain < 200 * c.target * c.baseline

\* What evaluate makes of a capture is a record of it with a fair outcome: its rounding to
\* hundredths gives no more than half of one away.
LEMMA EvaluateIsFair ==
  ASSUME NEW c \in Captures
  PROVE  /\ M!Evaluate(c) \in M!Records
         /\ M!Evaluate(c).capture = c
         /\ IsFair(c, M!Evaluate(c).outcome)
<1>. DEFINE b == c.baseline
            o == c.observed
            t == c.target
            q == M!ReductionPercent(c)
            n == (b - o) * 20000 + b
<1>1. b \in Nat \ {0} /\ o \in Nat /\ t \in Nat
  BY PartsAssumption DEF M!MeasurementAssumption
<1>2. n \in Int /\ 2 * b \in Nat \ {0}
  BY <1>1
<1>3. q = n \div (2 * b)
  BY DEF M!ReductionPercent, M!Reduction
<1>. HIDE DEF n, q
<1>4. q \in Int /\ (2 * b) * q <= n /\ n < (2 * b) * q + 2 * b
  BY <1>2, <1>3, FloorDivision
<1>5. M!Evaluate(c) = [capture |-> c, reduction |-> q,
                       outcome |-> IF q >= t * 100 THEN "target_met" ELSE "target_missed"]
  BY DEF M!Evaluate, q
<1>6. n = 20000 * (b - o) + b
  BY <1>1 DEF n
<1>7. CASE q >= t * 100
  <2>1. (2 * b) * q >= (2 * b) * (t * 100)
    BY <1>1, <1>4, <1>7
  <2>2. (2 * b) * (t * 100) = (200 * t - 1) * b + b
    BY <1>1
  <2>3. 20000 * (b - o) >= (200 * t - 1) * b
    BY <1>1, <1>2, <1>4, <1>6, <2>1, <2>2
  <2>. QED
    BY <1>4, <1>5, <1>7, <2>3 DEF IsFair, M!Records, M!Outcomes
<1>8. CASE ~(q >= t * 100)
  <2>1. (2 * b) * (q + 1) <= (2 * b) * (t * 100)
    BY <1>1, <1>4, <1>8
  <2>2. (2 * b) * (t * 100) = 200 * t * b /\ (2 * b) * (q + 1) = (2 * b) * q + 2 * b
    BY <1>1, <1>4
  <2>3. 20000 * (b - o) < 200 * t * b
    BY <1>1, <1>2, <1>4, <1>6, <2>1, <2>2
  <2>. QED
    BY <1>4, <1>5, <1>8, <2>3 DEF IsFair, M!Records, M!Outcomes
<1>. QED
  BY <1>7, <1>8

\* Every row is a capture judged, and what was answered is a row.
MeasurementsInv ==
  /\ mRows \in [Measurements -> M!Records \cup {None}]
  /\ mAnswer.kind \in {"none", "denied", "captured"}
  /\ \A i \in Measurements : mRows[i] # None => \E c \in Captures : mRows[i] = M!Evaluate(c)
  /\ mAnswer.kind = "captured" => /\ mAnswer.id \in Measurements
                                  /\ mRows[mAnswer.id] = mAnswer.record

\* The inductive step.
LEMMA MeasurementStep ==
  ASSUME MeasurementsInv, [M!Next]_(M!vars)
  PROVE  MeasurementsInv'
<1>. DEFINE Denied == mAnswer'.kind = "denied"
<1>1. ASSUME NEW i \in Measurements, NEW c \in Captures, mRows[i] = None,
             mRows' = [mRows EXCEPT ![i] = M!Evaluate(c)]
      PROVE  /\ mRows' \in [Measurements -> M!Records \cup {None}] /\ mRows'[i] = M!Evaluate(c)
             /\ \A j \in Measurements : mRows'[j] # None => \E d \in Captures :
                    mRows'[j] = M!Evaluate(d)
  <2>1. M!Evaluate(c) \in M!Records
    BY EvaluateIsFair
  <2>2. mRows' \in [Measurements -> M!Records \cup {None}] /\ mRows'[i] = M!Evaluate(c)
        /\ \A j \in Measurements \ {i} : mRows'[j] = mRows[j]
    BY <1>1, <2>1 DEF MeasurementsInv
  <2>. QED
    BY <2>2 DEF MeasurementsInv
<1>2. ASSUME NEW i \in Measurements, NEW c \in Captures, M!Capture(i, c) PROVE MeasurementsInv'
  <2>1. CASE mRows[i] = None
    <3>1. /\ mRows' = [mRows EXCEPT ![i] = M!Evaluate(c)]
          /\ mAnswer' = [kind |-> "captured", id |-> i, record |-> M!Evaluate(c)]
      BY <1>2, <2>1 DEF M!Capture
    <3>. QED
      BY <1>1, <2>1, <3>1 DEF MeasurementsInv
  <2>2. CASE mRows[i] # None
    <3>1. mRows' = mRows /\ mAnswer'.kind = "denied"
      BY <1>2, <2>2 DEF M!Capture
    <3>. QED
      BY <3>1 DEF MeasurementsInv
  <2>. QED
    BY <2>1, <2>2
<1>3. ASSUME NEW i \in Measurements, NEW c \in Captures, M!CaptureLost(i, c)
             PROVE MeasurementsInv'
  BY <1>1, <1>3 DEF M!CaptureLost, MeasurementsInv
<1>4. CASE UNCHANGED mRows /\ Denied
  BY <1>4 DEF MeasurementsInv
<1>5. CASE UNCHANGED M!vars
  BY <1>5 DEF M!vars, MeasurementsInv
<1>. QED
  BY <1>2, <1>3, <1>4, <1>5 DEF M!Next, M!SaveMismatch, M!ReadBack, M!Refused

\* The invariant of the measurements is inductive.
THEOREM MeasurementInvariant == M!Spec => []MeasurementsInv
<1>1. M!Init => MeasurementsInv
  BY DEF M!Init, MeasurementsInv
<1>. QED
  BY <1>1, MeasurementStep, PTL DEF M!Spec

\* A target is met only by the minutes that were captured, up to the rounding of the code
\* (evaluatePilotMeasurement).
THEOREM OutcomesAreFair == M!Spec => []M!OutcomeIsFair
<1>1. MeasurementsInv => M!OutcomeIsFair
  <2>. SUFFICES ASSUME MeasurementsInv PROVE M!OutcomeIsFair
    OBVIOUS
  <2>1. ASSUME NEW i \in Measurements, mRows[i] # None
        PROVE  IsFair(mRows[i].capture, mRows[i].outcome)
    BY <2>1, EvaluateIsFair DEF MeasurementsInv
  <2>. QED
    BY <2>1 DEF MeasurementsInv, M!OutcomeIsFair, IsFair
<1>. QED
  BY <1>1, MeasurementInvariant, PTL

=============================================================================
