----------------------------- MODULE WebRuntime -----------------------------
(***************************************************************************)
(* The parts of the web runtime, and the libraries made for it, side by    *)
(* side. They share no state, so a behaviour exercises one of them and     *)
(* leaves the others as they begin: `part` says which. The exchange is     *)
(* module OAuthExchange.                                                   *)
(***************************************************************************)
EXTENDS OAuthExchange, Sequences

CONSTANTS
  Shops, Products,
  Ranges, AdTypes, AllTypes, TablePageSize, MaxRows,               \* panels
  MaxPending,                                                      \* dashboard
  CatalogPageSize, MaxOffset,                                      \* catalog
  PlainSections, MaxCampaigns, CampaignLimit,                      \* reads
  Values, MaxPages, MaxMinutes,                                    \* analytics
  StagedSnapshots,                                                 \* staging
  Measurements, Captures,                                          \* measurements
  MemberShops, MaxRevision,                                        \* authorization
  Editors, Sources, Inputs, Ours, MaxVersion,                      \* intents
  LimitRequests, PolicySets, Waits, MaxSeconds, MaxCooldowns,      \* limits
  Jobs, Clients,                                                   \* executor
  Environments, MaxClaims, MaxClock,                               \* process
  Envelopes, Events, Identities, JobIds, DeadLetterIds, Callers,
  WorkerIds, WorkerIdOf, Readings, MaxGeneration,                  \* memory
  Schedulers, Slots, TriggerIds,                                   \* slots
  StoredRuns, Collections                                          \* store

VARIABLES
  part,
  pView, pShop, pReady, pRange, pAdType, pTable, pPanels, pRequests,
  dSession, dBase, dShop, dCatalog,
  cShelf, cRequest, cSteady,
  rRequest, rSaid,
  aPages, aSource, aRun, aAnswer,
  sStored, sTx, sSaved, sAnswer,
  mRows, mAnswer,
  zMembership, zOwner, zSession, zCheck,
  iCanonical, iShown, iHeld, iPreviews, iIntents, iPublication,
  lPolicies, lBuckets, lCooldowns, lAdmitted, lLatest,
  eJobs, eClients, eCommitted, eTorn,
  wConfig, wNow, wBrowser, wCopy, wSeen, wRuns, wWorker,
  qCommands, qOutbox, qJobs, qDead, qToken, qSlots,
  tRows, tCalls, tAnswers,
  bRuns, bProducts, bVariants, bSaved, bAnswer

Parts == {"exchange", "panels", "dashboard", "catalog", "reads", "analytics", "staging",
          "measurements", "authorization", "intents", "limits", "executor", "process",
          "memory", "slots", "store"}

pVars == <<pView, pShop, pReady, pRange, pAdType, pTable, pPanels, pRequests>>
dVars == <<dSession, dBase, dShop, dCatalog>>
cVars == <<cShelf, cRequest, cSteady>>
rVars == <<rRequest, rSaid>>
aVars == <<aPages, aSource, aRun, aAnswer>>
sVars == <<sStored, sTx, sSaved, sAnswer>>
mVars == <<mRows, mAnswer>>
zVars == <<zMembership, zOwner, zSession, zCheck>>
iVars == <<iCanonical, iShown, iHeld, iPreviews, iIntents, iPublication>>
lVars == <<lPolicies, lBuckets, lCooldowns, lAdmitted, lLatest>>
eVars == <<eJobs, eClients, eCommitted, eTorn>>
wVars == <<wConfig, wNow, wBrowser, wCopy, wSeen, wRuns, wWorker>>
qVars == <<qCommands, qOutbox, qJobs, qDead, qToken, qSlots>>
tVars == <<tRows, tCalls, tAnswers>>
bVars == <<bRuns, bProducts, bVariants, bSaved, bAnswer>>

-----------------------------------------------------------------------------
P == INSTANCE DashboardPanels WITH
       PageSize <- TablePageSize,
       view <- pView, shop <- pShop, ready <- pReady, range <- pRange, adType <- pAdType,
       table <- pTable, panels <- pPanels, requests <- pRequests

D == INSTANCE Dashboard WITH
       session <- dSession, base <- dBase, shop <- dShop, catalog <- dCatalog

C == INSTANCE CatalogCollection WITH
       PageSize <- CatalogPageSize,
       shelf <- cShelf, request <- cRequest, steady <- cSteady

R == INSTANCE ProviderReads WITH
       Plain <- PlainSections, Limit <- CampaignLimit,
       request <- rRequest, said <- rSaid

A == INSTANCE AnalyticsRuns WITH
       MaxTime <- MaxMinutes,
       pages <- aPages, source <- aSource, run <- aRun, answer <- aAnswer

S == INSTANCE StagingControl WITH
       Snapshots <- StagedSnapshots,
       stored <- sStored, tx <- sTx, saved <- sSaved, answer <- sAnswer

M == INSTANCE PilotMeasurements WITH Ids <- Measurements, rows <- mRows, answer <- mAnswer

Z == INSTANCE Authorization WITH
       Shops <- MemberShops,
       membership <- zMembership, owner <- zOwner, session <- zSession, check <- zCheck

I == INSTANCE CopyIntents WITH
       Accessible <- Shops,
       canonical <- iCanonical, shown <- iShown, held <- iHeld, previews <- iPreviews,
       intents <- iIntents, publication <- iPublication

L == INSTANCE RateLimits WITH
       Requests <- LimitRequests,
       MaxTime <- MaxSeconds,
       policies <- lPolicies, buckets <- lBuckets, cooldowns <- lCooldowns,
       admitted <- lAdmitted, latest <- lLatest

E == INSTANCE PostgresExecutor WITH
       jobs <- eJobs, clients <- eClients, committed <- eCommitted, torn <- eTorn

W == INSTANCE WebProcess WITH
       MaxTime <- MaxClock,
       config <- wConfig, now <- wNow, browser <- wBrowser, copy <- wCopy, seen <- wSeen,
       runs <- wRuns, worker <- wWorker

Q == INSTANCE InMemoryDelivery WITH
       Commands <- Envelopes, Slots <- Identities, Processes <- Callers, Times <- Readings,
       commands <- qCommands, outbox <- qOutbox, jobs <- qJobs, dead <- qDead,
       token <- qToken, slots <- qSlots

T == INSTANCE ScheduleSlots WITH rows <- tRows, calls <- tCalls, answers <- tAnswers

B == INSTANCE CollectionStore WITH
       Scopes <- Shops, Runs <- StoredRuns,
       runs <- bRuns, products <- bProducts, variants <- bVariants, saved <- bSaved,
       answer <- bAnswer

ASSUME PartsAssumption ==
  /\ P!PanelsAssumption /\ D!DashboardAssumption /\ C!CatalogAssumption
  /\ R!ReadsAssumption /\ A!AnalyticsAssumption /\ S!StagingAssumption
  /\ M!MeasurementAssumption /\ Z!AuthorizationAssumption /\ I!CopyAssumption
  /\ L!RateLimitAssumption /\ E!ExecutorAssumption /\ W!WebProcessAssumption
  /\ Q!MemoryAssumption /\ T!SlotsAssumption /\ B!StoreAssumption

-----------------------------------------------------------------------------
\* A part that is not exercised begins in one of its initial states.
Idles(p, choice) == part # p => choice

InitParts ==
  /\ part \in Parts
  /\ Init
  /\ P!Init /\ Idles("panels", pRange = CHOOSE r \in Ranges : TRUE)
  /\ D!Init
  /\ C!Init /\ Idles("catalog", cShelf = <<>>)
  /\ R!Init /\ A!Init /\ S!Init /\ M!Init
  /\ Z!Init /\ Idles("authorization", /\ zMembership.role = "owner"
                                      /\ zMembership.status = "active"
                                      /\ zOwner = [s \in MemberShops |-> "ours"])
  /\ I!Init /\ Idles("intents", iCanonical = CHOOSE s \in Sources : TRUE)
  /\ L!Init /\ Idles("limits", lPolicies = CHOOSE p \in PolicySets : TRUE)
  /\ E!Init /\ Idles("executor", \A j \in Jobs : eJobs[j].kind = "query")
  /\ W!Init /\ Q!Init /\ T!Init /\ B!Init

OthersStay ==
  /\ UNCHANGED part
  /\ part = "exchange" \/ UNCHANGED vars
  /\ part = "panels" \/ UNCHANGED pVars
  /\ part = "dashboard" \/ UNCHANGED dVars
  /\ part = "catalog" \/ UNCHANGED cVars
  /\ part = "reads" \/ UNCHANGED rVars
  /\ part = "analytics" \/ UNCHANGED aVars
  /\ part = "staging" \/ UNCHANGED sVars
  /\ part = "measurements" \/ UNCHANGED mVars
  /\ part = "authorization" \/ UNCHANGED zVars
  /\ part = "intents" \/ UNCHANGED iVars
  /\ part = "limits" \/ UNCHANGED lVars
  /\ part = "executor" \/ UNCHANGED eVars
  /\ part = "process" \/ UNCHANGED wVars
  /\ part = "memory" \/ UNCHANGED qVars
  /\ part = "slots" \/ UNCHANGED tVars
  /\ part = "store" \/ UNCHANGED bVars

\* Jobs and versions are finite: these two parts stop.
Stops == part \in {"executor", "intents"} /\ UNCHANGED <<eVars, iVars>>

NextParts ==
  /\ \/ part = "exchange" /\ Next
     \/ part = "panels" /\ P!Next
     \/ part = "dashboard" /\ D!Next
     \/ part = "catalog" /\ C!Next
     \/ part = "reads" /\ R!Next
     \/ part = "analytics" /\ A!Next
     \/ part = "staging" /\ S!Next
     \/ part = "measurements" /\ M!Next
     \/ part = "authorization" /\ Z!Next
     \/ part = "intents" /\ I!Next
     \/ part = "limits" /\ L!Next
     \/ part = "executor" /\ E!Next
     \/ part = "process" /\ W!Next
     \/ part = "memory" /\ Q!Next
     \/ part = "slots" /\ T!Next
     \/ part = "store" /\ B!Next
     \/ Stops
  /\ OthersStay

allVars ==
  <<part, vars, pVars, dVars, cVars, rVars, aVars, sVars, mVars, zVars, iVars, lVars,
    eVars, wVars, qVars, tVars, bVars>>

PartsSpec == InitParts /\ [][NextParts]_allVars

-----------------------------------------------------------------------------
\* The types of the part that is exercised.
TypesOK ==
  /\ part = "exchange" => TypeOK
  /\ part = "panels" => P!TypeOK
  /\ part = "dashboard" => D!TypeOK
  /\ part = "catalog" => C!TypeOK
  /\ part = "reads" => R!TypeOK
  /\ part = "analytics" => A!TypeOK
  /\ part = "staging" => S!TypeOK
  /\ part = "measurements" => M!TypeOK
  /\ part = "authorization" => Z!TypeOK
  /\ part = "intents" => I!TypeOK
  /\ part = "limits" => L!TypeOK
  /\ part = "executor" => E!TypeOK
  /\ part = "process" => W!TypeOK
  /\ part = "memory" => Q!TypeOK
  /\ part = "slots" => T!TypeOK
  /\ part = "store" => B!TypeOK

\* The dashboard shows what was asked for, and waits for what will come.
DisplayIsCurrent ==
  /\ part = "panels" => P!DisplayIsCurrent
  /\ part = "dashboard" => D!LoadsAreAwaited

\* A session of the dashboard keeps its shop.
ShopIsKept == D!ShopIsKept

\* What the API says it read is what the provider said: a complete collection, a section
\* of the inspector, a metric and a comparison. And a collection that was saved is read
\* as it was.
ReadsAreFounded ==
  /\ part = "catalog" => C!CollectionIsSound
  /\ part = "reads" => R!SectionsStandAlone
  /\ part = "analytics" => A!ClaimsAreFounded
  /\ part = "store" => B!ReadIsWhatWasSaved

\* The write hold is released, and the pilot's target met, only on what was saved.
StagingIsFounded ==
  /\ part = "staging" => S!HoldIsFounded
  /\ part = "measurements" => M!OutcomeIsFair

\* A member is allowed only what the role of its session allows.
AllowIsFounded == Z!AllowIsFounded

\* A request is authenticated by a cookie that is still good, and one run of the inline
\* worker is under way at a time.
ProcessIsFounded ==
  part = "process" => W!SessionIsFounded /\ W!RunsAlone

\* What is stored once stays: an intent, the job of an event and the trigger of a slot.
RowsAreKept == I!StoredIntentsStay /\ Q!ImplementsQueue /\ T!SlotsAreKept

\* No scope admits more than its limit.
LimitsAreKept == L!LimitsAreKept

\* A job of the executor is kept whole or not at all.
AllOrNothing == E!AllOrNothing
=============================================================================
