---------------------------- MODULE ProviderReads ----------------------------
(***************************************************************************)
(* What the web API reads from the provider for a shop, apart from its     *)
(* catalog: daily ads figures, campaigns, the raw inspector, marketing     *)
(* insights and the detail of a product. Each is a request to the API that *)
(* becomes one or more calls, in stages; the calls of a stage run side by  *)
(* side and end in any order.                                              *)
(***************************************************************************)
EXTENDS Naturals

CONSTANTS
  Plain,         \* sections of the raw inspector nothing else depends on (ten in the code)
  MaxCampaigns,  \* bound: campaigns of a shop
  Limit,         \* campaigns a call may name (100 in the code)
  None

VARIABLES
  request,  \* the request being served
  said      \* history: what each call of it got from the provider

vars == <<request, said>>

Kinds == {"daily", "campaigns", "raw", "insights", "detail"}
Denials == {"authentication_required", "invalid_request", "shop_not_accessible"}

\* The calls of each stage.
DailyStages == <<{"daily"}>>
CampaignStages == <<{"ids"}, {"settings"}>>
RawStages ==
  <<Plain \cup {"ids"}, {"settings", "campaignDaily", "campaignHourly"}, {"keywords", "roi"}>>
InsightStages == <<{"hotListing"}>>
DetailStages == <<{"base", "models", "extra", "promotion"}>>

Stages(kind) ==
  CASE kind = "daily" -> DailyStages
    [] kind = "campaigns" -> CampaignStages
    [] kind = "raw" -> RawStages
    [] kind = "insights" -> InsightStages
    [] kind = "detail" -> DetailStages

StageCount(kind) == CASE kind = "raw" -> 3 [] kind = "campaigns" -> 2 [] OTHER -> 1
Sections == (UNION {Stages(kind)[1] : kind \in Kinds}) \cup
            {"settings", "campaignDaily", "campaignHourly", "keywords", "roi"}

\* What the provider gives a call: data, a body that is no data (an error of its own, or
\* of an ads call no JSON under an ok status), or nothing usable (any other status, a
\* broken connection, no access token for the settings of the campaigns).
Outcomes == {"data", "refused", "broken"}
\* What a section is shown as.
Shown == Outcomes \cup {"no_campaigns", "no_reference_item"}

ReadsAssumption ==
  /\ MaxCampaigns \in Nat /\ Limit \in Nat \ {0}
  /\ None \notin Nat \cup Kinds \cup Shown \cup Denials
  /\ None # "answered" /\ None # "provider_unavailable"
  /\ Plain \cap {"ids", "settings", "campaignDaily", "campaignHourly", "keywords", "roi"} = {}

Nothing == [s \in Sections |-> None]
Idle == [kind |-> None, stage |-> 0, pending |-> {}, results |-> Nothing,
         campaigns |-> 0, asked |-> 0, item |-> FALSE, status |-> None]

TypeOK ==
  /\ request \in [kind : Kinds \cup {None}, stage : 0..3, pending : SUBSET Sections,
                  results : [Sections -> Shown \cup {None}],
                  campaigns : 0..MaxCampaigns, asked : 0..Limit, item : BOOLEAN,
                  status : Denials \cup {"answered", "provider_unavailable", None}]
  /\ said \in [Sections -> Outcomes \cup {None}]

Init == request = Idle /\ said = Nothing

-----------------------------------------------------------------------------
\* The handler refuses the caller, the query or the shop.
Deny(kind, reason) ==
  /\ request.kind = None
  /\ request' = [Idle EXCEPT !.kind = kind, !.status = reason]
  /\ UNCHANGED said

\* An access token, and the calls of the first stage. (Only the settings of the campaigns
\* ask for a second token.)
Begin(kind, accessible) ==
  /\ request.kind = None
  /\ request' = IF accessible
                THEN [Idle EXCEPT !.kind = kind, !.stage = 1, !.pending = Stages(kind)[1]]
                ELSE [Idle EXCEPT !.kind = kind, !.status = "provider_unavailable"]
  /\ said' = Nothing

\* Only these two kinds show each section for itself.
Sectioned(kind) == kind \in {"raw", "detail"}

\* A body the readers' schemas accept and that names no error.
Accepted(outcome) == outcome = "data"

\* rawSection and section keep any body and mark a call that failed; the other readers
\* throw for one that is not accepted.
Collect(r, s, outcome) ==
  IF Sectioned(r.kind) \/ Accepted(outcome)
  THEN [r EXCEPT !.results[s] = outcome, !.pending = @ \ {s}]
  ELSE [r EXCEPT !.status = "provider_unavailable", !.pending = {}]

\* A call ends. The list of campaigns names some; their settings may name an item.
SectionAnswer(s, outcome, n, item) ==
  /\ s \in request.pending
  /\ ~Accepted(outcome) \/ s # "ids" => n = 0
  /\ ~Accepted(outcome) \/ s # "settings" => ~item
  /\ said' = [said EXCEPT ![s] = outcome]
  /\ request' = [Collect(request, s, outcome) EXCEPT !.campaigns = @ + n,
                                                      !.item = @ \/ item]

\* The calls of the stage before have all ended: the next stage names the first
\* campaigns of the list, and then the first item of their settings.
Skipped(r) ==
  IF r.stage = 1 /\ r.campaigns = 0 THEN "no_campaigns"
  ELSE IF r.stage = 2 /\ ~r.item THEN "no_reference_item"
  ELSE None

NextStage ==
  /\ request.stage # 0 /\ request.status = None /\ request.pending = {}
  /\ LET next == request.stage + 1
     IN IF request.stage = StageCount(request.kind)
        THEN request' = [request EXCEPT !.status = "answered"]
        ELSE IF Skipped(request) # None
        THEN request' = [request EXCEPT
               !.stage = next,
               !.results = [s \in Sections |-> IF s \in Stages(request.kind)[next]
                                                THEN Skipped(request) ELSE @[s]]]
        ELSE request' = [request EXCEPT
               !.stage = next, !.pending = Stages(request.kind)[next],
               !.asked = IF request.campaigns > Limit THEN Limit ELSE request.campaigns]
  /\ UNCHANGED said

\* The answer is out.
Answered ==
  /\ request.status # None
  /\ request' = Idle /\ said' = Nothing

Next ==
  \/ \E kind \in Kinds : \/ \E reason \in Denials : Deny(kind, reason)
                         \/ \E accessible \in BOOLEAN : Begin(kind, accessible)
  \/ \E s \in Sections, outcome \in Outcomes, n \in 0..MaxCampaigns, item \in BOOLEAN :
       SectionAnswer(s, outcome, n, item)
  \/ NextStage \/ Answered

Spec == Init /\ [][Next]_vars

-----------------------------------------------------------------------------
CallsOf(kind) == UNION {Stages(kind)[i] : i \in 1..StageCount(kind)}

\* One failing call still shows the others: the inspector and the detail of a product
\* fail as a whole only before the first call, and when they answer, every section is
\* what the provider said to its own call, or says why there was none.
SectionsStandAlone ==
  Sectioned(request.kind) =>
    /\ request.status = "provider_unavailable" => said = Nothing
    /\ request.status = "answered" =>
         \A s \in CallsOf(request.kind) :
           IF said[s] # None THEN request.results[s] = said[s]
           ELSE \/ request.results[s] = "no_campaigns" /\ request.campaigns = 0
                \/ request.results[s] = "no_reference_item" /\ ~request.item
=============================================================================
