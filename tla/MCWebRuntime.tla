---------------------------- MODULE MCWebRuntime ----------------------------
(***************************************************************************)
(* A small instance of WebRuntime.                                         *)
(***************************************************************************)
EXTENDS MCOAuthExchange, WebRuntime

\* Every gate verified, one unknown or one denied, with counts that agree or not.
Reconciled(status) == [status |-> status, agree |-> status = "clean"]
SavedSnapshots ==
  {[flags |-> [gates |-> {"verified"} \cup g, pilot |-> on], reconciliation |-> Reconciled(r)] :
     g \in {{}, {"unknown"}, {"denied"}}, on \in BOOLEAN, r \in {"clean", "mismatch"}}
  \cup {[flags |-> [gates |-> {"verified"}, pilot |-> TRUE],
          reconciliation |-> Reconciled("unavailable")]}

\* 49.6 % against a target of 50, what rounds up to the target, a loss, and the target.
MeasuredMinutes ==
  {[baseline |-> m[1], observed |-> m[2], target |-> 50] :
     m \in {<<1000, 504>>, <<20000, 10001>>, <<3, 4>>, <<2, 1>>}}

\* A source as it was and as it is, a category too few, a title too long.
Source(length) ==
  [product |-> "product1", organization |-> "ours", shop |-> "shop1", complete |-> TRUE,
   length |-> length, attributes |-> {"color"}]
Requirement == [organization |-> "ours", shop |-> "shop2", complete |-> TRUE, maximum |-> 2,
                categories |-> {"shoes", "socks"}, required |-> {"color"}]
SourceVersions == {Source(1), Source(3)}
PreviewInputs == {[source |-> Source(n[1]), requirement |-> Requirement, category |-> n[2]] :
                    n \in {<<1, "shoes">>, <<1, "socks">>, <<3, "shoes">>}}

Policy(limit, window) == [state |-> "verified", limit |-> limit, window |-> window]
Policies == [partner_global |-> Policy(3, 4), credential_subject |-> Policy(2, 2),
             shop |-> Policy(1, 1), endpoint |-> Policy(2, 4)]
KnownAndUnknown == {Policies, [Policies EXCEPT !.shop.state = "unknown"]}
RequestsOfShops == {[partner_global |-> "partner", credential_subject |-> "subject",
                     shop |-> s, endpoint |-> "endpoint"] : s \in Shops}

Environment(valid, oauth, secret, actor, lifetime) ==
  [valid |-> valid, live |-> oauth, inline |-> TRUE, secret |-> secret, actor |-> actor,
   lifetime |-> lifetime]
Starts == {Environment(TRUE, TRUE, "old", "operator", 2),
           Environment(TRUE, TRUE, "new", "operator", 1),
           Environment(TRUE, TRUE, "old", "other", 2),
           Environment(TRUE, FALSE, "old", "operator", 2),
           Environment(FALSE, TRUE, "old", "operator", 2)}

\* A command and another with its dedupe key.
Envelope(id) == [id |-> id, organization |-> "ours", key |-> "key"]
Twins == {Envelope("command"), Envelope("twin")}
OneWorkerId == [p \in Callers |-> "worker"]

\* A collection with a product without variants and one with two, of which one has stock,
\* one that is empty, and one that has a variant twice.
Item(id, stock, itsVariants) == [id |-> id, stock |-> stock, variants |-> itsVariants]
Variant(id, stock) == [id |-> id, stock |-> stock]
Collected(scope, reason, items) == [scope |-> scope, reason |-> reason, products |-> items]
TwoVariants == <<Variant("red", 0), Variant("blue", None)>>
SomeCollections ==
  {Collected("shop1", None, <<Item("hat", None, <<>>), Item("sock", 2, TwoVariants)>>),
   Collected("shop2", "cursor_repeated", <<Item("hat", 0, TwoVariants)>>),
   Collected("shop2", "malformed_page", <<>>),
   Collected("shop1", None, <<Item("hat", 0, TwoVariants \o TwoVariants)>>)}
=============================================================================
