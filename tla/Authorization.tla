---------------------------- MODULE Authorization ----------------------------
(***************************************************************************)
(* authorize: a member's right to do something to some shops, decided from *)
(* a membership and one shop at a time, each read by a query of its own    *)
(* while others change them. Who changes them is outside the code; a       *)
(* change of a membership makes a new revision of it.                      *)
(***************************************************************************)
EXTENDS Naturals

CONSTANTS
  Shops,
  MaxRevision,  \* bound: changes of the membership
  None

VARIABLES
  membership,  \* of the identity in the organization
  owner,       \* the organization of each shop
  session,     \* history: the membership as it was when the caller's session began
  check        \* the request being decided

vars == <<membership, owner, session, check>>

Permissions == {"read_catalog_analytics_status", "create_edit_validate_preview",
                "confirm_publish", "manual_sync", "manage_shop_connections",
                "manage_memberships_roles_settings", "read_full_audit_export",
                "read_safe_audit", "replay_dlq_recovery"}
Memberships == [role : {"owner", "admin", "staff"}, status : {"active", "revoked"},
                revision : 1..MaxRevision]
Denials == {"membership_not_found", "membership_revoked", "authz_revision_stale",
            "role_forbidden", "recovery_approval_required",
            "shop_not_found", "shop_organization_mismatch"}

AuthorizationAssumption == MaxRevision \in Nat /\ None \notin Shops \cup Denials \cup {"authorized"}

NoCheck == [permission |-> None, approval |-> FALSE, todo |-> {}, resolved |-> {},
            decision |-> None]

TypeOK ==
  /\ membership \in Memberships \cup {None} /\ session \in Memberships
  /\ owner \in [Shops -> {"ours", "another", None}]
  /\ check \in [permission : Permissions \cup {None}, approval : BOOLEAN,
                todo : SUBSET Shops, resolved : SUBSET Shops,
                decision : Denials \cup {"authorized", None}]

Init ==
  /\ membership \in {m \in Memberships : m.revision = 1}
  /\ session = membership
  /\ owner \in [Shops -> {"ours", "another", None}]
  /\ check = NoCheck

-----------------------------------------------------------------------------
RoleAllows(role, permission, approval) ==
  CASE permission \in {"read_catalog_analytics_status", "create_edit_validate_preview"} -> TRUE
    [] permission \in {"confirm_publish", "manual_sync", "read_safe_audit"} -> role # "staff"
    [] permission \in {"manage_shop_connections", "manage_memberships_roles_settings",
                       "read_full_audit_export"} -> role = "owner"
    [] permission = "replay_dlq_recovery" -> role = "owner" \/ (role = "admin" /\ approval)

\* Mutant: the revision the caller knows is not compared.
AnyRevision(member, expected, permission, approval) ==
  IF member = None THEN "membership_not_found"
  ELSE IF member.status = "revoked" THEN "membership_revoked"
  ELSE IF ~RoleAllows(member.role, permission, approval) THEN "role_forbidden"
  ELSE None

\* The denial a membership gives, if any.
MemberDenial(member, expected, permission, approval) ==
  IF member = None THEN "membership_not_found"
  ELSE IF member.status = "revoked" THEN "membership_revoked"
  ELSE IF member.revision # expected THEN "authz_revision_stale"
  ELSE IF RoleAllows(member.role, permission, approval) THEN None
  ELSE IF permission = "replay_dlq_recovery" /\ member.role = "admin"
       THEN "recovery_approval_required" ELSE "role_forbidden"

\* The membership is read; without shops the decision is made.
ReadMembership(permission, approval, shops) ==
  /\ check.permission = None
  /\ LET denial == MemberDenial(membership, session.revision, permission, approval)
     IN check' = [permission |-> permission, approval |-> approval,
                  todo |-> IF denial = None THEN shops ELSE {}, resolved |-> {},
                  decision |-> IF denial # None THEN denial
                               ELSE IF shops = {} THEN "authorized" ELSE None]
  /\ UNCHANGED <<membership, owner, session>>

\* One turn of the loop over the shops.
ResolveShop(s) ==
  /\ s \in check.todo
  /\ check' =
       IF owner[s] = "ours"
       THEN [check EXCEPT !.todo = @ \ {s}, !.resolved = @ \cup {s},
                          !.decision = IF check.todo = {s} THEN "authorized" ELSE None]
       ELSE [check EXCEPT !.todo = {},
                          !.decision = IF owner[s] = None THEN "shop_not_found"
                                       ELSE "shop_organization_mismatch"]
  /\ UNCHANGED <<membership, owner, session>>

Decided ==
  /\ check.decision # None
  /\ check' = NoCheck
  /\ UNCHANGED <<membership, owner, session>>

\* Others: a change of role or status, the end of the membership (which is not made
\* again), a shop that moves.
MembershipChanges ==
  /\ membership # None
  /\ \/ membership' = None
     \/ /\ membership.revision < MaxRevision
        /\ \E m \in Memberships : /\ m.revision = membership.revision + 1
                                  /\ membership' = m
  /\ UNCHANGED <<owner, session, check>>

ShopMoves(s) ==
  /\ \E o \in {"ours", "another", None} \ {owner[s]} : owner' = [owner EXCEPT ![s] = o]
  /\ UNCHANGED <<membership, session, check>>

Next ==
  \/ \E p \in Permissions, approval \in BOOLEAN, shops \in SUBSET Shops :
       ReadMembership(p, approval, shops)
  \/ \E s \in Shops : ResolveShop(s) \/ ShopMoves(s)
  \/ Decided \/ MembershipChanges

Spec == Init /\ [][Next]_vars

-----------------------------------------------------------------------------
\* What is allowed was allowed to the member the session began as: a role gained, lost
\* or revoked since never decides. (The shops are read later than the membership: all
\* of them were the organization's at some time of the check, not at one time.)
AllowIsFounded ==
  check.decision = "authorized" =>
    /\ session.status = "active"
    /\ RoleAllows(session.role, check.permission, check.approval)
    /\ check.todo = {}
=============================================================================
