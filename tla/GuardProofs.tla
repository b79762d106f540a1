----------------------------- MODULE GuardProofs -----------------------------
(***************************************************************************)
(* Proofs about the parts of WebRuntime that guard a write: the staging    *)
(* hold, the authorization of a member and the intents of copies. Each     *)
(* theorem is about the part alone; WebRuntimeProofs takes them together.  *)
(***************************************************************************)
EXTENDS WebRuntime, TLAPS

-----------------------------------------------------------------------------
(* The staging hold. *)

\* The rows of a snapshot.
RowsOf(snapshot) == [flags |-> snapshot.flags, reconciliation |-> snapshot.reconciliation]

\* The rows of the shop are those of the last snapshot that was committed, whole, and an
\* open transaction has written nothing but the snapshot it is about.
RowsAreOneSnapshot ==
  /\ sSaved \in StagedSnapshots \cup {None}
  /\ IF sSaved = None THEN sStored = S!NoRows ELSE sStored = RowsOf(sSaved)

TxIsOneSnapshot ==
  /\ sTx.snapshot \in StagedSnapshots \cup {None}
  /\ sTx.snapshot # None =>
       sTx.written \in {RowsOf(sTx.snapshot),
                       [flags |-> sTx.snapshot.flags, reconciliation |-> None]}

StagingInv == RowsAreOneSnapshot /\ TxIsOneSnapshot /\ S!HoldIsFounded

\* A reconciliation is a row, None is not.
LEMMA SnapshotFacts ==
  ASSUME S!StagingAssumption, NEW s \in StagedSnapshots
  PROVE  /\ s # None
         /\ s.flags \in S!Flags /\ s.flags # None
         /\ s.reconciliation \in S!Reconciliations /\ s.reconciliation # None
BY DEF S!StagingAssumption

\* The hold is released on one kind of snapshot only.
LEMMA ReleaseNeeds ==
  ASSUME NEW f \in S!Flags, NEW r \in S!Reconciliations,
         S!HoldControl(S!WriteGate(f), r) = "hold_released"
  PROVE  /\ f = [gates |-> {"verified"}, pilot |-> TRUE]
         /\ r = [status |-> "clean", agree |-> TRUE]
<1>1. S!WriteGate(f) = "write_eligible"
  BY DEF S!HoldControl
<1>2. "unknown" \notin f.gates /\ "denied" \notin f.gates /\ f.pilot
  BY <1>1 DEF S!WriteGate
<1>3. /\ f.gates \in (SUBSET S!Gates) \ {{}} /\ f.pilot \in BOOLEAN
      /\ f = [gates |-> f.gates, pilot |-> f.pilot]
  BY DEF S!Flags
<1>4. f.gates = {"verified"}
  <2>1. \A g \in f.gates : g = "verified"
    BY <1>2, <1>3 DEF S!Gates
  <2>2. f.gates # {}
    BY ONLY <1>3
  <2>. QED
    BY <2>1, <2>2
<1>5. r.status \in {"clean", "mismatch", "unavailable"} /\ r.agree \in BOOLEAN
      /\ r = [status |-> r.status, agree |-> r.agree] /\ (r.status = "clean" => r.agree)
  BY DEF S!Reconciliations
<1>6. r.status = "clean"
  BY <1>1, <1>5 DEF S!HoldControl
<1>. QED
  BY <1>2, <1>3, <1>4, <1>5, <1>6

\* The invariant is kept by every step.
LEMMA StagingStep ==
  ASSUME S!StagingAssumption, StagingInv, [S!Next]_(S!vars)
  PROVE  StagingInv'
<1>1. ASSUME NEW s \in StagedSnapshots, S!UpsertFlags(s) PROVE StagingInv'
  <2>1. sTx' = [snapshot |-> s, written |-> [flags |-> s.flags, reconciliation |-> None]]
    BY <1>1 DEF S!UpsertFlags, S!NoRows
  <2>2. sAnswer' = None /\ sStored' = sStored /\ sSaved' = sSaved
    BY <1>1 DEF S!UpsertFlags
  <2>. QED
    BY <2>1, <2>2 DEF StagingInv, RowsAreOneSnapshot, TxIsOneSnapshot, S!HoldIsFounded
<1>2. CASE S!UpsertReconciliation
  <2>1. sTx.snapshot \in StagedSnapshots
        /\ sTx.written = [flags |-> sTx.snapshot.flags, reconciliation |-> None]
    BY <1>2, SnapshotFacts DEF S!UpsertReconciliation, StagingInv, TxIsOneSnapshot, RowsOf
  <2>2. sTx'.snapshot = sTx.snapshot /\ sTx'.written = RowsOf(sTx.snapshot)
    BY <1>2, <2>1 DEF S!UpsertReconciliation, RowsOf
  <2>3. sAnswer' = None /\ sStored' = sStored /\ sSaved' = sSaved
    BY <1>2 DEF S!UpsertReconciliation
  <2>. QED
    BY <2>1, <2>2, <2>3 DEF StagingInv, RowsAreOneSnapshot, TxIsOneSnapshot, S!HoldIsFounded
<1>3. CASE S!CommitSnapshot
  <2>1. sTx.snapshot \in StagedSnapshots /\ sTx.written = RowsOf(sTx.snapshot)
    BY <1>3, SnapshotFacts DEF S!CommitSnapshot, StagingInv, TxIsOneSnapshot, RowsOf
  <2>2. sStored' = RowsOf(sSaved') /\ sSaved' \in StagedSnapshots /\ sSaved' # None
    BY <1>3, <2>1, SnapshotFacts DEF S!CommitSnapshot
  <2>3. sAnswer' = None /\ sTx'.snapshot = None
    BY <1>3 DEF S!CommitSnapshot, S!Idle
  <2>. QED
    BY <2>2, <2>3 DEF StagingInv, RowsAreOneSnapshot, TxIsOneSnapshot, S!HoldIsFounded
<1>4. CASE S!AbortSnapshot
  <2>1. sStored' = sStored /\ sSaved' = sSaved /\ sAnswer' = None /\ sTx'.snapshot = None
    BY <1>4 DEF S!AbortSnapshot, S!RolledBack, S!Idle
  <2>. QED
    BY <2>1 DEF StagingInv, RowsAreOneSnapshot, TxIsOneSnapshot, S!HoldIsFounded
<1>5. CASE S!Read
  <2>1. sStored' = sStored /\ sSaved' = sSaved /\ sTx' = sTx
    BY <1>5 DEF S!Read
  <2>2. S!HoldIsFounded'
    <3>1. CASE None \in {sStored.flags, sStored.reconciliation}
      <4>1. sAnswer' = [denied |-> "staging_state_not_found"]
        BY <1>5, <3>1 DEF S!Read
      <4>. QED
        BY <4>1 DEF S!HoldIsFounded
    <3>2. CASE None \notin {sStored.flags, sStored.reconciliation}
      <4>1. sSaved \in StagedSnapshots /\ sSaved # None /\ sStored = RowsOf(sSaved)
        BY <3>2 DEF StagingInv, RowsAreOneSnapshot, S!NoRows
      <4>2. sAnswer' = [gate |-> S!WriteGate(sSaved.flags),
                       hold |-> S!HoldControl(S!WriteGate(sSaved.flags), sSaved.reconciliation)]
        BY <1>5, <3>2, <4>1 DEF S!Read, RowsOf
      <4>3. ASSUME sAnswer'.hold = "hold_released"
            PROVE  /\ sSaved.flags = [gates |-> {"verified"}, pilot |-> TRUE]
                   /\ sSaved.reconciliation = [status |-> "clean", agree |-> TRUE]
        BY <4>1, <4>2, <4>3, SnapshotFacts, ReleaseNeeds
      <4>. QED
        BY <2>1, <4>1, <4>3 DEF S!HoldIsFounded
    <3>. QED
      BY <3>1, <3>2
  <2>. QED
    BY <2>1, <2>2 DEF StagingInv, RowsAreOneSnapshot, TxIsOneSnapshot
<1>6. ASSUME NEW reason \in S!Denials, S!ReadDenied(reason) PROVE StagingInv'
  <2>1. sStored' = sStored /\ sSaved' = sSaved /\ sTx' = sTx /\ sAnswer' = [denied |-> reason]
    BY <1>6 DEF S!ReadDenied
  <2>. QED
    BY <2>1 DEF StagingInv, RowsAreOneSnapshot, TxIsOneSnapshot, S!HoldIsFounded
<1>7. CASE UNCHANGED S!vars
  BY <1>7 DEF S!vars, StagingInv, RowsAreOneSnapshot, TxIsOneSnapshot, S!HoldIsFounded
<1>. QED
  BY <1>1, <1>2, <1>3, <1>4, <1>5, <1>6, <1>7 DEF S!Next

\* The rows of a shop are always those of one snapshot.
THEOREM StagingInvariant == S!Spec => []StagingInv
<1>1. S!Init => StagingInv
  BY DEF S!Init, StagingInv, RowsAreOneSnapshot, TxIsOneSnapshot, S!HoldIsFounded, S!Idle
<1>2. StagingInv /\ [S!Next]_(S!vars) => StagingInv'
  BY StagingStep, PartsAssumption
<1>. QED
  BY <1>1, <1>2, PTL DEF S!Spec

\* The hold is released only on one committed snapshot with every gate verified, the
\* pilot on and a clean reconciliation.
THEOREM HoldIsFoundedAlways == S!Spec => []S!HoldIsFounded
<1>1. StagingInv => S!HoldIsFounded
  BY DEF StagingInv
<1>. QED
  BY <1>1, StagingInvariant, PTL

-----------------------------------------------------------------------------
(* Authorization. *)

\* The membership is the one the session began as, gone, or of a later revision.
RevisionsGrow ==
  /\ zSession \in Z!Memberships
  /\ zMembership \in Z!Memberships \cup {None}
  /\ \/ zMembership \in {zSession, None}
     \/ zMembership.revision > zSession.revision

\* What the session's member may do, and a check that goes on or has allowed it.
Granted ==
  /\ zSession.status = "active"
  /\ Z!RoleAllows(zSession.role, zCheck.permission, zCheck.approval)

CheckIsGranted ==
  /\ zCheck.todo # {} \/ zCheck.decision = "authorized" => Granted
  /\ zCheck.decision = "authorized" => zCheck.todo = {}

AuthorizationInv == Z!TypeOK /\ RevisionsGrow /\ CheckIsGranted

\* A membership that gives no denial is the session's, and its role allows.
LEMMA NoDenialMeansGranted ==
  ASSUME Z!AuthorizationAssumption, RevisionsGrow, NEW p \in Z!Permissions,
         NEW approval \in BOOLEAN,
         Z!MemberDenial(zMembership, zSession.revision, p, approval) = None
  PROVE  zSession.status = "active" /\ Z!RoleAllows(zSession.role, p, approval)
<1>1. zMembership # None /\ zMembership.status # "revoked"
      /\ zMembership.revision = zSession.revision /\ Z!RoleAllows(zMembership.role, p, approval)
  BY DEF Z!MemberDenial, Z!AuthorizationAssumption, Z!Denials
<1>2. zSession.revision \in Nat /\ ~(zSession.revision > zSession.revision)
  BY DEF RevisionsGrow, Z!Memberships, Z!AuthorizationAssumption
<1>3. zMembership = zSession
  BY <1>1, <1>2 DEF RevisionsGrow
<1>. QED
  BY <1>1, <1>3 DEF RevisionsGrow, Z!Memberships

\* No denial is an authorization.
LEMMA DenialIsNotAllowed ==
  ASSUME Z!AuthorizationAssumption, NEW p \in Z!Permissions, NEW approval \in BOOLEAN, NEW m
  PROVE  Z!MemberDenial(m, zSession.revision, p, approval) # None =>
           Z!MemberDenial(m, zSession.revision, p, approval) # "authorized"
BY DEF Z!MemberDenial

\* Every record keeps its fields, and a decision is one of those there are.
LEMMA AuthorizationTypes ==
  ASSUME Z!AuthorizationAssumption, Z!TypeOK, [Z!Next]_(Z!vars)
  PROVE  Z!TypeOK'
<1>1. ASSUME NEW p \in Z!Permissions, NEW approval \in BOOLEAN, NEW shops \in SUBSET MemberShops,
             Z!ReadMembership(p, approval, shops)
      PROVE  Z!TypeOK'
  <2>1. Z!MemberDenial(zMembership, zSession.revision, p, approval) \in Z!Denials \cup {None}
    BY DEF Z!MemberDenial, Z!Denials
  <2>. QED
    BY <1>1, <2>1 DEF Z!ReadMembership, Z!TypeOK
<1>2. ASSUME NEW s \in MemberShops, Z!ResolveShop(s) PROVE Z!TypeOK'
  BY <1>2 DEF Z!ResolveShop, Z!TypeOK, Z!Denials
<1>3. CASE Z!Decided
  BY <1>3 DEF Z!Decided, Z!TypeOK, Z!NoCheck
<1>4. CASE Z!MembershipChanges
  BY <1>4 DEF Z!MembershipChanges, Z!TypeOK
<1>5. ASSUME NEW s \in MemberShops, Z!ShopMoves(s) PROVE Z!TypeOK'
  BY <1>5 DEF Z!ShopMoves, Z!TypeOK
<1>6. CASE UNCHANGED Z!vars
  BY <1>6 DEF Z!vars, Z!TypeOK
<1>. QED
  BY <1>1, <1>2, <1>3, <1>4, <1>5, <1>6 DEF Z!Next

\* The invariant is kept by every step.
LEMMA AuthorizationStep ==
  ASSUME Z!AuthorizationAssumption, AuthorizationInv, [Z!Next]_(Z!vars)
  PROVE  AuthorizationInv'
<1>0. Z!TypeOK /\ Z!TypeOK'
  BY AuthorizationTypes DEF AuthorizationInv
<1>1. ASSUME NEW p \in Z!Permissions, NEW approval \in BOOLEAN, NEW shops \in SUBSET MemberShops,
             Z!ReadMembership(p, approval, shops)
      PROVE  AuthorizationInv'
  <2>. DEFINE denial == Z!MemberDenial(zMembership, zSession.revision, p, approval)
  <2>1. /\ UNCHANGED <<zMembership, zSession>>
        /\ zCheck'.permission = p /\ zCheck'.approval = approval
        /\ zCheck'.todo = IF denial = None THEN shops ELSE {}
        /\ zCheck'.decision = IF denial # None THEN denial
                             ELSE IF shops = {} THEN "authorized" ELSE None
    BY <1>1 DEF Z!ReadMembership
  <2>2. denial = None => zSession.status = "active" /\ Z!RoleAllows(zSession.role, p, approval)
    BY NoDenialMeansGranted DEF AuthorizationInv
  <2>3. denial # None => denial # "authorized"
    BY DenialIsNotAllowed
  <2>4. CheckIsGranted'
    <3>. HIDE DEF denial
    <3>1. CASE denial = None
      <4>1. /\ zSession'.status = "active"
            /\ Z!RoleAllows(zSession'.role, zCheck'.permission, zCheck'.approval)
        BY <2>1, <2>2, <3>1, Zenon
      <4>2. zCheck'.decision = "authorized" => zCheck'.todo = {}
        BY <2>1, <3>1 DEF Z!AuthorizationAssumption
      <4>. QED
        BY <4>1, <4>2 DEF CheckIsGranted, Granted
    <3>2. CASE denial # None
      BY <2>1, <2>3, <3>2 DEF CheckIsGranted
    <3>. QED
      BY <3>1, <3>2
  <2>. QED
    BY <1>0, <2>1, <2>4 DEF AuthorizationInv, RevisionsGrow
<1>2. ASSUME NEW s \in MemberShops, Z!ResolveShop(s) PROVE AuthorizationInv'
  <2>1. UNCHANGED <<zMembership, zSession>> /\ s \in zCheck.todo
    BY <1>2 DEF Z!ResolveShop
  <2>2. Granted
    BY <2>1 DEF AuthorizationInv, CheckIsGranted
  <2>3. CASE zOwner[s] = "ours"
    <3>1. zCheck' = [zCheck EXCEPT !.todo = @ \ {s}, !.resolved = @ \cup {s},
                                 !.decision = IF zCheck.todo = {s} THEN "authorized" ELSE None]
      BY <1>2, <2>3 DEF Z!ResolveShop
    <3>2. zCheck'.permission = zCheck.permission /\ zCheck'.approval = zCheck.approval
      BY <1>0, <3>1 DEF Z!TypeOK
    <3>3. zCheck'.decision = "authorized" => zCheck'.todo = {}
      BY <1>0, <3>1 DEF Z!TypeOK, Z!AuthorizationAssumption
    <3>4. Granted'
      BY <2>1, <2>2, <3>2, Zenon DEF Granted
    <3>. QED
      BY <1>0, <2>1, <3>3, <3>4 DEF AuthorizationInv, RevisionsGrow, CheckIsGranted
  <2>4. CASE zOwner[s] # "ours"
    <3>1. zCheck'.todo = {} /\ zCheck'.decision # "authorized"
      BY <1>2, <2>4 DEF Z!ResolveShop
    <3>. QED
      BY <1>0, <2>1, <3>1 DEF AuthorizationInv, RevisionsGrow, CheckIsGranted
  <2>. QED
    BY <2>3, <2>4
<1>3. CASE Z!Decided
  BY <1>0, <1>3 DEF Z!Decided, AuthorizationInv, RevisionsGrow, CheckIsGranted, Z!NoCheck,
     Z!AuthorizationAssumption
<1>4. CASE Z!MembershipChanges
  <2>1. UNCHANGED <<zSession, zCheck>>
    BY <1>4 DEF Z!MembershipChanges
  <2>2. RevisionsGrow'
    <3>1. CASE zMembership' = None
      BY <2>1, <3>1 DEF AuthorizationInv, RevisionsGrow
    <3>2. CASE \E m \in Z!Memberships : m.revision = zMembership.revision + 1 /\ zMembership' = m
      <4>1. zMembership \in Z!Memberships
        BY <1>4 DEF Z!MembershipChanges, AuthorizationInv, RevisionsGrow
      <4>2. zMembership.revision \in Nat /\ zSession.revision \in Nat
        BY <4>1 DEF AuthorizationInv, RevisionsGrow, Z!Memberships, Z!AuthorizationAssumption
      <4>3. zMembership.revision >= zSession.revision
        BY <1>4, <4>1, <4>2 DEF AuthorizationInv, RevisionsGrow, Z!MembershipChanges
      <4>. QED
        BY <2>1, <3>2, <4>2, <4>3 DEF AuthorizationInv, RevisionsGrow
    <3>. QED
      BY <1>4, <3>1, <3>2 DEF Z!MembershipChanges
  <2>. QED
    BY <1>0, <2>1, <2>2 DEF AuthorizationInv, CheckIsGranted, Granted
<1>5. ASSUME NEW s \in MemberShops, Z!ShopMoves(s) PROVE AuthorizationInv'
  BY <1>0, <1>5 DEF Z!ShopMoves, AuthorizationInv, RevisionsGrow, CheckIsGranted, Granted
<1>6. CASE UNCHANGED Z!vars
  BY <1>0, <1>6 DEF Z!vars, AuthorizationInv, RevisionsGrow, CheckIsGranted, Granted
<1>. QED
  BY <1>1, <1>2, <1>3, <1>4, <1>5, <1>6 DEF Z!Next

\* A check that goes on, or has allowed, is of the member the session began as.
THEOREM AuthorizationInvariant == Z!Spec => []AuthorizationInv
<1>1. Z!Init => AuthorizationInv
  BY PartsAssumption DEF Z!Init, AuthorizationInv, Z!TypeOK, Z!Memberships, RevisionsGrow,
     CheckIsGranted, Z!NoCheck,
         Z!AuthorizationAssumption
<1>2. AuthorizationInv /\ [Z!Next]_(Z!vars) => AuthorizationInv'
  BY AuthorizationStep, PartsAssumption
<1>. QED
  BY <1>1, <1>2, PTL DEF Z!Spec

\* A role gained, lost or revoked since the session began never decides.
THEOREM AllowIsFoundedAlways == Z!Spec => []Z!AllowIsFounded
<1>1. AuthorizationInv => Z!AllowIsFounded
  BY DEF AuthorizationInv, CheckIsGranted, Granted, Z!AllowIsFounded
<1>. QED
  BY <1>1, AuthorizationInvariant, PTL

-----------------------------------------------------------------------------
(* Copy intents. *)

\* An intent that stands on a valid preview that was shown.
Founded(intent) ==
  /\ intent \in I!Intents /\ intent.generation = intent.version
  /\ intent.active \in iShown /\ I!IsValid(intent.active)

HeldAreFounded == \A e \in Editors : iHeld[e].intent # None => Founded(iHeld[e].intent)
StoredAreFounded == \A id \in I!Ids : iIntents[id] # None => Founded(iIntents[id])
\* Only what is stored is published.
PublishedAreStored == \A id \in I!Ids : iPublication[id] # "none" => iIntents[id] # None

IntentsInv == I!TypeOK /\ HeldAreFounded /\ StoredAreFounded /\ PublishedAreStored

-----------------------------------------------------------------------------
\* What is shown grows, so that an intent stays founded.
LEMMA FoundedStays ==
  ASSUME NEW intent, iShown \subseteq iShown', Founded(intent)
  PROVE  Founded(intent)'
BY DEF Founded

\* The invariant of the intents holds when the service begins.
LEMMA IntentsInit == ASSUME I!Init PROVE IntentsInv
BY DEF I!Init, IntentsInv, I!TypeOK, HeldAreFounded, StoredAreFounded, PublishedAreStored,
   I!NoIntent,
       I!Publications

\* An answer of the API shows more, or nothing.
LEMMA PreviewKeeps ==
  ASSUME IntentsInv, NEW batch \in SUBSET Inputs, I!Preview(batch)
  PROVE  IntentsInv'
<1>1. /\ iShown \subseteq iShown' /\ iShown' \subseteq Inputs
      /\ UNCHANGED <<iCanonical, iHeld, iPreviews, iIntents, iPublication>>
  BY DEF I!Preview, IntentsInv, I!TypeOK
<1>2. I!TypeOK'
  BY <1>1 DEF IntentsInv, I!TypeOK
<1>3. HeldAreFounded' /\ StoredAreFounded'
  BY <1>1, FoundedStays DEF IntentsInv, HeldAreFounded, StoredAreFounded
<1>. QED
  BY <1>1, <1>2, <1>3 DEF IntentsInv, PublishedAreStored

\* A new capture of the source keeps the invariant.
LEMMA RecaptureKeeps ==
  ASSUME IntentsInv, NEW s \in Sources, I!Recapture(s)
  PROVE  IntentsInv'
<1>1. /\ iCanonical' = s /\ iShown \subseteq iShown'
      /\ UNCHANGED <<iShown, iHeld, iPreviews, iIntents, iPublication>>
  BY DEF I!Recapture
<1>2. I!TypeOK'
  BY <1>1 DEF IntentsInv, I!TypeOK
<1>3. HeldAreFounded' /\ StoredAreFounded'
  BY <1>1, FoundedStays DEF IntentsInv, HeldAreFounded, StoredAreFounded
<1>. QED
  BY <1>1, <1>2, <1>3 DEF IntentsInv, PublishedAreStored

\* An editor's step that gives it a founded intent, or none it did not have.
LEMMA HoldingKeeps ==
  ASSUME IntentsInv, NEW e \in Editors,
         NEW h \in [intent : I!Intents \cup {None}, read : I!Publications],
         h.intent # None => Founded(h.intent),
         iHeld' = [iHeld EXCEPT ![e] = h],
         UNCHANGED <<iCanonical, iShown, iPreviews, iIntents, iPublication>>
  PROVE  IntentsInv'
<1>1. I!TypeOK'
  BY DEF IntentsInv, I!TypeOK
<1>2. \A f \in Editors : iHeld'[f] = IF f = e THEN h ELSE iHeld[f]
  BY DEF IntentsInv, I!TypeOK
<1>3. HeldAreFounded' /\ StoredAreFounded'
  BY <1>2, FoundedStays DEF IntentsInv, HeldAreFounded, StoredAreFounded
<1>. QED
  BY <1>1, <1>3 DEF IntentsInv, PublishedAreStored

\* A new intent keeps the invariant.
LEMMA CreateIntentKeeps ==
  ASSUME IntentsInv, I!CopyAssumption, NEW e \in Editors, NEW i \in Inputs, I!CreateIntent(e, i)
  PROVE  IntentsInv'
<1>. DEFINE new == [id |-> I!IdOf(i), active |-> i, version |-> 1, generation |-> 1]
            h == [intent |-> new, read |-> "none"]
<1>1. 1 \in 1..MaxVersion
  BY DEF I!CopyAssumption
<1>2. new \in I!Intents
  BY <1>1 DEF I!Intents, I!Ids
<1>3. i \in iShown /\ I!IsValid(i)
  BY DEF I!CreateIntent
<1>4. Founded(new)
  BY <1>2, <1>3 DEF Founded
<1>5. h \in [intent : I!Intents \cup {None}, read : I!Publications] /\ h.intent = new
  BY <1>2 DEF I!Publications
<1>6. /\ iHeld' = [iHeld EXCEPT ![e] = h]
      /\ UNCHANGED <<iCanonical, iShown, iPreviews, iIntents, iPublication>>
  BY DEF I!CreateIntent
<1>. HIDE DEF h, new
<1>. QED
  BY <1>4, <1>5, <1>6, HoldingKeeps

\* Reading whether an intent was published keeps the invariant.
LEMMA ReadPublicationKeeps ==
  ASSUME IntentsInv, NEW e \in Editors, I!ReadPublication(e)
  PROVE  IntentsInv'
<1>. DEFINE h == [iHeld[e] EXCEPT !.read = iPublication[iHeld[e].intent.id]]
<1>1. iHeld[e] \in [intent : I!Intents \cup {None}, read : I!Publications]
  BY DEF IntentsInv, I!TypeOK
<1>2. iHeld[e].intent # None /\ Founded(iHeld[e].intent)
  BY DEF I!ReadPublication, IntentsInv, HeldAreFounded
<1>3. iHeld[e].intent.id \in I!Ids
  BY <1>2 DEF Founded, I!Intents
<1>4. iPublication[iHeld[e].intent.id] \in I!Publications
  BY <1>3 DEF IntentsInv, I!TypeOK
<1>5. h \in [intent : I!Intents \cup {None}, read : I!Publications] /\ h.intent = iHeld[e].intent
  BY <1>1, <1>4
<1>6. /\ iHeld' = [iHeld EXCEPT ![e] = h]
      /\ UNCHANGED <<iCanonical, iShown, iPreviews, iIntents, iPublication>>
  BY DEF I!ReadPublication, IntentsInv, I!TypeOK
<1>. HIDE DEF h
<1>. QED
  BY <1>2, <1>5, <1>6, HoldingKeeps

\* Superseding an intent keeps the invariant.
LEMMA SupersedeKeeps ==
  ASSUME IntentsInv, I!CopyAssumption, NEW e \in Editors, NEW i \in Inputs, I!Supersede(e, i)
  PROVE  IntentsInv'
<1>. DEFINE old == iHeld[e].intent
            new == [old EXCEPT !.active = i, !.version = old.version + 1,
                               !.generation = old.generation + 1]
            h == [iHeld[e] EXCEPT !.intent = new]
<1>1. iHeld[e] \in [intent : I!Intents \cup {None}, read : I!Publications]
  BY DEF IntentsInv, I!TypeOK
<1>2. /\ old # None /\ old.version < MaxVersion
      /\ i \in iShown /\ I!IsValid(i)
      /\ iHeld' = [iHeld EXCEPT ![e].intent.active = i, ![e].intent.version = @ + 1,
                              ![e].intent.generation = @ + 1]
      /\ UNCHANGED <<iCanonical, iShown, iPreviews, iIntents, iPublication>>
  BY DEF I!Supersede
<1>3. old \in I!Intents /\ old.generation = old.version
  BY <1>2 DEF IntentsInv, HeldAreFounded, Founded
<1>4. old \in [id : I!Ids, active : Inputs, version : 1..MaxVersion, generation : 1..MaxVersion]
  BY <1>3 DEF I!Intents
<1>5. old.version + 1 \in 1..MaxVersion
  BY <1>2, <1>4 DEF I!CopyAssumption
<1>. HIDE DEF old
<1>6. /\ new \in [id : I!Ids, active : Inputs, version : 1..MaxVersion,
                  generation : 1..MaxVersion]
      /\ new.active = i /\ new.generation = new.version
  BY <1>3, <1>4, <1>5
<1>7. Founded(new)
  BY <1>2, <1>6 DEF Founded, I!Intents
<1>8. iHeld' = [iHeld EXCEPT ![e] = h]
  BY <1>2 DEF old, IntentsInv, I!TypeOK
<1>. HIDE DEF new
<1>9. h \in [intent : I!Intents \cup {None}, read : I!Publications] /\ h.intent = new
  BY <1>1, <1>6 DEF I!Intents
<1>. HIDE DEF h
<1>. QED
  BY <1>2, <1>7, <1>8, <1>9, HoldingKeeps

\* Loading an intent keeps the invariant.
LEMMA LoadKeeps ==
  ASSUME IntentsInv, NEW e \in Editors, NEW id \in I!Ids, I!Load(e, id)
  PROVE  IntentsInv'
<1>. DEFINE h == [intent |-> iIntents[id], read |-> "none"]
<1>1. /\ iIntents[id] # None /\ iHeld' = [iHeld EXCEPT ![e] = h]
      /\ UNCHANGED <<iCanonical, iShown, iPreviews, iIntents, iPublication>>
  BY DEF I!Load
<1>2. Founded(iIntents[id])
  BY <1>1 DEF IntentsInv, StoredAreFounded
<1>3. h \in [intent : I!Intents \cup {None}, read : I!Publications] /\ h.intent = iIntents[id]
  BY DEF IntentsInv, I!TypeOK, I!Publications
<1>. HIDE DEF h
<1>. QED
  BY <1>1, <1>2, <1>3, HoldingKeeps

\* What a save stores: a founded intent, its preview of the intent's own shop, where no
\* intent was and nothing was published.
LEMMA SaveFacts ==
  ASSUME IntentsInv, NEW e \in Editors, I!Save(e)
  PROVE  LET intent == iHeld[e].intent
         IN /\ intent # None /\ Founded(intent)
            /\ intent.id \in I!Ids /\ intent.active \in Inputs
            /\ iIntents[intent.id] = None /\ iPublication[intent.id] = "none"
            /\ intent.active.requirement.shop = intent.id[2]
            /\ iPreviews' = iPreviews \cup {intent.active}
            /\ iIntents' = [iIntents EXCEPT ![intent.id] = intent]
            /\ UNCHANGED <<iCanonical, iShown, iHeld, iPublication>>
<1>. DEFINE intent == iHeld[e].intent
<1>1. /\ intent # None
      /\ intent.active.requirement.shop = intent.id[2]
      /\ iIntents[intent.id] = None
      /\ iPreviews' = iPreviews \cup {intent.active}
      /\ iIntents' = [iIntents EXCEPT ![intent.id] = intent]
      /\ UNCHANGED <<iCanonical, iShown, iHeld, iPublication>>
  BY DEF I!Save, I!Insertable
<1>2. Founded(intent)
  BY <1>1 DEF IntentsInv, HeldAreFounded
<1>3. intent.id \in I!Ids /\ intent.active \in Inputs
  BY <1>2 DEF Founded, I!Intents
<1>4. iPublication[intent.id] = "none"
  BY <1>1, <1>3 DEF IntentsInv, PublishedAreStored
<1>. QED
  BY <1>1, <1>2, <1>3, <1>4

\* Saving an intent keeps the invariant.
LEMMA SaveKeeps ==
  ASSUME IntentsInv, NEW e \in Editors, I!Save(e)
  PROVE  IntentsInv'
<1>. DEFINE intent == iHeld[e].intent
<1>1. /\ intent # None /\ Founded(intent)
      /\ intent.id \in I!Ids /\ intent.active \in Inputs
      /\ iPreviews' = iPreviews \cup {intent.active}
      /\ iIntents' = [iIntents EXCEPT ![intent.id] = intent]
      /\ UNCHANGED <<iCanonical, iShown, iHeld, iPublication>>
  BY SaveFacts
<1>2. intent \in I!Intents
  BY <1>1 DEF Founded
<1>. HIDE DEF intent
<1>3. I!TypeOK'
  BY <1>1, <1>2 DEF IntentsInv, I!TypeOK
<1>4. \A id \in I!Ids : iIntents'[id] = IF id = intent.id THEN intent ELSE iIntents[id]
  BY <1>1 DEF IntentsInv, I!TypeOK
<1>5. HeldAreFounded' /\ StoredAreFounded'
  BY <1>1, <1>4, FoundedStays DEF IntentsInv, HeldAreFounded, StoredAreFounded
<1>6. PublishedAreStored'
  BY <1>1, <1>4 DEF IntentsInv, PublishedAreStored
<1>. QED
  BY <1>3, <1>5, <1>6 DEF IntentsInv

\* Publishing an intent keeps the invariant.
LEMMA PublishKeeps ==
  ASSUME IntentsInv, NEW id \in I!Ids, I!Publish(id)
  PROVE  IntentsInv'
<1>1. /\ iIntents[id] # None /\ iShown \subseteq iShown'
      /\ iPublication' = [iPublication EXCEPT ![id] =
                           IF iPublication[id] = "none" THEN "started" ELSE "published"]
      /\ UNCHANGED <<iCanonical, iShown, iHeld, iPreviews, iIntents>>
  BY DEF I!Publish
<1>2. I!TypeOK'
  BY <1>1 DEF IntentsInv, I!TypeOK, I!Publications
<1>3. HeldAreFounded' /\ StoredAreFounded'
  BY <1>1, FoundedStays DEF IntentsInv, HeldAreFounded, StoredAreFounded
<1>4. \A k \in I!Ids : k # id => iPublication'[k] = iPublication[k]
  BY <1>1 DEF IntentsInv, I!TypeOK
<1>5. PublishedAreStored'
  BY <1>1, <1>4 DEF IntentsInv, PublishedAreStored
<1>. QED
  BY <1>2, <1>3, <1>5 DEF IntentsInv

\* Every step keeps the invariant.
LEMMA IntentsStep ==
  ASSUME IntentsInv, I!CopyAssumption, [I!Next]_(I!vars)
  PROVE  IntentsInv'
<1>1. ASSUME NEW batch \in SUBSET Inputs, I!Preview(batch) PROVE IntentsInv'
  BY <1>1, PreviewKeeps
<1>2. ASSUME NEW s \in Sources, I!Recapture(s) PROVE IntentsInv'
  BY <1>2, RecaptureKeeps
<1>3. ASSUME NEW e \in Editors, NEW i \in Inputs, I!CreateIntent(e, i) PROVE IntentsInv'
  BY <1>3, CreateIntentKeeps
<1>4. ASSUME NEW e \in Editors, NEW i \in Inputs, I!Supersede(e, i) PROVE IntentsInv'
  BY <1>4, SupersedeKeeps
<1>5. ASSUME NEW e \in Editors, I!ReadPublication(e) PROVE IntentsInv'
  BY <1>5, ReadPublicationKeeps
<1>6. ASSUME NEW e \in Editors, I!Save(e) PROVE IntentsInv'
  BY <1>6, SaveKeeps
<1>7. ASSUME NEW e \in Editors, NEW id \in I!Ids, I!Load(e, id) PROVE IntentsInv'
  BY <1>7, LoadKeeps
<1>8. ASSUME NEW id \in I!Ids, I!Publish(id) PROVE IntentsInv'
  BY <1>8, PublishKeeps
<1>9. CASE UNCHANGED I!vars
  <2>1. /\ iShown \subseteq iShown'
        /\ UNCHANGED iCanonical /\ UNCHANGED iShown /\ UNCHANGED iHeld /\ UNCHANGED iPreviews
        /\ UNCHANGED iIntents /\ UNCHANGED iPublication
    BY <1>9 DEF I!vars
  <2>2. I!TypeOK'
    BY <2>1 DEF IntentsInv, I!TypeOK
  <2>3. HeldAreFounded' /\ StoredAreFounded'
    BY <2>1, FoundedStays DEF IntentsInv, HeldAreFounded, StoredAreFounded
  <2>. QED
    BY <2>1, <2>2, <2>3 DEF IntentsInv, PublishedAreStored
<1>. QED
  BY <1>1, <1>2, <1>3, <1>4, <1>5, <1>6, <1>7, <1>8, <1>9 DEF I!Next

\* Every intent, in an editor's hands or stored, stands on a valid preview that was
\* shown, and nothing is published that is not stored.
THEOREM IntentsInvariant == I!Spec => []IntentsInv
<1>1. I!Init => IntentsInv
  BY IntentsInit
<1>2. IntentsInv /\ [I!Next]_(I!vars) => IntentsInv'
  BY IntentsStep, PartsAssumption
<1>. QED
  BY <1>1, <1>2, PTL DEF I!Spec

\* The rows of PostgresCopyPreviewRepository: an intent is stored once, before anything
\* of it is published, with a valid preview for its own shop that was shown.
THEOREM StoredIntentsStayHolds == I!Spec => I!StoredIntentsStay
<1>. DEFINE Stays == \A id \in I!Ids :
       iIntents'[id] # iIntents[id] =>
         /\ iIntents[id] = None /\ iPublication[id] = "none"
         /\ iIntents'[id].active \in iPreviews' \cap iShown
         /\ I!IsValid(iIntents'[id].active)
         /\ iIntents'[id].active.requirement.shop = id[2]
<1>1. ASSUME IntentsInv, [I!Next]_(I!vars) PROVE [Stays]_(I!vars)
  <2>1. ASSUME NEW e \in Editors, I!Save(e) PROVE Stays
    <3>. DEFINE intent == iHeld[e].intent
    <3>1. /\ Founded(intent) /\ intent.id \in I!Ids
          /\ iIntents[intent.id] = None /\ iPublication[intent.id] = "none"
          /\ intent.active.requirement.shop = intent.id[2]
          /\ iPreviews' = iPreviews \cup {intent.active}
          /\ iIntents' = [iIntents EXCEPT ![intent.id] = intent]
      BY <1>1, <2>1, SaveFacts
    <3>2. intent.active \in iShown /\ I!IsValid(intent.active)
      BY <3>1 DEF Founded
    <3>. HIDE DEF intent
    <3>3. \A id \in I!Ids : iIntents'[id] = IF id = intent.id THEN intent ELSE iIntents[id]
      BY <1>1, <3>1 DEF IntentsInv, I!TypeOK
    <3>. QED
      BY <3>1, <3>2, <3>3
  <2>2. CASE UNCHANGED iIntents
    BY <2>2
  <2>3. \/ \E e \in Editors : I!Save(e)
        \/ UNCHANGED iIntents
    BY <1>1 DEF I!Next, I!vars, I!Preview, I!Recapture, I!CreateIntent, I!Supersede,
       I!ReadPublication, I!Load,
                I!Publish
  <2>. QED
    BY <2>1, <2>2, <2>3
<1>2. IntentsInv /\ [I!Next]_(I!vars) => [Stays]_(I!vars)
  BY <1>1
<1>. QED
  BY <1>2, IntentsInvariant, PTL DEF I!Spec, I!StoredIntentsStay

-----------------------------------------------------------------------------
(* The types of the staging hold. *)

\* What a gate and a reconciliation give is a hold, and an answer of the API.
LEMMA HoldTypes ==
  ASSUME NEW f \in S!Flags, NEW r \in S!Reconciliations
  PROVE  /\ S!WriteGate(f) \in S!Disabled \cup {"write_eligible"}
         /\ S!HoldControl(S!WriteGate(f), r) \in S!Holds \cup {"hold_released"}
<1>1. S!WriteGate(f) \in S!Disabled \cup {"write_eligible"}
  BY DEF S!WriteGate, S!Disabled
<1>2. r.status \in {"clean", "mismatch", "unavailable"}
  BY DEF S!Reconciliations
<1>. QED
  BY <1>1, <1>2 DEF S!HoldControl, S!Holds

\* The rows, the transaction and the answer have their types.
THEOREM StagingTypes == S!Spec => []S!TypeOK
<1>1. S!Init => S!TypeOK
  BY DEF S!Init, S!TypeOK, S!Rows, S!NoRows, S!Idle
<1>2. S!TypeOK /\ [S!Next]_(S!vars) => S!TypeOK'
  <2>. SUFFICES ASSUME S!TypeOK, [S!Next]_(S!vars) PROVE S!TypeOK'
    OBVIOUS
  <2>1. ASSUME NEW s \in StagedSnapshots, S!UpsertFlags(s) PROVE S!TypeOK'
    BY <2>1, SnapshotFacts, PartsAssumption DEF S!UpsertFlags, S!TypeOK, S!Rows, S!NoRows
  <2>2. CASE S!UpsertReconciliation
    BY <2>2, SnapshotFacts, PartsAssumption DEF S!UpsertReconciliation, S!TypeOK, S!Rows
  <2>3. CASE S!CommitSnapshot
    BY <2>3 DEF S!CommitSnapshot, S!TypeOK, S!Idle, S!Rows, S!NoRows
  <2>4. CASE S!AbortSnapshot
    BY <2>4 DEF S!AbortSnapshot, S!RolledBack, S!TypeOK, S!Idle, S!Rows, S!NoRows
  <2>5. CASE S!Read
    <3>1. CASE None \in {sStored.flags, sStored.reconciliation}
      BY <2>5, <3>1 DEF S!Read, S!TypeOK, S!Denials
    <3>2. CASE None \notin {sStored.flags, sStored.reconciliation}
      <4>1. sStored.flags \in S!Flags /\ sStored.reconciliation \in S!Reconciliations
        BY <3>2 DEF S!TypeOK, S!Rows
      <4>. DEFINE gate == S!WriteGate(sStored.flags)
                  hold == S!HoldControl(gate, sStored.reconciliation)
      <4>2. gate \in S!Disabled \cup {"write_eligible"} /\ hold \in S!Holds \cup {"hold_released"}
        BY <4>1, HoldTypes
      <4>3. sAnswer' = [gate |-> gate, hold |-> hold] /\ UNCHANGED <<sStored, sTx, sSaved>>
        BY <2>5, <3>2 DEF S!Read
      <4>. HIDE DEF gate, hold
      <4>4. sAnswer' \in [gate : S!Disabled \cup {"write_eligible"},
                       hold : S!Holds \cup {"hold_released"}]
        BY <4>2, <4>3
      <4>. QED
        BY <4>3, <4>4 DEF S!TypeOK
    <3>. QED
      BY <3>1, <3>2
  <2>6. ASSUME NEW reason \in S!Denials, S!ReadDenied(reason) PROVE S!TypeOK'
    BY <2>6 DEF S!ReadDenied, S!TypeOK
  <2>7. CASE UNCHANGED S!vars
    BY <2>7 DEF S!vars, S!TypeOK
  <2>. QED
    BY <2>1, <2>2, <2>3, <2>4, <2>5, <2>6, <2>7 DEF S!Next
<1>. QED
  BY <1>1, <1>2, PTL DEF S!Spec

-----------------------------------------------------------------------------
(* The process: sessions and the inline worker. *)

\* A cookie has a time of its login and a lifetime that some environment gives.
CookieIsFounded(cookie) ==
  /\ cookie \in W!Cookies
  /\ \E e \in Environments : cookie.expires = cookie.since + e.lifetime

\* The browser keeps no cookie past its lifetime, and every request is judged as it is now.
CookiesAreFounded ==
  /\ wBrowser # None => CookieIsFounded(wBrowser) /\ wBrowser.expires > wNow
  /\ wCopy # None => CookieIsFounded(wCopy)
  /\ wSeen.ok => /\ wSeen.cookie # None /\ CookieIsFounded(wSeen.cookie)
                 /\ W!Authentic(wSeen.cookie)

\* The flag of the worker is the run there is.
RunIsTheFlag ==
  /\ \A i \in {1, 2} : wRuns[i] # None => wWorker.running
  /\ \A i, j \in {1, 2} : wRuns[i] # None /\ wRuns[j] # None => i = j
  /\ wWorker.halted => wWorker.stopped /\ ~wWorker.running

\* The inductive invariant of the process.
ProcessInv == W!TypeOK /\ CookiesAreFounded /\ RunIsTheFlag

\* A run that begins is alone: there was none under way.
LEMMA BeginRunFacts ==
  ASSUME W!TypeOK, RunIsTheFlag, W!BeginRun
  PROVE  /\ wRuns' \in [{1, 2} -> 0..MaxClaims \cup {None}]
         /\ wWorker' \in [running : BOOLEAN, stopped : BOOLEAN, halted : BOOLEAN]
         /\ RunIsTheFlag'
<1>. USE PartsAssumption DEF W!WebProcessAssumption
<1>1. CASE W!MayRun
  <2>1. PICK i \in {1, 2} : wRuns[i] = None /\ wRuns' = [wRuns EXCEPT ![i] = 0]
    BY <1>1 DEF W!BeginRun
  <2>2. wWorker' = [wWorker EXCEPT !.running = TRUE] /\ ~wWorker.running /\ ~wWorker.stopped
    BY <1>1 DEF W!BeginRun, W!MayRun
  <2>3. \A j \in {1, 2} : wRuns[j] = None
    BY <2>2 DEF RunIsTheFlag
  <2>4. /\ wRuns' \in [{1, 2} -> 0..MaxClaims \cup {None}]
        /\ \A j \in {1, 2} : j # i => wRuns'[j] = None
    BY <2>1, <2>3 DEF W!TypeOK
  <2>. QED
    BY <2>2, <2>4 DEF RunIsTheFlag, W!TypeOK
<1>2. CASE ~W!MayRun
  BY <1>2 DEF W!BeginRun, RunIsTheFlag, W!TypeOK
<1>. QED
  BY <1>1, <1>2

\* Every step of the process, a restart with another environment included, keeps it.
LEMMA ProcessStep ==
  ASSUME ProcessInv, [W!Next]_(W!vars)
  PROVE  ProcessInv'
<1>. USE PartsAssumption DEF W!WebProcessAssumption, ProcessInv
<1>1. ASSUME NEW e \in Environments, W!Start(e) PROVE ProcessInv'
  <2>1. wConfig' = e /\ wSeen' = W!NoRequest /\ UNCHANGED <<wNow, wBrowser, wCopy>>
    BY <1>1 DEF W!Start
  <2>2. CookiesAreFounded'
    BY <2>1 DEF CookiesAreFounded, CookieIsFounded, W!Cookies, W!NoRequest
  <2>3. CASE W!BeginRun
    BY <2>1, <2>2, <2>3, BeginRunFacts DEF W!TypeOK, W!NoRequest
  <2>4. CASE UNCHANGED <<wRuns, wWorker>>
    BY <2>1, <2>2, <2>4 DEF W!TypeOK, W!NoRequest, RunIsTheFlag
  <2>. QED
    BY <1>1, <2>3, <2>4 DEF W!Start
<1>2. CASE W!Exit
  BY <1>2 DEF W!Exit, W!TypeOK, CookiesAreFounded, CookieIsFounded, W!Cookies, RunIsTheFlag,
     W!NoRequest, W!NoRuns,
              W!NoWorker
<1>3. CASE W!Tick
  <2>1. wNow' = wNow + 1 /\ wNow < MaxClock /\ wNow \in Nat
    BY <1>3 DEF W!Tick, W!TypeOK
  <2>2. /\ wBrowser' \in {wBrowser, None}
        /\ wBrowser' # None => wBrowser' = wBrowser /\ ~(wBrowser.expires <= wNow + 1)
    BY <1>3 DEF W!Tick
  <2>3. wBrowser # None => wBrowser.expires \in Nat
    BY DEF CookiesAreFounded, CookieIsFounded, W!Cookies
  <2>4. CookiesAreFounded'
    BY <1>3, <2>1, <2>2, <2>3 DEF W!Tick, CookiesAreFounded, CookieIsFounded, W!NoRequest,
       W!Cookies
  <2>. QED
    BY <1>3, <2>1, <2>2, <2>4 DEF W!Tick, W!TypeOK, RunIsTheFlag, W!NoRequest
<1>4. CASE W!Login
  <2>. DEFINE cookie == [secret |-> wConfig.secret, actor |-> wConfig.actor,
                         expires |-> wNow + wConfig.lifetime, since |-> wNow]
  <2>1. wConfig \in Environments /\ wNow \in Nat
    BY <1>4 DEF W!Login, W!Up, W!TypeOK
  <2>2. CookieIsFounded(cookie) /\ cookie.expires > wNow
    BY <2>1 DEF CookieIsFounded, W!Cookies
  <2>3. wBrowser' = cookie /\ wCopy' \in {wCopy, cookie} /\ wSeen' = W!NoRequest
        /\ UNCHANGED <<wConfig, wNow, wRuns, wWorker>>
    BY <1>4 DEF W!Login
  <2>. HIDE DEF cookie
  <2>4. CookiesAreFounded'
    BY <2>2, <2>3 DEF CookiesAreFounded, CookieIsFounded, W!NoRequest, W!Cookies
  <2>. QED
    BY <2>2, <2>3, <2>4 DEF W!TypeOK, CookieIsFounded, RunIsTheFlag, W!NoRequest, W!Cookies
<1>5. CASE W!Logout
  BY <1>5 DEF W!Logout, W!TypeOK, CookiesAreFounded, CookieIsFounded, W!Cookies, RunIsTheFlag,
     W!NoRequest
<1>6. ASSUME NEW cookie \in {wBrowser, wCopy, None}, W!Request(cookie) PROVE ProcessInv'
  <2>1. wSeen' = [cookie |-> cookie, ok |-> cookie # None /\ W!Authentic(cookie)]
        /\ UNCHANGED <<wConfig, wNow, wBrowser, wCopy, wRuns, wWorker>>
    BY <1>6 DEF W!Request
  <2>2. cookie # None => CookieIsFounded(cookie)
    BY DEF CookiesAreFounded
  <2>3. wSeen'.cookie = cookie /\ (wSeen'.ok => cookie # None /\ W!Authentic(cookie))
    BY <2>1
  <2>4. (wSeen.ok => W!Authentic(wSeen.cookie))'
    BY <2>1, <2>3 DEF W!Authentic
  <2>5. CookiesAreFounded'
    BY <2>1, <2>2, <2>3, <2>4 DEF CookiesAreFounded, CookieIsFounded, W!Cookies
  <2>6. wSeen' \in [cookie : W!Cookies \cup {None}, ok : BOOLEAN]
    BY <2>1, <2>2 DEF CookieIsFounded, W!Authentic
  <2>. QED
    BY <2>1, <2>5, <2>6 DEF W!TypeOK, RunIsTheFlag, W!Cookies
<1>7. CASE W!Timer
  <2>1. CookiesAreFounded'
    BY <1>7 DEF W!Timer, CookiesAreFounded, CookieIsFounded, W!Cookies, W!NoRequest
  <2>. QED
    BY <1>7, <2>1, BeginRunFacts DEF W!Timer, W!TypeOK, W!NoRequest, W!Cookies
<1>8. ASSUME NEW i \in {1, 2}, W!Claimed(i) PROVE ProcessInv'
  BY <1>8 DEF W!Claimed, W!TypeOK, CookiesAreFounded, CookieIsFounded, W!Cookies, W!NoRequest,
     RunIsTheFlag
<1>9. ASSUME NEW i \in {1, 2}, W!EndRun(i) PROVE ProcessInv'
  <2>1. /\ wRuns[i] # None /\ wRuns' = [wRuns EXCEPT ![i] = None]
        /\ wWorker' = [wWorker EXCEPT !.running = FALSE]
        /\ wSeen' = W!NoRequest /\ UNCHANGED <<wConfig, wNow, wBrowser, wCopy>>
    BY <1>9 DEF W!EndRun
  <2>2. \A j \in {1, 2} : wRuns'[j] = None
    BY <2>1 DEF RunIsTheFlag, W!TypeOK
  <2>3. RunIsTheFlag'
    BY <2>1, <2>2 DEF RunIsTheFlag, W!TypeOK
  <2>. QED
    BY <2>1, <2>3 DEF W!TypeOK, CookiesAreFounded, CookieIsFounded, W!Cookies, W!NoRequest
<1>10. CASE W!Stop
  BY <1>10 DEF W!Stop, W!TypeOK, CookiesAreFounded, CookieIsFounded, W!Cookies, W!NoRequest,
     RunIsTheFlag
<1>11. CASE W!StopReturns
  BY <1>11 DEF W!StopReturns, W!TypeOK, CookiesAreFounded, CookieIsFounded, W!Cookies,
     W!NoRequest, RunIsTheFlag
<1>12. CASE UNCHANGED W!vars
  BY <1>12 DEF W!vars, W!TypeOK, CookiesAreFounded, CookieIsFounded, W!Cookies, W!Authentic,
     RunIsTheFlag
<1>. QED
  BY <1>1, <1>2, <1>3, <1>4, <1>5, <1>6, <1>7, <1>8, <1>9, <1>10, <1>11, <1>12 DEF W!Next

\* The invariant holds of every process.
THEOREM ProcessInvariant == W!Spec => []ProcessInv
<1>1. W!Init => ProcessInv
  BY PartsAssumption DEF W!WebProcessAssumption, W!Init, ProcessInv, W!TypeOK, CookiesAreFounded,
     RunIsTheFlag,
     W!NoRequest, W!NoRuns, W!NoWorker
<1>2. ProcessInv /\ [W!Next]_(W!vars) => ProcessInv'
  BY ProcessStep
<1>. QED
  BY <1>1, <1>2, PTL DEF W!Spec

\* A request is authenticated by a cookie of this secret and actor that has not expired,
\* and there is one run of the inline worker at a time, over all restarts.
THEOREM ProcessHolds == W!Spec => [](W!SessionIsFounded /\ W!RunsAlone)
<1>1. ProcessInv => W!SessionIsFounded /\ W!RunsAlone
  <2>. SUFFICES ASSUME ProcessInv PROVE W!SessionIsFounded /\ W!RunsAlone
    OBVIOUS
  <2>1. W!RunsAlone
    BY DEF ProcessInv, RunIsTheFlag, W!RunsAlone
  <2>2. wNow \in Nat
    BY DEF ProcessInv, W!TypeOK
  <2>3. W!SessionIsFounded
    BY <2>2, PartsAssumption DEF W!WebProcessAssumption, ProcessInv, CookiesAreFounded,
       CookieIsFounded, W!Cookies,
       W!Authentic, W!SessionIsFounded
  <2>. QED
    BY <2>1, <2>3
<1>. QED
  BY <1>1, ProcessInvariant, PTL

-----------------------------------------------------------------------------
(* The rate limiter. *)

\* No multiple of w up to n is above the last one.
LEMMA LastWindow ==
  ASSUME NEW w \in Nat \ {0}, NEW n \in Nat, NEW a \in Nat, a % w = 0, a <= n
  PROVE  /\ n - (n % w) \in 0..n /\ (n - (n % w)) % w = 0
         /\ a <= n - (n % w)
<1>. DEFINE q == n \div w
            p == a \div w
<1>1. p \in Nat /\ q \in Nat /\ n % w \in Nat /\ n % w < w
  OBVIOUS
<1>2. n = w * q + (n % w)
  OBVIOUS
<1>3. a = w * p
  OBVIOUS
<1>4. n - (n % w) = w * q
  BY <1>1, <1>2
<1>. HIDE DEF p, q
<1>5. (w * q) % w = 0
  <2>. DEFINE m == w * q
              d == m \div w
  <2>0. m \in Nat
    BY <1>1
  <2>1. m = w * d + (m % w) /\ m % w \in 0..(w - 1) /\ d \in Nat
    <3>. HIDE DEF m
    <3>. QED BY <2>0
  <2>. HIDE DEF d
  <2>2. m % w = w * (q - d)
    <3>1. w * (q - d) = w * q - w * d
      BY <1>1, <2>1
    <3>. QED BY <2>1, <3>1
  <2>3. CASE q = d
    BY <2>1, <2>3
  <2>4. CASE q - d >= 1
    <3>1. w * (q - d) >= w
      BY <2>4, <1>1, <2>1
    <3>. QED BY <2>1, <2>2, <3>1
  <2>5. CASE d - q >= 1
    <3>1. w * (d - q) >= w
      BY <2>5, <1>1, <2>1
    <3>2. w * (d - q) = w * d - w * q
      BY <1>1, <2>1
    <3>. QED BY <2>1, <3>1, <3>2
  <2>. QED BY <2>3, <2>4, <2>5, <1>1, <2>1
<1>6. p <= q
  <2>1. ASSUME p >= q + 1 PROVE FALSE
    <3>1. w * p >= w * (q + 1)
      BY <1>1, <2>1
    <3>2. w * (q + 1) = w * q + w
      BY <1>1
    <3>. QED
      BY <1>1, <1>2, <1>3, <3>1, <3>2
  <2>. QED
    BY <1>1, <2>1
<1>7. w * p <= w * q
  BY <1>1, <1>6
<1>8. w * q \in Nat
  BY <1>1
<1>. QED
  BY <1>1, <1>2, <1>3, <1>4, <1>5, <1>7, <1>8

\* The window of a scope.
WindowOf(k) == lPolicies[k[1]].window

\* While requests come in order: a bucket is of a window that began by now, it counts what
\* that window has admitted, and no later window has admitted anything.
BucketIsTheLast(k) ==
  /\ lBuckets[k].start <= lLatest
  /\ lBuckets[k].start % WindowOf(k) = 0
  /\ lAdmitted[k][lBuckets[k].start] = lBuckets[k].count
  /\ \A t \in L!Times : t > lBuckets[k].start => lAdmitted[k][t] = 0

\* The inductive invariant of the limiter.
LimitsInv == L!TypeOK /\ (lLatest # None => \A k \in L!Keys : BucketIsTheLast(k))

\* A key has a scope with a policy, a bucket and counts.
LEMMA KeyFacts ==
  ASSUME L!TypeOK, NEW k \in L!Keys
  PROVE  /\ k[1] \in L!Scopes
         /\ WindowOf(k) \in Nat \ {0} /\ lPolicies[k[1]].limit \in Nat \ {0}
         /\ lBuckets[k] \in [start : L!Times, count : Nat]
         /\ lBuckets[k].start \in Nat /\ lBuckets[k].count \in Nat
         /\ \A t \in L!Times : lAdmitted[k][t] \in Nat
<1>1. k[1] \in L!Scopes
  BY DEF L!Keys
<1>2. lPolicies \in PolicySets
  BY DEF L!TypeOK
<1>3. WindowOf(k) \in Nat \ {0} /\ lPolicies[k[1]].limit \in Nat \ {0}
  BY <1>1, <1>2, PartsAssumption DEF L!RateLimitAssumption, WindowOf
<1>4. lBuckets[k] \in [start : L!Times, count : Nat] /\ \A t \in L!Times : lAdmitted[k][t] \in Nat
  BY DEF L!TypeOK
<1>5. L!Times \subseteq Nat
  BY PartsAssumption DEF L!RateLimitAssumption, L!Times
<1>. QED
  BY <1>1, <1>3, <1>4, <1>5

\* The bucket a request is counted in.
LEMMA ReadBucketFacts ==
  ASSUME L!TypeOK, NEW k \in L!Keys, NEW now \in L!Times
  PROVE  /\ L!WindowStart(k[1], now) \in L!Times /\ L!WindowStart(k[1], now) <= now
         /\ L!WindowStart(k[1], now) % WindowOf(k) = 0
         /\ L!ReadBucket(k, now) \in [start : L!Times, count : Nat]
         /\ L!ReadBucket(k, now).start = L!WindowStart(k[1], now)
<1>1. now \in Nat /\ now <= MaxSeconds /\ MaxSeconds \in Nat
  BY PartsAssumption DEF L!RateLimitAssumption, L!Times
<1>2. 0 % WindowOf(k) = 0
  BY KeyFacts
<1>3. /\ now - (now % WindowOf(k)) \in 0..now
      /\ (now - (now % WindowOf(k))) % WindowOf(k) = 0
  BY <1>1, <1>2, KeyFacts, LastWindow
<1>4. L!WindowStart(k[1], now) = now - (now % WindowOf(k))
  BY DEF L!WindowStart, WindowOf
<1>5. L!WindowStart(k[1], now) \in L!Times /\ L!WindowStart(k[1], now) <= now
  BY <1>1, <1>3, <1>4 DEF L!Times
<1>. QED
  BY <1>3, <1>4, <1>5, KeyFacts DEF L!ReadBucket

\* A request that comes in order is counted in the last window of each of its scopes: one
\* more than that window has admitted so far.
LEMMA ReadBucketIsTheLast ==
  ASSUME L!TypeOK, NEW k \in L!Keys, NEW now \in L!Times,
         BucketIsTheLast(k), lLatest \in Nat, lLatest <= now
  PROVE  /\ L!ReadBucket(k, now).count = lAdmitted[k][L!WindowStart(k[1], now)]
         /\ lBuckets[k].start <= L!WindowStart(k[1], now)
         /\ \A t \in L!Times : t > L!WindowStart(k[1], now) => lAdmitted[k][t] = 0
<1>. DEFINE start == L!WindowStart(k[1], now)
<1>0. now \in Nat /\ L!Times \subseteq Nat
  BY PartsAssumption DEF L!RateLimitAssumption, L!Times
<1>1. start \in L!Times
  BY ReadBucketFacts
<1>2. lBuckets[k].start <= start
  <2>1. start = now - (now % WindowOf(k))
    BY DEF L!WindowStart, WindowOf
  <2>2. lBuckets[k].start <= now /\ lBuckets[k].start % WindowOf(k) = 0
    BY <1>0, KeyFacts DEF BucketIsTheLast
  <2>3. WindowOf(k) \in Nat \ {0} /\ lBuckets[k].start \in Nat
    BY KeyFacts
  <2>. QED
    BY <1>0, <2>1, <2>2, <2>3, LastWindow
<1>3. CASE lBuckets[k].start = start
  <2>1. L!ReadBucket(k, now) = lBuckets[k]
    BY <1>3 DEF L!ReadBucket
  <2>. QED
    BY <1>2, <1>3, <2>1 DEF BucketIsTheLast
<1>4. CASE lBuckets[k].start # start
  <2>1. L!ReadBucket(k, now).count = 0
    BY <1>4 DEF L!ReadBucket
  <2>. HIDE DEF start
  <2>2. start > lBuckets[k].start
    <3>1. start \in Nat /\ lBuckets[k].start \in Nat
      BY <1>0, <1>1, KeyFacts
    <3>. QED
      BY <1>2, <1>4, <3>1
  <2>3. lAdmitted[k][start] = 0 /\ \A t \in L!Times : t > start => lAdmitted[k][t] = 0
    BY <1>0, <1>1, <2>2, KeyFacts DEF BucketIsTheLast
  <2>. QED
    BY <1>2, <2>1, <2>3 DEF start
<1>. QED
  BY <1>3, <1>4

\* What an admission does to a bucket and to the count of its window.
LEMMA AdmissionFacts ==
  ASSUME L!TypeOK, NEW r \in LimitRequests, NEW now \in L!Times, L!Admit(r, now),
         \A s \in L!Scopes : L!Admits(s, r, now), NEW k \in L!Keys
  PROVE  IF k \in L!KeysOf(r)
         THEN LET start == L!WindowStart(k[1], now) IN
              /\ lBuckets'[k] = [L!ReadBucket(k, now) EXCEPT !.count = @ + 1]
              /\ lAdmitted'[k] = [lAdmitted[k] EXCEPT ![start] = @ + 1]
              /\ lAdmitted[k][start] \in Nat
         ELSE lBuckets'[k] = lBuckets[k] /\ lAdmitted'[k] = lAdmitted[k]
<1>1. k \in L!KeysOf(r) => lAdmitted[k][L!WindowStart(k[1], now)] \in Nat
  BY ReadBucketFacts, KeyFacts
<1>. QED
  BY <1>1 DEF L!Admit, L!Reserved

\* Every step of the limiter keeps the invariant.
LEMMA LimitsStep ==
  ASSUME LimitsInv, [L!Next]_(L!vars)
  PROVE  LimitsInv'
<1>. USE PartsAssumption DEF L!RateLimitAssumption
<1>0. L!TypeOK /\ L!Times \subseteq Nat
  BY DEF LimitsInv, L!Times
<1>1. ASSUME NEW r \in LimitRequests, NEW now \in L!Times, L!Admit(r, now) PROVE LimitsInv'
  <2>0. /\ lPolicies' = lPolicies /\ lCooldowns' = lCooldowns /\ lLatest' \in L!Times \cup {None}
        /\ lLatest' # None =>
             lLatest # None /\ lLatest \in Nat /\ lLatest' = now /\ lLatest <= now
    BY <1>0, <1>1 DEF L!Admit, L!Clock, L!TypeOK
  <2>1. CASE \A s \in L!Scopes : L!Admits(s, r, now)
    <3>1. L!TypeOK'
      <4>1. lBuckets' \in [L!Keys -> [start : L!Times, count : Nat]]
        <5>1. lBuckets' = [k \in L!Keys |-> lBuckets'[k]]
          BY <1>1, <2>1 DEF L!Admit
        <5>2. ASSUME NEW k \in L!Keys PROVE lBuckets'[k] \in [start : L!Times, count : Nat]
          <6>1. lBuckets'[k] = [L!ReadBucket(k, now) EXCEPT !.count = @ + 1]
                \/ lBuckets'[k] = lBuckets[k]
            BY <1>0, <1>1, <2>1, AdmissionFacts
          <6>2. L!ReadBucket(k, now) \in [start : L!Times, count : Nat]
                /\ lBuckets[k] \in [start : L!Times, count : Nat]
            BY <1>0, ReadBucketFacts, KeyFacts
          <6>. QED
            BY <6>1, <6>2
        <5>. QED
          BY <5>1, <5>2
      <4>2. lAdmitted' \in [L!Keys -> [L!Times -> Nat]]
        <5>1. lAdmitted' = [k \in L!Keys |-> lAdmitted'[k]]
          BY <1>1, <2>1 DEF L!Admit
        <5>2. ASSUME NEW k \in L!Keys PROVE lAdmitted'[k] \in [L!Times -> Nat]
          <6>. DEFINE start == L!WindowStart(k[1], now)
          <6>1. \/ /\ lAdmitted'[k] = [lAdmitted[k] EXCEPT ![start] = @ + 1]
                   /\ lAdmitted[k][start] \in Nat
                \/ lAdmitted'[k] = lAdmitted[k]
            BY <1>0, <1>1, <2>1, AdmissionFacts
          <6>2. lAdmitted[k] \in [L!Times -> Nat]
            BY <1>0 DEF L!TypeOK
          <6>. QED
            BY <6>1, <6>2
        <5>. QED
          BY <5>1, <5>2
      <4>. QED
        BY <1>0, <2>0, <4>1, <4>2 DEF L!TypeOK
    <3>2. ASSUME NEW k \in L!Keys, lLatest' # None PROVE BucketIsTheLast(k)'
      <4>1. BucketIsTheLast(k) /\ lLatest \in Nat /\ lLatest <= now /\ now \in Nat
        BY <1>0, <2>0, <3>2 DEF LimitsInv
      <4>2. WindowOf(k)' = WindowOf(k)
        BY <2>0 DEF WindowOf
      <4>3. CASE k \in L!KeysOf(r)
        <5>. DEFINE start == L!WindowStart(k[1], now)
        <5>1. /\ lBuckets'[k] = [L!ReadBucket(k, now) EXCEPT !.count = @ + 1]
              /\ lAdmitted'[k] = [lAdmitted[k] EXCEPT ![start] = @ + 1]
              /\ lAdmitted[k][start] \in Nat
          BY <1>0, <1>1, <2>1, <4>3, AdmissionFacts
        <5>2. /\ start \in L!Times /\ start <= now /\ start % WindowOf(k) = 0
              /\ L!ReadBucket(k, now) \in [start : L!Times, count : Nat]
              /\ L!ReadBucket(k, now).start = start
          BY <1>0, ReadBucketFacts
        <5>3. /\ L!ReadBucket(k, now).count = lAdmitted[k][start]
              /\ \A t \in L!Times : t > start => lAdmitted[k][t] = 0
          BY <1>0, <4>1, ReadBucketIsTheLast
        <5>4. lAdmitted[k] \in [L!Times -> Nat]
          BY <1>0 DEF L!TypeOK
        <5>. HIDE DEF start
        <5>5. lBuckets'[k].start = start /\ lBuckets'[k].count = lAdmitted[k][start] + 1
          BY <5>1, <5>2, <5>3
        <5>6. lAdmitted'[k][start] = lAdmitted[k][start] + 1
              /\ \A t \in L!Times : t > start => lAdmitted'[k][t] = 0
          BY <1>0, <5>1, <5>2, <5>3, <5>4
        <5>. QED
          BY <2>0, <3>2, <4>2, <5>2, <5>5, <5>6 DEF BucketIsTheLast
      <4>4. CASE k \notin L!KeysOf(r)
        <5>1. lBuckets'[k] = lBuckets[k] /\ lAdmitted'[k] = lAdmitted[k]
          BY <1>0, <1>1, <2>1, <4>4, AdmissionFacts
        <5>2. lBuckets[k].start \in Nat
          BY <1>0, KeyFacts
        <5>3. lBuckets[k].start <= lLatest'
          BY <2>0, <3>2, <4>1, <5>2 DEF BucketIsTheLast
        <5>. QED
          BY <4>1, <4>2, <5>1, <5>3 DEF BucketIsTheLast
      <4>. QED
        BY <4>3, <4>4
    <3>. QED
      BY <3>1, <3>2 DEF LimitsInv, L!Keys
  <2>2. CASE ~\A s \in L!Scopes : L!Admits(s, r, now)
    <3>1. UNCHANGED <<lBuckets, lAdmitted, lPolicies, lCooldowns>>
      BY <1>1, <2>2 DEF L!Admit
    <3>2. L!TypeOK'
      BY <1>0, <2>0, <3>1 DEF L!TypeOK
    <3>3. ASSUME NEW k \in L!Keys, lLatest' # None PROVE BucketIsTheLast(k)'
      <4>1. BucketIsTheLast(k) /\ lBuckets[k].start \in Nat
        BY <1>0, <2>0, <3>3, KeyFacts DEF LimitsInv
      <4>2. lBuckets[k].start <= lLatest'
        BY <1>0, <2>0, <3>3, <4>1 DEF BucketIsTheLast
      <4>. QED
        BY <3>1, <4>1, <4>2 DEF BucketIsTheLast, WindowOf
    <3>. QED
      BY <3>2, <3>3 DEF LimitsInv, L!Keys
  <2>. QED
    BY <2>1, <2>2
<1>2. ASSUME NEW r \in LimitRequests, NEW now \in L!Times, NEW s \in L!Scopes,
             NEW retryAfter \in Waits,
             L!ObserveProviderRateLimit(s, r, now, retryAfter)
      PROVE LimitsInv'
  <2>1. UNCHANGED <<lPolicies, lBuckets, lAdmitted, lLatest>>
    BY <1>2 DEF L!ObserveProviderRateLimit
  <2>2. lCooldowns' \in [L!Keys -> Nat]
    <3>1. now + retryAfter \in Nat /\ lCooldowns \in [L!Keys -> Nat]
      BY <1>0, PartsAssumption DEF L!TypeOK, L!RateLimitAssumption
    <3>. QED
      BY <1>2, <3>1 DEF L!ObserveProviderRateLimit
  <2>. QED
    BY <2>1, <2>2 DEF LimitsInv, L!TypeOK, L!Keys, BucketIsTheLast, WindowOf
<1>3. CASE UNCHANGED L!vars
  BY <1>3 DEF L!vars, LimitsInv, L!TypeOK, L!Keys, BucketIsTheLast, WindowOf
<1>. QED
  BY <1>1, <1>2, <1>3 DEF L!Next

\* The invariant holds of every limiter.
THEOREM LimitsInvariant == L!Spec => []LimitsInv
<1>1. L!Init => LimitsInv
  <2>. SUFFICES ASSUME L!Init PROVE LimitsInv
    OBVIOUS
  <2>1. MaxSeconds \in Nat /\ 0 \in L!Times
    BY PartsAssumption DEF L!RateLimitAssumption, L!Times
  <2>2. L!TypeOK
    BY <2>1 DEF L!Init, L!TypeOK
  <2>3. ASSUME NEW k \in L!Keys PROVE BucketIsTheLast(k)
    <3>1. WindowOf(k) \in Nat \ {0}
      BY <2>2, KeyFacts
    <3>. QED
      BY <2>1, <3>1 DEF L!Init, BucketIsTheLast
  <2>. QED
    BY <2>2, <2>3 DEF LimitsInv
<1>. QED
  BY <1>1, LimitsStep, PTL DEF L!Spec

\* Among requests that come in order no window admits more than its limit, nor any
\* request in a cooldown.
THEOREM LimitsHold == L!Spec => L!LimitsAreKept
<1>. DEFINE Kept == \A k \in L!Keys, t \in L!Times :
                      lLatest' # None /\ lAdmitted'[k][t] # lAdmitted[k][t] =>
                        /\ lAdmitted'[k][t] <= lPolicies[k[1]].limit
                        /\ lCooldowns[k] <= lLatest'
<1>1. LimitsInv /\ [L!Next]_(L!vars) => [Kept]_(L!vars)
  <2>. SUFFICES ASSUME LimitsInv, L!Next, NEW k \in L!Keys, NEW t \in L!Times,
                       lLatest' # None, lAdmitted'[k][t] # lAdmitted[k][t]
                PROVE  /\ lAdmitted'[k][t] <= lPolicies[k[1]].limit
                       /\ lCooldowns[k] <= lLatest'
    OBVIOUS
  <2>1. PICK r \in LimitRequests, now \in L!Times : L!Admit(r, now)
    BY DEF L!Next, L!ObserveProviderRateLimit
  <2>2. L!TypeOK /\ L!Times \subseteq Nat
    BY PartsAssumption DEF LimitsInv, L!Times, L!RateLimitAssumption
  <2>3. lLatest # None /\ lLatest \in Nat /\ lLatest' = now /\ lLatest <= now
    BY <2>1, <2>2 DEF L!Admit, L!Clock, L!TypeOK
  <2>4. \A s \in L!Scopes : L!Admits(s, r, now)
    BY <2>1 DEF L!Admit
  <2>5. k \in L!KeysOf(r)
    BY <2>1, <2>2, <2>4, AdmissionFacts
  <2>. DEFINE start == L!WindowStart(k[1], now)
  <2>6. /\ lAdmitted'[k] = [lAdmitted[k] EXCEPT ![start] = @ + 1]
        /\ lAdmitted[k][start] \in Nat
    BY <2>1, <2>2, <2>4, <2>5, AdmissionFacts
  <2>7. lAdmitted[k][start] = L!ReadBucket(k, now).count
    BY <2>2, <2>3, ReadBucketIsTheLast DEF LimitsInv
  <2>8. L!ReadBucket(k, now).count < lPolicies[k[1]].limit /\ lCooldowns[k] <= now
    BY <2>4, <2>5 DEF L!Admits, L!KeysOf
  <2>9. lAdmitted[k] \in [L!Times -> Nat] /\ lPolicies[k[1]].limit \in Nat
    BY <2>2, KeyFacts DEF L!TypeOK
  <2>. HIDE DEF start
  <2>10. t = start /\ lAdmitted'[k][t] = lAdmitted[k][start] + 1
    BY <2>6, <2>9
  <2>. QED
    BY <2>3, <2>6, <2>7, <2>8, <2>9, <2>10
<1>. HIDE DEF Kept
<1>2. L!Spec => [][Kept]_(L!vars)
  BY <1>1, LimitsInvariant, PTL DEF L!Spec
<1>. QED
  BY <1>2 DEF Kept, L!LimitsAreKept
=============================================================================
