------------------------ MODULE ReconcileProofs ------------------------
(* For every branch entry of policy.yml and whatever GitHub holds for the       *)
(* branch: a plan and a payload have their types, a branch found compliant is   *)
(* what was declared, a branch that was written shows no drift again, and a     *)
(* write changes nothing that was not declared.                                 *)
EXTENDS Reconcile, TLAPS

(* A plan is of what GitHub still holds: nothing comes between it and the write. *)
PlanIsCurrent ==
  phase = "planned" =>
    /\ Readable /\ Valid(enforcement, Target)
    /\ plan = [resolved |-> Target, changes |-> Changes]

IInv == TypeOK /\ PlanIsCurrent

-----------------------------------------------------------------------------
(* Sets of fields, and the values they take. *)

LEMMA Fields ==
  /\ "pull_requests" \in Field /\ "status_checks" \in Field
  /\ "pull_requests" \notin Toggle /\ "status_checks" \notin Toggle
  /\ Field = {"pull_requests", "status_checks"} \cup Toggle
  /\ Flag \subseteq Toggle /\ DOMAIN RuleOf \subseteq Toggle
  /\ "signed_commits" \in Toggle /\ "clear_restrictions" \in Toggle
  /\ "signed_commits" \notin Flag /\ "clear_restrictions" \notin Flag
  /\ Toggle = Flag \cup {"signed_commits", "clear_restrictions"}
  /\ "lock_branch" \in Flag /\ "allow_fork_syncing" \in Flag
BY DEF Field, Toggle, Flag, RuleOf, Inverted, RulesetUnsupported

LEMMA RulesetFields ==
  /\ DOMAIN RuleOf = Toggle \ RulesetUnsupported
  /\ DOMAIN RuleOf = {"signed_commits", "linear_history", "allow_force_push", "allow_deletion"}
  /\ RulesetUnsupported \subseteq Toggle
  /\ \A f, g \in DOMAIN RuleOf : RuleOf[f] = RuleOf[g] => f = g
BY DEF Toggle, RuleOf, Inverted, RulesetUnsupported

LEMMA ToggleType ==
  ASSUME NEW f \in Toggle
  PROVE  FieldType(f) = BOOLEAN /\ Default(f) = (f \in Inverted) /\ Default(f) \in BOOLEAN
<1>1. f # "pull_requests" /\ f # "status_checks"
  BY Fields
<1>2. FieldType(f) = BOOLEAN
  BY <1>1 DEF FieldType
<1>3. Default(f) = (f \in Inverted)
  BY <1>1 DEF Default
<1>. QED
  BY <1>2, <1>3

ReviewToggle ==
  {"required", "code_owner_review", "dismiss_stale_reviews", "require_last_push_approval"}

LEMMA ReviewTypes ==
  /\ ReviewField = ReviewToggle \cup ActorList \cup {"approvals"}
  /\ ReviewType("approvals") = 0 .. MaxApprovals
  /\ ReviewType("dismissal_restrictions") = DismissalRestrictions \cup {None}
  /\ ReviewType("bypass_pull_request_allowances")
       = BypassPullRequestAllowances \cup {None}
  /\ \A g \in ReviewToggle : ReviewType(g) = BOOLEAN
<1>1. ReviewField = ReviewToggle \cup ActorList \cup {"approvals"}
  BY DEF ReviewField, ReviewToggle, ActorList
<1>2. \A g \in ReviewToggle : ReviewType(g) = BOOLEAN
  BY DEF ReviewToggle, ReviewType
<1>. QED
  BY <1>1, <1>2 DEF ReviewType

LEMMA PullRequestType ==
  ASSUME NEW p, p = [g \in ReviewField |-> p[g]],
         p.approvals \in 0 .. MaxApprovals,
         p.dismissal_restrictions \in DismissalRestrictions \cup {None},
         p.bypass_pull_request_allowances \in BypassPullRequestAllowances \cup {None},
         \A g \in ReviewToggle : p[g] \in BOOLEAN
  PROVE  IsPullRequestPolicy(p)
<1>1. \A g \in ReviewField : p[g] \in ReviewType(g)
  BY ReviewTypes DEF ActorList
<1>. QED
  BY <1>1 DEF IsPullRequestPolicy

LEMMA PermissiveType ==
  /\ IsPullRequestPolicy(PermissivePullRequests)
  /\ PermissivePullRequests.required = FALSE
<1>1. PermissivePullRequests = [g \in ReviewField |-> PermissivePullRequests[g]]
  BY DEF PermissivePullRequests, ReviewField
<1>2. \A g \in ReviewToggle : PermissivePullRequests[g] = FALSE
  BY DEF PermissivePullRequests, ReviewToggle
<1>3. /\ PermissivePullRequests.approvals = 0
      /\ PermissivePullRequests.dismissal_restrictions = None
      /\ PermissivePullRequests.bypass_pull_request_allowances = None
      /\ PermissivePullRequests.required = FALSE
  BY DEF PermissivePullRequests
<1>4. \A g \in ReviewToggle : PermissivePullRequests[g] \in BOOLEAN
  BY <1>2
<1>5. /\ PermissivePullRequests.approvals \in 0 .. MaxApprovals
      /\ PermissivePullRequests.dismissal_restrictions \in DismissalRestrictions \cup {None}
      /\ PermissivePullRequests.bypass_pull_request_allowances
           \in BypassPullRequestAllowances \cup {None}
  BY <1>3 DEF MaxApprovals
<1>6. IsPullRequestPolicy(PermissivePullRequests)
  BY ONLY <1>1, <1>4, <1>5, PullRequestType
<1>. QED
  BY <1>3, <1>6

LEMMA PolicyType ==
  ASSUME NEW p, p = [f \in Field |-> p[f]],
         IsPullRequestPolicy(p.pull_requests),
         p.status_checks \in StatusChecksPolicy \cup {None},
         \A f \in Toggle : p[f] \in BOOLEAN
  PROVE  IsBranchPolicy(p)
<1>1. \A f \in Field \ {"pull_requests"} : p[f] \in FieldType(f)
  BY Fields, ToggleType DEF FieldType
<1>. QED
  BY <1>1 DEF IsBranchPolicy

-----------------------------------------------------------------------------
(* from_api: what GitHub holds, read as a policy. *)

LEMMA ReadReviewsType ==
  ASSUME NEW r \in Reviews \cup {None}, NEW p, p = ReadReviews(r),
         p.approvals <= MaxApprovals,
         \A g \in ActorList : p[g] # None => ~Nobody(p[g])
  PROVE  IsPullRequestPolicy(p)
<1>1. CASE r = None
  BY <1>1, PermissiveType DEF ReadReviews
<1>2. CASE r # None
  <2>1. p = [required |-> TRUE, approvals |-> r.count,
             code_owner_review |-> r.code_owners,
             dismiss_stale_reviews |-> r.dismiss_stale,
             require_last_push_approval |-> r.last_push,
             dismissal_restrictions |-> ReadDismissal(r.dismissal),
             bypass_pull_request_allowances |-> r.bypass]
    BY <1>2 DEF ReadReviews
  <2>2. r \in Reviews
    BY <1>2
  <2>3. p = [g \in ReviewField |-> p[g]]
    BY <2>1 DEF ReviewField
  <2>4. p.approvals \in 0 .. MaxApprovals
    BY <2>1, <2>2 DEF Reviews, MaxApprovals
  <2>5. \A g \in ReviewToggle : p[g] \in BOOLEAN
    <3>1. /\ r.code_owners \in BOOLEAN /\ r.dismiss_stale \in BOOLEAN
          /\ r.last_push \in BOOLEAN
      BY <2>2 DEF Reviews
    <3>2. p.required \in BOOLEAN
      BY <2>1
    <3>3. p.code_owner_review \in BOOLEAN
      BY <2>1, <3>1
    <3>4. p.dismiss_stale_reviews \in BOOLEAN
      BY <2>1, <3>1
    <3>5. p.require_last_push_approval \in BOOLEAN
      BY <2>1, <3>1
    <3>. QED
      BY ONLY <3>2, <3>3, <3>4, <3>5 DEF ReviewToggle
  <2>6. p.dismissal_restrictions \in DismissalRestrictions \cup {None}
    <3>1. p.dismissal_restrictions # None => ~Nobody(p.dismissal_restrictions)
      BY DEF ActorList
    <3>2. p.dismissal_restrictions = ReadDismissal(r.dismissal)
          /\ r.dismissal \in Actors \cup {None}
      BY <2>1, <2>2 DEF Reviews
    <3>3. CASE r.dismissal = None
      BY <3>2, <3>3 DEF ReadDismissal
    <3>4. CASE r.dismissal # None
      <4>1. /\ p.dismissal_restrictions = [r.dismissal EXCEPT !.apps = {}]
            /\ r.dismissal \in Actors
        BY <3>2, <3>4 DEF ReadDismissal
      <4>2. p.dismissal_restrictions \in Actors /\ p.dismissal_restrictions.apps = {}
        BY <4>1 DEF Actors
      <4>. QED
        BY <3>1, <4>2 DEF DismissalRestrictions
    <3>. QED
      BY <3>3, <3>4
  <2>7. p.bypass_pull_request_allowances \in BypassPullRequestAllowances \cup {None}
    <3>1. p.bypass_pull_request_allowances # None
            => ~Nobody(p.bypass_pull_request_allowances)
      BY DEF ActorList
    <3>2. p.bypass_pull_request_allowances \in Actors \cup {None}
      BY <2>1, <2>2 DEF Reviews
    <3>. QED
      BY <3>1, <3>2 DEF BypassPullRequestAllowances
  <2>. QED
    BY ONLY <2>3, <2>4, <2>5, <2>6, <2>7, PullRequestType
<1>. QED
  BY <1>1, <1>2

LEMMA ReadReviewRuleType ==
  ASSUME NEW r \in ReviewRule \cup {None}, NEW p, p = ReadReviewRule(r),
         p.approvals <= MaxApprovals
  PROVE  IsPullRequestPolicy(p)
<1>1. CASE r = None
  BY <1>1, PermissiveType DEF ReadReviewRule
<1>2. CASE r # None
  <2>1. p = [required |-> TRUE, approvals |-> r.count,
             code_owner_review |-> r.code_owners,
             dismiss_stale_reviews |-> r.dismiss_stale,
             require_last_push_approval |-> r.last_push,
             dismissal_restrictions |-> None,
             bypass_pull_request_allowances |-> None]
    BY <1>2 DEF ReadReviewRule
  <2>2. r \in ReviewRule
    BY <1>2
  <2>3. p = [g \in ReviewField |-> p[g]]
    BY <2>1 DEF ReviewField
  <2>4. p.approvals \in 0 .. MaxApprovals
    BY <2>1, <2>2 DEF ReviewRule, MaxApprovals
  <2>5. \A g \in ReviewToggle : p[g] \in BOOLEAN
    <3>1. /\ r.code_owners \in BOOLEAN /\ r.dismiss_stale \in BOOLEAN
          /\ r.last_push \in BOOLEAN
      BY <2>2 DEF ReviewRule
    <3>2. p.required \in BOOLEAN
      BY <2>1
    <3>3. p.code_owner_review \in BOOLEAN
      BY <2>1, <3>1
    <3>4. p.dismiss_stale_reviews \in BOOLEAN
      BY <2>1, <3>1
    <3>5. p.require_last_push_approval \in BOOLEAN
      BY <2>1, <3>1
    <3>. QED
      BY ONLY <3>2, <3>3, <3>4, <3>5 DEF ReviewToggle
  <2>6. p.dismissal_restrictions \in DismissalRestrictions \cup {None}
        /\ p.bypass_pull_request_allowances \in BypassPullRequestAllowances \cup {None}
    BY <2>1
  <2>. QED
    BY ONLY <2>3, <2>4, <2>5, <2>6, PullRequestType
<1>. QED
  BY <1>1, <1>2

LEMMA ReadChecksType ==
  ASSUME NEW c \in Checks \cup CheckRule \cup {None}
  PROVE  ReadChecks(c) \in StatusChecksPolicy \cup {None}
BY DEF ReadChecks, Contexts, Checks, CheckRule, StatusChecksPolicy

(* Field by field. *)
LEMMA ProtectionRead ==
  ASSUME NEW r \in Protection, NEW s \in BOOLEAN, NEW p, p = FromProtection(r, s)
  PROVE  /\ p = [f \in Field |-> p[f]]
         /\ p.pull_requests = ReadReviews(r.reviews)
         /\ p.status_checks = ReadChecks(r.checks)
         /\ p.signed_commits = s
         /\ p.clear_restrictions = (r.restrictions = None)
         /\ \A f \in Flag : p[f] = Unwrap(r.flags[f], Default(f))
<1>1. r # None
  BY ReconcileAssumption
<1>2. p = [f \in Field |->
          CASE f = "pull_requests" -> ReadReviews(r.reviews)
            [] f = "status_checks" -> ReadChecks(r.checks)
            [] f = "signed_commits" -> s
            [] f = "clear_restrictions" -> r.restrictions = None
            [] OTHER -> Unwrap(r.flags[f], Default(f))]
  BY <1>1 DEF FromProtection
<1>3. \A f \in Flag : f \notin {"pull_requests", "status_checks", "signed_commits",
                                "clear_restrictions"} /\ f \in Field
  BY Fields
<1>4. \A f \in Flag : p[f] = Unwrap(r.flags[f], Default(f))
  BY <1>2, <1>3
<1>5. p = [f \in Field |-> p[f]]
  BY <1>2
<1>6. p.pull_requests = ReadReviews(r.reviews) /\ p.status_checks = ReadChecks(r.checks)
  BY <1>2, Fields
<1>7. p.signed_commits = s
  BY <1>2, Fields
<1>8. p.clear_restrictions = (r.restrictions = None)
  BY <1>2, Fields
<1>. QED
  BY <1>4, <1>5, <1>6, <1>7, <1>8

LEMMA RulesetRead ==
  ASSUME NEW r \in Ruleset, NEW p, p = FromRuleset(r)
  PROVE  /\ p = [f \in Field |-> p[f]]
         /\ p.pull_requests = ReadReviewRule(r.reviews)
         /\ p.status_checks = ReadChecks(r.checks)
         /\ \A f \in RulesetUnsupported : p[f] = Default(f)
         /\ \A f \in DOMAIN RuleOf : p[f] = ((RuleOf[f] \in r.rules) = (f \notin Inverted))
<1>1. r # None
  BY ReconcileAssumption
<1>2. p = [f \in Field |->
          CASE f = "pull_requests" -> ReadReviewRule(r.reviews)
            [] f = "status_checks" -> ReadChecks(r.checks)
            [] f \in RulesetUnsupported -> Default(f)
            [] OTHER -> (RuleOf[f] \in r.rules) = (f \notin Inverted)]
  BY <1>1 DEF FromRuleset
<1>3. p.pull_requests = ReadReviewRule(r.reviews) /\ p.status_checks = ReadChecks(r.checks)
  <2>1. "pull_requests" \notin RulesetUnsupported /\ "status_checks" \notin RulesetUnsupported
    BY DEF RulesetUnsupported
  <2>. QED
    BY <1>2, <2>1, Fields
<1>4. \A f \in RulesetUnsupported : p[f] = Default(f)
  BY <1>2, Fields, RulesetFields
<1>5. \A f \in DOMAIN RuleOf : p[f] = ((RuleOf[f] \in r.rules) = (f \notin Inverted))
  BY <1>2, Fields, RulesetFields
<1>. QED
  BY <1>2, <1>3, <1>4, <1>5

(* A branch with nothing on GitHub is read as permissive. *)
LEMMA NothingRead ==
  ASSUME NEW s \in BOOLEAN, NEW p, p = FromProtection(None, s)
  PROVE  /\ p = [f \in Field |-> p[f]]
         /\ p.pull_requests = PermissivePullRequests /\ p.status_checks = None
         /\ p.signed_commits = s
         /\ \A f \in Toggle \ {"signed_commits"} : p[f] = Default(f)
<1>1. p = [PermissivePolicy EXCEPT !.signed_commits = s]
  BY DEF FromProtection
<1>2. PermissivePolicy = [f \in Field |-> Default(f)]
  BY DEF PermissivePolicy
<1>3. p = [f \in Field |-> IF f = "signed_commits" THEN s ELSE Default(f)]
  BY <1>1, <1>2
<1>4. Default("pull_requests") = PermissivePullRequests /\ Default("status_checks") = None
  BY DEF Default
<1>5. "signed_commits" \in Field /\ Toggle \subseteq Field
  BY Fields
<1>. QED
  BY <1>3, <1>4, <1>5, Fields

LEMMA NothingReadRuleset ==
  ASSUME NEW p, p = FromRuleset(None)
  PROVE  /\ p = [f \in Field |-> p[f]]
         /\ p.pull_requests = PermissivePullRequests /\ p.status_checks = None
         /\ \A f \in Toggle : p[f] = Default(f)
<1>1. p = [f \in Field |-> Default(f)]
  BY DEF FromRuleset, PermissivePolicy
<1>2. Default("pull_requests") = PermissivePullRequests /\ Default("status_checks") = None
  BY DEF Default
<1>. QED
  BY <1>1, <1>2, Fields

(* What GitHub holds parses to a policy, or not at all. *)
LEMMA FromProtectionType ==
  ASSUME NEW r \in Protection \cup {None}, NEW s \in BOOLEAN,
         Parses("branch_protection", r, s)
  PROVE  IsBranchPolicy(FromProtection(r, s))
<1> DEFINE p == FromProtection(r, s)
<1>1. /\ p.pull_requests.approvals <= MaxApprovals
      /\ \A f \in ActorList : p.pull_requests[f] # None => ~Nobody(p.pull_requests[f])
  BY DEF Parses, FromApi
<1>2. CASE r = None
  <2>1. \A f \in Toggle : p[f] \in BOOLEAN
    BY <1>2, NothingRead, ToggleType
  <2>. QED
    BY <1>2, <2>1, NothingRead, PermissiveType, PolicyType
<1>3. CASE r # None
  <2>1. r \in Protection
    BY <1>3
  <2>2. IsPullRequestPolicy(p.pull_requests)
    <3>1. r.reviews \in Reviews \cup {None}
      BY <2>1 DEF Protection
    <3>. QED
      BY <1>1, <2>1, <3>1, ProtectionRead, ReadReviewsType
  <2>3. p.status_checks \in StatusChecksPolicy \cup {None}
    <3>1. r.checks \in Checks \cup CheckRule \cup {None}
      BY <2>1 DEF Protection
    <3>. QED
      BY <2>1, <3>1, ProtectionRead, ReadChecksType
  <2>4. \A f \in Flag : p[f] \in BOOLEAN
    <3> SUFFICES ASSUME NEW f \in Flag PROVE p[f] \in BOOLEAN
      OBVIOUS
    <3>1. r.flags[f] \in BOOLEAN \cup {None} /\ p[f] = Unwrap(r.flags[f], Default(f))
      BY <2>1, ProtectionRead DEF Protection, Setting
    <3>2. Default(f) \in BOOLEAN
      BY Fields, ToggleType
    <3>. QED
      BY <3>1, <3>2 DEF Unwrap
  <2>5. p.signed_commits \in BOOLEAN /\ p.clear_restrictions \in BOOLEAN
    <3>1. p.signed_commits = s /\ p.clear_restrictions = (r.restrictions = None)
      BY <2>1, ProtectionRead
    <3>. QED
      BY <3>1
  <2>6. \A f \in Toggle : p[f] \in BOOLEAN
    BY <2>4, <2>5, Fields
  <2>7. p = [f \in Field |-> p[f]]
    BY <2>1, ProtectionRead
  <2>. QED
    BY <2>2, <2>3, <2>6, <2>7, PolicyType
<1>. QED
  BY <1>2, <1>3

LEMMA FromRulesetType ==
  ASSUME NEW r \in Ruleset \cup {None}, NEW s, Parses("ruleset", r, s)
  PROVE  IsBranchPolicy(FromRuleset(r))
<1> DEFINE p == FromRuleset(r)
<1>1. p.pull_requests.approvals <= MaxApprovals
  BY DEF Parses, FromApi
<1>2. CASE r = None
  <2>1. \A f \in Toggle : p[f] \in BOOLEAN
    BY <1>2, NothingReadRuleset, ToggleType
  <2>. QED
    BY <1>2, <2>1, NothingReadRuleset, PermissiveType, PolicyType
<1>3. CASE r # None
  <2>1. r \in Ruleset
    BY <1>3
  <2>2. IsPullRequestPolicy(p.pull_requests)
    <3>1. r.reviews \in ReviewRule \cup {None}
      BY <2>1 DEF Ruleset
    <3>. QED
      BY <1>1, <2>1, <3>1, RulesetRead, ReadReviewRuleType
  <2>3. p.status_checks \in StatusChecksPolicy \cup {None}
    <3>1. r.checks \in Checks \cup CheckRule \cup {None}
      BY <2>1 DEF Ruleset
    <3>. QED
      BY <2>1, <3>1, RulesetRead, ReadChecksType
  <2>4. \A f \in RulesetUnsupported : p[f] \in BOOLEAN
    BY <2>1, RulesetRead, RulesetFields, ToggleType
  <2>5. \A f \in DOMAIN RuleOf : p[f] \in BOOLEAN
    <3> SUFFICES ASSUME NEW f \in DOMAIN RuleOf PROVE p[f] \in BOOLEAN
      OBVIOUS
    <3>1. p[f] = ((RuleOf[f] \in r.rules) = (f \notin Inverted))
      BY <2>1, RulesetRead
    <3>. QED
      BY <3>1
  <2>6. \A f \in Toggle : p[f] \in BOOLEAN
    BY <2>4, <2>5, RulesetFields
  <2>7. p = [f \in Field |-> p[f]]
    BY <2>1, RulesetRead
  <2>. QED
    BY <2>2, <2>3, <2>6, <2>7, PolicyType
<1>. QED
  BY <1>2, <1>3

LEMMA CurrentType == TypeOK /\ Readable => IsBranchPolicy(Current)
<1> SUFFICES ASSUME TypeOK, Readable PROVE IsBranchPolicy(Current)
  OBVIOUS
<1>1. CASE enforcement = "ruleset"
  BY <1>1, FromRulesetType DEF Current, FromApi, Readable, TypeOK, Object
<1>2. CASE enforcement = "branch_protection"
  BY <1>2, FromProtectionType DEF Current, FromApi, Readable, TypeOK, Object
<1>. QED
  BY <1>1, <1>2 DEF TypeOK

-----------------------------------------------------------------------------
(* resolve_desired: what is declared, and what is kept or cleared. *)

LEMMA MergedReviews ==
  ASSUME NEW d, WellFormed(d), NEW c, IsPullRequestPolicy(c), NEW s \in BOOLEAN,
         NEW p, p = MergePullRequests(DeclaredReviews(d), c, s)
  PROVE  /\ IsPullRequestPolicy(p)
         /\ \A g \in ReviewField :
              p[g] = IF g \in DOMAIN DeclaredReviews(d) THEN DeclaredReviews(d)[g]
                     ELSE IF s THEN PermissivePullRequests[g] ELSE c[g]
<1>1. p = [g \in ReviewField |->
             IF g \in DOMAIN DeclaredReviews(d) THEN DeclaredReviews(d)[g]
             ELSE IF s THEN PermissivePullRequests[g] ELSE c[g]]
  BY DEF MergePullRequests
<1>2. ASSUME NEW g \in ReviewField PROVE p[g] \in ReviewType(g)
  <2>1. g \in DOMAIN DeclaredReviews(d) => DeclaredReviews(d)[g] \in ReviewType(g)
    <3>1. CASE "pull_requests" \in DOMAIN d
      BY <3>1 DEF WellFormed, DeclaredReviews
    <3>2. CASE "pull_requests" \notin DOMAIN d
      BY <3>2 DEF DeclaredReviews
    <3>. QED
      BY <3>1, <3>2
  <2>2. c[g] \in ReviewType(g) /\ PermissivePullRequests[g] \in ReviewType(g)
    BY PermissiveType DEF IsPullRequestPolicy
  <2>. QED
    BY <1>1, <2>1, <2>2
<1>. QED
  BY <1>1, <1>2 DEF IsPullRequestPolicy

LEMMA Merged ==
  ASSUME NEW d, WellFormed(d), NEW c, IsBranchPolicy(c), NEW s \in BOOLEAN,
         NEW p, p = Merge(d, c, s)
  PROVE  /\ IsBranchPolicy(p)
         /\ p.pull_requests = MergePullRequests(DeclaredReviews(d), c.pull_requests, s)
         /\ \A f \in Field \ {"pull_requests"} :
              p[f] = IF f \in DOMAIN d THEN d[f] ELSE IF s THEN Default(f) ELSE c[f]
<1>1. p = [f \in Field |->
             IF f = "pull_requests"
             THEN MergePullRequests(DeclaredReviews(d), c[f], s)
             ELSE IF f \in DOMAIN d THEN d[f] ELSE IF s THEN Default(f) ELSE c[f]]
  BY DEF Merge
<1>2. p.pull_requests = MergePullRequests(DeclaredReviews(d), c.pull_requests, s)
  BY <1>1, Fields
<1>3. \A f \in Field \ {"pull_requests"} :
        p[f] = IF f \in DOMAIN d THEN d[f] ELSE IF s THEN Default(f) ELSE c[f]
  BY <1>1
<1>4. IsPullRequestPolicy(p.pull_requests)
  BY <1>2, MergedReviews DEF IsBranchPolicy
<1>5. ASSUME NEW f \in Field \ {"pull_requests"} PROVE p[f] \in FieldType(f)
  <2>1. f \in DOMAIN d => d[f] \in FieldType(f)
    BY DEF WellFormed
  <2>2. c[f] \in FieldType(f)
    BY DEF IsBranchPolicy
  <2>3. Default(f) \in FieldType(f)
    <3>1. CASE f = "status_checks"
      BY <3>1 DEF Default, FieldType
    <3>2. CASE f # "status_checks"
      BY <3>2, Fields, ToggleType
    <3>. QED
      BY <3>1, <3>2
  <2>. QED
    BY <1>3, <2>1, <2>2, <2>3
<1>6. p = [f \in Field |-> p[f]]
  BY <1>1
<1>. QED
  BY <1>2, <1>3, <1>4, <1>5, <1>6 DEF IsBranchPolicy

LEMMA TargetType == TypeOK /\ Readable => IsBranchPolicy(Target)
BY CurrentType, Merged DEF TypeOK, Target

LEMMA ChangesType == Changes \subseteq Change
BY DEF Changes, Change, Diff, MetadataChanges

-----------------------------------------------------------------------------
(* to_api_payload *)

(* The parts of a policy that payloads are made of. *)
LEMMA PolicyParts ==
  ASSUME NEW p, IsBranchPolicy(p)
  PROVE  /\ IsPullRequestPolicy(p.pull_requests)
         /\ p.status_checks \in StatusChecksPolicy \cup {None}
         /\ \A f \in Toggle : p[f] \in BOOLEAN
<1>1. p.status_checks \in FieldType("status_checks")
  BY Fields DEF IsBranchPolicy
<1>2. p.status_checks \in StatusChecksPolicy \cup {None}
  BY <1>1 DEF FieldType
<1>3. \A f \in Toggle : p[f] \in FieldType(f)
  BY Fields DEF IsBranchPolicy
<1>4. \A f \in Toggle : p[f] \in BOOLEAN
  BY <1>3, ToggleType
<1>. QED
  BY <1>2, <1>4 DEF IsBranchPolicy

LEMMA ReviewParts ==
  ASSUME NEW p, IsPullRequestPolicy(p)
  PROVE  /\ p.approvals \in 0 .. MaxApprovals
         /\ p.dismissal_restrictions \in DismissalRestrictions \cup {None}
         /\ p.bypass_pull_request_allowances \in BypassPullRequestAllowances \cup {None}
         /\ p.required \in BOOLEAN /\ p.code_owner_review \in BOOLEAN
         /\ p.dismiss_stale_reviews \in BOOLEAN
         /\ p.require_last_push_approval \in BOOLEAN
<1>1. \A g \in ReviewField : p[g] \in ReviewType(g)
  BY DEF IsPullRequestPolicy
<1>2. \A g \in ReviewToggle : p[g] \in BOOLEAN
  BY <1>1, ReviewTypes
<1>3. /\ "approvals" \in ReviewField /\ "dismissal_restrictions" \in ReviewField
      /\ "bypass_pull_request_allowances" \in ReviewField
  BY DEF ReviewField
<1>4. /\ p.approvals \in 0 .. MaxApprovals
      /\ p.dismissal_restrictions \in DismissalRestrictions \cup {None}
      /\ p.bypass_pull_request_allowances \in BypassPullRequestAllowances \cup {None}
  BY <1>1, <1>3, ReviewTypes
<1>5. /\ p.required \in BOOLEAN /\ p.code_owner_review \in BOOLEAN
      /\ p.dismiss_stale_reviews \in BOOLEAN
      /\ p.require_last_push_approval \in BOOLEAN
  BY <1>2 DEF ReviewToggle
<1>. QED
  BY <1>4, <1>5

LEMMA ReviewsPayloadType ==
  ASSUME NEW p, IsPullRequestPolicy(p) PROVE ReviewsPayload(p) \in Reviews \cup {None}
<1>1. p.approvals \in Nat
  BY ReviewParts DEF MaxApprovals
<1>2. /\ p.dismissal_restrictions \in Actors \cup {None}
      /\ p.bypass_pull_request_allowances \in Actors \cup {None}
  BY ReviewParts DEF DismissalRestrictions, BypassPullRequestAllowances
<1>. QED
  BY <1>1, <1>2, ReviewParts DEF ReviewsPayload, Reviews

LEMMA ReviewRulePayloadType ==
  ASSUME NEW p, IsPullRequestPolicy(p), NEW c \in ReviewRule \cup {None}
  PROVE  ReviewRulePayload(p, c) \in ReviewRule \cup {None}
<1>1. p.approvals \in Nat
  BY ReviewParts DEF MaxApprovals
<1>2. (c # None /\ c.thread_resolution) \in BOOLEAN
  OBVIOUS
<1>. QED
  BY <1>1, <1>2, ReviewParts DEF ReviewRulePayload, ReviewRule

LEMMA PinsPayloadType ==
  ASSUME NEW p, NEW c \in Checks \cup CheckRule \cup {None}
  PROVE  /\ PinsPayload(p, c) \in Pins
         /\ \A x \in Context :
              PinsPayload(p, c)[x] = IF x \in p.required THEN {KeptPin(CurrentPins(c)[x])} ELSE {}
<1>1. \A x \in Context : CurrentPins(c)[x] \subseteq App \cup {None}
  BY DEF CurrentPins, Checks, CheckRule, Pins
<1>2. \A x \in Context : KeptPin(CurrentPins(c)[x]) \in App \cup {None}
  BY <1>1 DEF KeptPin
<1>. QED
  BY <1>2 DEF PinsPayload, Pins

LEMMA ChecksPayloadType ==
  ASSUME NEW p \in StatusChecksPolicy \cup {None}, NEW c \in Checks \cup {None}
  PROVE  ChecksPayload(p, c) \in Checks \cup {None}
<1>1. (c # None /\ c.strict) \in BOOLEAN
  OBVIOUS
<1>2. ~IsUnset(p) => p.order \in Order
  BY DEF IsUnset, StatusChecksPolicy
<1>. QED
  BY <1>1, <1>2, PinsPayloadType DEF ChecksPayload, Checks

LEMMA CheckRulePayloadType ==
  ASSUME NEW p \in StatusChecksPolicy \cup {None}, NEW c \in CheckRule \cup {None}
  PROVE  CheckRulePayload(p, c) \in CheckRule \cup {None}
<1>1. (c # None /\ c.strict) \in BOOLEAN /\ (c # None /\ c.on_create) \in BOOLEAN
  OBVIOUS
<1>2. ~IsUnset(p) => p.order \in Order
  BY DEF IsUnset, StatusChecksPolicy
<1>. QED
  BY <1>1, <1>2, PinsPayloadType DEF CheckRulePayload, CheckRule

(* The object a write leaves on GitHub, part by part. *)
LEMMA StoredParts ==
  ASSUME NEW a \in Reviews \cup {None}, NEW b \in Checks \cup {None},
         NEW f, f \in [Flag -> BOOLEAN],
         NEW c \in Actors \cup {None}, NEW d \in Setting,
         NEW payload,
         payload = [reviews |-> a, checks |-> b, flags |-> f, restrictions |-> c,
                    block_creations |-> d],
         NEW new, new = Stored(payload)
  PROVE  /\ new \in Protection
         /\ new.reviews = a /\ new.checks = b /\ new.restrictions = c
         /\ new.block_creations = d
         /\ \A x \in Flag \ {"allow_fork_syncing"} : new.flags[x] = f[x]
         /\ new.flags.allow_fork_syncing = (f.allow_fork_syncing /\ f.lock_branch)
<1>1. PICK v : v = (f.allow_fork_syncing /\ f.lock_branch)
  OBVIOUS
<1>2. v \in BOOLEAN
  BY <1>1
<1>3. PICK g : g = [f EXCEPT !["allow_fork_syncing"] = v]
  OBVIOUS
<1>4. g \in [Flag -> Setting] /\ g["allow_fork_syncing"] = v
      /\ \A x \in Flag \ {"allow_fork_syncing"} : g[x] = f[x]
  BY <1>2, <1>3, Fields DEF Setting
<1>5. new = [payload EXCEPT !.flags = g]
  BY <1>1, <1>3 DEF Stored
<1>6. new = [reviews |-> a, checks |-> b, flags |-> g, restrictions |-> c,
             block_creations |-> d]
  BY <1>5
<1>7. new \in Protection
  BY <1>4, <1>6 DEF Protection
<1>. QED
  BY <1>1, <1>4, <1>6, <1>7

IsProtectionWritten(p, r, new) ==
  /\ new \in Protection
  /\ new.reviews = ReviewsPayload(p.pull_requests)
  /\ new.checks = ChecksPayload(p.status_checks, IF r = None THEN None ELSE r.checks)
  /\ \A f \in Flag \ {"allow_fork_syncing"} : new.flags[f] = p[f]
  /\ new.flags.allow_fork_syncing = (p.allow_fork_syncing /\ p.lock_branch)
  /\ new.restrictions = RestrictionsPayload(p, r)
  /\ new.block_creations = IF r = None THEN FALSE ELSE Unwrap(r.block_creations, FALSE)

LEMMA ProtectionWritten ==
  ASSUME NEW p, IsBranchPolicy(p), NEW r \in Protection \cup {None},
         NEW new, new = Stored(ProtectionPayload(p, r))
  PROVE  IsProtectionWritten(p, r, new)
<1>1. PICK checks : checks = IF r = None THEN None ELSE r.checks
  OBVIOUS
<1>2. PICK flags : flags = [f \in Flag |-> p[f]]
  OBVIOUS
<1>3. PICK creations : creations = IF r = None THEN FALSE ELSE Unwrap(r.block_creations, FALSE)
  OBVIOUS
<1>4. PICK a : a = ReviewsPayload(p.pull_requests)
  OBVIOUS
<1>5. PICK b : b = ChecksPayload(p.status_checks, checks)
  OBVIOUS
<1>6. PICK c : c = RestrictionsPayload(p, r)
  OBVIOUS
<1>7. checks \in Checks \cup {None} /\ c \in Actors \cup {None} /\ creations \in Setting
  <2>1. CASE r = None
    BY <1>1, <1>3, <1>6, <2>1 DEF RestrictionsPayload, Setting
  <2>2. CASE r # None
    <3>1. /\ r.checks \in Checks \cup {None} /\ r.restrictions \in Actors \cup {None}
          /\ r.block_creations \in Setting
      BY <2>2 DEF Protection
    <3>. QED
      BY <1>1, <1>3, <1>6, <2>2, <3>1 DEF RestrictionsPayload, Setting, Unwrap
  <2>. QED
    BY <2>1, <2>2
<1>8. a \in Reviews \cup {None} /\ b \in Checks \cup {None}
  BY <1>4, <1>5, <1>7, PolicyParts, ReviewsPayloadType, ChecksPayloadType
<1>9. \A f \in Flag : p[f] \in BOOLEAN
  BY PolicyParts, Fields
<1>10. flags \in [Flag -> BOOLEAN] /\ \A f \in Flag : flags[f] = p[f]
  BY <1>2, <1>9
<1>11. ProtectionPayload(p, r) =
         [reviews |-> a, checks |-> b, flags |-> flags, restrictions |-> c,
          block_creations |-> creations]
  BY <1>1, <1>2, <1>3, <1>4, <1>5, <1>6 DEF ProtectionPayload
<1>12. /\ new \in Protection
       /\ new.reviews = a /\ new.checks = b /\ new.restrictions = c
       /\ new.block_creations = creations
       /\ \A x \in Flag \ {"allow_fork_syncing"} : new.flags[x] = flags[x]
       /\ new.flags.allow_fork_syncing = (flags.allow_fork_syncing /\ flags.lock_branch)
  BY ONLY <1>7, <1>8, <1>10, <1>11, new = Stored(ProtectionPayload(p, r)), StoredParts
<1>13. flags.allow_fork_syncing = p.allow_fork_syncing /\ flags.lock_branch = p.lock_branch
  BY <1>10, Fields
<1>. QED
  BY ONLY <1>1, <1>3, <1>4, <1>5, <1>6, <1>10, <1>12, <1>13 DEF IsProtectionWritten

LEMMA RulesetWritten ==
  ASSUME NEW p, IsBranchPolicy(p), NEW r \in Ruleset \cup {None},
         NEW new, new = RulesetPayload(p, r)
  PROVE  /\ new \in Ruleset
         /\ new.metadata = Canonical
         /\ \A f \in DOMAIN RuleOf : (RuleOf[f] \in new.rules) = (p[f] = (f \notin Inverted))
         /\ new.reviews =
              ReviewRulePayload(p.pull_requests, IF r = None THEN None ELSE r.reviews)
         /\ new.checks =
              CheckRulePayload(p.status_checks, IF r = None THEN None ELSE r.checks)
         /\ new.unmodelled = IF r = None THEN {} ELSE r.unmodelled
<1> DEFINE rules == {RuleOf[f] : f \in {g \in DOMAIN RuleOf : p[g] = (g \notin Inverted)}}
           reviews == IF r = None THEN None ELSE r.reviews
           checks == IF r = None THEN None ELSE r.checks
           unmodelled == IF r = None THEN {} ELSE r.unmodelled
<1>1. new = [metadata |-> Canonical, rules |-> rules,
             reviews |-> ReviewRulePayload(p.pull_requests, reviews),
             checks |-> CheckRulePayload(p.status_checks, checks),
             unmodelled |-> unmodelled]
  BY DEF RulesetPayload
<1>2. reviews \in ReviewRule \cup {None} /\ checks \in CheckRule \cup {None}
      /\ unmodelled \in SUBSET Unmodelled
  BY DEF Ruleset
<1>3. ReviewRulePayload(p.pull_requests, reviews) \in ReviewRule \cup {None}
  BY <1>2, PolicyParts, ReviewRulePayloadType
<1>4. CheckRulePayload(p.status_checks, checks) \in CheckRule \cup {None}
  BY <1>2, PolicyParts, CheckRulePayloadType
<1>5. rules \in SUBSET RuleType
  BY DEF RuleType
<1>6. Canonical \in Metadata
  BY DEF Canonical, Metadata
<1>7. new \in Ruleset
  BY <1>1, <1>2, <1>3, <1>4, <1>5, <1>6 DEF Ruleset
<1>8. \A f \in DOMAIN RuleOf : (RuleOf[f] \in rules) = (p[f] = (f \notin Inverted))
  BY RulesetFields
<1>. QED
  BY <1>1, <1>7, <1>8

-----------------------------------------------------------------------------
(* Every action keeps the invariant. *)

LEMMA InitIInv == Init => IInv
BY DEF Init, IInv, PlanIsCurrent

LEMMA WriteTypes ==
  ASSUME IInv, Write PROVE raw' \in Object' \cup {None} /\ signed' \in BOOLEAN
<1>1. IsBranchPolicy(plan.resolved) /\ plan.changes \subseteq Change /\ UNCHANGED policy
  BY DEF IInv, TypeOK, Write
<1>2. CASE WriteProtection
  <2>1. raw \in Protection \cup {None} /\ Object' = Protection /\ signed \in BOOLEAN
    BY <1>1, <1>2 DEF IInv, TypeOK, Object, WriteProtection, policy
  <2>2. raw' \in Protection
    BY <1>1, <1>2, <2>1, ProtectionWritten DEF WriteProtection, IsProtectionWritten
  <2>3. plan.resolved.signed_commits \in BOOLEAN
    BY <1>1, PolicyParts, Fields
  <2>. QED
    BY <1>2, <2>1, <2>2, <2>3 DEF WriteProtection
<1>3. CASE WriteRuleset
  <2>1. raw \in Ruleset \cup {None} /\ Object' = Ruleset /\ signed \in BOOLEAN
    BY <1>1, <1>3 DEF IInv, TypeOK, Object, WriteRuleset, policy
  <2>2. raw' \in Ruleset
    BY <1>1, <1>3, <2>1, RulesetWritten DEF WriteRuleset
  <2>. QED
    BY <1>3, <2>1, <2>2 DEF WriteRuleset
<1>. QED
  BY <1>2, <1>3 DEF Write

LEMMA ReorderTypes ==
  ASSUME TypeOK, Reorder PROVE raw' \in Object'
<1>1. PICK o \in Order : raw' = [raw EXCEPT !.checks.order = o]
  BY DEF Reorder
<1>2. raw # None /\ raw.checks # None /\ raw \in Object /\ Object' = Object
  BY DEF TypeOK, Reorder, Object, policy
<1>3. CASE enforcement = "ruleset"
  <2>1. raw \in Ruleset /\ raw.checks \in CheckRule
    BY <1>2, <1>3 DEF Object, Ruleset
  <2>2. [raw.checks EXCEPT !.order = o] \in CheckRule
    BY <2>1 DEF CheckRule
  <2>3. raw' \in Ruleset
    BY <1>1, <2>1, <2>2 DEF Ruleset
  <2>. QED
    BY <1>2, <1>3, <2>3 DEF Object
<1>4. CASE enforcement # "ruleset"
  <2>1. raw \in Protection /\ raw.checks \in Checks
    BY <1>2, <1>4 DEF Object, Protection
  <2>2. [raw.checks EXCEPT !.order = o] \in Checks
    BY <2>1 DEF Checks
  <2>3. raw' \in Protection
    BY <1>1, <2>1, <2>2 DEF Protection
  <2>. QED
    BY <1>2, <1>4, <2>3 DEF Object
<1>. QED
  BY <1>3, <1>4

LEMMA NextIInv == IInv /\ [Next]_vars => IInv'
<1> SUFFICES ASSUME IInv, [Next]_vars PROVE IInv'
  OBVIOUS
<1>1. CASE PlanBranch
  <2>1. UNCHANGED <<enforcement, declared, strict, raw, signed, wrote>> /\ phase' = "planned"
        /\ plan' = [resolved |-> Target, changes |-> Changes]
    BY <1>1 DEF PlanBranch, policy
  <2>2. IsBranchPolicy(plan'.resolved) /\ plan'.changes \subseteq Change
    BY <1>1, <2>1, TargetType, ChangesType DEF IInv, PlanBranch
  <2>3. TypeOK'
    BY <2>1, <2>2 DEF IInv, TypeOK, Object
  <2>4. PlanIsCurrent'
    BY <1>1, <2>1 DEF PlanBranch, PlanIsCurrent, Target, Changes, Current, Readable
  <2>. QED
    BY <2>3, <2>4 DEF IInv
<1>2. CASE PlanFails \/ Skip \/ Rerun
  <2>1. UNCHANGED <<enforcement, declared, strict, raw, signed, plan, wrote>>
        /\ phase' \in {"invalid", "compliant", "read"}
    BY <1>2 DEF PlanFails, Skip, Rerun, policy
  <2>. QED
    BY <2>1 DEF IInv, TypeOK, Object, PlanIsCurrent
<1>3. CASE Write
  <2>1. UNCHANGED <<enforcement, declared, strict, plan>> /\ phase' = "read" /\ wrote' = TRUE
    BY <1>3 DEF Write, policy
  <2>2. TypeOK'
    BY <1>3, <2>1, WriteTypes DEF IInv, TypeOK
  <2>. QED
    BY <2>1, <2>2 DEF IInv, PlanIsCurrent
<1>4. CASE Reorder
  <2>1. UNCHANGED <<enforcement, declared, strict, signed, plan, wrote, phase>>
        /\ phase = "read"
    BY <1>4 DEF Reorder, policy
  <2>2. TypeOK'
    BY <1>4, <2>1, ReorderTypes DEF IInv, TypeOK
  <2>. QED
    BY <2>1, <2>2 DEF IInv, PlanIsCurrent
<1>5. CASE UNCHANGED vars
  <2>1. UNCHANGED <<enforcement, declared, strict, raw, signed, phase, plan, wrote>>
    BY <1>5 DEF vars, policy
  <2>. QED
    BY <2>1 DEF IInv, TypeOK, Object, PlanIsCurrent, Target, Changes, Current, Readable
<1>. QED
  BY <1>1, <1>2, <1>3, <1>4, <1>5 DEF Next

(* Plans are policies and what is written is an object GitHub can hold, for     *)
(* every entry of policy.yml and every object found.                            *)
THEOREM ReconcileTypes == Spec => []TypeOK
<1>1. IInv => TypeOK
  BY DEF IInv
<1>. QED
  BY <1>1, InitIInv, NextIInv, PTL DEF Spec

-----------------------------------------------------------------------------
(* What GitHub holds, before a write and after it. *)

ChecksHeld == IF raw = None THEN None ELSE raw.checks
ReadHeld(r) == IF enforcement = "ruleset" THEN ReadReviewRule(r) ELSE ReadReviews(r)

LEMMA HeldClassic ==
  ASSUME TypeOK, enforcement = "branch_protection"
  PROVE  /\ Current = [f \in Field |-> Current[f]]
         /\ Current.pull_requests = ReadHeld(ReviewsHeld)
         /\ Current.status_checks = ReadChecks(ChecksHeld)
         /\ \A f \in Toggle : Current[f] = ToggleHeld(f)
<1>1. PICK p : p = FromProtection(raw, signed)
  OBVIOUS
<1>2. Current = p /\ signed \in BOOLEAN /\ raw \in Protection \cup {None}
  BY <1>1 DEF Current, FromApi, TypeOK, Object
<1>3. CASE raw = None
  <2>1. /\ p = [f \in Field |-> p[f]]
        /\ p.pull_requests = PermissivePullRequests /\ p.status_checks = None
        /\ p.signed_commits = signed
        /\ \A f \in Toggle \ {"signed_commits"} : p[f] = Default(f)
    BY <1>1, <1>2, <1>3, NothingRead
  <2>2. ReadHeld(ReviewsHeld) = PermissivePullRequests /\ ReadChecks(ChecksHeld) = None
    BY <1>3 DEF ReadHeld, ReviewsHeld, ChecksHeld, ReadReviews, ReadChecks
  <2>3. ASSUME NEW f \in Toggle PROVE p[f] = ToggleHeld(f)
    <3>1. "clear_restrictions" \in Inverted
      BY DEF Inverted
    <3>2. Default("clear_restrictions") = TRUE
      BY <3>1, Fields, ToggleType
    <3>. QED
      BY <1>3, <2>1, <3>2 DEF ToggleHeld, FlagHeld, Restricted
  <2>. QED
    BY <1>2, <2>1, <2>2, <2>3
<1>4. CASE raw # None
  <2>1. raw \in Protection
    BY <1>2, <1>4
  <2>2. /\ p = [f \in Field |-> p[f]]
        /\ p.pull_requests = ReadReviews(raw.reviews)
        /\ p.status_checks = ReadChecks(raw.checks)
        /\ p.signed_commits = signed
        /\ p.clear_restrictions = (raw.restrictions = None)
        /\ \A f \in Flag : p[f] = Unwrap(raw.flags[f], Default(f))
    BY <1>1, <1>2, <2>1, ProtectionRead
  <2>3. ReadHeld(ReviewsHeld) = ReadReviews(raw.reviews) /\ ChecksHeld = raw.checks
    BY <1>4 DEF ReadHeld, ReviewsHeld, ChecksHeld
  <2>4. ASSUME NEW f \in Toggle PROVE p[f] = ToggleHeld(f)
    BY <1>4, <2>2, Fields DEF ToggleHeld, FlagHeld, Restricted
  <2>. QED
    BY <1>2, <2>2, <2>3, <2>4
<1>. QED
  BY <1>3, <1>4

LEMMA HeldRuleset ==
  ASSUME TypeOK, enforcement = "ruleset"
  PROVE  /\ Current = [f \in Field |-> Current[f]]
         /\ Current.pull_requests = ReadHeld(ReviewsHeld)
         /\ Current.status_checks = ReadChecks(ChecksHeld)
         /\ \A f \in Toggle : Current[f] = ToggleHeld(f)
<1>1. PICK p : p = FromRuleset(raw)
  OBVIOUS
<1>2. Current = p /\ raw \in Ruleset \cup {None}
  BY <1>1 DEF Current, FromApi, TypeOK, Object
<1>3. CASE raw = None
  <2>1. /\ p = [f \in Field |-> p[f]]
        /\ p.pull_requests = PermissivePullRequests /\ p.status_checks = None
        /\ \A f \in Toggle : p[f] = Default(f)
    BY <1>1, <1>3, NothingReadRuleset
  <2>2. ReadHeld(ReviewsHeld) = PermissivePullRequests /\ ReadChecks(ChecksHeld) = None
    BY <1>3 DEF ReadHeld, ReviewsHeld, ChecksHeld, ReadReviewRule, ReadChecks
  <2>3. ASSUME NEW f \in Toggle PROVE p[f] = ToggleHeld(f)
    <3>1. p[f] = (f \in Inverted)
      BY <2>1, ToggleType
    <3>. QED
      BY <1>3, <2>1, <3>1 DEF ToggleHeld, RuleHeld
  <2>. QED
    BY <1>2, <2>1, <2>2, <2>3
<1>4. CASE raw # None
  <2>1. raw \in Ruleset
    BY <1>2, <1>4
  <2>2. /\ p = [f \in Field |-> p[f]]
        /\ p.pull_requests = ReadReviewRule(raw.reviews)
        /\ p.status_checks = ReadChecks(raw.checks)
        /\ \A f \in RulesetUnsupported : p[f] = Default(f)
        /\ \A f \in DOMAIN RuleOf : p[f] = ((RuleOf[f] \in raw.rules) = (f \notin Inverted))
    BY <1>1, <2>1, RulesetRead
  <2>3. ReadHeld(ReviewsHeld) = ReadReviewRule(raw.reviews) /\ ChecksHeld = raw.checks
    BY <1>4 DEF ReadHeld, ReviewsHeld, ChecksHeld
  <2>4. ASSUME NEW f \in Toggle PROVE p[f] = ToggleHeld(f)
    BY <1>4, <2>2, RulesetFields DEF ToggleHeld, RuleHeld
  <2>. QED
    BY <1>2, <2>2, <2>3, <2>4
<1>. QED
  BY <1>3, <1>4

(* What the policy reads is what GitHub holds. *)
CurrentIsHeld ==
  /\ Current = [f \in Field |-> Current[f]]
  /\ Current.pull_requests = ReadHeld(ReviewsHeld)
  /\ Current.status_checks = ReadChecks(ChecksHeld)
  /\ \A f \in Toggle : Current[f] = ToggleHeld(f)

LEMMA Held == TypeOK => CurrentIsHeld
BY HeldClassic, HeldRuleset DEF TypeOK, CurrentIsHeld

LEMMA HeldLater == TypeOK' => CurrentIsHeld'
BY Held, PTL

(* A plan about to be written, and what is found after the write. *)
LEMMA ClassicWritten ==
  ASSUME IInv, IInv', Write, enforcement = "branch_protection", NEW p, p = plan.resolved
  PROVE  /\ ReviewsHeld' = ReviewsPayload(p.pull_requests)
         /\ ChecksHeld' = ChecksPayload(p.status_checks, ChecksHeld)
         /\ \A f \in Toggle : ToggleHeld(f)' =
              IF f = "clear_restrictions" THEN p[f] \/ ToggleHeld(f) ELSE p[f]
         /\ raw # None =>
              /\ raw'.block_creations = Unwrap(raw.block_creations, FALSE)
              /\ raw'.restrictions =
                   IF p.clear_restrictions THEN None ELSE raw.restrictions
<1>1. /\ IsBranchPolicy(p) /\ raw \in Protection \cup {None} /\ signed \in BOOLEAN
      /\ enforcement' = enforcement
      /\ p = Target /\ plan.changes = Changes /\ Valid(enforcement, p)
  BY DEF IInv, PlanIsCurrent, TypeOK, Object, Write, policy
<1>2. /\ raw' = Stored(ProtectionPayload(p, raw))
      /\ signed' = IF "signed_commits" \in plan.changes THEN p.signed_commits ELSE signed
  BY DEF Write, WriteProtection, WriteRuleset
<1>3. PICK new : new = raw'
  OBVIOUS
<1>4. /\ new \in Protection
      /\ new.reviews = ReviewsPayload(p.pull_requests)
      /\ new.checks = ChecksPayload(p.status_checks, IF raw = None THEN None ELSE raw.checks)
      /\ \A f \in Flag \ {"allow_fork_syncing"} : new.flags[f] = p[f]
      /\ new.flags.allow_fork_syncing = (p.allow_fork_syncing /\ p.lock_branch)
      /\ new.restrictions = RestrictionsPayload(p, raw)
      /\ new.block_creations = IF raw = None THEN FALSE ELSE Unwrap(raw.block_creations, FALSE)
  <2>1. new = Stored(ProtectionPayload(p, raw))
    BY <1>2, <1>3
  <2>2. IsProtectionWritten(p, raw, new)
    BY <1>1, <2>1, ProtectionWritten
  <2>. QED
    BY <2>2 DEF IsProtectionWritten
<1>5. new # None
  BY <1>4, ReconcileAssumption
<1>6. \A f \in Toggle : p[f] \in BOOLEAN
  BY <1>1, PolicyParts
<1>7. ReviewsHeld' = ReviewsPayload(p.pull_requests)
      /\ ChecksHeld' = ChecksPayload(p.status_checks, ChecksHeld)
  BY <1>3, <1>4, <1>5 DEF ReviewsHeld, ChecksHeld
<1>8. ASSUME NEW f \in Flag PROVE ToggleHeld(f)' = p[f]
  <2>1. p.allow_fork_syncing => p.lock_branch
    BY <1>1 DEF Valid
  <2>2. new.flags[f] = p[f]
    BY <1>4, <1>6, <2>1, Fields
  <2>3. p[f] # None
    BY <1>6, Fields, ReconcileAssumption
  <2>4. f # "signed_commits" /\ f # "clear_restrictions" /\ enforcement' # "ruleset"
    BY <1>1, Fields
  <2>5. ToggleHeld(f)' = FlagHeld(f)'
    BY <2>4 DEF ToggleHeld
  <2>6. FlagHeld(f)' = new.flags[f]
    BY <1>3, <1>5, <2>2, <2>3 DEF FlagHeld, Unwrap
  <2>. QED
    BY <2>2, <2>5, <2>6
<1>9. ToggleHeld("signed_commits")' = p.signed_commits
  <2>1. ToggleHeld("signed_commits")' = signed'
    BY <1>1 DEF ToggleHeld
  <2>2. CASE "signed_commits" \in plan.changes
    BY <1>2, <2>1, <2>2
  <2>3. CASE "signed_commits" \notin plan.changes
    <3>1. Current.signed_commits = signed
      BY Held DEF IInv, CurrentIsHeld, ToggleHeld, Toggle
    <3>2. ~Differs("signed_commits", p, Current)
      BY <1>1, <2>3 DEF Changes, Diff, Field, Toggle
    <3>3. p.signed_commits = Current.signed_commits
      BY <1>1, <1>6, <3>1, <3>2, Fields
         DEF Differs, Same, IsEmpty, NothingToClear, Inverted
    <3>. QED
      BY <1>2, <2>1, <2>3, <3>1, <3>3
  <2>. QED
    BY <2>2, <2>3
<1>10. ToggleHeld("clear_restrictions")' = (p.clear_restrictions \/ ToggleHeld("clear_restrictions"))
  <2>1. ToggleHeld("clear_restrictions")' = (new.restrictions = None)
    BY <1>1, <1>3, <1>5 DEF ToggleHeld, Restricted
  <2>2. ToggleHeld("clear_restrictions") = (raw = None \/ raw.restrictions = None)
    BY DEF ToggleHeld, Restricted
  <2>3. p.clear_restrictions \in BOOLEAN
    BY <1>6, Fields
  <2>. QED
    BY <1>4, <2>1, <2>2, <2>3 DEF RestrictionsPayload
<1>11. \A f \in Toggle : ToggleHeld(f)' =
          IF f = "clear_restrictions" THEN p[f] \/ ToggleHeld(f) ELSE p[f]
  BY <1>8, <1>9, <1>10, Fields
<1>12. raw # None =>
         /\ raw'.block_creations = Unwrap(raw.block_creations, FALSE)
         /\ raw'.restrictions = IF p.clear_restrictions THEN None ELSE raw.restrictions
  BY <1>3, <1>4 DEF RestrictionsPayload
<1>. QED
  BY <1>7, <1>11, <1>12

LEMMA RulesetKept ==
  ASSUME IInv, IInv', Write, enforcement = "ruleset", NEW p, p = plan.resolved
  PROVE  /\ ReviewsHeld' = ReviewRulePayload(p.pull_requests, ReviewsHeld)
         /\ ChecksHeld' = CheckRulePayload(p.status_checks, ChecksHeld)
         /\ \A f \in Toggle : ToggleHeld(f)' = p[f]
         /\ raw # None => raw'.unmodelled = raw.unmodelled
         /\ raw' # None /\ raw'.metadata = Canonical
<1>1. /\ IsBranchPolicy(p) /\ raw \in Ruleset \cup {None} /\ enforcement' = enforcement
      /\ Valid(enforcement, p)
  BY DEF IInv, PlanIsCurrent, TypeOK, Object, Write, policy
<1>2. raw' = RulesetPayload(p, raw)
  BY DEF Write, WriteProtection, WriteRuleset
<1>3. PICK new : new = raw'
  OBVIOUS
<1>4. /\ new \in Ruleset /\ new.metadata = Canonical
      /\ \A f \in DOMAIN RuleOf : (RuleOf[f] \in new.rules) = (p[f] = (f \notin Inverted))
      /\ new.reviews =
           ReviewRulePayload(p.pull_requests, IF raw = None THEN None ELSE raw.reviews)
      /\ new.checks =
           CheckRulePayload(p.status_checks, IF raw = None THEN None ELSE raw.checks)
      /\ new.unmodelled = IF raw = None THEN {} ELSE raw.unmodelled
  BY <1>1, <1>2, <1>3, RulesetWritten
<1>5. new # None
  BY <1>4, ReconcileAssumption
<1>6. \A f \in Toggle : p[f] \in BOOLEAN
  BY <1>1, PolicyParts
<1>7. /\ ReviewsHeld' = ReviewRulePayload(p.pull_requests, ReviewsHeld)
      /\ ChecksHeld' = CheckRulePayload(p.status_checks, ChecksHeld)
  BY <1>3, <1>4, <1>5 DEF ReviewsHeld, ChecksHeld
<1>8. ASSUME NEW f \in Toggle PROVE ToggleHeld(f)' = p[f]
  <2>1. CASE f \in RulesetUnsupported
    BY <1>1, <2>1 DEF ToggleHeld, Valid
  <2>2. CASE f \notin RulesetUnsupported
    <3>1. f \in DOMAIN RuleOf
      BY <2>2, RulesetFields
    <3>2. RuleHeld(f)' = (p[f] = (f \notin Inverted))
      BY <1>3, <1>4, <1>5, <3>1 DEF RuleHeld
    <3>. QED
      BY <1>1, <1>6, <2>2, <3>2 DEF ToggleHeld
  <2>. QED
    BY <2>1, <2>2
<1>. QED
  BY <1>3, <1>4, <1>5, <1>7, <1>8

LEMMA PlanMerges ==
  ASSUME IInv, phase = "planned", NEW p, p = plan.resolved, NEW c, c = Current
  PROVE  /\ IsBranchPolicy(c) /\ IsBranchPolicy(p)
         /\ \A g \in ReviewField : p.pull_requests[g] =
              IF g \in DOMAIN DeclaredReviews(declared) THEN DeclaredReviews(declared)[g]
              ELSE IF strict THEN PermissivePullRequests[g] ELSE c.pull_requests[g]
         /\ \A f \in Field \ {"pull_requests"} : p[f] =
              IF f \in DOMAIN declared THEN declared[f]
              ELSE IF strict THEN Default(f) ELSE c[f]
<1>1. WellFormed(declared) /\ strict \in BOOLEAN /\ Readable /\ p = Target
  BY DEF IInv, TypeOK, PlanIsCurrent
<1>2. IsBranchPolicy(c)
  BY <1>1, CurrentType DEF IInv
<1>3. p = Merge(declared, c, strict)
  BY <1>1 DEF Target
<1>4. IsPullRequestPolicy(c.pull_requests)
  BY <1>2 DEF IsBranchPolicy
<1>5. /\ IsBranchPolicy(p)
      /\ p.pull_requests = MergePullRequests(DeclaredReviews(declared), c.pull_requests, strict)
      /\ \A f \in Field \ {"pull_requests"} : p[f] =
           IF f \in DOMAIN declared THEN declared[f]
           ELSE IF strict THEN Default(f) ELSE c[f]
  BY <1>1, <1>2, <1>3, Merged
<1>. QED
  BY <1>1, <1>2, <1>4, <1>5, MergedReviews

-----------------------------------------------------------------------------
(* A write leaves the rest alone. *)

LEMMA SameAsItself == ASSUME NEW a \in Actors \cup {None} PROVE SameActors(a, a)
BY DEF SameActors, Actors

LEMMA ReviewFields ==
  /\ "required" \in ReviewField /\ "approvals" \in ReviewField
  /\ "code_owner_review" \in ReviewField /\ "dismiss_stale_reviews" \in ReviewField
  /\ "require_last_push_approval" \in ReviewField
  /\ "dismissal_restrictions" \in ReviewField
  /\ "bypass_pull_request_allowances" \in ReviewField
BY DEF ReviewField

LEMMA ReviewsStay ==
  ASSUME enforcement = "branch_protection",
         NEW held \in Reviews \cup {None}, NEW d, NEW p, IsPullRequestPolicy(p),
         \A g \in ReviewField : g \in DOMAIN d \/ p[g] = ReadReviews(held)[g],
         NEW new, new = ReviewsPayload(p)
  PROVE  /\ "required" \in DOMAIN d \/ (held = None) = (new = None)
         /\ ReviewsKept(d, held, new)
<1>1. new \in Reviews \cup {None} /\ p.required \in BOOLEAN /\ (p.required => new \in Reviews)
  <2>1. new \in Reviews \cup {None} /\ p.required \in BOOLEAN
    BY ReviewsPayloadType, ReviewParts
  <2>2. ASSUME p.required PROVE new \in Reviews
    BY <2>2, ReviewParts DEF ReviewsPayload, Reviews, MaxApprovals,
       DismissalRestrictions, BypassPullRequestAllowances
  <2>. QED
    BY <2>1, <2>2
<1>2. (new = None) = ~p.required
  BY <1>1, ReconcileAssumption DEF ReviewsPayload
<1>3. "required" \in DOMAIN d \/ (held = None) = (new = None)
  <2>1. ReadReviews(held).required = (held # None)
    BY PermissiveType DEF ReadReviews
  <2>. QED
    BY <1>1, <1>2, <2>1, ReviewFields
<1>4. ASSUME held # None, new # None PROVE ReviewsKept(d, held, new)
  <2>1. PICK q : q = ReadReviews(held)
    OBVIOUS
  <2>2. /\ q.approvals = held.count /\ q.code_owner_review = held.code_owners
        /\ q.dismiss_stale_reviews = held.dismiss_stale
        /\ q.require_last_push_approval = held.last_push
        /\ q.dismissal_restrictions = ReadDismissal(held.dismissal)
        /\ q.bypass_pull_request_allowances = held.bypass
    BY <1>4, <2>1 DEF ReadReviews
  <2>3. /\ new.count = p.approvals /\ new.code_owners = p.code_owner_review
        /\ new.dismiss_stale = p.dismiss_stale_reviews
        /\ new.last_push = p.require_last_push_approval
        /\ new.dismissal = p.dismissal_restrictions
        /\ new.bypass = p.bypass_pull_request_allowances
    BY <1>2, <1>4 DEF ReviewsPayload
  <2>4. held.dismissal \in Actors \cup {None} /\ held.bypass \in Actors \cup {None}
    BY <1>4 DEF Reviews
  <2>5. ReadDismissal(held.dismissal) \in Actors \cup {None}
    BY <2>4 DEF ReadDismissal, Actors
  <2>6. /\ "dismissal_restrictions" \in DOMAIN d
             \/ SameActors(ReadDismissal(held.dismissal), new.dismissal)
        /\ "bypass_pull_request_allowances" \in DOMAIN d
             \/ SameActors(held.bypass, new.bypass)
    BY <2>1, <2>2, <2>3, <2>4, <2>5, SameAsItself, ReviewFields
  <2>7. /\ "approvals" \in DOMAIN d \/ held.count = new.count
        /\ "code_owner_review" \in DOMAIN d \/ held.code_owners = new.code_owners
        /\ "dismiss_stale_reviews" \in DOMAIN d \/ held.dismiss_stale = new.dismiss_stale
        /\ "require_last_push_approval" \in DOMAIN d \/ held.last_push = new.last_push
    BY <2>1, <2>2, <2>3, ReviewFields
  <2>. QED
    BY <2>6, <2>7 DEF ReviewsKept
<1>5. ReviewsKept(d, held, new)
  BY <1>4 DEF ReviewsKept
<1>. QED
  BY <1>3, <1>5

LEMMA ReviewRuleStays ==
  ASSUME enforcement = "ruleset",
         NEW held \in ReviewRule \cup {None}, NEW d, NEW p, IsPullRequestPolicy(p),
         \A g \in ReviewField : g \in DOMAIN d \/ p[g] = ReadReviewRule(held)[g],
         NEW new, new = ReviewRulePayload(p, held)
  PROVE  /\ "required" \in DOMAIN d \/ (held = None) = (new = None)
         /\ ReviewsKept(d, held, new)
         /\ held # None /\ new # None => new.thread_resolution = held.thread_resolution
<1>1. new \in ReviewRule \cup {None} /\ p.required \in BOOLEAN
      /\ (p.required => new \in ReviewRule)
  <2>1. new \in ReviewRule \cup {None} /\ p.required \in BOOLEAN
    BY ReviewRulePayloadType, ReviewParts
  <2>2. (held # None /\ held.thread_resolution) \in BOOLEAN
    OBVIOUS
  <2>3. ASSUME p.required PROVE new \in ReviewRule
    BY <2>2, <2>3, ReviewParts DEF ReviewRulePayload, ReviewRule, MaxApprovals
  <2>. QED
    BY <2>1, <2>3
<1>2. (new = None) = ~p.required
  BY <1>1, ReconcileAssumption DEF ReviewRulePayload
<1>3. "required" \in DOMAIN d \/ (held = None) = (new = None)
  <2>1. ReadReviewRule(held).required = (held # None)
    BY PermissiveType DEF ReadReviewRule
  <2>. QED
    BY <1>1, <1>2, <2>1, ReviewFields
<1>4. ASSUME held # None, new # None
      PROVE  ReviewsKept(d, held, new) /\ new.thread_resolution = held.thread_resolution
  <2>1. PICK q : q = ReadReviewRule(held)
    OBVIOUS
  <2>2. /\ q.approvals = held.count /\ q.code_owner_review = held.code_owners
        /\ q.dismiss_stale_reviews = held.dismiss_stale
        /\ q.require_last_push_approval = held.last_push
    BY <1>4, <2>1 DEF ReadReviewRule
  <2>3. /\ new.count = p.approvals /\ new.code_owners = p.code_owner_review
        /\ new.dismiss_stale = p.dismiss_stale_reviews
        /\ new.last_push = p.require_last_push_approval
        /\ new.thread_resolution = held.thread_resolution
    <3>1. held.thread_resolution \in BOOLEAN
      BY <1>4 DEF ReviewRule
    <3>. QED
      BY <1>2, <1>4, <3>1 DEF ReviewRulePayload
  <2>4. /\ "approvals" \in DOMAIN d \/ held.count = new.count
        /\ "code_owner_review" \in DOMAIN d \/ held.code_owners = new.code_owners
        /\ "dismiss_stale_reviews" \in DOMAIN d \/ held.dismiss_stale = new.dismiss_stale
        /\ "require_last_push_approval" \in DOMAIN d \/ held.last_push = new.last_push
    BY <2>1, <2>2, <2>3, ReviewFields
  <2>. QED
    BY <2>3, <2>4 DEF ReviewsKept
<1>5. ReviewsKept(d, held, new)
  BY <1>4 DEF ReviewsKept
<1>. QED
  BY <1>3, <1>4, <1>5

ContextsOf(checks) == IF checks = None THEN {} ELSE Contexts(checks)

LEMMA ChecksStay ==
  ASSUME enforcement = "branch_protection", NEW held \in Checks \cup {None},
         NEW p \in StatusChecksPolicy \cup {None}, NEW new, new = ChecksPayload(p, held)
  PROVE  /\ new \in Checks \cup {None}
         /\ ContextsOf(new) = IF IsUnset(p) THEN {} ELSE p.required
         /\ held # None /\ new # None => ChecksKept(held, new)
<1>1. new \in Checks \cup {None}
  BY ChecksPayloadType
<1>2. CASE IsUnset(p)
  BY <1>1, <1>2 DEF ChecksPayload, ContextsOf
<1>3. CASE ~IsUnset(p)
  <2>1. p.required \subseteq Context /\ p.order \in Order
    BY <1>3 DEF IsUnset, StatusChecksPolicy
  <2>2. PICK pins : pins = PinsPayload(p, held)
    OBVIOUS
  <2>3. \A x \in Context :
          pins[x] = IF x \in p.required THEN {KeptPin(CurrentPins(held)[x])} ELSE {}
    BY <2>2, PinsPayloadType
  <2>4. pins \in Pins /\ new # None /\ new.pins = pins
        /\ new.strict = (held # None /\ held.strict)
    <3>1. pins \in Pins
      BY <2>2, PinsPayloadType
    <3>2. new.pins = pins /\ new.strict = (held # None /\ held.strict)
      BY <1>3, <2>2 DEF ChecksPayload
    <3>3. new \in Checks
      <4>1. (held # None /\ held.strict) \in BOOLEAN
        OBVIOUS
      <4>. QED
        BY <1>3, <2>1, <2>2, <3>1, <4>1 DEF ChecksPayload, Checks
    <3>. QED
      BY <3>1, <3>2, <3>3, ReconcileAssumption
  <2>5. Contexts(new) = p.required
    BY <2>1, <2>3, <2>4 DEF Contexts
  <2>6. ASSUME held # None PROVE ChecksKept(held, new)
    <3>1. ASSUME NEW x \in Contexts(held) \cap Contexts(new)
          PROVE  new.pins[x] \subseteq held.pins[x]
      <4>1. x \in Context /\ held.pins[x] # {} /\ x \in p.required
        BY <2>5 DEF Contexts
      <4>2. CurrentPins(held)[x] = held.pins[x]
        BY <2>6 DEF CurrentPins
      <4>3. KeptPin(held.pins[x]) \in held.pins[x]
        BY <4>1 DEF KeptPin
      <4>. QED
        BY <2>3, <2>4, <4>1, <4>2, <4>3
    <3>2. new.strict = held.strict
      BY <2>4, <2>6 DEF Checks
    <3>. QED
      BY <3>1, <3>2 DEF ChecksKept
  <2>. QED
    BY <1>1, <1>3, <2>4, <2>5, <2>6 DEF ContextsOf
<1>. QED
  BY <1>2, <1>3

LEMMA CheckRuleStays ==
  ASSUME enforcement = "ruleset", NEW held \in CheckRule \cup {None},
         NEW p \in StatusChecksPolicy \cup {None}, NEW new, new = CheckRulePayload(p, held)
  PROVE  /\ new \in CheckRule \cup {None}
         /\ ContextsOf(new) = IF IsUnset(p) THEN {} ELSE p.required
         /\ held # None /\ new # None => ChecksKept(held, new)
<1>1. new \in CheckRule \cup {None}
  BY CheckRulePayloadType
<1>2. CASE IsUnset(p)
  BY <1>1, <1>2 DEF CheckRulePayload, ContextsOf
<1>3. CASE ~IsUnset(p)
  <2>1. p.required \subseteq Context /\ p.order \in Order
    BY <1>3 DEF IsUnset, StatusChecksPolicy
  <2>2. PICK pins : pins = PinsPayload(p, held)
    OBVIOUS
  <2>3. \A x \in Context :
          pins[x] = IF x \in p.required THEN {KeptPin(CurrentPins(held)[x])} ELSE {}
    BY <2>2, PinsPayloadType
  <2>4. pins \in Pins /\ new # None /\ new.pins = pins
        /\ new.strict = (held # None /\ held.strict)
        /\ new.on_create = (held # None /\ held.on_create)
    <3>1. pins \in Pins
      BY <2>2, PinsPayloadType
    <3>2. new.pins = pins /\ new.strict = (held # None /\ held.strict)
        /\ new.on_create = (held # None /\ held.on_create)
      BY <1>3, <2>2 DEF CheckRulePayload
    <3>3. new \in CheckRule
      <4>1. (held # None /\ held.strict) \in BOOLEAN /\ (held # None /\ held.on_create) \in BOOLEAN
        OBVIOUS
      <4>. QED
        BY <1>3, <2>1, <2>2, <3>1, <4>1 DEF CheckRulePayload, CheckRule
    <3>. QED
      BY <3>1, <3>2, <3>3, ReconcileAssumption
  <2>5. Contexts(new) = p.required
    BY <2>1, <2>3, <2>4 DEF Contexts
  <2>6. ASSUME held # None PROVE ChecksKept(held, new)
    <3>1. ASSUME NEW x \in Contexts(held) \cap Contexts(new)
          PROVE  new.pins[x] \subseteq held.pins[x]
      <4>1. x \in Context /\ held.pins[x] # {} /\ x \in p.required
        BY <2>5 DEF Contexts
      <4>2. CurrentPins(held)[x] = held.pins[x]
        BY <2>6 DEF CurrentPins
      <4>3. KeptPin(held.pins[x]) \in held.pins[x]
        BY <4>1 DEF KeptPin
      <4>. QED
        BY <2>3, <2>4, <4>1, <4>2, <4>3
    <3>2. new.strict = held.strict /\ new.on_create = held.on_create
      BY <2>4, <2>6 DEF CheckRule
    <3>. QED
      BY <3>1, <3>2 DEF ChecksKept
  <2>. QED
    BY <1>1, <1>3, <2>4, <2>5, <2>6 DEF ContextsOf
<1>. QED
  BY <1>2, <1>3

(* What a write leaves alone, from what it writes. *)
LEMMA ContextsAreOf == ContextsHeld = ContextsOf(ChecksHeld)
BY DEF ContextsHeld, ContextsOf, ChecksHeld

LEMMA ContextsAreOfLater == ContextsHeld' = ContextsOf(ChecksHeld')
BY DEF ContextsHeld, ContextsOf, ChecksHeld

LEMMA ContextsRead ==
  ASSUME NEW held \in Checks \cup CheckRule \cup {None}, NEW p, p = ReadChecks(held)
  PROVE  /\ (IF IsUnset(p) THEN {} ELSE p.required) = ContextsOf(held)
         /\ p \in StatusChecksPolicy \cup {None}
<1>1. CASE held = None
  BY <1>1 DEF ReadChecks, IsUnset, ContextsOf
<1>2. CASE held # None /\ Contexts(held) = {}
  BY <1>2 DEF ReadChecks, IsUnset, ContextsOf
<1>3. CASE held # None /\ Contexts(held) # {}
  <2>1. held.order \in Order /\ Contexts(held) \in SUBSET Context
    BY <1>3 DEF Checks, CheckRule, Contexts
  <2>2. p = [required |-> Contexts(held), order |-> held.order]
    BY <1>3 DEF ReadChecks
  <2>3. p \in StatusChecksPolicy /\ p # None
    BY <2>1, <2>2, ReconcileAssumption DEF StatusChecksPolicy
  <2>. QED
    BY <1>3, <2>2, <2>3 DEF IsUnset, ContextsOf
<1>. QED
  BY <1>1, <1>2, <1>3

LEMMA TogglesStay ==
  ASSUME IInv, IInv', Write, NEW f \in Toggle \ DOMAIN declared, ~strict
  PROVE  ToggleHeld(f)' = ToggleHeld(f)
<1>1. PICK p : p = plan.resolved
  OBVIOUS
<1>2. PICK c : c = Current
  OBVIOUS
<1>3. p[f] = c[f] /\ c[f] \in BOOLEAN
  <2>1. phase = "planned"
    BY DEF Write
  <2>2. f \in Field \ {"pull_requests"}
    BY Fields
  <2>3. IsBranchPolicy(c) /\ p[f] = c[f]
    BY <1>1, <1>2, <2>1, <2>2, PlanMerges
  <2>. QED
    BY <2>3, PolicyParts
<1>4. c[f] = ToggleHeld(f)
  BY <1>2, Held DEF IInv, CurrentIsHeld
<1>5. CASE enforcement = "ruleset"
  BY <1>1, <1>3, <1>4, <1>5, RulesetKept
<1>6. CASE enforcement # "ruleset"
  <2>1. ToggleHeld(f)' = IF f = "clear_restrictions" THEN p[f] \/ ToggleHeld(f) ELSE p[f]
    BY <1>1, <1>6, ClassicWritten DEF IInv, TypeOK
  <2>. QED
    BY <1>3, <1>4, <2>1
<1>. QED
  BY <1>5, <1>6

LEMMA ClassicKeeps ==
  ASSUME IInv, IInv', Write, enforcement = "branch_protection"
  PROVE  UnmodelledKept /\ (strict \/ UndeclaredKept)
<1>1. PICK p : p = plan.resolved
  OBVIOUS
<1>2. PICK c : c = Current
  OBVIOUS
<1>3. PICK held : held = ReviewsHeld
  OBVIOUS
<1>4. PICK old : old = ChecksHeld
  OBVIOUS
<1>5. PICK d : d = DeclaredReviews(declared)
  OBVIOUS
<1>6. phase = "planned" /\ enforcement # "ruleset" /\ enforcement' = enforcement
  BY DEF Write, policy
<1>7. held \in Reviews \cup {None} /\ old \in Checks \cup {None}
  <2>1. raw \in Protection \cup {None}
    BY DEF IInv, TypeOK, Object
  <2>. QED
    BY <1>3, <1>4, <2>1 DEF Protection, ReviewsHeld, ChecksHeld
<1>8. /\ IsBranchPolicy(p)
      /\ \A g \in ReviewField : p.pull_requests[g] =
           IF g \in DOMAIN d THEN d[g]
           ELSE IF strict THEN PermissivePullRequests[g] ELSE c.pull_requests[g]
      /\ \A f \in Field \ {"pull_requests"} : p[f] =
           IF f \in DOMAIN declared THEN declared[f]
           ELSE IF strict THEN Default(f) ELSE c[f]
  BY <1>1, <1>2, <1>5, <1>6, PlanMerges
<1>9. c.pull_requests = ReadReviews(held) /\ c.status_checks = ReadChecks(old)
  BY <1>2, <1>3, <1>4, <1>6, Held DEF IInv, CurrentIsHeld, ReadHeld
<1>10. PICK new : new = ReviewsHeld'
  OBVIOUS
<1>11. PICK checks : checks = ChecksHeld'
  OBVIOUS
<1>12. /\ new = ReviewsPayload(p.pull_requests)
       /\ checks = ChecksPayload(p.status_checks, old)
       /\ raw # None =>
            /\ raw'.block_creations = Unwrap(raw.block_creations, FALSE)
            /\ raw'.restrictions = IF p.clear_restrictions THEN None ELSE raw.restrictions
  BY <1>1, <1>4, <1>10, <1>11, ClassicWritten
<1>13. IsPullRequestPolicy(p.pull_requests) /\ p.status_checks \in StatusChecksPolicy \cup {None}
  BY <1>8, PolicyParts
<1>14. /\ ContextsOf(checks) =
            IF IsUnset(p.status_checks) THEN {} ELSE p.status_checks.required
       /\ old # None /\ checks # None => ChecksKept(old, checks)
  <2>1. PICK q : q = p.status_checks
    OBVIOUS
  <2>2. /\ checks = ChecksPayload(q, old) /\ q \in StatusChecksPolicy \cup {None}
        /\ old \in Checks \cup {None} /\ enforcement = "branch_protection"
    BY <1>7, <1>12, <1>13, <2>1
  <2>3. /\ ContextsOf(checks) = IF IsUnset(q) THEN {} ELSE q.required
        /\ old # None /\ checks # None => ChecksKept(old, checks)
    BY ONLY <2>2, ChecksStay
  <2>. QED
    BY ONLY <2>1, <2>3
<1>15. UnmodelledKept
  <2>1. raw # None => old = raw.checks
    BY <1>4 DEF ChecksHeld
  <2>2. checks # None => checks = raw'.checks
    BY <1>11 DEF ChecksHeld
  <2>3. ASSUME raw # None, raw.checks # None, raw'.checks # None
        PROVE  ChecksKept(raw.checks, raw'.checks)
    <3>1. raw' # None
      <4>1. raw' = Stored(ProtectionPayload(plan.resolved, raw))
        BY <1>6 DEF Write, WriteProtection, WriteRuleset
      <4>2. raw \in Protection \cup {None}
        BY DEF IInv, TypeOK, Object
      <4>3. IsProtectionWritten(p, raw, raw')
        BY <1>1, <1>8, <4>1, <4>2, ProtectionWritten
      <4>. QED
        BY <4>3, ReconcileAssumption DEF IsProtectionWritten
    <3>2. checks = raw'.checks
      BY <1>11, <3>1 DEF ChecksHeld
    <3>. QED
      BY <1>14, <2>1, <2>3, <3>2
  <2>4. raw # None =>
          raw'.restrictions = IF ClearsRestrictions THEN None ELSE raw.restrictions
    <3>1. p.clear_restrictions =
            IF "clear_restrictions" \in DOMAIN declared THEN declared.clear_restrictions
            ELSE IF strict THEN TRUE ELSE c.clear_restrictions
      BY <1>8, Fields, ToggleType DEF Inverted
    <3>2. c.clear_restrictions = ~Restricted
      BY <1>2, <1>6, Held, Fields DEF IInv, CurrentIsHeld, ToggleHeld
    <3>. QED
      BY <1>12, <3>1, <3>2 DEF ClearsRestrictions, Restricted
  <2>. QED
    BY <1>6, <1>12, <2>3, <2>4 DEF UnmodelledKept
<1>16. ASSUME ~strict PROVE UndeclaredKept
  <2>1. \A g \in ReviewField :
          g \in DOMAIN d \/ p.pull_requests[g] = ReadReviews(held)[g]
    BY <1>8, <1>9, <1>16
  <2>2. /\ "required" \in DOMAIN d \/ (held = None) = (new = None)
        /\ ReviewsKept(d, held, new)
    BY <1>7, <1>12, <1>13, <2>1, ReviewsStay
  <2>3. "status_checks" \in DOMAIN declared \/ ContextsOf(checks) = ContextsOf(old)
    <3>1. "status_checks" \in Field \ {"pull_requests"}
      BY Fields
    <3>. QED
      BY <1>7, <1>8, <1>9, <1>14, <1>16, <3>1, ContextsRead
  <2>4. ContextsHeld = ContextsOf(old) /\ ContextsHeld' = ContextsOf(checks)
    BY <1>4, <1>11, ContextsAreOf, ContextsAreOfLater
  <2>5. \A f \in Toggle \ DOMAIN declared : ToggleHeld(f)' = ToggleHeld(f)
    BY <1>16, TogglesStay
  <2>. QED
    BY <1>3, <1>5, <1>10, <2>2, <2>3, <2>4, <2>5 DEF UndeclaredKept
<1>. QED
  BY <1>15, <1>16

LEMMA RulesetKeeps ==
  ASSUME IInv, IInv', Write, enforcement = "ruleset"
  PROVE  UnmodelledKept /\ (strict \/ UndeclaredKept)
<1>1. PICK p : p = plan.resolved
  OBVIOUS
<1>2. PICK c : c = Current
  OBVIOUS
<1>3. PICK held : held = ReviewsHeld
  OBVIOUS
<1>4. PICK old : old = ChecksHeld
  OBVIOUS
<1>5. PICK d : d = DeclaredReviews(declared)
  OBVIOUS
<1>6. phase = "planned" /\ enforcement # "branch_protection" /\ enforcement' = enforcement
  BY DEF Write, policy
<1>7. held \in ReviewRule \cup {None} /\ old \in CheckRule \cup {None}
  <2>1. raw \in Ruleset \cup {None}
    BY DEF IInv, TypeOK, Object
  <2>. QED
    BY <1>3, <1>4, <2>1 DEF Ruleset, ReviewsHeld, ChecksHeld
<1>8. /\ IsBranchPolicy(p)
      /\ \A g \in ReviewField : p.pull_requests[g] =
           IF g \in DOMAIN d THEN d[g]
           ELSE IF strict THEN PermissivePullRequests[g] ELSE c.pull_requests[g]
      /\ \A f \in Field \ {"pull_requests"} : p[f] =
           IF f \in DOMAIN declared THEN declared[f]
           ELSE IF strict THEN Default(f) ELSE c[f]
  BY <1>1, <1>2, <1>5, <1>6, PlanMerges
<1>9. c.pull_requests = ReadReviewRule(held) /\ c.status_checks = ReadChecks(old)
  BY <1>2, <1>3, <1>4, <1>6, Held DEF IInv, CurrentIsHeld, ReadHeld
<1>10. PICK new : new = ReviewsHeld'
  OBVIOUS
<1>11. PICK checks : checks = ChecksHeld'
  OBVIOUS
<1>12. /\ new = ReviewRulePayload(p.pull_requests, held)
       /\ checks = CheckRulePayload(p.status_checks, old)
       /\ raw # None => raw'.unmodelled = raw.unmodelled
       /\ raw' # None
  BY <1>1, <1>3, <1>4, <1>10, <1>11, RulesetKept
<1>13. IsPullRequestPolicy(p.pull_requests) /\ p.status_checks \in StatusChecksPolicy \cup {None}
  BY <1>8, PolicyParts
<1>14. /\ ContextsOf(checks) =
            IF IsUnset(p.status_checks) THEN {} ELSE p.status_checks.required
       /\ old # None /\ checks # None => ChecksKept(old, checks)
  <2>1. PICK q : q = p.status_checks
    OBVIOUS
  <2>. QED
    BY <1>7, <1>12, <1>13, <2>1, CheckRuleStays
<1>15. UnmodelledKept
  <2>1. raw # None => old = raw.checks /\ held = raw.reviews
    BY <1>3, <1>4 DEF ChecksHeld, ReviewsHeld
  <2>2. checks = raw'.checks /\ new = raw'.reviews
    BY <1>10, <1>11, <1>12 DEF ChecksHeld, ReviewsHeld
  <2>3. held # None /\ new # None => new.thread_resolution = held.thread_resolution
    <3>1. ASSUME held # None, new # None PROVE new.thread_resolution = held.thread_resolution
      <4>1. held.thread_resolution \in BOOLEAN
        BY <1>7, <3>1 DEF ReviewRule
      <4>. QED
        BY <1>12, <3>1, <4>1 DEF ReviewRulePayload
    <3>. QED
      BY <3>1
  <2>. QED
    BY <1>6, <1>12, <1>14, <2>1, <2>2, <2>3 DEF UnmodelledKept
<1>16. ASSUME ~strict PROVE UndeclaredKept
  <2>1. \A g \in ReviewField :
          g \in DOMAIN d \/ p.pull_requests[g] = ReadReviewRule(held)[g]
    BY <1>8, <1>9, <1>16
  <2>2. /\ "required" \in DOMAIN d \/ (held = None) = (new = None)
        /\ ReviewsKept(d, held, new)
    BY <1>7, <1>12, <1>13, <2>1, ReviewRuleStays
  <2>3. "status_checks" \in DOMAIN declared \/ ContextsOf(checks) = ContextsOf(old)
    <3>1. "status_checks" \in Field \ {"pull_requests"}
      BY Fields
    <3>. QED
      BY <1>7, <1>8, <1>9, <1>14, <1>16, <3>1, ContextsRead
  <2>4. ContextsHeld = ContextsOf(old) /\ ContextsHeld' = ContextsOf(checks)
    BY <1>4, <1>11, ContextsAreOf, ContextsAreOfLater
  <2>5. \A f \in Toggle \ DOMAIN declared : ToggleHeld(f)' = ToggleHeld(f)
    BY <1>16, TogglesStay
  <2>. QED
    BY <1>3, <1>5, <1>10, <2>2, <2>3, <2>4, <2>5 DEF UndeclaredKept
<1>. QED
  BY <1>15, <1>16

(* A write in managed scope leaves every field that is not declared as it is on *)
(* GitHub, and in any mode what the schema has no field for, push restrictions  *)
(* that nothing clears included                                                 *)
(* (branch_protection.py:50-61, rulesets.py:130-142).                           *)
THEOREM DeclaredOnly == Spec => OnlyTheDeclaredIsWritten
<1>1. ASSUME IInv, IInv', [Next]_vars
      PROVE  [phase = "planned" /\ <<raw, signed>>' # <<raw, signed>>
                => UnmodelledKept /\ (strict \/ UndeclaredKept)]_vars
  <2> SUFFICES ASSUME phase = "planned", <<raw, signed>>' # <<raw, signed>>
               PROVE  UnmodelledKept /\ (strict \/ UndeclaredKept)
    OBVIOUS
  <2>1. Write
    BY <1>1 DEF Next, vars, PlanBranch, PlanFails, Skip, Rerun, Reorder
  <2>2. CASE enforcement = "ruleset"
    BY <1>1, <2>1, <2>2, RulesetKeeps
  <2>3. CASE enforcement # "ruleset"
    BY <1>1, <2>1, <2>3, ClassicKeeps DEF IInv, TypeOK
  <2>. QED
    BY <2>2, <2>3
<1>. QED
  BY <1>1, InitIInv, NextIInv, PTL DEF Spec, OnlyTheDeclaredIsWritten

-----------------------------------------------------------------------------
(* Reading back what was written. *)

LEMMA ReviewsReadBack ==
  ASSUME NEW p, IsPullRequestPolicy(p), NEW q, q = ReadReviews(ReviewsPayload(p))
  PROVE  q = IF p.required THEN p ELSE PermissivePullRequests
<1>1. PICK r : r = ReviewsPayload(p)
  OBVIOUS
<1>2. CASE ~p.required
  BY <1>1, <1>2 DEF ReviewsPayload, ReadReviews
<1>3. CASE p.required
  <2>1. /\ p.approvals \in 0 .. MaxApprovals
        /\ p.dismissal_restrictions \in DismissalRestrictions \cup {None}
        /\ p.bypass_pull_request_allowances \in BypassPullRequestAllowances \cup {None}
        /\ p.required = TRUE /\ p.code_owner_review \in BOOLEAN
        /\ p.dismiss_stale_reviews \in BOOLEAN
        /\ p.require_last_push_approval \in BOOLEAN
    BY <1>3, ReviewParts
  <2>2. r = [count |-> p.approvals, code_owners |-> p.code_owner_review,
             dismiss_stale |-> p.dismiss_stale_reviews,
             last_push |-> p.require_last_push_approval,
             dismissal |-> p.dismissal_restrictions,
             bypass |-> p.bypass_pull_request_allowances]
    BY <1>1, <1>3 DEF ReviewsPayload
  <2>3. r # None
    <3>1. r \in Reviews
      BY <2>1, <2>2 DEF Reviews, MaxApprovals, DismissalRestrictions,
         BypassPullRequestAllowances
    <3>. QED
      BY <3>1, ReconcileAssumption
  <2>4. ReadDismissal(p.dismissal_restrictions) = p.dismissal_restrictions
    BY <2>1 DEF ReadDismissal, DismissalRestrictions, Actors
  <2>5. q = [required |-> TRUE, approvals |-> p.approvals,
             code_owner_review |-> p.code_owner_review,
             dismiss_stale_reviews |-> p.dismiss_stale_reviews,
             require_last_push_approval |-> p.require_last_push_approval,
             dismissal_restrictions |-> p.dismissal_restrictions,
             bypass_pull_request_allowances |-> p.bypass_pull_request_allowances]
    <3>1. /\ r.count = p.approvals /\ r.code_owners = p.code_owner_review
          /\ r.dismiss_stale = p.dismiss_stale_reviews
          /\ r.last_push = p.require_last_push_approval
          /\ r.dismissal = p.dismissal_restrictions
          /\ r.bypass = p.bypass_pull_request_allowances
      BY ONLY <2>2
    <3>2. q = ReadReviews(r) /\ r # None
      BY <1>1, <2>3
    <3>. QED
      BY ONLY <2>4, <3>1, <3>2 DEF ReadReviews
  <2>6. p = [g \in ReviewField |-> p[g]]
    BY DEF IsPullRequestPolicy
  <2>7. DOMAIN q = ReviewField /\ q = [g \in ReviewField |-> q[g]]
    BY <2>5 DEF ReviewField
  <2>8. \A g \in ReviewField : q[g] = p[g]
    <3>1. /\ q.required = p.required /\ q.approvals = p.approvals
          /\ q.code_owner_review = p.code_owner_review
          /\ q.dismiss_stale_reviews = p.dismiss_stale_reviews
          /\ q.require_last_push_approval = p.require_last_push_approval
          /\ q.dismissal_restrictions = p.dismissal_restrictions
          /\ q.bypass_pull_request_allowances = p.bypass_pull_request_allowances
      <4>1. q.required = TRUE
        BY ONLY <2>5
      <4>2. /\ q.approvals = p.approvals
            /\ q.code_owner_review = p.code_owner_review
            /\ q.dismiss_stale_reviews = p.dismiss_stale_reviews
            /\ q.require_last_push_approval = p.require_last_push_approval
        BY ONLY <2>5
      <4>3. /\ q.dismissal_restrictions = p.dismissal_restrictions
            /\ q.bypass_pull_request_allowances = p.bypass_pull_request_allowances
        BY ONLY <2>1, <2>5
      <4>. QED
        BY ONLY <2>1, <4>1, <4>2, <4>3
    <3>. QED
      BY ONLY <3>1 DEF ReviewField
  <2>. QED
    BY <1>3, <2>6, <2>7, <2>8
<1>. QED
  BY <1>2, <1>3

LEMMA ReviewRuleReadBack ==
  ASSUME NEW p, IsPullRequestPolicy(p), NEW held \in ReviewRule \cup {None},
         \A g \in ActorList : p[g] = None,
         NEW q, q = ReadReviewRule(ReviewRulePayload(p, held))
  PROVE  q = IF p.required THEN p ELSE PermissivePullRequests
<1>1. PICK r : r = ReviewRulePayload(p, held)
  OBVIOUS
<1>2. CASE ~p.required
  BY <1>1, <1>2 DEF ReviewRulePayload, ReadReviewRule
<1>3. CASE p.required
  <2>1. /\ p.approvals \in 0 .. MaxApprovals
        /\ p.dismissal_restrictions = None /\ p.bypass_pull_request_allowances = None
        /\ p.required = TRUE /\ p.code_owner_review \in BOOLEAN
        /\ p.dismiss_stale_reviews \in BOOLEAN
        /\ p.require_last_push_approval \in BOOLEAN
    BY <1>3, ReviewParts DEF ActorList
  <2>2. PICK kept : kept = (held # None /\ held.thread_resolution)
    OBVIOUS
  <2>3. r = [count |-> p.approvals, code_owners |-> p.code_owner_review,
             dismiss_stale |-> p.dismiss_stale_reviews,
             last_push |-> p.require_last_push_approval, thread_resolution |-> kept]
    BY <1>1, <1>3, <2>2 DEF ReviewRulePayload
  <2>4. r # None
    <3>1. kept \in BOOLEAN
      BY <2>2
    <3>2. r \in ReviewRule
      BY <2>1, <2>3, <3>1 DEF ReviewRule, MaxApprovals
    <3>. QED
      BY <3>2, ReconcileAssumption
  <2>5. q = [required |-> TRUE, approvals |-> p.approvals,
             code_owner_review |-> p.code_owner_review,
             dismiss_stale_reviews |-> p.dismiss_stale_reviews,
             require_last_push_approval |-> p.require_last_push_approval,
             dismissal_restrictions |-> None, bypass_pull_request_allowances |-> None]
    BY <1>1, <2>3, <2>4 DEF ReadReviewRule
  <2>6. p = [g \in ReviewField |-> p[g]]
    BY DEF IsPullRequestPolicy
  <2>7. q = [g \in ReviewField |-> q[g]]
    BY <2>5 DEF ReviewField
  <2>8. \A g \in ReviewField : q[g] = p[g]
    <3>1. /\ q.required = p.required /\ q.approvals = p.approvals
          /\ q.code_owner_review = p.code_owner_review
          /\ q.dismiss_stale_reviews = p.dismiss_stale_reviews
          /\ q.require_last_push_approval = p.require_last_push_approval
          /\ q.dismissal_restrictions = p.dismissal_restrictions
          /\ q.bypass_pull_request_allowances = p.bypass_pull_request_allowances
      <4>1. q.required = TRUE
        BY ONLY <2>5
      <4>2. /\ q.approvals = p.approvals
            /\ q.code_owner_review = p.code_owner_review
            /\ q.dismiss_stale_reviews = p.dismiss_stale_reviews
            /\ q.require_last_push_approval = p.require_last_push_approval
        BY ONLY <2>5
      <4>3. /\ q.dismissal_restrictions = p.dismissal_restrictions
            /\ q.bypass_pull_request_allowances = p.bypass_pull_request_allowances
        BY ONLY <2>1, <2>5
      <4>. QED
        BY ONLY <2>1, <4>1, <4>2, <4>3
    <3>. QED
      BY ONLY <3>1 DEF ReviewField
  <2>. QED
    BY <1>3, <2>6, <2>7, <2>8
<1>. QED
  BY <1>2, <1>3

LEMMA ChecksReadBack ==
  ASSUME NEW p \in StatusChecksPolicy \cup {None}, NEW held,
         NEW new \in Checks \cup CheckRule \cup {None},
         new = ChecksPayload(p, held) \/ new = CheckRulePayload(p, held),
         ContextsOf(new) = IF IsUnset(p) THEN {} ELSE p.required,
         NEW q, q = ReadChecks(new)
  PROVE  q = IF IsUnset(p) THEN None ELSE p
<1>1. CASE IsUnset(p)
  BY <1>1 DEF ChecksPayload, CheckRulePayload, ReadChecks
<1>2. CASE ~IsUnset(p)
  <2>1. p \in StatusChecksPolicy /\ p.required # {}
    BY <1>2 DEF IsUnset
  <2>2. new # None
    BY <1>2, <2>1 DEF ContextsOf
  <2>3. Contexts(new) = p.required
    BY <1>2, <2>2 DEF ContextsOf
  <2>4. new.order = p.order
    BY <1>2 DEF ChecksPayload, CheckRulePayload
  <2>5. q = [required |-> p.required, order |-> p.order]
    BY <2>1, <2>2, <2>3, <2>4 DEF ReadChecks
  <2>. QED
    BY <1>2, <2>1, <2>5 DEF StatusChecksPolicy
<1>. QED
  BY <1>1, <1>2

(* Resolving once more against what was written asks for nothing more. *)
LEMMA Converges ==
  ASSUME NEW e \in {"branch_protection", "ruleset"}, NEW s \in BOOLEAN,
         NEW d, WellFormed(d), NEW c, IsBranchPolicy(c),
         NEW p, p = Merge(d, c, s), Valid(e, p),
         NEW q, q = [f \in Field |-> q[f]],
         q.pull_requests = (IF p.pull_requests.required THEN p.pull_requests
                            ELSE PermissivePullRequests),
         q.status_checks = (IF IsUnset(p.status_checks) THEN None ELSE p.status_checks),
         \A f \in Toggle : q[f] =
           IF f = "clear_restrictions" THEN p[f] \/ c[f] ELSE p[f],
         NEW t, t = Merge(d, q, s)
  PROVE  IsBranchPolicy(q) /\ Valid(e, q) /\ Valid(e, t) /\ Diff(t, q) = {}
<1>1. /\ IsPullRequestPolicy(c.pull_requests) /\ \A f \in Toggle : c[f] \in BOOLEAN
  BY PolicyParts
<1>2. /\ IsBranchPolicy(p)
      /\ p.pull_requests = MergePullRequests(DeclaredReviews(d), c.pull_requests, s)
      /\ \A f \in Field \ {"pull_requests"} :
           p[f] = IF f \in DOMAIN d THEN d[f] ELSE IF s THEN Default(f) ELSE c[f]
  BY Merged
<1>3. /\ IsPullRequestPolicy(p.pull_requests)
      /\ p.status_checks \in StatusChecksPolicy \cup {None}
      /\ \A f \in Toggle : p[f] \in BOOLEAN
  BY <1>2, PolicyParts
<1>4. \A g \in ReviewField : p.pull_requests[g] =
        IF g \in DOMAIN DeclaredReviews(d) THEN DeclaredReviews(d)[g]
        ELSE IF s THEN PermissivePullRequests[g] ELSE c.pull_requests[g]
  BY <1>1, <1>2, MergedReviews
<1>5. IsBranchPolicy(q)
  <2>1. \A f \in Toggle : q[f] \in BOOLEAN
    BY <1>3
  <2>2. IsPullRequestPolicy(q.pull_requests) /\ q.status_checks \in StatusChecksPolicy \cup {None}
    BY <1>3, PermissiveType
  <2>. QED
    BY <2>1, <2>2, PolicyType
<1>6. IsPullRequestPolicy(q.pull_requests)
  BY <1>5, PolicyParts
<1>7. /\ IsBranchPolicy(t)
      /\ t.pull_requests = MergePullRequests(DeclaredReviews(d), q.pull_requests, s)
      /\ \A f \in Field \ {"pull_requests"} :
           t[f] = IF f \in DOMAIN d THEN d[f] ELSE IF s THEN Default(f) ELSE q[f]
  BY <1>5, Merged
<1>8. \A g \in ReviewField : t.pull_requests[g] =
        IF g \in DOMAIN DeclaredReviews(d) THEN DeclaredReviews(d)[g]
        ELSE IF s THEN PermissivePullRequests[g] ELSE q.pull_requests[g]
  BY <1>6, <1>7, MergedReviews
<1>9. ASSUME NEW f \in Toggle, f # "clear_restrictions" PROVE t[f] = p[f] /\ q[f] = p[f]
  <2>1. f \in Field \ {"pull_requests"}
    BY Fields
  <2>. QED
    BY <1>2, <1>7, <1>9, <2>1
<1>10. q.clear_restrictions \/ t.clear_restrictions = q.clear_restrictions
  <2>1. "clear_restrictions" \in Field \ {"pull_requests"} /\ "clear_restrictions" \in Toggle
    BY Fields
  <2>2. q.clear_restrictions = (p.clear_restrictions \/ c.clear_restrictions)
    BY <2>1
  <2>3. p.clear_restrictions \in BOOLEAN /\ c.clear_restrictions \in BOOLEAN
    BY <1>1, <1>3, <2>1
  <2>4. /\ p.clear_restrictions =
             IF "clear_restrictions" \in DOMAIN d THEN d["clear_restrictions"]
             ELSE IF s THEN Default("clear_restrictions") ELSE c.clear_restrictions
        /\ t.clear_restrictions =
             IF "clear_restrictions" \in DOMAIN d THEN d["clear_restrictions"]
             ELSE IF s THEN Default("clear_restrictions") ELSE q.clear_restrictions
    BY <1>2, <1>7, <2>1
  <2>. QED
    BY ONLY <2>2, <2>3, <2>4
<1>11. ASSUME p.pull_requests.required
       PROVE  \A g \in ReviewField : t.pull_requests[g] = q.pull_requests[g]
                                      /\ q.pull_requests[g] = p.pull_requests[g]
  BY <1>4, <1>8, <1>11
<1>12. ASSUME ~p.pull_requests.required
       PROVE  ~t.pull_requests.required /\ ~q.pull_requests.required
  <2>1. q.pull_requests = PermissivePullRequests /\ ~q.pull_requests.required
    BY <1>12, PermissiveType
  <2>2. PermissivePullRequests["required"] = FALSE /\ q.pull_requests["required"] = FALSE
    BY <2>1, PermissiveType
  <2>3. p.pull_requests["required"] = FALSE
    BY <1>3, <1>12, ReviewParts
  <2>. QED
    BY <1>4, <1>8, <2>2, <2>3, ReviewFields
<1>13. Valid(e, q)
  <2>1. CASE e = "ruleset"
    <3>1. ASSUME NEW f \in RulesetUnsupported PROVE q[f] = Default(f)
      <4>1. f \in Toggle /\ p[f] = Default(f)
        BY <2>1, RulesetFields DEF Valid
      <4>2. CASE f = "clear_restrictions"
        <5>1. p[f] = TRUE
          BY <4>1, <4>2, ToggleType DEF Inverted
        <5>. QED
          BY <4>1, <4>2, <5>1
      <4>3. CASE f # "clear_restrictions"
        BY <4>1, <4>3
      <4>. QED
        BY <4>2, <4>3
    <3>2. \A g \in ActorList : q.pull_requests[g] = None
      BY <2>1 DEF Valid, PermissivePullRequests, ActorList
    <3>. QED
      BY <2>1, <3>1, <3>2 DEF Valid
  <2>2. CASE e = "branch_protection"
    <3>1. q.allow_fork_syncing = p.allow_fork_syncing /\ q.lock_branch = p.lock_branch
      BY Fields
    <3>. QED
      BY <2>2, <3>1 DEF Valid
  <2>. QED
    BY <2>1, <2>2
<1>14. Valid(e, t)
  <2>1. CASE e = "ruleset"
    <3>1. ASSUME NEW f \in RulesetUnsupported PROVE t[f] = Default(f)
      <4>1. f \in Toggle /\ p[f] = Default(f) /\ q[f] = Default(f)
        BY <1>13, <2>1, RulesetFields DEF Valid
      <4>2. CASE f = "clear_restrictions"
        <5>1. f \in Field \ {"pull_requests"}
          BY <4>1, Fields
        <5>. QED
          BY <1>2, <1>7, <4>1, <5>1
      <4>3. CASE f # "clear_restrictions"
        BY <1>9, <4>1, <4>3
      <4>. QED
        BY <4>2, <4>3
    <3>2. ASSUME NEW g \in ActorList PROVE t.pull_requests[g] = None
      <4>1. p.pull_requests[g] = None /\ q.pull_requests[g] = None
        BY <1>13, <2>1 DEF Valid
      <4>2. PermissivePullRequests[g] = None /\ g \in ReviewField
        BY DEF PermissivePullRequests, ActorList, ReviewField
      <4>. QED
        BY <1>4, <1>8, <4>1, <4>2
    <3>. QED
      BY <2>1, <3>1, <3>2 DEF Valid
  <2>2. CASE e = "branch_protection"
    <3>1. t.allow_fork_syncing = p.allow_fork_syncing /\ t.lock_branch = p.lock_branch
      <4>1. "allow_fork_syncing" \in Toggle /\ "lock_branch" \in Toggle
        BY Fields
      <4>. QED
        BY <1>9, <4>1
    <3>. QED
      BY <2>2, <3>1 DEF Valid
  <2>. QED
    BY <2>1, <2>2
<1>15. ASSUME NEW f \in Field PROVE ~Differs(f, t, q)
  <2>1. CASE f = "pull_requests"
    <3>1. CASE p.pull_requests.required
      <4>1. SameReviews(t[f], q[f])
        BY <1>11, <2>1, <3>1 DEF SameReviews, SameList
      <4>. QED
        BY <2>1, <4>1 DEF Differs, Same
    <3>2. CASE ~p.pull_requests.required
      BY <1>12, <2>1, <3>2 DEF Differs, IsEmpty
    <3>. QED
      BY <3>1, <3>2
  <2>2. CASE f = "status_checks"
    <3>1. f \in Field \ {"pull_requests"} /\ Default(f) = None
      BY <2>2, Fields DEF Default
    <3>2. CASE IsUnset(p.status_checks)
      <4>1. q[f] = None /\ (t[f] = None \/ t[f] = p[f])
        BY <1>2, <1>7, <2>2, <3>1, <3>2
      <4>2. IsEmpty(f, t[f]) /\ IsEmpty(f, q[f])
        BY <2>2, <3>2, <4>1 DEF IsEmpty, IsUnset
      <4>. QED
        BY <4>2 DEF Differs
    <3>3. CASE ~IsUnset(p.status_checks)
      <4>1. t[f] = q[f]
        BY <1>2, <1>7, <2>2, <3>1, <3>3
      <4>. QED
        BY <2>2, <4>1 DEF Differs, Same, SameChecks
    <3>. QED
      BY <3>2, <3>3
  <2>3. CASE f = "clear_restrictions"
    BY <1>10, <2>3 DEF Differs, Same, NothingToClear
  <2>4. CASE f \in Toggle /\ f # "clear_restrictions"
    <3>1. t[f] = q[f] /\ f # "pull_requests" /\ f # "status_checks"
      BY <1>9, <2>4, Fields
    <3>. QED
      BY <3>1 DEF Differs, Same
  <2>. QED
    BY <2>1, <2>2, <2>3, <2>4, Fields
<1>. QED
  BY <1>5, <1>13, <1>14, <1>15 DEF Diff

(* Listing the status checks in another order asks for nothing more either. *)
LEMMA OrderIsIgnored ==
  ASSUME NEW e \in {"branch_protection", "ruleset"}, NEW s \in BOOLEAN,
         NEW d, WellFormed(d), NEW c, IsBranchPolicy(c), NEW q, IsBranchPolicy(q),
         q.pull_requests = c.pull_requests, \A f \in Toggle : q[f] = c[f],
         (q.status_checks = None) = (c.status_checks = None),
         q.status_checks # None => q.status_checks.required = c.status_checks.required,
         NEW u, u = Merge(d, c, s), NEW t, t = Merge(d, q, s),
         Valid(e, c), Valid(e, u), Diff(u, c) = {}
  PROVE  Valid(e, q) /\ Valid(e, t) /\ Diff(t, q) = {}
<1>1. /\ u.pull_requests = MergePullRequests(DeclaredReviews(d), c.pull_requests, s)
      /\ \A f \in Field \ {"pull_requests"} :
           u[f] = IF f \in DOMAIN d THEN d[f] ELSE IF s THEN Default(f) ELSE c[f]
  BY Merged
<1>2. /\ t.pull_requests = MergePullRequests(DeclaredReviews(d), q.pull_requests, s)
      /\ \A f \in Field \ {"pull_requests"} :
           t[f] = IF f \in DOMAIN d THEN d[f] ELSE IF s THEN Default(f) ELSE q[f]
  BY Merged
<1>3. t.pull_requests = u.pull_requests
  BY <1>1, <1>2
<1>4. ASSUME NEW f \in Toggle PROVE t[f] = u[f]
  <2>1. f \in Field \ {"pull_requests"}
    BY Fields
  <2>. QED
    BY <1>1, <1>2, <2>1
<1>5. Valid(e, q)
  <2>1. RulesetUnsupported \subseteq Toggle /\ "allow_fork_syncing" \in Toggle
        /\ "lock_branch" \in Toggle
    BY RulesetFields, Fields
  <2>. QED
    BY <2>1 DEF Valid
<1>6. Valid(e, t)
  <2>1. RulesetUnsupported \subseteq Toggle /\ "allow_fork_syncing" \in Toggle
        /\ "lock_branch" \in Toggle
    BY RulesetFields, Fields
  <2>. QED
    BY <1>3, <1>4, <2>1 DEF Valid
<1>7. ASSUME NEW f \in Field PROVE ~Differs(f, t, q)
  <2>1. ~Differs(f, u, c)
    BY DEF Diff
  <2>2. CASE f = "pull_requests"
    BY <1>3, <2>1, <2>2 DEF Differs, NothingToClear, Same, IsEmpty
  <2>3. CASE f = "status_checks"
    <3>1. f \in Field \ {"pull_requests"}
      BY <2>3, Fields
    <3>2. t[f] = u[f] \/ t[f] = q[f]
      BY <1>1, <1>2, <3>1
    <3>3. CASE t[f] = q[f]
      BY <2>3, <3>3 DEF Differs, Same, SameChecks
    <3>4. CASE t[f] = u[f]
      <4>1. SameChecks(u[f], c[f]) \/ (IsEmpty(f, u[f]) /\ IsEmpty(f, c[f]))
        BY <2>1, <2>3 DEF Differs, Same, NothingToClear
      <4>2. CASE SameChecks(u[f], c[f])
        <5>1. SameChecks(t[f], q[f])
          BY <2>3, <3>4, <4>2 DEF SameChecks
        <5>. QED
          BY <2>3, <5>1 DEF Differs, Same
      <4>3. CASE IsEmpty(f, u[f]) /\ IsEmpty(f, c[f])
        <5>1. IsEmpty(f, t[f]) /\ IsEmpty(f, q[f])
          BY <2>3, <3>4, <4>3 DEF IsEmpty
        <5>. QED
          BY <5>1 DEF Differs
      <4>. QED
        BY <4>1, <4>2, <4>3
    <3>. QED
      BY <3>2, <3>3, <3>4
  <2>4. CASE f \in Toggle
    <3>1. t[f] = u[f] /\ q[f] = c[f]
      BY <1>4, <2>4
    <3>. QED
      BY <2>1, <2>4, <3>1, Fields DEF Differs, NothingToClear, Same, IsEmpty
  <2>. QED
    BY <2>2, <2>3, <2>4, Fields
<1>. QED
  BY <1>5, <1>6, <1>7 DEF Diff

-----------------------------------------------------------------------------
(* Once compliant or written, nothing is left to change. *)

NothingLeft == Readable /\ Valid(enforcement, Target) /\ Changes = {}

Settled ==
  /\ phase = "compliant" \/ wrote => NothingLeft
  /\ wrote => phase # "invalid"

KInv == IInv /\ Settled

LEMMA ReadableLater ==
  ASSUME TypeOK', NEW q, q = Current', IsBranchPolicy(q), Valid(enforcement', q)
  PROVE  Readable'
<1>1. IsPullRequestPolicy(q.pull_requests)
  BY PolicyParts
<1>2. /\ q.pull_requests.approvals <= MaxApprovals
      /\ q.pull_requests.dismissal_restrictions \in DismissalRestrictions \cup {None}
      /\ q.pull_requests.bypass_pull_request_allowances
           \in BypassPullRequestAllowances \cup {None}
  BY <1>1, ReviewParts DEF MaxApprovals
<1>3. \A f \in ActorList : q.pull_requests[f] # None => ~Nobody(q.pull_requests[f])
  BY <1>2 DEF ActorList, DismissalRestrictions, BypassPullRequestAllowances
<1>4. FromApi(enforcement', raw', signed') = q
  BY DEF Current
<1>. QED
  BY <1>2, <1>3, <1>4 DEF Readable, Parses

LEMMA WriteSettles == ASSUME IInv, IInv', Write PROVE NothingLeft'
<1>1. PICK p : p = plan.resolved
  OBVIOUS
<1>2. PICK c : c = Current
  OBVIOUS
<1>3. PICK q : q = Current'
  OBVIOUS
<1>4. PICK t : t = Target'
  OBVIOUS
<1>5. PICK e : e = enforcement
  OBVIOUS
<1>6. PICK s : s = strict
  OBVIOUS
<1>7. PICK d : d = declared
  OBVIOUS
<1>8. /\ e \in {"branch_protection", "ruleset"} /\ s \in BOOLEAN /\ WellFormed(d)
      /\ enforcement' = e /\ strict' = s /\ declared' = d /\ phase = "planned"
  BY <1>5, <1>6, <1>7 DEF IInv, TypeOK, Write, policy
<1>9. IsBranchPolicy(c) /\ IsBranchPolicy(p)
  BY <1>1, <1>2, <1>8, PlanMerges
<1>10. p = Merge(d, c, s) /\ Valid(e, p)
  BY <1>1, <1>2, <1>5, <1>6, <1>7, <1>8 DEF IInv, PlanIsCurrent, Target
<1>11. t = Merge(d, q, s)
  BY <1>3, <1>4, <1>8 DEF Target
<1>12. /\ IsPullRequestPolicy(p.pull_requests)
       /\ p.status_checks \in StatusChecksPolicy \cup {None}
       /\ \A f \in Toggle : p[f] \in BOOLEAN /\ c[f] \in BOOLEAN
  BY <1>9, PolicyParts
<1>13. PICK old : old = ChecksHeld
  OBVIOUS
<1>14. PICK checks : checks = ChecksHeld'
  OBVIOUS
<1>15. /\ q = [f \in Field |-> q[f]]
       /\ q.status_checks = ReadChecks(checks)
       /\ \A f \in Toggle : q[f] = ToggleHeld(f)' /\ c[f] = ToggleHeld(f)
  BY <1>2, <1>3, <1>14, Held, HeldLater DEF IInv, CurrentIsHeld
<1>16. CASE e = "ruleset"
  <2>1. enforcement = "ruleset" /\ raw \in Ruleset \cup {None}
    BY <1>5, <1>16 DEF IInv, TypeOK, Object
  <2>2. PICK held : held = ReviewsHeld
    OBVIOUS
  <2>3. held \in ReviewRule \cup {None} /\ old \in CheckRule \cup {None}
    BY <1>13, <2>1, <2>2 DEF Ruleset, ReviewsHeld, ChecksHeld
  <2>4. /\ ReviewsHeld' = ReviewRulePayload(p.pull_requests, held)
        /\ checks = CheckRulePayload(p.status_checks, old)
        /\ \A f \in Toggle : ToggleHeld(f)' = p[f]
        /\ raw' # None /\ raw'.metadata = Canonical
    BY <1>1, <1>13, <1>14, <2>1, <2>2, RulesetKept
  <2>5. q.pull_requests = ReadReviewRule(ReviewsHeld')
    BY <1>3, <1>8, <1>16, HeldLater DEF IInv, CurrentIsHeld, ReadHeld
  <2>6. \A g \in ActorList : p.pull_requests[g] = None
    BY <1>10, <1>16 DEF Valid
  <2>7. q.pull_requests = IF p.pull_requests.required THEN p.pull_requests
                          ELSE PermissivePullRequests
    BY <1>12, <2>3, <2>4, <2>5, <2>6, ReviewRuleReadBack
  <2>8. /\ checks \in CheckRule \cup {None}
        /\ ContextsOf(checks) =
             IF IsUnset(p.status_checks) THEN {} ELSE p.status_checks.required
    <3>1. PICK x : x = p.status_checks
      OBVIOUS
    <3>2. x \in StatusChecksPolicy \cup {None} /\ checks = CheckRulePayload(x, old)
          /\ old \in CheckRule \cup {None} /\ enforcement = "ruleset"
      BY <1>12, <2>1, <2>3, <2>4, <3>1
    <3>3. checks \in CheckRule \cup {None}
          /\ ContextsOf(checks) = IF IsUnset(x) THEN {} ELSE x.required
      BY ONLY <3>2, CheckRuleStays
    <3>. QED
      BY ONLY <3>1, <3>3
  <2>9. q.status_checks = IF IsUnset(p.status_checks) THEN None ELSE p.status_checks
    BY <1>12, <1>15, <2>4, <2>8, ChecksReadBack
  <2>10. ASSUME NEW f \in Toggle
         PROVE  q[f] = IF f = "clear_restrictions" THEN p[f] \/ c[f] ELSE p[f]
    <3>1. q[f] = p[f]
      BY <1>15, <2>4
    <3>2. CASE f = "clear_restrictions"
      <4>1. f \in RulesetUnsupported /\ f \in Inverted
        BY <3>2 DEF RulesetUnsupported, Inverted
      <4>2. p[f] = Default(f) /\ Default(f) = TRUE
        BY <1>10, <1>16, <4>1, ToggleType DEF Valid
      <4>. QED
        BY <3>1, <4>2
    <3>. QED
      BY <3>1, <3>2
  <2>11. IsBranchPolicy(q) /\ Valid(e, q) /\ Valid(e, t) /\ Diff(t, q) = {}
    BY ONLY <1>8, <1>9, <1>10, <1>11, <1>15, <2>7, <2>9, <2>10, Converges
  <2>12. Changes' = {}
    BY <1>3, <1>4, <2>4, <2>11 DEF Changes, MetadataChanges
  <2>13. Readable'
    BY <1>3, <1>8, <2>11, ReadableLater DEF IInv
  <2>. QED
    BY <1>4, <1>8, <2>11, <2>12, <2>13 DEF NothingLeft
<1>17. CASE e = "branch_protection"
  <2>1. enforcement = "branch_protection" /\ raw \in Protection \cup {None}
    BY <1>5, <1>17 DEF IInv, TypeOK, Object
  <2>2. old \in Checks \cup {None}
    BY <1>13, <2>1 DEF Protection, ChecksHeld
  <2>3. /\ ReviewsHeld' = ReviewsPayload(p.pull_requests)
        /\ checks = ChecksPayload(p.status_checks, old)
        /\ \A f \in Toggle : ToggleHeld(f)' =
             IF f = "clear_restrictions" THEN p[f] \/ ToggleHeld(f) ELSE p[f]
    BY <1>1, <1>13, <1>14, <2>1, ClassicWritten
  <2>4. q.pull_requests = ReadReviews(ReviewsHeld')
    BY <1>3, <1>8, <1>17, HeldLater DEF IInv, CurrentIsHeld, ReadHeld
  <2>5. q.pull_requests = IF p.pull_requests.required THEN p.pull_requests
                          ELSE PermissivePullRequests
    BY <1>12, <2>3, <2>4, ReviewsReadBack
  <2>6. /\ checks \in Checks \cup {None}
        /\ ContextsOf(checks) =
             IF IsUnset(p.status_checks) THEN {} ELSE p.status_checks.required
    <3>1. PICK x : x = p.status_checks
      OBVIOUS
    <3>2. x \in StatusChecksPolicy \cup {None} /\ checks = ChecksPayload(x, old)
          /\ old \in Checks \cup {None} /\ enforcement = "branch_protection"
      BY <1>12, <2>1, <2>2, <2>3, <3>1
    <3>3. checks \in Checks \cup {None}
          /\ ContextsOf(checks) = IF IsUnset(x) THEN {} ELSE x.required
      BY ONLY <3>2, ChecksStay
    <3>. QED
      BY ONLY <3>1, <3>3
  <2>7. q.status_checks = IF IsUnset(p.status_checks) THEN None ELSE p.status_checks
    BY <1>12, <1>15, <2>3, <2>6, ChecksReadBack
  <2>8. \A f \in Toggle : q[f] = IF f = "clear_restrictions" THEN p[f] \/ c[f] ELSE p[f]
    BY <1>15, <2>3
  <2>9. IsBranchPolicy(q) /\ Valid(e, q) /\ Valid(e, t) /\ Diff(t, q) = {}
    BY ONLY <1>8, <1>9, <1>10, <1>11, <1>15, <2>5, <2>7, <2>8, Converges
  <2>10. Changes' = {}
    BY <1>3, <1>4, <1>8, <1>17, <2>9 DEF Changes
  <2>11. Readable'
    BY <1>3, <1>8, <2>9, ReadableLater DEF IInv
  <2>. QED
    BY <1>4, <1>8, <2>9, <2>10, <2>11 DEF NothingLeft
<1>. QED
  BY <1>8, <1>16, <1>17

LEMMA ReorderSettles == ASSUME IInv, IInv', Reorder, NothingLeft PROVE NothingLeft'
<1>1. PICK c : c = Current
  OBVIOUS
<1>2. PICK q : q = Current'
  OBVIOUS
<1>3. PICK u : u = Target
  OBVIOUS
<1>4. PICK t : t = Target'
  OBVIOUS
<1>5. PICK e : e = enforcement
  OBVIOUS
<1>6. PICK s : s = strict
  OBVIOUS
<1>7. PICK d : d = declared
  OBVIOUS
<1>8. /\ e \in {"branch_protection", "ruleset"} /\ s \in BOOLEAN /\ WellFormed(d)
      /\ enforcement' = e /\ strict' = s /\ declared' = d
  BY <1>5, <1>6, <1>7 DEF IInv, TypeOK, Reorder, policy
<1>9. IsBranchPolicy(c)
  BY <1>1, CurrentType DEF IInv, NothingLeft
<1>10. Valid(e, c) /\ Valid(e, u) /\ Diff(u, c) = {}
  BY <1>1, <1>3, <1>5 DEF NothingLeft, Readable, Parses, Current, Changes
<1>11. u = Merge(d, c, s) /\ t = Merge(d, q, s)
  BY <1>1, <1>2, <1>3, <1>4, <1>6, <1>7, <1>8 DEF Target
<1>12. PICK o \in Order : raw' = [raw EXCEPT !.checks.order = o]
  BY DEF Reorder
<1>13. PICK old : old = raw.checks
  OBVIOUS
<1>14. PICK new : new = [old EXCEPT !.order = o]
  OBVIOUS
<1>15. PICK object : object = raw'
  OBVIOUS
<1>16. /\ raw # None /\ old # None /\ raw \in Object /\ signed' = signed
  BY <1>13 DEF Reorder, IInv, TypeOK, policy
<1>17. object # None
  <2>1. object \in Protection \/ object \in Ruleset
    BY <1>15, ReorderTypes DEF IInv, Object
  <2>. QED
    BY <2>1, ReconcileAssumption
<1>18. object = [raw EXCEPT !.checks = new]
  BY <1>12, <1>13, <1>14, <1>15
<1>19. /\ object.checks = new /\ object.reviews = raw.reviews
       /\ e = "ruleset" => object.metadata = raw.metadata /\ object.rules = raw.rules
       /\ e = "branch_protection" =>
            object.flags = raw.flags /\ object.restrictions = raw.restrictions
  <2>1. CASE e = "ruleset"
    <3>1. raw \in Ruleset
      BY <1>5, <1>16, <2>1 DEF Object
    <3>. QED
      BY <1>18, <2>1, <3>1 DEF Ruleset
  <2>2. CASE e = "branch_protection"
    <3>1. raw \in Protection
      BY <1>5, <1>16, <2>2 DEF Object
    <3>. QED
      BY <1>18, <2>2, <3>1 DEF Protection
  <2>. QED
    BY <1>8, <2>1, <2>2
<1>20. /\ old \in Checks \cup CheckRule /\ new \in Checks \cup CheckRule
       /\ new.pins = old.pins
  <2>1. old \in Checks \/ old \in CheckRule
    BY <1>13, <1>16 DEF Object, Ruleset, Protection
  <2>2. CASE old \in Checks
    BY <1>14, <2>2 DEF Checks
  <2>3. CASE old \in CheckRule
    BY <1>14, <2>3 DEF CheckRule
  <2>. QED
    BY <2>1, <2>2, <2>3
<1>21. Contexts(new) = Contexts(old) /\ new # None
  BY <1>20, ReconcileAssumption DEF Contexts
<1>22. /\ ChecksHeld = old /\ ChecksHeld' = new /\ ReviewsHeld' = ReviewsHeld
  BY <1>13, <1>15, <1>16, <1>17, <1>19 DEF ChecksHeld, ReviewsHeld
<1>23. ASSUME NEW f \in Toggle PROVE ToggleHeld(f)' = ToggleHeld(f)
  <2>1. CASE e = "ruleset"
    BY <1>5, <1>8, <1>15, <1>16, <1>17, <1>19, <2>1 DEF ToggleHeld, RuleHeld
  <2>2. CASE e = "branch_protection"
    BY <1>5, <1>8, <1>15, <1>16, <1>17, <1>19, <2>2 DEF ToggleHeld, FlagHeld, Restricted
  <2>. QED
    BY <1>8, <2>1, <2>2
<1>24. /\ q = [f \in Field |-> q[f]]
       /\ q.pull_requests = c.pull_requests
       /\ q.status_checks = ReadChecks(new) /\ c.status_checks = ReadChecks(old)
       /\ \A f \in Toggle : q[f] = c[f]
  <2>1. ReadHeld(ReviewsHeld)' = ReadHeld(ReviewsHeld)
    BY <1>5, <1>8, <1>22 DEF ReadHeld
  <2>. QED
    BY <1>1, <1>2, <1>22, <1>23, <2>1, Held, HeldLater DEF IInv, CurrentIsHeld
<1>25. IsBranchPolicy(q)
  <2>1. IsPullRequestPolicy(c.pull_requests) /\ \A f \in Toggle : c[f] \in BOOLEAN
    BY <1>9, PolicyParts
  <2>2. q.status_checks \in StatusChecksPolicy \cup {None}
    BY <1>20, <1>24, ContextsRead
  <2>. QED
    BY <1>24, <2>1, <2>2, PolicyType
<1>26. /\ (q.status_checks = None) = (c.status_checks = None)
       /\ q.status_checks # None => q.status_checks.required = c.status_checks.required
  <2>1. CASE Contexts(old) = {}
    BY <1>16, <1>21, <1>24, <2>1 DEF ReadChecks
  <2>2. CASE Contexts(old) # {}
    <3>1. /\ q.status_checks = [required |-> Contexts(old), order |-> new.order]
          /\ c.status_checks = [required |-> Contexts(old), order |-> old.order]
      BY <1>16, <1>21, <1>24, <2>2 DEF ReadChecks
    <3>2. old.order \in Order /\ new.order \in Order /\ Contexts(old) \in SUBSET Context
      BY <1>20 DEF Checks, CheckRule, Contexts
    <3>3. q.status_checks # None /\ c.status_checks # None
      BY <3>1, <3>2, ReconcileAssumption DEF StatusChecksPolicy
    <3>. QED
      BY <3>1, <3>3
  <2>. QED
    BY <2>1, <2>2
<1>27. Valid(e, q) /\ Valid(e, t) /\ Diff(t, q) = {}
  BY ONLY <1>8, <1>9, <1>10, <1>11, <1>24, <1>25, <1>26, OrderIsIgnored
<1>28. Changes' = {}
  <2>1. e = "ruleset" => MetadataChanges(object) = {}
    <3>1. e = "ruleset" => MetadataChanges(raw) = {}
      BY <1>5 DEF NothingLeft, Changes
    <3>. QED
      BY <1>16, <1>17, <1>19, <3>1 DEF MetadataChanges
  <2>. QED
    BY <1>2, <1>4, <1>8, <1>15, <1>27, <2>1 DEF Changes
<1>29. Readable'
  BY <1>2, <1>8, <1>25, <1>27, ReadableLater DEF IInv
<1>. QED
  BY <1>4, <1>8, <1>27, <1>28, <1>29 DEF NothingLeft

LEMMA NextSettled == IInv /\ IInv' /\ Settled /\ [Next]_vars => Settled'
<1> SUFFICES ASSUME IInv, IInv', Settled, [Next]_vars PROVE Settled'
  OBVIOUS
<1>1. CASE UNCHANGED <<enforcement, declared, strict, raw, signed, wrote>>
  <2>1. NothingLeft' = NothingLeft
    BY <1>1 DEF NothingLeft, Readable, Target, Current, Changes
  <2>2. (phase' = "compliant" => phase = "compliant" \/ NothingLeft)
        /\ (phase' = "invalid" => phase = "invalid" \/ ~NothingLeft)
    <3>1. CASE PlanBranch
      BY <3>1 DEF PlanBranch
    <3>2. CASE PlanFails
      BY <3>2 DEF PlanFails, NothingLeft
    <3>3. CASE Skip
      BY <3>3 DEF Skip, IInv, PlanIsCurrent, NothingLeft
    <3>4. CASE Write
      BY <3>4 DEF Write
    <3>5. CASE Rerun
      BY <3>5 DEF Rerun
    <3>6. CASE Reorder
      BY <3>6 DEF Reorder
    <3>7. CASE UNCHANGED vars
      BY <3>7 DEF vars
    <3>. QED
      BY <3>1, <3>2, <3>3, <3>4, <3>5, <3>6, <3>7 DEF Next
  <2>. QED
    BY <1>1, <2>1, <2>2 DEF Settled
<1>2. CASE Write
  BY <1>2, WriteSettles DEF Settled, Write
<1>3. CASE Reorder
  <2>1. phase' = "read" /\ wrote' = wrote
    BY <1>3 DEF Reorder
  <2>2. wrote => NothingLeft'
    BY <1>3, ReorderSettles DEF Settled
  <2>. QED
    BY <2>1, <2>2 DEF Settled
<1>4. Write \/ Reorder \/ UNCHANGED <<enforcement, declared, strict, raw, signed, wrote>>
  BY DEF Next, vars, policy, PlanBranch, PlanFails, Skip, Rerun
<1>. QED
  BY <1>1, <1>2, <1>3, <1>4

LEMMA InitSettled == Init => Settled
BY DEF Init, Settled

(* What repo-policy has written it can read, and finds nothing more to change,  *)
(* however often it is applied (diff.py:117-122, 145-151).                      *)
THEOREM NoDriftComesBack == Spec => []NoPhantomDrift
<1>1. IInv /\ Settled => NoPhantomDrift
  BY DEF IInv, PlanIsCurrent, Settled, NothingLeft, NoPhantomDrift
<1>. QED
  BY <1>1, InitIInv, NextIInv, InitSettled, NextSettled, PTL DEF Spec

-----------------------------------------------------------------------------
(* Nothing left to change means that GitHub enforces what is declared. *)

LEMMA SameListIsSameActors ==
  ASSUME NEW a \in Actors \cup {None}, NEW b \in Actors \cup {None}, SameList(a, b)
  PROVE  SameActors(a, b)
BY DEF SameList, SameActors, Actors

LEMMA ReviewsAreEnforced ==
  ASSUME IInv, NothingLeft
  PROVE  ReviewsEnforced(DeclaredReviews(declared), ReviewsHeld)
<1>1. PICK d : d = DeclaredReviews(declared)
  OBVIOUS
<1>2. PICK held : held = ReviewsHeld
  OBVIOUS
<1>3. PICK c : c = Current.pull_requests
  OBVIOUS
<1>4. PICK t : t = Target.pull_requests
  OBVIOUS
<1>5. IsBranchPolicy(Current) /\ WellFormed(declared) /\ strict \in BOOLEAN
  BY CurrentType DEF IInv, TypeOK, NothingLeft
<1>6. IsPullRequestPolicy(c)
  BY <1>3, <1>5, PolicyParts
<1>7. t = MergePullRequests(d, c, strict)
  BY <1>1, <1>3, <1>4, <1>5, Merged DEF Target
<1>8. /\ IsPullRequestPolicy(t)
      /\ \A g \in ReviewField : t[g] =
           IF g \in DOMAIN d THEN d[g]
           ELSE IF strict THEN PermissivePullRequests[g] ELSE c[g]
  BY <1>1, <1>5, <1>6, <1>7, MergedReviews
<1>9. SameReviews(t, c) \/ (t.required = FALSE /\ c.required = FALSE)
  <2>1. ~Differs("pull_requests", Target, Current)
    BY Fields DEF NothingLeft, Changes, Diff
  <2>2. t.required \in BOOLEAN /\ c.required \in BOOLEAN
    BY <1>6, <1>8, ReviewParts
  <2>. QED
    BY <1>3, <1>4, <2>1, <2>2 DEF Differs, Same, IsEmpty, NothingToClear
<1>10. t.required = c.required
  BY <1>9 DEF SameReviews, ReviewField, ActorList
<1>11. \/ /\ enforcement = "ruleset" /\ held \in ReviewRule \cup {None}
          /\ c = ReadReviewRule(held)
       \/ /\ enforcement = "branch_protection" /\ held \in Reviews \cup {None}
          /\ c = ReadReviews(held)
  <2>1. c = IF enforcement = "ruleset" THEN ReadReviewRule(held) ELSE ReadReviews(held)
    BY <1>2, <1>3, Held DEF IInv, CurrentIsHeld, ReadHeld
  <2>2. \/ enforcement = "ruleset" /\ held \in ReviewRule \cup {None}
        \/ enforcement = "branch_protection" /\ held \in Reviews \cup {None}
    <3>1. CASE enforcement = "ruleset"
      <4>1. raw \in Ruleset \cup {None}
        BY <3>1 DEF IInv, TypeOK, Object
      <4>2. raw # None => raw.reviews \in ReviewRule \cup {None}
        BY <4>1 DEF Ruleset
      <4>3. held = None \/ (raw # None /\ held = raw.reviews)
        BY <1>2 DEF ReviewsHeld
      <4>. QED
        BY <3>1, <4>2, <4>3
    <3>2. CASE enforcement = "branch_protection"
      <4>1. raw \in Protection \cup {None}
        BY <3>2 DEF IInv, TypeOK, Object
      <4>. QED
        BY <1>2, <3>2, <4>1 DEF ReviewsHeld, Protection
    <3>. QED
      BY <3>1, <3>2 DEF IInv, TypeOK
  <2>. QED
    BY <2>1, <2>2
<1>12. c.required = (held # None)
  <2>1. CASE held = None
    BY <1>11, <2>1, PermissiveType DEF ReadReviews, ReadReviewRule
  <2>2. CASE held # None
    <3>1. c.required = TRUE
      BY <1>11, <2>2 DEF ReadReviews, ReadReviewRule
    <3>. QED
      BY <2>2, <3>1
  <2>. QED
    BY <2>1, <2>2
<1>13. Asked(d, "required", held # None)
  BY <1>8, <1>10, <1>12, ReviewFields DEF Asked
<1>14. ASSUME held # None
       PROVE  /\ Asked(d, "approvals", held.count)
              /\ Asked(d, "code_owner_review", held.code_owners)
              /\ Asked(d, "dismiss_stale_reviews", held.dismiss_stale)
              /\ Asked(d, "require_last_push_approval", held.last_push)
  <2>1. SameReviews(t, c)
    BY <1>9, <1>12, <1>14
  <2>2. /\ t.approvals = c.approvals /\ t.code_owner_review = c.code_owner_review
        /\ t.dismiss_stale_reviews = c.dismiss_stale_reviews
        /\ t.require_last_push_approval = c.require_last_push_approval
    BY <2>1 DEF SameReviews, ReviewField, ActorList
  <2>3. /\ c.approvals = held.count /\ c.code_owner_review = held.code_owners
        /\ c.dismiss_stale_reviews = held.dismiss_stale
        /\ c.require_last_push_approval = held.last_push
    BY <1>11, <1>14 DEF ReadReviews, ReadReviewRule
  <2>. QED
    BY <1>8, <2>2, <2>3, ReviewFields DEF Asked
<1>15. ASSUME held # None, enforcement = "branch_protection"
       PROVE  /\ AskedActors(d, "dismissal_restrictions", ReadDismissal(held.dismissal))
              /\ AskedActors(d, "bypass_pull_request_allowances", held.bypass)
  <2>1. SameReviews(t, c)
    BY <1>9, <1>12, <1>15
  <2>2. /\ SameList(t.dismissal_restrictions, c.dismissal_restrictions)
        /\ SameList(t.bypass_pull_request_allowances, c.bypass_pull_request_allowances)
    BY <2>1 DEF SameReviews, ReviewField, ActorList
  <2>3. /\ t.dismissal_restrictions \in Actors \cup {None}
        /\ t.bypass_pull_request_allowances \in Actors \cup {None}
        /\ c.dismissal_restrictions \in Actors \cup {None}
        /\ c.bypass_pull_request_allowances \in Actors \cup {None}
    BY <1>6, <1>8, ReviewParts DEF DismissalRestrictions, BypassPullRequestAllowances
  <2>4. /\ SameActors(t.dismissal_restrictions, c.dismissal_restrictions)
        /\ SameActors(t.bypass_pull_request_allowances, c.bypass_pull_request_allowances)
    BY <2>2, <2>3, SameListIsSameActors
  <2>5. /\ c.dismissal_restrictions = ReadDismissal(held.dismissal)
        /\ c.bypass_pull_request_allowances = held.bypass
    BY <1>11, <1>15 DEF ReadReviews
  <2>. QED
    BY <1>8, <2>4, <2>5, ReviewFields DEF AskedActors
<1>16. ReviewsEnforced(d, held)
  BY <1>13, <1>14, <1>15 DEF ReviewsEnforced
<1>. QED
  BY <1>1, <1>2, <1>16

LEMMA ChecksAreEnforced ==
  ASSUME IInv, NothingLeft
  PROVE  /\ "status_checks" \in DOMAIN declared
              => ContextsHeld = declared.status_checks.required
         /\ strict /\ "status_checks" \notin DOMAIN declared => ContextsHeld = {}
<1>1. PICK c : c = Current.status_checks
  OBVIOUS
<1>2. PICK t : t = Target.status_checks
  OBVIOUS
<1>3. PICK held : held = ChecksHeld
  OBVIOUS
<1>4. IsBranchPolicy(Current) /\ WellFormed(declared) /\ strict \in BOOLEAN
  BY CurrentType DEF IInv, TypeOK, NothingLeft
<1>5. "status_checks" \in Field \ {"pull_requests"} /\ Default("status_checks") = None
  BY Fields DEF Default
<1>6. t = IF "status_checks" \in DOMAIN declared THEN declared["status_checks"]
          ELSE IF strict THEN None ELSE c
  BY <1>1, <1>2, <1>4, <1>5, Merged DEF Target
<1>7. ~Differs("status_checks", Target, Current)
  BY <1>5 DEF NothingLeft, Changes, Diff
<1>8. SameChecks(t, c) \/ (IsEmpty("status_checks", t) /\ IsEmpty("status_checks", c))
  BY <1>1, <1>2, <1>7 DEF Differs, Same, NothingToClear
<1>9. c = ReadChecks(held) /\ ContextsHeld = ContextsOf(held)
  BY <1>1, <1>3, Held, ContextsAreOf DEF IInv, CurrentIsHeld
<1>10. held \in Checks \cup CheckRule \cup {None}
  BY <1>3 DEF IInv, TypeOK, Object, ChecksHeld, Ruleset, Protection
<1>11. ContextsHeld = IF IsUnset(c) THEN {} ELSE c.required
  BY <1>9, <1>10, ContextsRead
<1>12. ASSUME "status_checks" \in DOMAIN declared
       PROVE  ContextsHeld = declared.status_checks.required
  <2>1. t \in StatusChecksPolicy /\ t # None
    <3>1. t \in FieldType("status_checks") \ {None}
      BY <1>4, <1>5, <1>6, <1>12 DEF WellFormed
    <3>. QED
      BY <3>1 DEF FieldType
  <2>2. t.required = ContextsHeld
    BY <1>8, <1>11, <2>1 DEF SameChecks, IsEmpty, IsUnset
  <2>. QED
    BY <1>6, <1>12, <2>2
<1>13. ASSUME strict, "status_checks" \notin DOMAIN declared PROVE ContextsHeld = {}
  BY <1>6, <1>8, <1>11, <1>13 DEF SameChecks, IsEmpty, IsUnset
<1>. QED
  BY <1>12, <1>13

LEMMA TogglesAreEnforced ==
  ASSUME IInv, NothingLeft, NEW f \in Toggle
  PROVE  /\ f \in DOMAIN declared
              => \/ ToggleHeld(f) = declared[f]
                 \/ f = "clear_restrictions" /\ ~declared[f]
         /\ strict /\ f \notin DOMAIN declared => ToggleHeld(f) = Default(f)
<1>1. PICK c : c = Current
  OBVIOUS
<1>2. PICK t : t = Target
  OBVIOUS
<1>3. IsBranchPolicy(c) /\ WellFormed(declared) /\ strict \in BOOLEAN
  BY <1>1, CurrentType DEF IInv, TypeOK, NothingLeft
<1>4. f \in Field \ {"pull_requests"} /\ f \in Field /\ f # "pull_requests" /\ f # "status_checks"
  BY Fields
<1>5. t[f] = IF f \in DOMAIN declared THEN declared[f]
             ELSE IF strict THEN Default(f) ELSE c[f]
  BY <1>1, <1>2, <1>3, <1>4, Merged DEF Target
<1>6. c[f] = ToggleHeld(f) /\ c[f] \in BOOLEAN
  BY <1>1, <1>3, PolicyParts, Held DEF IInv, CurrentIsHeld
<1>7. ~Differs(f, t, c)
  BY <1>1, <1>2, <1>4 DEF NothingLeft, Changes, Diff
<1>8. \/ t[f] = c[f]
      \/ t[f] = (f \in Inverted) /\ c[f] = (f \in Inverted)
      \/ f = "clear_restrictions" /\ c[f]
  BY <1>4, <1>7 DEF Differs, Same, IsEmpty, NothingToClear
<1>9. f = "clear_restrictions" => Default(f) = TRUE
  BY ToggleType DEF Inverted
<1>10. f \in DOMAIN declared => declared[f] \in BOOLEAN
  BY <1>3, <1>4, ToggleType DEF WellFormed
<1>. QED
  BY <1>5, <1>6, <1>8, <1>9, <1>10

LEMMA MetadataIsCanonical ==
  ASSUME IInv, NothingLeft, enforcement = "ruleset", raw # None
  PROVE  raw.metadata = Canonical
<1>1. raw \in Ruleset /\ MetadataChanges(raw) = {}
  BY DEF IInv, TypeOK, Object, NothingLeft, Changes
<1>2. \A k \in DOMAIN Canonical : raw.metadata[k] = Canonical[k]
  BY <1>1 DEF MetadataChanges
<1>3. raw.metadata \in Metadata
  BY <1>1 DEF Ruleset
<1>. QED
  BY <1>2, <1>3 DEF Canonical, Metadata

(* A branch found compliant enforces every field policy.yml declares and, in    *)
(* strict mode, nothing else, stated of GitHub's object alone                   *)
(* (docs/adrs/0003-*.md:20-25, README.md:120-135).                              *)
THEOREM CompliantIsEnforced == Spec => []ComplianceIsReal
<1>1. IInv /\ Settled => ComplianceIsReal
  <2> SUFFICES ASSUME IInv, NothingLeft, phase = "compliant" PROVE ComplianceIsReal
    BY DEF Settled, ComplianceIsReal
  <2>. QED
    BY ReviewsAreEnforced, ChecksAreEnforced, TogglesAreEnforced, MetadataIsCanonical
       DEF ComplianceIsReal
<1>. QED
  BY <1>1, InitIInv, NextIInv, InitSettled, NextSettled, PTL DEF Spec
=============================================================================
