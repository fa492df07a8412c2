---------------------------- MODULE Schema ----------------------------
(* The policy of one branch (models.py): its fields, their permissive values   *)
(* and the combinations the validators reject.                                 *)
EXTENDS Naturals

CONSTANTS
  Actor,     \* logins, team slugs and app slugs
  Context,   \* names of status checks
  Order,     \* the orders in which a list of several names may be written
  None       \* Python's None

MaxApprovals == 6

(* A list of names is the set of its names and the order they are in.  Order   *)
(* says nothing of a list of one.                                              *)
Several(names) == \E a, b \in names : a # b

ReviewField ==
  {"required", "approvals", "code_owner_review", "dismiss_stale_reviews",
   "require_last_push_approval", "dismissal_restrictions",
   "bypass_pull_request_allowances"}
ActorList == {"dismissal_restrictions", "bypass_pull_request_allowances"}

(* Fields with no equivalent in a ruleset, and fields whose TRUE means that    *)
(* nothing is restricted.                                                      *)
RulesetUnsupported ==
  {"enforce_admins", "required_conversation_resolution", "lock_branch",
   "allow_fork_syncing", "clear_restrictions"}
Inverted == {"allow_force_push", "allow_deletion", "clear_restrictions"}

Toggle ==
  {"signed_commits", "linear_history"} \cup Inverted \cup RulesetUnsupported
Field == {"pull_requests", "status_checks"} \cup Toggle

Actors == [users : SUBSET Actor, teams : SUBSET Actor, apps : SUBSET Actor,
           order : Order]
Nobody(a) == a.users = {} /\ a.teams = {} /\ a.apps = {}

(* DismissalRestrictions has no apps; both classes reject an all-empty list.   *)
DismissalRestrictions == {a \in Actors : a.apps = {} /\ ~Nobody(a)}
BypassPullRequestAllowances == {a \in Actors : ~Nobody(a)}

StatusChecksPolicy == [required : SUBSET Context, order : Order]

ReviewType(g) ==
  CASE g = "approvals" -> 0 .. MaxApprovals
    [] g = "dismissal_restrictions" -> DismissalRestrictions \cup {None}
    [] g = "bypass_pull_request_allowances" ->
         BypassPullRequestAllowances \cup {None}
    [] OTHER -> BOOLEAN
FieldType(f) ==
  CASE f = "status_checks" -> StatusChecksPolicy \cup {None}
    [] OTHER -> BOOLEAN

(* A policy with every field set, as from_api and resolve_desired build it.    *)
IsPullRequestPolicy(p) ==
  p = [g \in ReviewField |-> p[g]] /\ \A g \in ReviewField : p[g] \in ReviewType(g)
IsBranchPolicy(p) ==
  /\ p = [f \in Field |-> p[f]]
  /\ IsPullRequestPolicy(p.pull_requests)
  /\ \A f \in Field \ {"pull_requests"} : p[f] \in FieldType(f)

PermissivePullRequests ==
  [required |-> FALSE, approvals |-> 0, code_owner_review |-> FALSE,
   dismiss_stale_reviews |-> FALSE, require_last_push_approval |-> FALSE,
   dismissal_restrictions |-> None, bypass_pull_request_allowances |-> None]

(* FIELD_SPECS' defaults, which are permissive_branch_policy too. *)
Default(f) ==
  CASE f = "pull_requests" -> PermissivePullRequests
    [] f = "status_checks" -> None
    [] OTHER -> f \in Inverted
PermissivePolicy == [f \in Field |-> Default(f)]

(* The validators of BranchPolicy, which run whenever one is built. *)
Valid(enforcement, policy) ==
  /\ enforcement = "ruleset" =>
       /\ \A f \in RulesetUnsupported : policy[f] = Default(f)
       /\ \A f \in ActorList : policy.pull_requests[f] = None
  /\ enforcement = "branch_protection" /\ policy.allow_fork_syncing
       => policy.lock_branch

(* A declared policy is a partial function: its domain are the fields written  *)
(* in policy.yml (model_fields_set), and so is its pull_requests.  It passes   *)
(* the same validators, with what it does not declare not restricting.         *)
DeclaredReviews(declared) ==
  IF "pull_requests" \in DOMAIN declared THEN declared.pull_requests
  ELSE [f \in {} |-> None]

Accepted(enforcement, declared) ==
  Valid(enforcement,
        [f \in Field |->
           CASE f = "pull_requests" ->
                  [g \in ReviewField |->
                     IF g \in DOMAIN DeclaredReviews(declared)
                     THEN declared.pull_requests[g] ELSE PermissivePullRequests[g]]
             [] f # "pull_requests" /\ f \in DOMAIN declared -> declared[f]
             [] OTHER -> Default(f)])
=============================================================================
