--------------------------- MODULE Backends ---------------------------
(* The objects GitHub keeps for a branch, what the backends of repo-policy     *)
(* read from them (from_api) and what they send back (to_api_payload).         *)
EXTENDS Schema

CONSTANTS
  App,          \* ids of GitHub Apps a status check may be pinned to
  Unmodelled    \* rules of types repo-policy knows nothing of

(* A setting GitHub leaves out of its answer is None. *)
Setting == BOOLEAN \cup {None}
Unwrap(value, default) == IF value = None THEN default ELSE value

Canonical ==
  [enforcement |-> "active", target |-> "branch", conditions |-> "own",
   bypass_actors |-> {}]

Flag == Toggle \ {"signed_commits", "clear_restrictions"}
RuleOf ==
  [signed_commits |-> "required_signatures",
   linear_history |-> "required_linear_history",
   allow_force_push |-> "non_fast_forward", allow_deletion |-> "deletion"]
RuleType == {RuleOf[f] : f \in DOMAIN RuleOf}

(* required_pull_request_reviews, and the parameters of a pull_request rule.   *)
Reviews ==
  [count : Nat, code_owners : BOOLEAN, dismiss_stale : BOOLEAN,
   last_push : BOOLEAN, dismissal : Actors \cup {None},
   bypass : Actors \cup {None}]
ReviewRule ==
  [count : Nat, code_owners : BOOLEAN, dismiss_stale : BOOLEAN,
   last_push : BOOLEAN, thread_resolution : BOOLEAN]

(* required_status_checks: each context with the apps it is pinned to, where   *)
(* None is any app.  A context may be listed twice, with an app each.          *)
Pins == [Context -> SUBSET (App \cup {None})]
Checks == [strict : BOOLEAN, pins : Pins, order : Order]
CheckRule ==
  [strict : BOOLEAN, on_create : BOOLEAN, pins : Pins, order : Order]
Contexts(checks) == {c \in Context : checks.pins[c] # {}}

Protection ==
  [reviews : Reviews \cup {None}, checks : Checks \cup {None},
   flags : [Flag -> Setting], restrictions : Actors \cup {None},
   block_creations : Setting]

(* Which branches a ruleset applies to is "own" when it is this one alone.     *)
Metadata ==
  [enforcement : {"active", "evaluate", "disabled"}, target : {"branch", "tag"},
   conditions : {"own", "other"}, bypass_actors : SUBSET Actor]
Ruleset ==
  [metadata : Metadata, rules : SUBSET RuleType,
   reviews : ReviewRule \cup {None}, checks : CheckRule \cup {None},
   unmodelled : SUBSET Unmodelled]
-----------------------------------------------------------------------------
(* from_api *)

(* dismissal_restrictions is read without apps. *)
ReadDismissal(a) == IF a = None THEN None ELSE [a EXCEPT !.apps = {}]

ReadReviews(r) ==
  IF r = None THEN PermissivePullRequests
  ELSE [required |-> TRUE, approvals |-> r.count,
        code_owner_review |-> r.code_owners,
        dismiss_stale_reviews |-> r.dismiss_stale,
        require_last_push_approval |-> r.last_push,
        dismissal_restrictions |-> ReadDismissal(r.dismissal),
        bypass_pull_request_allowances |-> r.bypass]

ReadReviewRule(r) ==
  IF r = None THEN PermissivePullRequests
  ELSE [required |-> TRUE, approvals |-> r.count,
        code_owner_review |-> r.code_owners,
        dismiss_stale_reviews |-> r.dismiss_stale,
        require_last_push_approval |-> r.last_push,
        dismissal_restrictions |-> None, bypass_pull_request_allowances |-> None]

(* No contexts and no status checks at all are the same to the policy. *)
ReadChecks(c) ==
  IF c = None THEN None
  ELSE IF Contexts(c) = {} THEN None
  ELSE [required |-> Contexts(c), order |-> c.order]

FromProtection(raw, signed) ==
  IF raw = None THEN [PermissivePolicy EXCEPT !.signed_commits = signed]
  ELSE [f \in Field |->
          CASE f = "pull_requests" -> ReadReviews(raw.reviews)
            [] f = "status_checks" -> ReadChecks(raw.checks)
            [] f = "signed_commits" -> signed
            [] f = "clear_restrictions" -> raw.restrictions = None
            [] OTHER -> Unwrap(raw.flags[f], Default(f))]

FromRuleset(raw) ==
  IF raw = None THEN PermissivePolicy
  ELSE [f \in Field |->
          CASE f = "pull_requests" -> ReadReviewRule(raw.reviews)
            [] f = "status_checks" -> ReadChecks(raw.checks)
            [] f \in RulesetUnsupported -> Default(f)
            [] OTHER -> (RuleOf[f] \in raw.rules) = (f \notin Inverted)]

FromApi(enforcement, raw, signed) ==
  IF enforcement = "ruleset" THEN FromRuleset(raw) ELSE FromProtection(raw, signed)

(* What GitHub returns may be outside the schema: PolicyResolutionError. *)
ParsesAll(enforcement, raw, signed) == TRUE
Parses(enforcement, raw, signed) ==
  LET policy == FromApi(enforcement, raw, signed)
      reviews == policy.pull_requests
  IN  /\ reviews.approvals <= MaxApprovals
      /\ \A f \in ActorList : reviews[f] # None => ~Nobody(reviews[f])
      /\ Valid(enforcement, policy)

(* metadata_changes: what of a ruleset is not as repo-policy writes it. *)
MetadataChanges(raw) ==
  IF raw = None THEN {}
  ELSE {k \in DOMAIN Canonical : raw.metadata[k] # Canonical[k]}
-----------------------------------------------------------------------------
(* to_api_payload *)

(* The app a context keeps: the one it was pinned to, the last of them if it   *)
(* was listed twice, and any app if it is new.                                 *)
KeptPin(pins) == IF pins = {} THEN None ELSE CHOOSE p \in pins : TRUE
CurrentPins(current) ==
  IF current = None THEN [c \in Context |-> {}] ELSE current.pins
PinsPayload(policy, current) ==
  [c \in Context |->
     IF c \in policy.required THEN {KeptPin(CurrentPins(current)[c])} ELSE {}]

IsUnset(p) == IF p = None THEN TRUE ELSE p.required = {}

ReviewsPayload(p) ==
  IF ~p.required THEN None
  ELSE [count |-> p.approvals, code_owners |-> p.code_owner_review,
        dismiss_stale |-> p.dismiss_stale_reviews,
        last_push |-> p.require_last_push_approval,
        dismissal |-> p.dismissal_restrictions,
        bypass |-> p.bypass_pull_request_allowances]

ReviewRulePayload(p, current) ==
  IF ~p.required THEN None
  ELSE [count |-> p.approvals, code_owners |-> p.code_owner_review,
        dismiss_stale |-> p.dismiss_stale_reviews,
        last_push |-> p.require_last_push_approval,
        thread_resolution |-> current # None /\ current.thread_resolution]

ChecksPayload(p, current) ==
  IF IsUnset(p) THEN None
  ELSE [strict |-> current # None /\ current.strict,
        pins |-> PinsPayload(p, current), order |-> p.order]

CheckRulePayload(p, current) ==
  IF IsUnset(p) THEN None
  ELSE [strict |-> current # None /\ current.strict,
        on_create |-> current # None /\ current.on_create,
        pins |-> PinsPayload(p, current), order |-> p.order]

RestrictionsPayload(resolved, raw) ==
  IF resolved.clear_restrictions \/ raw = None THEN None ELSE raw.restrictions

ProtectionPayload(resolved, raw) ==
  [reviews |-> ReviewsPayload(resolved.pull_requests),
   checks |-> ChecksPayload(resolved.status_checks,
                            IF raw = None THEN None ELSE raw.checks),
   flags |-> [f \in Flag |-> resolved[f]],
   restrictions |-> RestrictionsPayload(resolved, raw),
   block_creations |-> IF raw = None THEN FALSE
                       ELSE Unwrap(raw.block_creations, FALSE)]

RulesetPayload(resolved, raw) ==
  [metadata |-> Canonical,
   rules |-> {RuleOf[f] : f \in {g \in DOMAIN RuleOf :
                                   resolved[g] = (g \notin Inverted)}},
   reviews |-> ReviewRulePayload(resolved.pull_requests,
                                 IF raw = None THEN None ELSE raw.reviews),
   checks |-> CheckRulePayload(resolved.status_checks,
                               IF raw = None THEN None ELSE raw.checks),
   unmodelled |-> IF raw = None THEN {} ELSE raw.unmodelled]
=============================================================================
