--------------------------- MODULE Reconcile ---------------------------
(* One branch and its object on GitHub, field by field: what one plan after    *)
(* another finds and what a write leaves behind.  Failures, kills and other    *)
(* people's edits are ApplyRun's subject; here every call succeeds.            *)
EXTENDS Resolution, Backends

ASSUME ReconcileAssumption ==
  /\ None \notin BOOLEAN /\ None \notin Actors /\ None \notin StatusChecksPolicy
  /\ None \notin Reviews /\ None \notin ReviewRule
  /\ None \notin Checks /\ None \notin CheckRule
  /\ None \notin Protection /\ None \notin Ruleset

VARIABLES
  enforcement, declared, strict,   \* the branch's entry in policy.yml
  raw,       \* its protection or ruleset on GitHub, None if it has none
  signed,    \* classic protection's separate signature requirement
  phase,     \* "read", "planned", "invalid" or "compliant"
  plan,      \* the PlannedBranch: resolved and changes
  wrote      \* repo-policy has written the branch

policy == <<enforcement, declared, strict>>
vars == <<policy, raw, signed, phase, plan, wrote>>

(* What config.py lets through: status_checks: null declares nothing, and      *)
(* dismissal_restrictions: null that there are none.                           *)
WellFormed(d) ==
  /\ DOMAIN d \subseteq Field
  /\ \A f \in DOMAIN d \ {"pull_requests"} : d[f] \in FieldType(f) \ {None}
  /\ DOMAIN DeclaredReviews(d) \subseteq ReviewField
  /\ \A g \in DOMAIN DeclaredReviews(d) : d.pull_requests[g] \in ReviewType(g)

Object == IF enforcement = "ruleset" THEN Ruleset ELSE Protection
Change == Field \cup DOMAIN Canonical

TypeOK ==
  /\ enforcement \in {"branch_protection", "ruleset"}
  /\ WellFormed(declared) /\ Accepted(enforcement, declared)
  /\ strict \in BOOLEAN
  /\ raw \in Object \cup {None}
  /\ signed \in BOOLEAN
  /\ phase \in {"read", "planned", "invalid", "compliant"}
  /\ phase = "planned" =>
       IsBranchPolicy(plan.resolved) /\ plan.changes \subseteq Change
  /\ wrote \in BOOLEAN
-----------------------------------------------------------------------------
(* _plan_branch_full *)

Current == FromApi(enforcement, raw, signed)
Target == Merge(declared, Current, strict)

Changes ==
  Diff(Target, Current)
    \cup (IF enforcement = "ruleset" THEN MetadataChanges(raw) ELSE {})

Readable == Parses(enforcement, raw, signed)

PlanBranch ==
  /\ phase = "read"
  /\ Readable /\ Valid(enforcement, Target)
  /\ plan' = [resolved |-> Target, changes |-> Changes]
  /\ phase' = "planned"
  /\ UNCHANGED <<policy, raw, signed, wrote>>

(* PolicyResolutionError, of what GitHub holds or of the merge with it. *)
PlanFails ==
  /\ phase = "read"
  /\ ~(Readable /\ Valid(enforcement, Target))
  /\ phase' = "invalid"
  /\ UNCHANGED <<policy, raw, signed, plan, wrote>>

Skip ==
  /\ phase = "planned" /\ plan.changes = {}
  /\ phase' = "compliant"
  /\ UNCHANGED <<policy, raw, signed, plan, wrote>>

(* GitHub replaces the object whole, and keeps fork syncing off an unlocked    *)
(* branch.                                                                     *)
Stored(payload) ==
  [payload EXCEPT !.flags.allow_fork_syncing = @ /\ payload.flags.lock_branch]

(* _mutate_planned_branch *)
WriteProtection ==
  /\ enforcement = "branch_protection"
  /\ raw' = Stored(ProtectionPayload(plan.resolved, raw))
  /\ signed' = IF "signed_commits" \in plan.changes
               THEN plan.resolved.signed_commits ELSE signed

WriteRuleset ==
  /\ enforcement = "ruleset"
  /\ raw' = RulesetPayload(plan.resolved, raw)
  /\ UNCHANGED signed

Write ==
  /\ phase = "planned" /\ plan.changes # {}
  /\ WriteProtection \/ WriteRuleset
  /\ wrote' = TRUE
  /\ phase' = "read"
  /\ UNCHANGED <<policy, plan>>

(* The next run. *)
Rerun ==
  /\ phase \in {"compliant", "invalid"}
  /\ phase' = "read"
  /\ UNCHANGED <<policy, raw, signed, plan, wrote>>

(* GitHub may list the status checks in another order than they were sent.     *)
Reorder ==
  /\ phase = "read" /\ raw # None
  /\ raw.checks # None
  /\ \E o \in Order : raw' = [raw EXCEPT !.checks.order = o]
  /\ UNCHANGED <<policy, signed, phase, plan, wrote>>

Init ==
  /\ TypeOK
  /\ enforcement = "ruleset" \/ raw = None => ~signed
  /\ phase = "read" /\ ~wrote /\ plan = None

Next == PlanBranch \/ PlanFails \/ Skip \/ Write \/ Rerun \/ Reorder

Spec == Init /\ [][Next]_vars
-----------------------------------------------------------------------------
(* What repo-policy has written it can read, and finds nothing more to change: *)
(* no drift that comes back however often it is applied (diff.py:117-122,      *)
(* 145-151).                                                                   *)
NoPhantomDrift ==
  wrote => phase # "invalid" /\ (phase = "planned" => plan.changes = {})

(* What GitHub holds for the branch, without from_api. *)
ReviewsHeld == IF raw = None THEN None ELSE raw.reviews
ContextsHeld ==
  IF raw = None THEN {} ELSE IF raw.checks = None THEN {} ELSE Contexts(raw.checks)
RuleHeld(f) == raw # None /\ RuleOf[f] \in raw.rules
Restricted == raw # None /\ raw.restrictions # None
FlagHeld(f) == IF raw = None THEN Default(f) ELSE Unwrap(raw.flags[f], Default(f))
ToggleHeld(f) ==
  IF enforcement = "ruleset"
  THEN IF f \in RulesetUnsupported THEN Default(f)
       ELSE (f \in Inverted) # RuleHeld(f)
  ELSE IF f = "signed_commits" THEN signed
  ELSE IF f = "clear_restrictions" THEN ~Restricted
  ELSE FlagHeld(f)

SameActors(a, b) ==
  IF a = None \/ b = None THEN a = b ELSE [a EXCEPT !.order = b.order] = b

(* What is asked of a part of the reviews: what policy.yml declares or, in      *)
(* strict mode, that it restrict nothing, also where another part is declared. *)
Asked(d, g, is) ==
  IF g \in DOMAIN d THEN d[g] = is ELSE strict => PermissivePullRequests[g] = is
AskedActors(d, g, is) ==
  IF g \in DOMAIN d THEN SameActors(d[g], is)
  ELSE strict => SameActors(PermissivePullRequests[g], is)

(* GitHub enforces the reviews that are asked for: nothing but `required` is of *)
(* any consequence where no review is.  Which apps may dismiss a review cannot *)
(* be declared (README.md:133).                                                *)
ReviewsEnforced(d, held) ==
  /\ Asked(d, "required", held # None)
  /\ held # None =>
       /\ Asked(d, "approvals", held.count)
       /\ Asked(d, "code_owner_review", held.code_owners)
       /\ Asked(d, "dismiss_stale_reviews", held.dismiss_stale)
       /\ Asked(d, "require_last_push_approval", held.last_push)
       /\ enforcement = "branch_protection" =>
            /\ AskedActors(d, "dismissal_restrictions", ReadDismissal(held.dismissal))
            /\ AskedActors(d, "bypass_pull_request_allowances", held.bypass)

(* A branch found compliant enforces every field policy.yml declares, and in   *)
(* strict mode nothing else, down to the parts of pull_requests, stated of     *)
(* GitHub's object alone (docs/adrs/0003-*.md:20-25, README.md:120-135,        *)
(* diff.py:98-107).  clear_restrictions: false asks for nothing                *)
(* (diff.py:125-130).                                                          *)
ComplianceIsReal ==
  phase = "compliant" =>
    /\ ReviewsEnforced(DeclaredReviews(declared), ReviewsHeld)
    /\ "status_checks" \in DOMAIN declared
         => ContextsHeld = declared.status_checks.required
    /\ strict /\ "status_checks" \notin DOMAIN declared => ContextsHeld = {}
    /\ \A f \in Toggle :
         /\ f \in DOMAIN declared
              => \/ ToggleHeld(f) = declared[f]
                 \/ f = "clear_restrictions" /\ ~declared[f]
         /\ strict /\ f \notin DOMAIN declared => ToggleHeld(f) = Default(f)
    /\ enforcement = "ruleset" /\ raw # None => raw.metadata = Canonical

(* A write in managed scope leaves every field that is not declared as it is   *)
(* on GitHub, down to the parts of pull_requests, and in any mode what the     *)
(* schema has no field for (branch_protection.py:50-61, rulesets.py:130-142,   *)
(* ARCHITECTURE.md:169-175).                                                   *)
ReviewsKept(d, held, new) ==
  held # None /\ new # None =>
    /\ "approvals" \in DOMAIN d \/ held.count = new.count
    /\ "code_owner_review" \in DOMAIN d \/ held.code_owners = new.code_owners
    /\ "dismiss_stale_reviews" \in DOMAIN d \/ held.dismiss_stale = new.dismiss_stale
    /\ "require_last_push_approval" \in DOMAIN d \/ held.last_push = new.last_push
    /\ enforcement = "branch_protection" =>
         /\ "dismissal_restrictions" \in DOMAIN d
              \/ SameActors(ReadDismissal(held.dismissal), new.dismissal)
         /\ "bypass_pull_request_allowances" \in DOMAIN d
              \/ SameActors(held.bypass, new.bypass)

UndeclaredKept ==
  /\ "required" \in DOMAIN DeclaredReviews(declared)
       \/ (ReviewsHeld = None) = (ReviewsHeld' = None)
  /\ ReviewsKept(DeclaredReviews(declared), ReviewsHeld, ReviewsHeld')
  /\ "status_checks" \in DOMAIN declared \/ ContextsHeld' = ContextsHeld
  /\ \A f \in Toggle \ DOMAIN declared : ToggleHeld(f)' = ToggleHeld(f)

ChecksKept(held, new) ==
  /\ \A c \in Contexts(held) \cap Contexts(new) : new.pins[c] \subseteq held.pins[c]
  /\ Contexts(held) # {} => new.strict = held.strict
  /\ enforcement = "ruleset" /\ Contexts(held) # {} => new.on_create = held.on_create

(* Who may push cannot be declared, but that nobody is restricted can. *)
ClearsRestrictions ==
  IF "clear_restrictions" \in DOMAIN declared THEN declared.clear_restrictions
  ELSE strict

UnmodelledKept ==
  raw # None =>
    /\ raw.checks # None /\ raw'.checks # None => ChecksKept(raw.checks, raw'.checks)
    /\ enforcement = "ruleset" =>
         /\ raw'.unmodelled = raw.unmodelled
         /\ raw.reviews # None /\ raw'.reviews # None
              => raw'.reviews.thread_resolution = raw.reviews.thread_resolution
    /\ enforcement = "branch_protection" =>
         /\ raw'.block_creations = Unwrap(raw.block_creations, FALSE)
         /\ raw'.restrictions = IF ClearsRestrictions THEN None ELSE raw.restrictions

OnlyTheDeclaredIsWritten ==
  [][phase = "planned" /\ <<raw, signed>>' # <<raw, signed>>
       => UnmodelledKept /\ (strict \/ UndeclaredKept)]_vars
-----------------------------------------------------------------------------
(* What the documents say and the code does not do. *)

(* The status checks' strict field "is read from current state and passed      *)
(* straight through, never reset" (ARCHITECTURE.md:171-175), when policy.yml   *)
(* says nothing of status checks.                                              *)
StrictChecksHeld ==
  IF raw = None THEN FALSE ELSE IF raw.checks = None THEN FALSE ELSE raw.checks.strict
StrictChecksAreKept ==
  [][~strict /\ "status_checks" \notin DOMAIN declared /\ StrictChecksHeld
       => StrictChecksHeld']_vars
=============================================================================
