-------------------------- MODULE Resolution --------------------------
(* diff.py: what a declared policy asks of the branch, and how that differs    *)
(* from what is there.                                                         *)
EXTENDS Schema

(* _merge_pull_requests *)
ClassDefault ==
  [PermissivePullRequests EXCEPT !.required = TRUE, !.approvals = 1]
MergeWithClassDefaults(declared, current, strict) ==
  [g \in ReviewField |->
     IF declared = [f \in {} |-> None] THEN current[g]
     ELSE IF g \in DOMAIN declared THEN declared[g] ELSE ClassDefault[g]]
MergePreserving(declared, current, strict) ==
  [g \in ReviewField |-> IF g \in DOMAIN declared THEN declared[g] ELSE current[g]]
MergePullRequests(declared, current, strict) ==
  [g \in ReviewField |->
     IF g \in DOMAIN declared THEN declared[g]
     ELSE IF strict THEN PermissivePullRequests[g] ELSE current[g]]

(* resolve_desired, before the merged policy is validated *)
Merge(declared, current, strict) ==
  [f \in Field |->
     IF f = "pull_requests"
     THEN MergePullRequests(DeclaredReviews(declared), current[f], strict)
     ELSE IF f \in DOMAIN declared THEN declared[f]
     ELSE IF strict THEN Default(f) ELSE current[f]]

(* _values_equal: == on everything but the list of status checks, which is     *)
(* compared whatever its order.                                                *)
SameList(a, b) ==
  a = b \/ /\ a # None /\ b # None
           /\ [a EXCEPT !.order = b.order] = b
           /\ ~Several(a.users) /\ ~Several(a.teams) /\ ~Several(a.apps)

SameReviews(a, b) ==
  \A g \in ReviewField :
    IF g \in ActorList THEN SameList(a[g], b[g]) ELSE a[g] = b[g]

SameChecksInOrder(a, b) ==
  a = b \/ /\ a # None /\ b # None
           /\ a.required = b.required /\ ~Several(a.required)
SameChecks(a, b) == a = b \/ (a # None /\ b # None /\ a.required = b.required)

Same(f, a, b) ==
  CASE f = "pull_requests" -> SameReviews(a, b)
    [] f = "status_checks" -> SameChecks(a, b)
    [] OTHER -> a = b

(* _is_empty: nothing is restricted. *)
IsEmpty(f, v) ==
  CASE f = "pull_requests" -> ~v.required
    [] f = "status_checks" -> v = None \/ v.required = {}
    [] OTHER -> v = (f \in Inverted)

(* diff *)
NothingToClear(f, current) == f = "clear_restrictions" /\ current[f]

Differs(f, desired, current) ==
  /\ ~Same(f, desired[f], current[f])
  /\ ~(IsEmpty(f, desired[f]) /\ IsEmpty(f, current[f]))
  /\ ~NothingToClear(f, current)

Diff(desired, current) == {f \in Field : Differs(f, desired, current)}
=============================================================================
