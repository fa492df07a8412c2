-------------------------- MODULE MCReconcile --------------------------
(* Branches to reconcile, in four families: what policy.yml declares and what  *)
(* GitHub holds vary together within a family and rest at their default        *)
(* outside it, since the fields meet only in the validators.                   *)
EXTENDS Reconcile

MCActor == {"ana", "bot"}
MCContext == {"ci", "lint"}

(* A policy.yml that declares each field of values or leaves it out.           *)
CONSTANT Undeclared     \* the field is left out
Written(values) == [f \in {g \in DOMAIN values : values[g] # Undeclared} |-> values[f]]

Listed(users, teams, apps, o) ==
  [users |-> users, teams |-> teams, apps |-> apps, order |-> o]

-----------------------------------------------------------------------------
(* Reviews of a branch under classic protection.  A count of 7 and lists of    *)
(* nobody are beyond the schema.                                               *)
Bare ==
  [reviews |-> None, checks |-> None, flags |-> [f \in Flag |-> None],
   restrictions |-> None, block_creations |-> TRUE]

Dismissals ==
  {None, Listed({"ana"}, {}, {}, "asc"), Listed(MCActor, {}, {}, "asc"),
   Listed({}, {"ana"}, {"bot"}, "asc"), Listed({}, {}, {"bot"}, "asc")}
Bypasses ==
  {None, Listed({}, {}, {"bot"}, "asc"), Listed({}, {}, {}, "asc")}

ReviewsAt ==
  {[count |-> n, code_owners |-> c, dismiss_stale |-> ~c, last_push |-> c,
    dismissal |-> d, bypass |-> b] :
     n \in {0, 2, 7}, c \in BOOLEAN, d \in Dismissals, b \in Bypasses}

DeclaredPullRequests ==
  {Undeclared}
  \cup {Written([required |-> r, approvals |-> n]) :
          r \in {TRUE, FALSE, Undeclared}, n \in {0, 2, Undeclared}}
  \cup {[required |-> TRUE, code_owner_review |-> c, dismiss_stale_reviews |-> c] :
          c \in BOOLEAN}
  \cup {[dismissal_restrictions |-> d] :
          d \in {None, Listed(MCActor, {}, {}, "desc"), Listed({}, {"ana"}, {}, "asc")}}
  \cup {[require_last_push_approval |-> TRUE, bypass_pull_request_allowances |-> b] :
          b \in {None, Listed({"ana"}, {}, {"bot"}, "asc")}}

(* linear_history may need a write that is none of the reviews' business. *)
Otherwise == {TRUE, Undeclared}

ReviewsFamily ==
  /\ enforcement = "branch_protection"
  /\ raw \in {None, Bare} \cup {[Bare EXCEPT !.reviews = r] : r \in ReviewsAt}
  /\ \E p \in DeclaredPullRequests, l \in Otherwise :
       declared = Written([pull_requests |-> p, linear_history |-> l])

-----------------------------------------------------------------------------
(* Status checks under either backend. *)
Blank ==
  [metadata |-> Canonical, rules |-> {}, reviews |-> None, checks |-> None,
   unmodelled |-> {"queue"}]

SomePins == {[ci |-> c, lint |-> l] :
               c \in SUBSET {None, "actions"} \cup {{"actions", "jenkins"}},
               l \in {{}, {None}, {"jenkins"}}}
ChecksAt ==
  {[strict |-> s, pins |-> p, order |-> o] :
     s \in BOOLEAN, p \in SomePins, o \in Order}

DeclaredChecks ==
  {Undeclared}
  \cup {[required |-> r, order |-> o] : r \in {{}, {"ci"}, MCContext}, o \in Order}

ChecksFamily ==
  /\ \/ /\ enforcement = "branch_protection"
        /\ raw \in {None, Bare} \cup {[Bare EXCEPT !.checks = c] : c \in ChecksAt}
     \/ /\ enforcement = "ruleset"
        /\ raw \in {None, Blank}
             \cup {[Blank EXCEPT !.checks =
                      [strict |-> c.strict, on_create |-> o, pins |-> c.pins,
                       order |-> c.order]] : c \in ChecksAt, o \in BOOLEAN}
  /\ \E c \in DeclaredChecks, l \in Otherwise :
       declared = Written([status_checks |-> c, linear_history |-> l])

-----------------------------------------------------------------------------
(* Toggles of classic protection: the inverted one, the pair a validator ties  *)
(* together, push restrictions and the signatures kept elsewhere.              *)
AnyToggle == BOOLEAN \cup {Undeclared}

TogglesFamily ==
  /\ enforcement = "branch_protection"
  /\ raw \in {None} \cup
       {[Bare EXCEPT !.flags = [@ EXCEPT !.lock_branch = k, !.allow_fork_syncing = s,
                                         !.allow_force_push = p],
                     !.restrictions = r, !.block_creations = k] :
          k \in Setting, s \in BOOLEAN, p \in Setting,
          r \in {None, Listed({"ana"}, {}, {}, "asc")}}
  /\ \E k, s, c \in AnyToggle, p, g \in Otherwise :
       declared = Written([lock_branch |-> k, allow_fork_syncing |-> s,
                           clear_restrictions |-> c, allow_force_push |-> p,
                           signed_commits |-> g])

-----------------------------------------------------------------------------
(* Rulesets, as repo-policy writes them or changed in one respect. *)
MetadataAt ==
  {Canonical} \cup {[Canonical EXCEPT !.enforcement = e] : e \in {"evaluate", "disabled"}}
  \cup {[Canonical EXCEPT !.target = "tag"], [Canonical EXCEPT !.conditions = "other"],
        [Canonical EXCEPT !.bypass_actors = {"ana"}]}

RuleAt ==
  {[count |-> n, code_owners |-> TRUE, dismiss_stale |-> FALSE, last_push |-> FALSE,
    thread_resolution |-> t] : n \in {1, 7}, t \in BOOLEAN}

RulesetFamily ==
  /\ enforcement = "ruleset"
  /\ raw \in {None} \cup
       {[Blank EXCEPT !.metadata = m, !.rules = s, !.reviews = r] :
          m \in MetadataAt, s \in SUBSET RuleType, r \in RuleAt \cup {None}}
  /\ \E p \in {Undeclared, [approvals |-> 2], [required |-> FALSE]},
        g \in Otherwise, d \in AnyToggle :
       declared = Written([pull_requests |-> p, signed_commits |-> g,
                           allow_deletion |-> d])

-----------------------------------------------------------------------------
MCInit ==
  /\ ReviewsFamily \/ ChecksFamily \/ TogglesFamily \/ RulesetFamily
  /\ strict \in BOOLEAN
  /\ signed \in BOOLEAN
  /\ phase = "read" /\ wrote = FALSE /\ plan = None
  /\ Init
MCSpec == MCInit /\ [][Next]_vars
=============================================================================
