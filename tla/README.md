# repo-policy in TLA+

A verification project for `repo-policy`, the CLI and GitHub Action that reads
`policy.yml` and makes a repository's branch protection, rulesets and settings on
GitHub agree with it (`audit`, `plan`, `apply`). This file says what the system
consists of, which module models which part, what the model checker and the
prover show, and what they do not. Paths are relative to the repository;
`apply.py` and the like are in `src/repo_policy/`.

## 1. Inventory

The program is one process, one thread, no store of its own ("no concurrency
model", ARCHITECTURE.md:313). What makes it hard is outside: every value it acts
on was read from GitHub some calls earlier, every write may take effect without
its reply arriving, the process may be killed between any two calls, people and
other tools edit the same objects, and one `apply` is a long sequence of calls
that GitHub does not make atomic.

| Component | State | Operations | Hard behaviour | What makes it correct |
|---|---|---|---|---|
| `GitHubClient` (github_client.py) | the loop of `_request`: `attempt`, the last reply | 22 methods over `_request` | lost requests and replies, 5xx after the work was done, rate limits, 404/422 that are answers, 2xx bodies that are not JSON, redirects taken for successes | one call has the outcome its contract allows, creates once, ends, uses its budget |
| GitHub (external) | protection objects, rulesets, settings | the REST endpoints | edits by others, rulesets that are not in force, settings that depend on one another | – (assumed) |
| apply (apply.py, cli.py) | `planned_branches`, `rulesets_cache`, `ApplySummary.journal`, exit code | preflight, mutate, prune, settings, verify | failure in the middle, stale plans, kills, restarts | no write before everything is planned; truthful journal; exit 0 means compliant; idempotent; converges; leaves the rest alone |
| audit, plan (audit.py, cli.py) | what they read | `audit_all`, `_compute_drift` | objects read one after the other | writes nothing; same notion of drift as apply |
| repository settings (repo_settings.py, policies/repo_settings.py) | `RepoSettingsResult`, journal | plan, five groups of mutations in a fixed order | dependencies between settings, 422 as an answer, unreadable values | what is enabled has what it needs; what was ineligible is not reported as applied |
| resolution and diff (diff.py, models.py) | none | `resolve_desired`, `diff` | nested merge, managed scope against strict, values that differ without consequence | what is found compliant is; undeclared fields keep their value; no drift that comes back |
| backends (policies/*.py) | none | `from_api`, `to_api_payload`, `metadata_changes` | whole-object PUT, pass-through of what the schema lacks, app pins | reading back a payload gives what was resolved; nothing else changes |
| rendering (render.py) | none | – | – | every change is reported |
| configuration (config.py, models.py) | none | parse, validate | – | assumptions of the above |
| CLI set-up, container entry point, release pipeline | none of the program's | – | – | – |

Components call one another downwards only: `cli` → `apply`/`audit`/`repo_settings`
→ `diff`, `policies` and `GitHubClient` → GitHub. There are no callbacks and no
shared mutable state inside the process; `rulesets_cache` and the list of planned
branches are the only values kept across calls, and both can be stale when used.

## 2. Modules

Three models, each on the abstraction level its questions need: one call, one run
after another over a whole repository, and one branch field by field.

```
Calls                       the contract of a call
  ├── OneCall               abstract specification of a call
  └── Request               GitHubClient._request;   Request => OneCall
        ├── MCRequest       instances for TLC
        └── RequestProofs

GitHub                      the service and the people who edit it
  └── Compliance            what policy.yml says, and what it is to be as it says
        ├── Promise         abstract specification of audit, plan and apply
        └── ApplyRun        audit, plan and apply, run after run (extends Calls too)
              └── ApplyProperties   what makes them correct;   ApplyRun => Promise
                    ├── MCApply     instances for TLC
                    └── ApplyProofs             types, planning before writing
                          ├── JournalProofs     what it says it did
                          ├── VerifyProofs      exit 0 is honest, compliance is left alone
                          └── ScopeProofs       what a run may delete and touch
                                └── RepairProofs      it does all it can
                                      └── PromiseProofs   it does no more than that
                                                      (extends VerifyProofs too)

Schema                      a branch's policy: fields, defaults, validators
  ├── Resolution            resolve_desired and diff
  └── Backends              from_api, to_api_payload, metadata_changes
        └── Reconcile       plan, write, plan again (extends both)
              ├── MCReconcile      instances for TLC
              └── ReconcileProofs
```

**Calls** names every method of `GitHubClient` with the flags it passes to
`_request` (`allow_404`, `allow_422`, `idempotent`) and defines `Contract(c)`: the
results a caller may see together with how often the call took effect. A
returned write landed at least once, unless the repository has `moved`, when it may never
have; an absent one did not land; after an error nobody knows. A create or a delete never lands twice.

**Request** is the `while True` of `_request` (github_client.py:118-158): `Send`
is `self._client.request` (GitHub and the network decide what happens, and
whether the caller hears of it), `Handle` the classification of what came back,
`Wake` the end of `time.sleep`. `exists`, `eligible` and `moved` are GitHub's side: `Rename` is somebody
renaming or transferring the repository, after which GitHub answers "redirected". `Good`
is the code's `status_code < 400`, which such an answer passes, since the client is built without
`follow_redirects` (github_client.py:83-91).
**OneCall** is its abstract specification, a single step from pending to an
outcome of the contract (`Finish`), with `Rename` at any time, and `ImplementsOneCall` the refinement under the mapping
`OutcomeNow`. This justifies modelling every call as one step in ApplyRun, on a repository
that stays at its address.

**GitHub** is the repository behind the API, modelled from how the code uses it
and marked external: classic protection of each branch, rulesets by id, the seven
settings with the two dependencies between them, and `overridden`, the branches on
which a ruleset is not in force although nothing in it is wrong (an organization
ruleset, or lag: apply.py:146-156). `Edit` is what anybody else may do at any
time. A *policy* is here a function from abstract fields to values up to `diff`'s
equality; `extra` stands for what an object on GitHub carries that `BranchPolicy`
has no field for and the payload passes through. Only `signed_commits` is told
apart: it has an endpoint of its own and costs a second call. Which real fields
there are and how they are read, merged and written is Reconcile's subject.

**Compliance** holds the parsed policy.yml (`Declared`, `Desired`, `Strict` and so on,
with what the parser guarantees of them) and what it means of the repository alone:
`RepositoryComplies` is what an exit code 0 should mean, `Repaired` that all is done which
calls of repo-policy can do. They differ in what apply only reports: classic protection that
stands beside a ruleset, a ruleset GitHub does not enforce, a setting it neither shows nor offers.

**Promise** is the abstract specification of repo-policy as somebody sees it who
looks at the repository and the exit codes. It has no plans, lists, journals, retries or
crashes, and one variable besides the repository, the verdict of the last run. A run begins,
writes while it is applying, and ends with a verdict or without one. A write (`Protect`,
`Rule`, `Prune`, `Switch`) needs something that is wrong: every field it moves was not as
policy.yml says and is so afterwards, the rest of the object stays, and nothing else is touched. A
verdict is that of `RepositoryComplies`, and an apply comes to one only when `Repaired` holds.

**ApplyRun** is the process. `phase` follows `cli.apply` from top to bottom:

| Action | Code |
|---|---|
| `Start` | cli.py:276-304, a command is invoked |
| `PrefetchRulesets`, `DetectStale` | apply.py:91-100, 343-356 |
| `PlanBranch`, `PlanBranchFails`, `EndPlanning` | `_plan_branch_full`, `_plan_all_branches` (preflight), the loop of `audit_all` (verify, audit, plan) |
| `SkipBranch`, `PutBranch`, `SignBranch`, `CreateBranchRuleset`, `UpdateBranchRuleset` | one iteration of `apply_all`'s loop with `_mutate_planned_branch`, one action per API call |
| `EndMutation`, `PruneOne`, `EndPrune` | cli.py:319-331, `prune_rulesets` |
| `PlanSettings`, `MutateSetting`, `SettingUnavailable` | `plan_repo_settings`, `apply_repo_settings`: one call per group, carrying the fields of the group that are to change |
| `EnterVerify`, `EndVerify` | `verify_after_apply`, `_compute_drift`, exit |
| `ReadFails` | a GET that fails for good: `GitHubAPIError`, exit 3 |
| `Killed` | the process dies; a request in flight may still land |
| `Others` | somebody else edits the repository |

`audit` and `plan` start in the verify phase, since `verify_after_apply` runs the
same code; an exited process may be followed by another one, forever. `cache`,
`planned`, `journal` are the variables of the same name; `printed` is what
reached stdout, by resource and status. `changed`, `disturbed` and `settled` are
history variables that only the properties read. Module **ApplyProperties**
states correctness over this and over the repository alone, and instantiates Promise with
`Verdict`, which is read off the phase, the command and the exit code (`KeepsItsPromise`).

**Schema**, **Resolution** and **Backends** are the pure functions between what
GitHub returns and what is sent to it, over the real fields of `BranchPolicy`: a
declared policy is a partial function whose domain is pydantic's
`model_fields_set`, `Valid` the validators, `Merge` is `resolve_desired` with the
nested merge of `pull_requests`, `Differs` is `diff` with `_values_equal`,
`_is_empty` and the one-sided `clear_restrictions`; `FromProtection`,
`FromRuleset`, `ProtectionPayload`, `RulesetPayload` are the two backends. A list is
the set of its names and an `order`, because some comparisons ignore the order
(status checks) and some do not (actors). A status check is listed with the set of
apps it is pinned to.

**Reconcile** composes them for one branch: `PlanBranch` or `PlanFails`
(`_plan_branch_full`), `Skip` or `Write` (`_mutate_planned_branch`), `Rerun`, and
GitHub's `Reorder` of the listed status checks. GitHub may keep a payload otherwise
than it was sent in one respect (`Stored`): fork syncing stays off on a branch that is not
locked. Its properties say in terms of GitHub's object alone what
compliance means (`ComplianceIsReal`), what a write may touch
(`OnlyTheDeclaredIsWritten`) and that one write is enough (`NoPhantomDrift`).

Abstractions in ApplyRun: the reads behind the plan of one branch (two or three GETs)
and the stale detection (one GET per branch) are one step each; the order in which GitHub
lists rulesets is not known, so lookups by name and the prune pick any match;
a call is one step, so nobody else's edit falls between two attempts of one call, and its outcomes are those
of `Contract(c, FALSE)`; the pages of `list_rulesets` (github_client.py:274-284) are one call, so that
loop's end is not covered by `EveryCallEnds`, which is about one `_request`; a policy GitHub returns that the schema rejects is one value, `Unparsable`; a
`repo_settings` section that declares nothing is the same as none. In Reconcile:
actors and contexts are names without format; when one context is listed with several apps,
which of them comes last is left open (`KeptPin`).

## 3. Runs

| Run | Question | Bounds |
|---|---|---|
| `request` | Does the loop implement the contract, create once, spend its budget, end? | all 22 methods, `MaxRetries` = 3 (the default), the repository renamed at any point or never |
| `apply_branches` | Are reports, exit codes and writes right from every starting state? | two declared branches, one of each enforcement, a third no longer declared; two fields; at most 5 rulesets; two faults |
| `apply_edits` | The same with somebody else editing | one edit of any kind at any point, one fault |
| `apply_settings` | Order and journal of settings | every combination of the seven settings their dependencies allow, two unreadable, one group unlicensed, one fault |
| `apply_live` | Does every run end, does re-applying converge? | strict, settings declared, two faults |
| `reconcile` | Is a branch compliant when found so, does one write settle it, does it touch nothing else? | 48,866 pairs of an entry and an object in four families (reviews, status checks, toggles, rulesets), managed scope and strict; 126,596 states |
| `request_delete`, `request_redirect`, `changes_report`, `failed_report`, `lost_update`, `strict_checks` | Disagreements of code and documents (section 6) | as above; `changes_report` in strict mode with two orphans, one fault |

Why these bounds are enough. The loop over branches keeps no state but its index
and the journal, so two branches show a first, a last, a before and an after; one
of each enforcement reaches every call. Two fields tell a declared field from an
undeclared one and `signed_commits` from the rest. Of the three rulesets at the
start one belongs to a declared branch, one is an orphan and one a human's; two ids are
left for creations. Two faults allow a failure in a run and another in the
run that repairs it. A fault is a call that ends in an error although GitHub
accepts it, or a kill; refusals (a ruleset that is gone) are not counted. `Many` = 2
caps how often one call may land: nothing distinguishes two landings from three.
The fields of a branch meet only in the validators and, by `diff`, in the decision to write
at all, so MCReconcile varies them family by family, together with one field of
another family that may call for a write (`Otherwise`); lists of two names have an order, lists of
one do not. The families contain what the schema rejects (a count of 7, lists of
nobody), which `PlanFails` needs. The theorems of section 5 hold without any of these bounds.

`MaxFaults`, `MaxEdits` and `MaxRulesets` bound the exploration only. For
liveness `MaxFaults` says that calls stop failing at some point, which is what
the property is about.

What the runs show:

* `JournalIsTrue`: the journal has one entry per branch in policy.yml's order, what is
  applied took effect, what is verified or unavailable was left alone, and a
  failure is last and ends the run with 3.
* `BranchWritesAreReported`: unless killed, an apply names every branch it changed.
* `ExitZeroMeansCompliant`: exit code 0 implies that the repository satisfies the
  policy, stated of GitHub's state alone; the exception is an edit during the verification.
* `PlansBeforeWriting`: nothing is written unless every declared branch was planned,
  and audit and plan write nothing.
* `CompliantIsLeftAlone`: once a run exited 0 and nobody edits, no run sends a write
  that lands, not even one that would change nothing.
* `NoDuplicateRulesets` (in Compliance): no crash, lost reply or repetition makes a second ruleset of a name.
* `PrunesOnlyOrphans`: deletions only in strict mode and only of rulesets the run itself listed under a
  `repo-policy:` name no declared branch claims, also when the repository is edited meanwhile.
* `OthersAreLeftAlone`: classic protection of other branches and rulesets of others are never written,
  by the names that rulesets have on GitHub at the moment of the write. Like `UndeclaredIsKept` it holds when nobody
  edits and fails otherwise (section 6).
* `UndeclaredIsKept`: a write leaves undeclared fields and unmodelled settings as they
  are on GitHub. It holds when nobody edits (`apply_branches`) and fails otherwise
  (`lost_update`).
* `NeedsAreMet`: what is asked of GitHub has what it needs at that moment: security fixes
  their alerts, push protection secret scanning, whatever subset of them differs.
* `ApplyDoesAllItCan`: an apply that exits with 0 or 1 has repaired every branch, orphan and setting
  that its calls can; drift it still reports is out of its reach.
* `RepairIsFinal`: no step makes wrong what is right, and once all is done no run changes anything again, even if
  drift out of its reach makes every one of them exit with 1.
* `KeepsItsPromise`: every step of every run is one of Promise or changes neither the repository nor
  the verdict. It is checked in managed scope, in strict mode and over all settings.
* `RunsEnd`, `ReapplyingConverges`: a run ends; repeated applies reach compliance and stay there.
* `NoPhantomDrift`: what was written can be read, resolves to itself and shows no difference, in
  whatever order GitHub lists it.
* `ComplianceIsReal`: an empty plan means that GitHub's object enforces every declared field
  and, in strict mode, nothing else, down to the parts of `pull_requests` an entry leaves out.
* `OnlyTheDeclaredIsWritten`: a write keeps, part by part, what is not declared and
  what the schema does not know: app pins, `strict` of listed checks, thread resolution,
  push restrictions that nothing asks to clear, creation blocks, foreign rules. Writes that move only the
  signatures count too.

Every property has a mutant: a plausible slip in the modelled code (a dropped
check, a swallowed error, a retry too many, a swapped order) under which
TLC finds it violated. Their definitions (`SignaturesForgotten`, `RankFixesFirst`,
`PollVerify` and others) stand beside the ones they replace and are used by no action.

## 4. Fairness

`Request` assumes weak fairness of its three steps: nothing blocks the loop, the
transport has a 30 s timeout (github_client.py:90) and sleeps end. `ApplyRun`
assumes weak fairness of `Work`, justified by `EveryCallEnds` and the single
thread, and strong fairness of `Start("apply")`: whoever operates the tool applies
again after a failed run, however many audits run in between. Nothing is assumed
of GitHub beyond `MaxFaults`. Reconcile has no liveness property: `NoPhantomDrift`
says how many writes are enough, and that runs happen is ApplyRun's.

## 5. Proofs

Every theorem is about all values of the constants: any policy, any number of
branches, fields, names and rulesets, any bound on faults and edits, including none. They
rest on the named assumptions of the modules and on nothing else: `MaxRetriesAssumption` (the
retry budget is a natural number), `GitHubAssumption` (the shapes of what GitHub
holds), `ConfigAssumption` (what config.py and models.py let through: no branch is
declared twice, an entry declares values the schema accepts, a setting is declared with what it needs,
security_and_analysis is readable as a whole or not at all), `FaultsAssumption` (the bound on faults is a natural number), `NoneAssumption` and
`ReconcileAssumption` (the absent value is none of the values there are: plans, protection objects,
rulesets, their ids and names, exit codes, and the records of Schema and Backends).

| Theorem | Says | Where it needs more than `Spec` |
|---|---|---|
| RequestProofs!RequestTypes | the loop keeps its types, hence at most `MaxRetries` + 1 attempts | |
| RequestProofs!CreateIsOnce | one `create_ruleset` makes at most one ruleset, whatever replies are lost | |
| RequestProofs!BudgetIsSpent | a failure the code retries is given up on only with the budget spent | |
| RequestProofs!RequestImplementsOneCall | `ImplementsOneCall`: the retry loop implements the one-step contract, renamings included | |
| ApplyProofs!ApplyTypes | `TypeOK` of ApplyRun | |
| ApplyProofs!NoWriteBeforeThePlan | `PlansBeforeWriting` | |
| VerifyProofs!ExitZeroIsHonest | `ExitZeroMeansCompliant` | |
| VerifyProofs!CompliantStays | `CompliantIsLeftAlone` | no two rulesets share a name |
| ScopeProofs!PruningIsSafe | `PrunesOnlyOrphans` | |
| ScopeProofs!OthersAreSafe | `OthersAreLeftAlone` | nobody else edits |
| ScopeProofs!NamesStayUnique | `NoDuplicateRulesets` | it holds at the start; nobody else edits |
| ScopeProofs!UndeclaredStays | `UndeclaredIsKept` | nobody else edits |
| JournalProofs!JournalTellsTheTruth | `JournalIsTrue` | |
| JournalProofs!BranchesAreReported | `BranchWritesAreReported` | |
| RepairProofs!NeedsComeFirst | `NeedsAreMet` | nobody else edits |
| RepairProofs!ApplyRepairs | `ApplyDoesAllItCan` | names are unique at the start; nobody else edits |
| PromiseProofs!RunsKeepThePromise | `KeepsItsPromise`: ApplyRun implements Promise | the same |
| PromiseProofs!RepairsAreFinal | `RepairIsFinal` | the same |
| ReconcileProofs!ReconcileTypes | `TypeOK` of Reconcile | |
| ReconcileProofs!DeclaredOnly | `OnlyTheDeclaredIsWritten` | |
| ReconcileProofs!NoDriftComesBack | `NoPhantomDrift` | |
| ReconcileProofs!CompliantIsEnforced | `ComplianceIsReal` | |

"Nobody else edits" is the hypothesis `[][OwnStep]_vars`: a run writes what it planned from a reading,
so an edit after that reading is overwritten, as TLC's counterexample in `lost_update` shows, and it writes to
the ids it listed, whatever their names are by then. It
restricts the environment and nothing repo-policy does: calls may fail, lose their replies or be cut off,
and processes may be killed, as before. "Names are unique at the start" is `NoDuplicateRulesets` of the
first state: with two rulesets of one name GitHub's order decides which of them a run reads, and with one right
and one wrong the repository alone does not say whether the run finds drift or has anything to repair.

*RequestProofs.* The invariant is `TypeOK /\ Accounting`. Accounting relates `landed`
to where the loop is: before an attempt at most one landing per attempt made, none at
all if the method is not idempotent and the loop is still going (so a lost reply must have
ended it), and what each reply tells about whether the attempt landed: a redirect only that the
repository has moved. The contract follows from it when the loop ends, which gives the refinement: `Send` and
`Wake` stutter, the `Handle` that returns or raises is the abstract `Finish`, and `Rename` is `Rename`.

*ApplyProofs.* The invariant is `TypeOK /\ PlansHold`. That a step which writes is
in a mutating phase is seen from the action; that every branch has a plan by then
needs the history: during preflight the first `at - 1` branches are planned, and from
then until verification the plans are kept. TypeOK needs one lemma per kind of write, that it
leaves GitHub a repository of the same shape.

*VerifyProofs.* Exit 0 is decided from plans read one after the other. `Observed` says
that while nobody disturbs the verification every reading made so far, of the list, of stale
protection and of each branch, is what would be read now (`Fresh`); an empty plan that is fresh
is a satisfied policy (`BranchVerified`), and `EndVerify` puts the branches, the orphans and the settings
together. `CompliantStays` uses the same argument backwards: `Settled` says that a repository which complies yields
only empty plans, no orphans and no settings to do, phase by phase. It needs
unique names because apply takes the first ruleset of a name it finds.

*ScopeProofs.* `Scope` adds what ties a plan to what was listed: the rulesets
still to prune are orphans of the cached list, the id in a plan is one the cache
lists under that branch's own name, and the second call of a branch belongs to one under
`branch_protection`. It speaks of `cache`, never of GitHub, so others may edit freely in between, and
`PruningIsSafe`, which needs nothing else, speaks of the list alone.

In its second part, on a repository only repo-policy edits, the cache says something of GitHub
after all. `NamesHold`: as long as a run goes by its list, every listed ruleset has on GitHub the name it was listed
under or is gone; with `Scope` this makes each write one to the run's own names
(`OthersAreSafe`). `ListHolds`: a listed ruleset that exists still has its name, and a branch for
which one is yet to be created has none; with `FreshIds` (ids not given yet are
unused) a create cannot make a second one. `PlansCurrent`: the branches still to be written
hold what their plans were made from, including the moment between the two calls of a branch
under classic protection, so that what the plan keeps is what GitHub has.

*JournalProofs.* `JournalIsTrue` is not inductive: a branch journaled as `verified`
could later be changed if the loop came back to it, and an entry could be
appended behind a failure. `JInv` excludes this in three parts. `Honest` adds that no entry of
a run still going is `failed`; `Progress` says how long the journal is in each phase and
that a setting with an entry is no longer in `todo`; `Footprint` says that only
branches before `at` (or at it, between its two calls) and settings out of
`todo` have been changed. Names in policy.yml being distinct then makes the entry of the branch
at hand the only one about it. `BranchesAreReported` builds on this: a changed branch the loop
has passed has an `applied` entry, the failing one is printed as `failed`, and after the
journal is printed (`Covered`) no further branch changes and nothing is unprinted.

*RepairProofs.* `NeedsWait`: of every setting waiting to be enabled, what it needs is on already
or waits with it. `NeedsAreMet` follows because the order of the groups never puts a setting before what it
needs, and a group that is refused ends the run or takes both out of `todo`.
`ApplyDoesAllItCan` speaks of the last step of a run and is far from inductive. `DoneInv` says what has
been achieved so far in each phase: every plan still to be carried out satisfies the policy (`PlansMeet`)
and knows every ruleset of its name (`ListComplete`); behind the branch at hand all is as declared, between the two calls
of a branch all but its signatures (`MutationRepairs`); what is left of the orphans is in `toPrune`
(`PruneRepairs`); a setting is right, out of reach or in `todo`, and what is on has what it
needs (`SettingsRepairs`, `NeedsHold`); from then on `Repaired` holds until the exit (`VerifyRepaired`). The proof takes the
writes by form (`AllWriteForms`) and shows of each that it repairs its object and that what was right
stays right. The delicate case is a setting that GitHub switches off with the one it needs: the
schema rules out that it was declared on.

*PromiseProofs.* The invariant is `DoneInv` with the one of VerifyProofs and `~disturbed`. The definitions of Promise
are first shown to mean what they mean in ApplyRun (`SameWords` to `SameRepository`). Then each form of write is one of
Promise: `PlansCurrent` makes the plan one of the object as it is, so that what resolving changes was
wrong and becomes right (`ResolvingRepairs`), and a branch is sent nothing unless its plan has a difference (`WritesAreNeeded`);
a write that changes nothing, as when a ruleset that is not in force is put again, is a stutter. The last
reading gives a true verdict both ways: no drift is compliance (VerifyProofs) and drift is real
(`DriftIsReal`). `RepairIsFinal` then needs nothing of ApplyRun: the steps of Promise keep what is
right, and with `Repaired` none of its writes is possible.

*ReconcileProofs.* The invariant is `TypeOK /\ PlanIsCurrent /\ Settled`. TypeOK says
that what the schema accepts is read, merged and written back as objects of the right
shape, which takes a lemma per conversion. `PlanIsCurrent` makes the write one of the current merge.
`Settled` is the strengthening of `NoPhantomDrift`: once compliant or written,
GitHub's object can be read, its merge is valid and differs in nothing. That `Write`
establishes it is the round trip: `ClassicWritten` and `RulesetKept` say what each backend leaves
on GitHub, `ReviewsReadBack` and `ChecksReadBack` what is read from it, and `Converges` that
merging once more adds nothing, the case of a branch without reviews (whose other review
fields are of no consequence) and the one-sided `clear_restrictions` included. That
`Reorder` keeps it is `OrderIsIgnored`. `ComplianceIsReal` then follows field by field from the absence of
differences, `OnlyTheDeclaredIsWritten` from what the write leaves and `CurrentIsHeld`, that
the policy read is the object held.

Only model-checked: the liveness properties `RunsEnd`, `ReapplyingConverges` and
`EveryCallEnds` (fairness and ENABLED are out of the prover's reach). Every safety
property of a passing run is proved. No module the theorems reach has a RECURSIVE
operator, and none is needed: the loops are actions and the data are sets, records and functions.

## 6. Disagreements of code and documents

Each of these runs checks one property that a document or comment states, and
TLC shows a behaviour of the code in which it does not hold.

1. `request_delete`, `RepeatIsNoOp`. The comment at github_client.py:114-117 calls
   create_ruleset "the one call that genuinely isn't" idempotent and says of enabling
   signatures that "repeating it is a no-op, so it (and every other call) keeps the
   default and retries on 5xx like any other method". `delete_ruleset`
   (github_client.py:309) keeps the default: a DELETE that landed without its reply
   arriving is repeated, answered 404, and raised as an error.
2. `request_redirect`, `ReturnedWritesAreDone`. ARCHITECTURE.md:162: "retries 429, 403-with-rate-limit-text,
   and 5xx with exponential backoff (`github_client._request`), up to 3 attempts; anything else raises `GitHubAPIError`
   immediately". A redirect neither is retried nor raises: every status below 400 is a success
   (github_client.py:139) and redirects are not followed, so a write to a repository that was renamed or transferred
   returns as if it had been done. The sentence is off in two more respects, which `GivesUpOnlyWhenSpent`
   states as the code has them: requests that are lost are retried as well (github_client.py:122-131), and
   the budget is `max_retries` + 1 = 4 attempts (tests/test_github_client.py:147).
3. `changes_report`, `ChangesAreReported`. README.md:34: "Line-by-line record of exactly
   what succeeded before a mutation failure"; apply.py:59-63: the summary is "kept even when
   the run ends in an error". `prune_rulesets` returns the names it deleted after the last deletion
   (apply.py:336-340), so when one raises, those deleted before it are reported nowhere; this is the behaviour TLC shows.
   The line for changed repository settings is printed only after verification (cli.py:344-360) and is lost
   alike when verification raises; the same configuration with `Strict = FALSE` ends there.
4. `failed_report`, `FailedIsNotApplied`. render.py:75 prints "failed -- N change(s) not
   applied" of a branch whose write may have landed: its reply was lost, or the
   protection was put and only the signature call failed (apply.py:213-215).
5. `lost_update`, `UndeclaredIsKept`. ARCHITECTURE.md:174-175: settings outside the
   schema are "read from current state and passed straight through, never reset". The
   object is read in preflight and written back whole later (apply.py:212), so an edit in
   between is undone.
6. `strict_checks`, `StrictChecksAreKept`. ARCHITECTURE.md:171-175 names the status checks'
   `strict` as passed "straight through, never reset". Checks that list no context are read as
   none (status_checks.py:31-32) and written as null, so a write of an unrelated
   field drops `strict: true`.

Three more were met that no run is about:

* ARCHITECTURE.md:176-178: "the tool only ever creates/reads/updates a ruleset named `repo-policy:<branch>`; it never
  inspects or modifies any other ruleset". Rulesets are updated and deleted by the id they were listed under
  (apply.py:216-221, 333-338), so one that somebody renames or adopts between the list and the write is
  overwritten or deleted under its new name. TLC finds `OthersAreLeftAlone` violated in this way under the constants
  of `lost_update`, which allow one edit.
* README.md:125 documents `pull_requests.required` as "`bool` (default `true`)". An entry that leaves it out takes it
  from GitHub in managed scope and FALSE in strict mode (diff.py:98-107, as tests/test_diff.py:149-163 has it), so
  `pull_requests: {approvals: 2}` on an unprotected branch is found compliant and requires nothing.
* The apps GitHub may list in `dismissal_restrictions` are dropped on reading (policies/pull_requests.py:52-57) and
  so are gone after any write of the branch. README.md:133 says that they cannot be declared; the properties of Reconcile
  compare dismissal restrictions without their apps.

## 7. Not modelled

* Parsing of policy.yml and its error messages (config.py): a pure function of a file.
  What it lets through is `ConfigAssumption` in Compliance, `WellFormed` and `Accepted` in Reconcile.
* The wording and layout of the output (render.py): ApplyRun keeps which resource is printed with
  which status.
* Token and repository lookup, the container's argument shim: pure I/O before the first call.
* The value of `Retry-After` (github_client.py:160-174), which is neither bounded nor checked
  for its sign: durations are left out of Request, a sleep is one step. A negative value would make
  `time.sleep` raise.
* A repository that is renamed or transferred, outside Request. ApplyRun assumes that it stays at its address. On one that
  moved, writes return as done though nothing happened, and reads take the redirect's body for an answer: protection
  without any field (github_client.py:176-180), alerts that are enabled (211-215), and a list of rulesets that holds
  the body's keys (281) and fails with a `TypeError` at the first look for a name.
* Edits while verification reads object after object: it may then see a state that never was, which no order of
  reading prevents. `ExitZeroMeansCompliant` excludes them by `disturbed`; edits before verification are in `apply_edits`.
* A ruleset that is renamed between the list and the write by its id: it happens (section 6), so `OthersAreLeftAlone`
  and `RepairIsFinal` are checked and proved for a repository nobody else edits.
* The release pipeline and the other workflows: linear jobs whose order and re-runs GitHub's runner decides,
  with no code of repo-policy in them. The scheduled audit is an audit of ApplyRun.
* GitHub itself is assumed, not verified: a PUT of protection replaces the object and clears
  a dismissal or bypass list that is not sent, actor lists come back in the order they were sent,
  enabling a setting without what it needs is refused, and disabling what it needs disables it too.

## 8. Plan

Done: the call, the run, the branch field by field, the settings, their runs, every safety proof,
the abstract specification of the whole tool and the proof that ApplyRun implements it.

Left, in this order of value: a common abstraction of one branch, which Reconcile implements
over the real fields and from which ApplyRun's `Resolve` and `FieldChanges` follow, so that the two models
are joined by a proof as Request and ApplyRun are; ApplyRun over the real policies of Schema in place of two
abstract fields, which TLC could only explore over few entries; `Retry-After` as a
number; the release workflow, if its re-runs get code of their own.
