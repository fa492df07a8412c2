--------------------------- MODULE ApplyRun ---------------------------
(* One process of `repo-policy audit`, `plan` or `apply` after another, against *)
(* a repository that others may change and a network that may fail: preflight  *)
(* (read every branch), mutate (branch by branch), prune, repository settings, *)
(* verify, exit.  A call to GitHub is one step with the outcomes its contract  *)
(* allows (module Calls).                                                      *)
EXTENDS Calls, Compliance

CONSTANT MaxFaults   \* bound on failed calls and killed processes
ASSUME FaultsAssumption == MaxFaults \in Nat

VARIABLES
  command,     \* "check" (audit, plan) or "apply"
  phase,       \* the phase of the run
  step,        \* the step within the phase
  at,          \* index in Declared of the branch being planned or mutated
  cache,       \* rulesets_cache: id -> name or None
  stale,       \* stale_branches
  planned,     \* branch -> PlannedBranch or None
  journal,     \* ApplySummary.journal of apply_all
  toPrune,     \* rulesets prune_rulesets has yet to delete
  todo,        \* settings apply_repo_settings has yet to mutate
  unavailable, \* RepoSettingsResult.unavailable
  code,        \* the exit code; None while the process runs or if it was killed
  printed,     \* what was reported on stdout: resource and status
  \* What the code does not keep and the properties speak of:
  changed,     \* resources this run changed on GitHub
  disturbed,   \* somebody else changed the repository since verify began
  settled,     \* the last run exited 0 and nobody changed anything since
  faults       \* calls failed and processes killed so far

(* What reading, writing and planning steps leave alone, by kind. *)
outside == <<repo, edits, changed, faults>>
writing == <<journal, toPrune, todo, unavailable, printed>>
found == <<cache, stale>>
history == <<disturbed, settled>>

local == <<command, phase, step, at, cache, stale, planned, journal, toPrune,
           todo, unavailable, code, printed, changed>>
vars == <<repo, edits, local, disturbed, settled, faults>>

Change == Field \cup {"ruleset_metadata", "ruleset_effectiveness"}
PlannedBranch ==
  [resolved : [Field -> Value], extra : Extra, id : RulesetId \cup {None},
   changes : SUBSET Change]

(* A plan, an object on GitHub, its id or name, or an exit code is never       *)
(* mistaken for the lack of one.                                               *)
ASSUME NoneAssumption ==
  /\ None \notin PlannedBranch /\ None \notin Ruleset /\ None \notin Protection
  /\ None \notin RulesetId /\ None \notin RulesetName /\ None \notin 0 .. 3

Status == {"applied", "verified", "unavailable", "failed"}
Resource == {"branch"} \X Branch \cup {"ruleset"} \X RulesetId
              \cup {"setting"} \X Group
JournalEntry == [resource : Resource, status : Status]

Idle == phase = "exited"

TypeOK ==
  /\ GitHubTypeOK
  /\ command \in {"check", "apply"}
  /\ phase \in {"preflight", "mutate", "prune", "settings", "verify", "exited"}
  /\ step \in {"list", "stale", "plan", "call", "sign", "read"}
  /\ at \in 1 .. Len(Declared) + 1
  /\ cache \in [RulesetId -> RulesetName \cup {None}]
  /\ stale \in SUBSET Branch
  /\ planned \in [Branch -> PlannedBranch \cup {None}]
  /\ journal \in Seq(JournalEntry)
  /\ toPrune \in SUBSET RulesetId
  /\ todo \in SUBSET DeclaredSettings
  /\ unavailable \in SUBSET SettingField
  /\ code \in 0 .. 3 \cup {None}
  /\ printed \in SUBSET JournalEntry
  /\ changed \in SUBSET Resource
  /\ disturbed \in BOOLEAN
  /\ settled \in BOOLEAN
  /\ faults \in 0 .. MaxFaults
-----------------------------------------------------------------------------
(* Ends of a run. *)

Exit(c) ==
  /\ phase' = "exited"
  /\ code' = c

Entries == {journal[k] : k \in 1 .. Len(journal)}

Running == ~Idle

-----------------------------------------------------------------------------
(* Reading and planning: shared by apply's preflight and by audit_all, which   *)
(* is what audit, plan and verify_after_apply run.                             *)

Planning == phase \in {"preflight", "verify"}

NothingListed == [id \in RulesetId |-> None]
NothingPlanned == [b \in Branch |-> None]

Start(cmd) ==
  /\ Idle
  /\ command' = cmd
  /\ phase' = IF cmd = "apply" THEN "preflight" ELSE "verify"
  /\ step' = "list"
  /\ at' = 1
  /\ cache' = NothingListed
  /\ stale' = {}
  /\ planned' = NothingPlanned
  /\ journal' = << >>
  /\ toPrune' = {}
  /\ todo' = {}
  /\ unavailable' = {}
  /\ code' = None
  /\ printed' = {}
  /\ changed' = {}
  /\ disturbed' = FALSE
  /\ UNCHANGED <<repo, edits, settled, faults>>

(* prefetch_rulesets(force=config.strict) *)
PrefetchRulesets ==
  /\ Planning /\ step = "list"
  /\ cache' = IF Strict \/ RulesetBranches # {} THEN RulesetList ELSE NothingListed
  /\ step' = "stale"
  /\ UNCHANGED <<outside, writing, history, command, phase, at, stale, planned,
                 code>>

DetectStale ==
  /\ Planning /\ step = "stale"
  /\ stale' = {b \in RulesetBranches : protection[b] # None}
  /\ step' = "plan"
  /\ UNCHANGED <<outside, writing, history, command, phase, at, cache, planned,
                 code>>

(* fetch_current: what the branch's object on GitHub says, or the permissive   *)
(* policy when there is none.  A ruleset is looked up by name in the cache and *)
(* then fetched by id; with several of one name, GitHub's order decides.       *)
Listed(n) == {id \in RulesetId : cache[id] = n}

Found(b) ==
  IF Enforcement[b] = "branch_protection" \/ Listed(b) = {} THEN {None} ELSE Listed(b)

Raw(b, id) ==
  IF Enforcement[b] = "branch_protection" THEN protection[b]
  ELSE IF id = None THEN None ELSE rulesets[id]

Gone(id) == id # None /\ rulesets[id] = None

Parses(raw) == \A f \in Field : Current(raw)[f] # Unparsable

(* resolve_desired *)
DeclaredOnly(b, current) == Desired[b]
ResolveToDefaults(b, current) ==
  [f \in Field |-> IF Desired[b][f] # None THEN Desired[b][f] ELSE Permissive]
Resolve(b, current) ==
  [f \in Field |->
     IF Desired[b][f] # None THEN Desired[b][f]
     ELSE IF StrictBranch[b] THEN Permissive ELSE current[f]]

(* _branch_changes: the field diff, then the ruleset's metadata, then GitHub's *)
(* view of what is active, asked only when nothing else differs and the        *)
(* ruleset has a rule to enforce.                                              *)
FieldChanges(b, current) == {f \in Field : Resolve(b, current)[f] # current[f]}

MetadataChanges(b, raw) ==
  IF Enforcement[b] = "ruleset" /\ raw # None /\ ~raw.canonical
  THEN {"ruleset_metadata"} ELSE {}

EffectivenessUnchecked(b, id, raw) == {}
EffectivenessChanges(b, id, raw) ==
  IF /\ id # None
     /\ Resolve(b, Current(raw)) # Nothing \/ raw.extra # NoExtra
     /\ ~Effective(id, b)
  THEN {"ruleset_effectiveness"} ELSE {}

BranchChanges(b, id, raw) ==
  LET drift == FieldChanges(b, Current(raw)) \cup MetadataChanges(b, raw)
  IN  IF drift # {} THEN drift ELSE EffectivenessChanges(b, id, raw)

OnePlanned == at = Len(Declared) + 1 \/ (phase = "preflight" /\ at > 1)
AllPlanned == at = Len(Declared) + 1

(* _plan_branch_full *)
PlanBranch ==
  /\ Planning /\ step = "plan" /\ ~AllPlanned
  /\ LET b == Declared[at] IN
     \E id \in Found(b) :
       /\ ~Gone(id)
       /\ Parses(Raw(b, id))
       /\ planned' =
            [planned EXCEPT ![b] =
               [resolved |-> Resolve(b, Current(Raw(b, id))),
                extra    |-> CurrentExtra(Raw(b, id)),
                id       |-> id,
                changes  |-> BranchChanges(b, id, Raw(b, id))]]
  /\ at' = at + 1
  /\ UNCHANGED <<outside, writing, found, history, command, phase, step, code>>

(* PolicyResolutionError, or get_ruleset's 404 on a ruleset that has gone      *)
(* since the list was read: the run ends without another call.                 *)
PlanBranchFails ==
  /\ Planning /\ step = "plan" /\ ~AllPlanned
  /\ LET b == Declared[at] IN
     \E id \in Found(b) :
       \/ Gone(id) /\ Exit(3)
       \/ ~Gone(id) /\ ~Parses(Raw(b, id)) /\ Exit(2)
  /\ UNCHANGED <<outside, writing, found, history, command, step, at, planned>>

(* _plan_all_branches and audit_all's loop return. *)
EndPlanning ==
  /\ Planning /\ step = "plan" /\ AllPlanned
  /\ IF phase = "preflight"
     THEN phase' = "mutate" /\ step' = "call" /\ at' = 1
     ELSE phase' = phase /\ step' = "read" /\ at' = at
  /\ UNCHANGED <<outside, writing, found, history, command, planned, code>>

-----------------------------------------------------------------------------
(* Writing.  A call that GitHub accepts ends as its contract allows for a      *)
(* repository that has not moved; one it does not accept (404, 422) is an      *)
(* error that changed nothing.                                                 *)

Outcomes(c, accepted) ==
  IF accepted
  THEN {o \in Contract(c, FALSE) :
          /\ o.result # "absent"
          /\ o.result = "error" => faults < MaxFaults}
  ELSE {[result |-> "error", landed |-> 0]}

CountFault(o, accepted) ==
  faults' = IF accepted /\ o.result = "error" THEN faults + 1 ELSE faults

Landed(o, resource) ==
  changed' = IF o.landed > 0 THEN changed \cup {resource} ELSE changed

Journaled(resource, status) ==
  journal' = Append(journal, [resource |-> resource, status |-> status])

-----------------------------------------------------------------------------
(* apply_all's mutation loop. *)

Mutating == phase = "mutate" /\ at <= Len(Declared)
Target == Declared[at]
Plan == planned[Target]
Me == <<"branch", Target>>

KeepInMutation ==
  UNCHANGED <<found, history, command, planned, toPrune, todo, unavailable,
              edits>>

NextBranch == at + 1

AlwaysWrites == TRUE
NeedsWrite == Plan.changes # {}

(* No changes: the branch is journaled as verified and nothing is sent. *)
SkipBranch ==
  /\ Mutating /\ step = "call" /\ ~NeedsWrite
  /\ Journaled(Me, "verified")
  /\ at' = NextBranch
  /\ KeepInMutation
  /\ UNCHANGED <<repo, phase, step, code, printed, changed, faults>>

BranchApplied ==
  /\ Journaled(Me, "applied")
  /\ at' = NextBranch
  /\ step' = "call"
  /\ UNCHANGED <<phase, code, printed>>

BranchFailedSilently ==
  /\ Journaled(Me, "failed")
  /\ Exit(3)
  /\ UNCHANGED <<at, step, printed>>

(* PartialApplyError: the journal so far, with this branch as failed, is       *)
(* printed, and the process exits 3.                                           *)
BranchFailed ==
  /\ Journaled(Me, "failed")
  /\ Exit(3)
  /\ printed' = Entries \cup {[resource |-> Me, status |-> "failed"]}
  /\ UNCHANGED <<at, step>>

BranchErrorSwallowed(o) == BranchApplied
BranchAnswered(o) ==
  IF o.result = "ok" THEN BranchApplied ELSE BranchFailed

(* _mutate_planned_branch under branch_protection: the PUT, and then the       *)
(* signature requirement when that changed.                                    *)
PutNow(n) ==
  IF n = 0 THEN UNCHANGED repo
  ELSE PutProtection(Target, Plan.resolved, Plan.extra)

SignaturesForgotten == FALSE
SignaturesChange == Signed \in Plan.changes

PutBranch ==
  /\ Mutating /\ step = "call" /\ NeedsWrite
  /\ Enforcement[Target] = "branch_protection"
  /\ \E o \in Outcomes("put_branch_protection", TRUE) :
       /\ PutNow(o.landed)
       /\ Landed(o, Me)
       /\ CountFault(o, TRUE)
       /\ IF o.result = "ok" /\ SignaturesChange
          THEN step' = "sign" /\ UNCHANGED <<journal, at, phase, code, printed>>
          ELSE BranchAnswered(o)
  /\ KeepInMutation

SignNow(n) ==
  IF n = 0 THEN UNCHANGED repo ELSE SetSignatures(Target, Plan.resolved[Signed])

SignBranch ==
  /\ Mutating /\ step = "sign"
  /\ \E o \in Outcomes("set_required_signatures", protection[Target] # None) :
       /\ SignNow(o.landed)
       /\ Landed(o, Me)
       /\ CountFault(o, protection[Target] # None)
       /\ BranchAnswered(o)
  /\ KeepInMutation

(* _mutate_planned_branch under ruleset: create when none was found, update by *)
(* the id found at planning otherwise.                                         *)
CreateNow(n) == CreateRulesets(n, Target, Plan.resolved, Plan.extra)

CreateBranchRuleset ==
  /\ Mutating /\ step = "call" /\ NeedsWrite
  /\ Enforcement[Target] = "ruleset" /\ Plan.id = None
  /\ \E o \in Outcomes("create_ruleset", TRUE) :
       /\ CreateNow(o.landed)
       /\ Landed(o, Me)
       /\ CountFault(o, TRUE)
       /\ BranchAnswered(o)
  /\ KeepInMutation

UpdateNow(n) ==
  IF n = 0 THEN UNCHANGED repo
  ELSE UpdateRuleset(Plan.id, Target, Plan.resolved, Plan.extra)

UpdateBranchRuleset ==
  /\ Mutating /\ step = "call" /\ NeedsWrite
  /\ Enforcement[Target] = "ruleset" /\ Plan.id # None
  /\ \E o \in Outcomes("update_ruleset", ~Gone(Plan.id)) :
       /\ UpdateNow(o.landed)
       /\ Landed(o, Me)
       /\ CountFault(o, ~Gone(Plan.id))
       /\ BranchAnswered(o)
  /\ KeepInMutation

(* find_orphaned_ruleset_names, on the list read before planning. *)
AnyUndeclared(id) == cache[id] # None /\ cache[id] \notin RulesetBranches
EveryOwned(id) == cache[id] # None /\ cache[id] # Foreign
Orphan(id) ==
  cache[id] # None /\ cache[id] # Foreign /\ cache[id] \notin RulesetBranches
Orphans == {id \in RulesetId : Orphan(id)}

PrintedAtTheEnd == printed
JournalPrinted == Entries

(* apply_all returns and its journal is printed; prune_rulesets follows in     *)
(* strict mode.                                                                *)
EndMutation ==
  /\ phase = "mutate" /\ at = Len(Declared) + 1
  /\ printed' = JournalPrinted
  /\ IF Strict
     THEN phase' = "prune" /\ step' = "call" /\ toPrune' = Orphans
     ELSE phase' = "settings" /\ step' = "read" /\ toPrune' = toPrune
  /\ UNCHANGED <<outside, found, history, command, at, planned, journal, todo,
                 unavailable, code>>

-----------------------------------------------------------------------------
(* prune_rulesets: the names of the deleted are printed once it has returned.  *)

DeleteNow(id, n) == IF n = 0 THEN UNCHANGED repo ELSE DeleteRuleset(id)

PruneOne ==
  /\ phase = "prune"
  /\ \E id \in toPrune :
       \E o \in Outcomes("delete_ruleset", ~Gone(id)) :
         /\ DeleteNow(id, o.landed)
         /\ Landed(o, <<"ruleset", id>>)
         /\ CountFault(o, ~Gone(id))
         /\ IF o.result = "ok"
            THEN toPrune' = toPrune \ {id} /\ UNCHANGED <<phase, code>>
            ELSE Exit(3) /\ UNCHANGED toPrune
  /\ UNCHANGED <<found, history, edits, command, step, at, planned, journal,
                 todo, unavailable, printed>>

PrunedEntries ==
  {[resource |-> <<"ruleset", id>>, status |-> "applied"] : id \in Orphans}

EndPrune ==
  /\ phase = "prune" /\ toPrune = {}
  /\ printed' = printed \cup PrunedEntries
  /\ phase' = "settings"
  /\ step' = "read"
  /\ UNCHANGED <<outside, found, history, command, at, planned, journal,
                 toPrune, todo, unavailable, code>>

-----------------------------------------------------------------------------
(* plan_repo_settings and apply_repo_settings. *)

UnavailableIgnored == {}
SettingsUnavailable == DeclaredSettings \cap Unreadable

ChangesIfAllIsReadable ==
  {s \in DeclaredSettings :
     SettingsUnavailable = {} /\ settings[s] # DesiredSetting[s]}
SettingsChanges ==
  {s \in DeclaredSettings \ Unreadable : settings[s] # DesiredSetting[s]}

PlanSettings ==
  /\ phase = "settings" /\ step = "read"
  /\ todo' = SettingsChanges
  /\ unavailable' = SettingsUnavailable
  /\ step' = "call"
  /\ UNCHANGED <<outside, found, history, command, phase, at, planned, journal,
                 toPrune, code, printed>>

(* The fixed order of the mutations in apply_repo_settings. *)
RankFixesFirst(g) ==
  CASE g = "flat" -> 1 [] g = "security_and_analysis" -> 2
    [] g = "automated_security_fixes" -> 3 [] g = "vulnerability_alerts" -> 4
    [] OTHER -> 5
Rank(g) ==
  CASE g = "flat" -> 1 [] g = "security_and_analysis" -> 2
    [] g = "vulnerability_alerts" -> 3 [] g = "automated_security_fixes" -> 4
    [] OTHER -> 5

(* What is left to change of a group goes out in one call. *)
Payload(g) == {s \in todo : GroupOf(s) = g}
TodoGroups == {GroupOf(s) : s \in todo}
NextGroup(g) == g \in TodoGroups /\ \A h \in TodoGroups : Rank(g) <= Rank(h)

SettingCall(g) ==
  CASE g = "flat" -> "update_repo_settings"
    [] g = "security_and_analysis" -> "update_security_and_analysis"
    [] g = "vulnerability_alerts" ->
         IF DesiredSetting[g] THEN "enable_vulnerability_alerts"
         ELSE "disable_vulnerability_alerts"
    [] g = "automated_security_fixes" ->
         IF DesiredSetting[g] THEN "enable_automated_security_fixes"
         ELSE "disable_automated_security_fixes"
    [] OTHER ->
         IF DesiredSetting[g] THEN "enable_private_vulnerability_reporting"
         ELSE "disable_private_vulnerability_reporting"

SetNow(g, n) ==
  IF n = 0 THEN UNCHANGED repo ELSE SetSettings(Payload(g), DesiredSetting)

Accepted(g) == g \notin Unlicensed /\ AcceptsSettings(Payload(g), DesiredSetting)

(* A refusal that the method takes for an answer: GitHub does not offer the    *)
(* setting here or, after somebody's edit, lacks what it needs.                *)
Answered422(g) == ~Accepted(g) /\ SettingCall(g) \in Allow422

ReportedAs422 == "applied"
Status422 == "unavailable"

SettingDone(g, status) ==
  /\ Journaled(<<"setting", g>>, status)
  /\ todo' = todo \ Payload(g)
  /\ unavailable' = IF Answered422(g) THEN unavailable \cup Payload(g)
                    ELSE unavailable
  /\ UNCHANGED <<phase, code, printed>>

(* PartialApplyError from apply_repo_settings: its own journal is printed. *)
SettingFailed(g) ==
  /\ Journaled(<<"setting", g>>, "failed")
  /\ Exit(3)
  /\ printed' = printed \cup Entries
       \cup {[resource |-> <<"setting", g>>, status |-> "failed"]}
  /\ UNCHANGED <<todo, unavailable>>

KeepInSettings ==
  UNCHANGED <<found, history, command, step, at, planned, toPrune, edits>>

MutateSetting ==
  /\ phase = "settings" /\ step = "call"
  /\ \E g \in Group :
       /\ NextGroup(g) /\ ~Answered422(g)
       /\ \E o \in Outcomes(SettingCall(g), Accepted(g)) :
            /\ SetNow(g, o.landed)
            /\ Landed(o, <<"setting", g>>)
            /\ CountFault(o, Accepted(g))
            /\ IF o.result = "ok" THEN SettingDone(g, "applied") ELSE SettingFailed(g)
  /\ KeepInSettings

(* A 422 on security_and_analysis or private vulnerability reporting. *)
SettingUnavailable ==
  /\ phase = "settings" /\ step = "call"
  /\ \E g \in Group :
       /\ NextGroup(g) /\ Answered422(g)
       /\ \/ SettingDone(g, Status422) /\ UNCHANGED faults
          \/ faults < MaxFaults /\ SettingFailed(g) /\ faults' = faults + 1
  /\ KeepInSettings
  /\ UNCHANGED <<repo, changed>>

EnterVerify ==
  /\ phase = "settings" /\ step = "call" /\ todo = {}
  /\ phase' = "verify"
  /\ step' = "list"
  /\ at' = 1
  /\ planned' = NothingPlanned
  /\ disturbed' = FALSE
  /\ UNCHANGED <<outside, writing, found, command, code, settled>>

-----------------------------------------------------------------------------
(* _compute_drift over what verify_after_apply (or the audit) read.            *)

Drift ==
  \/ \E b \in DeclaredSet : planned[b].changes # {} \/ b \in stale
  \/ Strict /\ Orphans # {}
  \/ SettingsChanges # {} \/ SettingsUnavailable # {}

SettingEntries == {e \in Entries : e.resource[1] = "setting"}

(* A verification that polls until GitHub catches up. *)
PollVerify ==
  /\ phase = "verify" /\ step = "read"
  /\ IF Drift THEN step' = "list" /\ at' = 1 /\ UNCHANGED <<phase, code, printed, settled>>
     ELSE /\ Exit(0)
          /\ printed' = printed \cup SettingEntries
          /\ settled' = (settled \/ ~disturbed)
          /\ UNCHANGED <<step, at>>
  /\ UNCHANGED <<outside, found, command, planned, journal, toPrune, todo,
                 unavailable, disturbed>>

(* The last read, plan_repo_settings, and the exit it leads to. *)
EndVerify ==
  /\ phase = "verify" /\ step = "read"
  /\ Exit(IF Drift THEN 1 ELSE 0)
  /\ printed' = printed \cup SettingEntries
  /\ settled' = (settled \/ (~Drift /\ ~disturbed))
  /\ UNCHANGED <<outside, found, command, step, at, planned, journal, toPrune,
                 todo, unavailable, disturbed>>

-----------------------------------------------------------------------------
(* What ends a run early. *)

(* A GET that fails for good raises GitHubAPIError; nothing more is printed.   *)
Reading ==
  \/ Planning /\ step = "list" /\ (Strict \/ RulesetBranches # {})
  \/ Planning /\ step = "stale" /\ RulesetBranches # {}
  \/ Planning /\ step = "plan" /\ ~AllPlanned
  \/ phase \in {"settings", "verify"} /\ step = "read" /\ DeclaredSettings # {}

ReadFails ==
  /\ Running /\ Reading /\ faults < MaxFaults
  /\ faults' = faults + 1
  /\ Exit(3)
  /\ UNCHANGED <<writing, found, history, repo, edits, command, step, at,
                 planned, changed>>

(* The process is killed: Ctrl-C, a cancelled or timed out CI job.  A request  *)
(* in flight may still land, and nobody reads the reply.                       *)
InFlightLands ==
  \/ /\ Mutating /\ NeedsWrite
     /\ \/ /\ step = "sign" /\ protection[Target] # None /\ SignNow(1)
        \/ /\ step = "call" /\ Enforcement[Target] = "branch_protection" /\ PutNow(1)
        \/ /\ step = "call" /\ Enforcement[Target] = "ruleset"
           /\ IF Plan.id = None THEN CreateNow(1) ELSE UpdateNow(1)
     /\ changed' = changed \cup {Me}
  \/ /\ phase = "prune"
     /\ \E id \in toPrune : /\ DeleteNow(id, 1)
                             /\ changed' = changed \cup {<<"ruleset", id>>}
  \/ /\ phase = "settings" /\ step = "call"
     /\ \E g \in Group : /\ NextGroup(g) /\ Accepted(g) /\ SetNow(g, 1)
                          /\ changed' = changed \cup {<<"setting", g>>}

Killed ==
  /\ Running /\ faults < MaxFaults
  /\ faults' = faults + 1
  /\ Exit(None)
  /\ InFlightLands \/ UNCHANGED <<repo, changed>>
  /\ UNCHANGED <<writing, found, history, edits, command, step, at, planned>>

-----------------------------------------------------------------------------
Others ==
  /\ Edit
  /\ disturbed' = TRUE
  /\ settled' = FALSE
  /\ UNCHANGED <<local, faults>>

Init ==
  /\ GitHubTypeOK
  /\ \A id \in RulesetId : id >= nextId => rulesets[id] = None
  /\ \A s \in DOMAIN Needs : settings[s] => settings[Needs[s]]
  /\ edits = 0
  /\ command = "check" /\ phase = "exited" /\ step = "list" /\ at = 1
  /\ cache = NothingListed /\ stale = {} /\ planned = NothingPlanned
  /\ journal = << >> /\ toPrune = {} /\ todo = {} /\ unavailable = {}
  /\ code = None /\ printed = {} /\ changed = {}
  /\ disturbed = FALSE /\ settled = FALSE /\ faults = 0

Work ==
  \/ PrefetchRulesets \/ DetectStale \/ PlanBranch \/ PlanBranchFails
  \/ EndPlanning \/ SkipBranch \/ PutBranch \/ SignBranch
  \/ CreateBranchRuleset \/ UpdateBranchRuleset \/ EndMutation
  \/ PruneOne \/ EndPrune \/ PlanSettings \/ MutateSetting
  \/ SettingUnavailable \/ EnterVerify \/ EndVerify

Next ==
  \/ \E cmd \in {"check", "apply"} : Start(cmd)
  \/ Work \/ ReadFails \/ Killed \/ Others

Spec == Init /\ [][Next]_vars

(* One thread runs the code and every call ends (Request!EveryCallEnds), so a  *)
(* run goes on; whoever operates it keeps applying after a failure, however    *)
(* often the repository is audited in between.                                 *)
Fairness == WF_vars(Work) /\ SF_vars(Start("apply"))
FairSpec == Spec /\ Fairness
=============================================================================
