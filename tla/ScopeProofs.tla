-------------------------- MODULE ScopeProofs --------------------------
(* For every policy.  Whatever others do to the repository meanwhile, a run     *)
(* deletes only what it listed as orphans.  As long as only repo-policy writes  *)
(* to it, nothing of others is touched, no two rulesets have one name, and what *)
(* the policy says nothing of stays as it was.                                  *)
EXTENDS ApplyProofs

USE DEF outside, writing, found, history

Planners == {"preflight", "mutate"}

(* What a run is about to write to, it found under its own name. *)
Scope ==
  /\ phase = "prune" => Strict /\ toPrune \subseteq Orphans
  /\ phase = "mutate" /\ step = "sign" => Enforcement[Target] = "branch_protection"
  /\ phase = "preflight" /\ step = "list" => planned = NothingPlanned
  /\ phase \in Planners =>
       \A b \in Branch :
         planned[b] # None /\ planned[b].id # None => cache[planned[b].id] = b

LEMMA InitScope == Init => Scope
BY DEF Init, Scope, Planners

(* The branch being planned is found in the list under its own name. *)
LEMMA PlanBranchScope ==
  ASSUME IInv, Scope, PlanBranch PROVE Scope'
<1> DEFINE b == Declared[at]
<1>1. at \in 1 .. Len(Declared) /\ b \in Branch
  BY DeclaredType DEF IInv, TypeOK, PlanBranch, AllPlanned
<1>2. PICK id \in Found(b) :
        planned' = [planned EXCEPT ![b] =
               [resolved |-> Resolve(b, Current(Raw(b, id))),
                extra    |-> CurrentExtra(Raw(b, id)),
                id       |-> id,
                changes  |-> BranchChanges(b, id, Raw(b, id))]]
  BY DEF PlanBranch
<1>3. id # None => cache[id] = b
  BY DEF Found, Listed
<1>4. planned'[b].id = id
  BY <1>1, <1>2 DEF IInv, TypeOK
<1>5. \A c \in Branch : c # b => planned'[c] = planned[c]
  BY <1>1, <1>2 DEF IInv, TypeOK
<1>6. cache' = cache /\ phase' = phase /\ step' = step /\ step = "plan"
      /\ phase \in {"preflight", "verify"}
  BY DEF PlanBranch, Planning
<1>7. ASSUME phase' \in Planners, NEW c \in Branch, planned'[c] # None,
             planned'[c].id # None
      PROVE  cache'[planned'[c].id] = c
  BY <1>3, <1>4, <1>5, <1>6, <1>7 DEF Scope
<1>. QED
  BY <1>6, <1>7 DEF Scope

(* A step within a branch's mutation, or the end of it. *)
LEMMA MutationScope ==
  ASSUME Scope, phase = "mutate", KeepInMutation,
         \/ phase' = "exited"
         \/ phase' = phase /\ step' = "call"
         \/ UNCHANGED <<phase, at>> /\ Enforcement[Target] = "branch_protection"
  PROVE  Scope'
<1>1. Target' = Declared[at']
  BY DEF Target
<1>. QED
  BY <1>1 DEF Scope, KeepInMutation, Planners, Target

LEMMA NextScope == IInv /\ Scope /\ [Next]_vars => Scope'
<1> SUFFICES ASSUME IInv, Scope, [Next]_vars PROVE Scope'
  OBVIOUS
<1>1. ASSUME NEW cmd \in {"check", "apply"}, Start(cmd) PROVE Scope'
  BY <1>1 DEF Start, Scope, Planners, NothingPlanned
<1>2. CASE PrefetchRulesets
  <2>1. phase = "preflight" => \A b \in Branch : planned[b] = None
    BY <1>2 DEF PrefetchRulesets, Scope, NothingPlanned
  <2>. QED
    BY <1>2, <2>1 DEF PrefetchRulesets, Scope, Planning, Planners
<1>3. CASE DetectStale
  BY <1>3 DEF DetectStale, Scope, Planning, Planners
<1>4. CASE PlanBranch
  BY <1>4, PlanBranchScope
<1>5. CASE PlanBranchFails
  BY <1>5 DEF PlanBranchFails, Exit, Scope, Planners
<1>6. CASE EndPlanning
  BY <1>6 DEF EndPlanning, Scope, Planning, Planners
<1>7. CASE SkipBranch
  BY <1>7, MutationScope DEF SkipBranch, Mutating
<1>8. CASE PutBranch
  <2>1. \/ BranchApplied \/ BranchFailed
        \/ UNCHANGED <<phase, at>> /\ Enforcement[Target] = "branch_protection"
    BY <1>8 DEF PutBranch, BranchAnswered
  <2>. QED
    BY <1>8, <2>1, MutationScope
       DEF PutBranch, Mutating, BranchApplied, BranchFailed, Exit
<1>9. CASE SignBranch \/ CreateBranchRuleset \/ UpdateBranchRuleset
  <2>1. phase = "mutate" /\ KeepInMutation /\ (BranchApplied \/ BranchFailed)
    BY <1>9 DEF SignBranch, CreateBranchRuleset, UpdateBranchRuleset,
                BranchAnswered, Mutating
  <2>. QED
    BY <2>1, MutationScope DEF BranchApplied, BranchFailed, Exit
<1>10. CASE EndMutation
  BY <1>10 DEF EndMutation, Scope, Planners, Orphans, Orphan
<1>11. CASE PruneOne
  BY <1>11 DEF PruneOne, Exit, Scope, Planners, Orphans, Orphan
<1>12. CASE EndPrune \/ PlanSettings \/ EnterVerify
  BY <1>12 DEF EndPrune, PlanSettings, EnterVerify, Scope, Planners
<1>13. CASE MutateSetting \/ SettingUnavailable
  BY <1>13 DEF MutateSetting, SettingUnavailable, SettingDone, SettingFailed, Exit,
               KeepInSettings, Scope, Planners
<1>14. CASE EndVerify \/ ReadFails \/ Killed
  BY <1>14 DEF EndVerify, ReadFails, Killed, Exit, Scope, Planners
<1>15. CASE Others
  BY <1>15 DEF Others, local, Scope, Planners, Target, Orphans, Orphan
<1>16. CASE UNCHANGED vars
  BY <1>16 DEF vars, local, Scope, Planners, Target, Orphans, Orphan
<1>. QED
  BY <1>1, <1>2, <1>3, <1>4, <1>5, <1>6, <1>7, <1>8, <1>9, <1>10, <1>11, <1>12,
     <1>13, <1>14, <1>15, <1>16 DEF Next, Work

LEMMA SpecScope == Spec => [](IInv /\ Scope)
BY InitIInv, NextIInv, InitScope, NextScope, PTL DEF Spec

-----------------------------------------------------------------------------
(* The writes of a run, and what each of them is aimed at. *)

WritesProtection ==
  /\ Mutating /\ Enforcement[Target] = "branch_protection"
  /\ \/ step = "call" /\ PutProtection(Target, Plan.resolved, Plan.extra)
     \/ step = "sign" /\ SetSignatures(Target, Plan.resolved[Signed])

Creates ==
  /\ Mutating /\ step = "call" /\ Enforcement[Target] = "ruleset" /\ Plan.id = None
  /\ CreateRulesets(1, Target, Plan.resolved, Plan.extra)

Updates ==
  /\ Mutating /\ step = "call" /\ Enforcement[Target] = "ruleset" /\ Plan.id # None
  /\ UpdateRuleset(Plan.id, Target, Plan.resolved, Plan.extra)

Deletions == phase = "prune" /\ \E id \in toPrune : DeleteRuleset(id)

Sets ==
  /\ phase = "settings" /\ step = "call"
  /\ \E g \in Group \ Unlicensed :
       NextGroup(g) /\ SetSettings(Payload(g), DesiredSetting)

(* A POST is sent once: create_ruleset is not retried. *)
LEMMA CreateOutcome ==
  ASSUME NEW o \in Outcomes("create_ruleset", TRUE) PROVE o.landed \in {0, 1}
<1>1. o.landed \in MayLand("create_ruleset", o.result, FALSE)
  BY DEF Outcomes, Contract
<1>. QED
  BY <1>1 DEF MayLand, Reads, Idempotent

LEMMA CreateNowForm ==
  ASSUME IInv, NEW n \in {0, 1}, CreateNow(n),
         Mutating, step = "call", Enforcement[Target] = "ruleset", Plan.id = None
  PROVE  UNCHANGED repo \/ Creates
<1>1. CASE n = 0
  <2>1. nextId \in Nat /\ rulesets = [id \in RulesetId |-> rulesets[id]]
    BY GitHubAssumption DEF IInv, TypeOK, GitHubTypeOK
  <2>2. \A id \in RulesetId : id \notin nextId .. nextId + n - 1
    BY <1>1, <2>1
  <2>3. nextId' = nextId
    BY <1>1, <2>1 DEF CreateNow, CreateRulesets
  <2>. QED
    BY <2>1, <2>2, <2>3 DEF CreateNow, CreateRulesets, repo
<1>2. CASE n = 1
  BY <1>2 DEF CreateNow, Creates
<1>. QED
  BY <1>1, <1>2

LEMMA AllWriteForms ==
  ASSUME IInv, Scope, [Next]_vars, OwnStep
  PROVE  UNCHANGED repo \/ WritesProtection \/ Creates \/ Updates \/ Deletions \/ Sets
<1>1. CASE PutBranch
  BY <1>1 DEF PutBranch, PutNow, WritesProtection
<1>2. CASE SignBranch
  <2>1. Mutating /\ Enforcement[Target] = "branch_protection"
    BY <1>2 DEF SignBranch, Mutating, Scope
  <2>. QED
    BY <1>2, <2>1 DEF SignBranch, SignNow, WritesProtection, repo
<1>3. CASE CreateBranchRuleset
  BY <1>3, CreateOutcome, CreateNowForm DEF CreateBranchRuleset
<1>4. CASE UpdateBranchRuleset
  BY <1>4 DEF UpdateBranchRuleset, UpdateNow, Updates, repo
<1>5. CASE PruneOne
  BY <1>5 DEF PruneOne, DeleteNow, Deletions, repo
<1>6. CASE MutateSetting
  BY <1>6, WhichAre422 DEF MutateSetting, SetNow, Sets
<1>7. CASE Killed
  <2>1. CASE UNCHANGED <<repo, changed>>
    BY <2>1
  <2>2. CASE Mutating /\ step = "sign" /\ SignNow(1)
    BY <2>2 DEF SignNow, WritesProtection, Scope, Mutating
  <2>3. CASE Mutating /\ step = "call" /\ Enforcement[Target] = "branch_protection" /\ PutNow(1)
    BY <2>3 DEF PutNow, WritesProtection
  <2>4. CASE Mutating /\ step = "call" /\ Enforcement[Target] = "ruleset" /\ Plan.id = None
             /\ CreateNow(1)
    BY <2>4, CreateNowForm
  <2>5. CASE Mutating /\ step = "call" /\ Enforcement[Target] = "ruleset" /\ Plan.id # None
             /\ UpdateNow(1)
    BY <2>5 DEF UpdateNow, Updates
  <2>6. CASE phase = "prune" /\ \E id \in toPrune : DeleteNow(id, 1)
    BY <2>6 DEF DeleteNow, Deletions
  <2>7. CASE /\ phase = "settings" /\ step = "call"
             /\ \E g \in Group : NextGroup(g) /\ Accepted(g) /\ SetNow(g, 1)
    BY <2>7 DEF SetNow, Accepted, Sets
  <2>. QED
    BY <1>7, <2>1, <2>2, <2>3, <2>4, <2>5, <2>6, <2>7 DEF Killed, InFlightLands
<1>8. CASE Others
  BY <1>8 DEF Others, Edit, OwnStep, IInv, TypeOK, GitHubTypeOK
<1>9. CASE \E cmd \in {"check", "apply"} : Start(cmd)
  BY <1>9 DEF Start, repo
<1>10. CASE ReadFails \/ UNCHANGED vars
  BY <1>10 DEF ReadFails, vars, repo
<1>11. CASE PrefetchRulesets \/ DetectStale \/ PlanBranch \/ PlanBranchFails
            \/ EndPlanning \/ SkipBranch \/ EndMutation \/ EndPrune \/ PlanSettings
            \/ SettingUnavailable \/ EnterVerify \/ EndVerify
  BY <1>11 DEF PrefetchRulesets, DetectStale, PlanBranch, PlanBranchFails,
     EndPlanning, SkipBranch, EndMutation, EndPrune, PlanSettings,
     SettingUnavailable, EnterVerify, EndVerify, repo
<1>. QED
  BY <1>1, <1>2, <1>3, <1>4, <1>5, <1>6, <1>7, <1>8, <1>9, <1>10, <1>11
     DEF Next, Work

LEMMA WriteForms ==
  ASSUME IInv, Scope, [Next]_vars, OwnStep
  PROVE  \/ UNCHANGED <<protection, rulesets, nextId>>
         \/ WritesProtection \/ Creates \/ Updates \/ Deletions
BY AllWriteForms DEF repo, Sets, SetSettings

(* A ruleset a branch's plan names was listed under that branch's name. *)
LEMMA PlanIdIsOwn ==
  ASSUME IInv, Scope, Mutating, Plan.id # None
  PROVE  cache[Plan.id] = Target /\ Target \in Branch
<1>1. Target \in Branch /\ Target \in DeclaredSet
  BY TargetType DEF IInv
<1>2. planned[Target] # None
  BY <1>1 DEF IInv, PlansHold, Mutating
<1>. QED
  BY <1>1, <1>2 DEF Scope, Planners, Mutating, Plan

LEMMA OrphanIsOwned ==
  ASSUME TypeOK, NEW id \in Orphans PROVE cache[id] \in Branch \ RulesetBranches
BY DEF TypeOK, Orphans, Orphan, RulesetName

(* A ruleset disappears only by a deletion of the prune. *)
LEMMA DeletedIsOrphan ==
  ASSUME IInv, Scope, [Next]_vars, OwnStep, NEW id \in RulesetId,
         rulesets[id] # None, rulesets'[id] = None
  PROVE  Strict /\ cache[id] \in Branch \ RulesetBranches
<1>1. \A b \in Branch, policy \in Policy, extra \in Extra :
        OwnRuleset(b, policy, extra) # None
  BY OwnRulesetType, NoneAssumption
<1>2. Mutating => /\ Target \in Branch
                  /\ Plan.resolved \in Policy /\ Plan.extra \in Extra
  BY TargetType, PlanType DEF IInv
<1>3. ~WritesProtection
  BY DEF WritesProtection, PutProtection, SetSignatures
<1>4. ~Creates
  BY <1>1, <1>2 DEF Creates, CreateRulesets
<1>5. ~Updates
  BY <1>1, <1>2 DEF Updates, UpdateRuleset, IInv, TypeOK, GitHubTypeOK
<1>6. Deletions
  BY <1>3, <1>4, <1>5, WriteForms
<1>7. id \in toPrune
  BY <1>6 DEF Deletions, DeleteRuleset, IInv, TypeOK, GitHubTypeOK
<1>8. Strict /\ id \in Orphans
  BY <1>6, <1>7 DEF Scope, Deletions
<1>. QED
  BY <1>8, OrphanIsOwned DEF IInv

-----------------------------------------------------------------------------
(* Pruning, by a list that may be stale, deletes only in strict mode and only  *)
(* what was listed under a repo-policy name that no declared branch claims.     *)
THEOREM PruningIsSafe == Spec => PrunesOnlyOrphans
<1> DEFINE Safe == OwnStep => \A id \in RulesetId :
                     rulesets[id] # None /\ rulesets'[id] = None
                       => Strict /\ cache[id] \in Branch \ RulesetBranches
<1>1. IInv /\ Scope /\ [Next]_vars => [Safe]_vars
  BY DeletedIsOrphan
<1>. QED
  BY <1>1, SpecScope, PTL DEF Spec, PrunesOnlyOrphans

-----------------------------------------------------------------------------
(* From here on only repo-policy writes to the repository, whatever calls fail, *)
(* lose their replies or are cut off.                                           *)

FreshIds == \A id \in RulesetId : id >= nextId => rulesets[id] = None

(* Planning has read the list, and nothing has been listed since. *)
ListRead == phase = "mutate" \/ (phase = "preflight" /\ step # "list")

Unnamed(b) == \A id \in RulesetId : RulesetList[id] # b

(* A ruleset is yet to be created for the j-th branch. *)
Awaits(j) ==
  /\ Declared[j] \in RulesetBranches
  /\ planned[Declared[j]] # None
  /\ planned[Declared[j]].id = None
  /\ phase = "mutate" => j >= at

(* A listed ruleset still has the name it was listed under, and a branch for   *)
(* which a ruleset is yet to be created has none.                               *)
ListHolds ==
  /\ phase = "preflight" /\ step # "list" /\ RulesetBranches # {} => cache = RulesetList
  /\ ListRead => \A id \in RulesetId : cache[id] # None => RulesetList[id] = cache[id]
  /\ ListRead => \A j \in 1 .. Len(Declared) : Awaits(j) => Unnamed(Declared[j])

UInv == NoDuplicateRulesets /\ FreshIds /\ ListHolds

QInv == IInv /\ Scope /\ UInv

LEMMA ListType ==
  ASSUME TypeOK PROVE RulesetList \in [RulesetId -> RulesetName \cup {None}]
BY DEF TypeOK, GitHubTypeOK, RulesetList, Ruleset

(* A ruleset created for a branch gets the first free id and the branch's name. *)
LEMMA CreatedList ==
  ASSUME QInv, Creates
  PROVE  /\ nextId \in RulesetId /\ nextId' = nextId + 1
         /\ RulesetList[nextId] = None
         /\ RulesetList' = [RulesetList EXCEPT ![nextId] = Target]
         /\ FreshIds'
<1>1. /\ nextId \in Nat /\ nextId \in RulesetId /\ nextId' = nextId + 1
      /\ rulesets' = [id \in RulesetId |->
           IF id \in nextId .. nextId + 1 - 1
           THEN OwnRuleset(Target, Plan.resolved, Plan.extra) ELSE rulesets[id]]
  BY GitHubAssumption DEF QInv, IInv, TypeOK, GitHubTypeOK, Creates, CreateRulesets, RulesetId
<1>2. OwnRuleset(Target, Plan.resolved, Plan.extra) \in Ruleset
  BY TargetType, PlanType, OwnRulesetType DEF QInv, IInv, Creates
<1>3. OwnRuleset(Target, Plan.resolved, Plan.extra) # None
      /\ OwnRuleset(Target, Plan.resolved, Plan.extra).name = Target
  BY <1>2, NoneAssumption DEF OwnRuleset
<1>4. \A id \in RulesetId : id # nextId => rulesets'[id] = rulesets[id]
  BY <1>1 DEF RulesetId
<1>5. rulesets'[nextId] = OwnRuleset(Target, Plan.resolved, Plan.extra)
  BY <1>1
<1>6. rulesets[nextId] = None
  BY <1>1 DEF QInv, UInv, FreshIds
<1>7. RulesetList[nextId] = None
  BY <1>1, <1>6 DEF RulesetList
<1>8. \A id \in RulesetId :
        RulesetList'[id] = IF id = nextId THEN Target ELSE RulesetList[id]
  BY <1>3, <1>4, <1>5 DEF RulesetList
<1>9. RulesetList' = [RulesetList EXCEPT ![nextId] = Target]
  BY <1>8 DEF RulesetList
<1>10. FreshIds'
  BY <1>1, <1>4 DEF FreshIds, RulesetId, QInv, UInv
<1>. QED
  BY <1>1, <1>7, <1>9, <1>10

(* An update gives the ruleset the name it has. *)
LEMMA UpdatedList ==
  ASSUME QInv, Updates
  PROVE  UNCHANGED <<RulesetList, nextId>> /\ FreshIds'
<1> DEFINE new == OwnRuleset(Target, Plan.resolved, Plan.extra)
<1>1. /\ Plan.id # None /\ cache[Plan.id] = Target /\ Target \in Branch
      /\ nextId' = nextId /\ rulesets[Plan.id] # None
      /\ rulesets' = [rulesets EXCEPT ![Plan.id] = new]
  BY PlanIdIsOwn DEF QInv, Updates, UpdateRuleset
<1>2. Plan.id \in RulesetId
  BY <1>1, PlanType DEF QInv, Updates, PlannedBranch
<1>3. Target # None
  BY <1>1, NoneAssumption DEF RulesetName
<1>4. RulesetList[Plan.id] = Target
  BY <1>1, <1>2, <1>3 DEF QInv, UInv, ListHolds, ListRead, Updates, Mutating
<1>5. new \in Ruleset /\ new.name = Target
  <2>1. new \in Ruleset
    BY TargetType, PlanType, OwnRulesetType DEF QInv, IInv, Updates
  <2>. QED
    BY <2>1 DEF OwnRuleset
<1>6. new # None
  BY <1>5, NoneAssumption
<1>7. \A id \in RulesetId :
        rulesets'[id] = IF id = Plan.id THEN new ELSE rulesets[id]
  BY <1>1, <1>2 DEF QInv, IInv, TypeOK, GitHubTypeOK
<1>8. \A id \in RulesetId : RulesetList'[id] = RulesetList[id]
  BY <1>1, <1>2, <1>4, <1>5, <1>6, <1>7 DEF RulesetList
<1>9. RulesetList' = RulesetList
  BY <1>8 DEF RulesetList
<1>10. FreshIds'
  BY <1>1, <1>2, <1>7 DEF FreshIds, QInv, UInv
<1>. QED
  BY <1>1, <1>9, <1>10

LEMMA DeletedList ==
  ASSUME QInv, Deletions
  PROVE  /\ \A id \in RulesetId : RulesetList'[id] \in {RulesetList[id], None}
         /\ FreshIds'
<1>1. PICK id \in toPrune : DeleteRuleset(id)
  BY DEF Deletions
<1>2. id \in RulesetId
  BY DEF QInv, IInv, TypeOK
<1>3. \A i \in RulesetId : rulesets'[i] = IF i = id THEN None ELSE rulesets[i]
  BY <1>1, <1>2 DEF DeleteRuleset, QInv, IInv, TypeOK, GitHubTypeOK
<1>4. nextId' = nextId
  BY <1>1 DEF DeleteRuleset
<1>. QED
  BY <1>3, <1>4 DEF RulesetList, FreshIds, QInv, UInv

LEMMA SameList ==
  ASSUME UNCHANGED <<rulesets, nextId>>
  PROVE  RulesetList' = RulesetList /\ (FreshIds => FreshIds')
BY DEF RulesetList, FreshIds

(* The branch a ruleset is created for was found to have none. *)
LEMMA CreatedForUnnamed == ASSUME QInv, Creates PROVE Unnamed(Target)
<1>1. at \in 1 .. Len(Declared)
  BY DeclaredType DEF QInv, IInv, TypeOK, Creates, Mutating
<1>2. Target \in DeclaredSet /\ Target = Declared[at]
  BY TargetType DEF QInv, IInv, Creates, Target
<1>3. planned[Target] # None /\ Target \in RulesetBranches
  BY <1>2 DEF QInv, IInv, PlansHold, Creates, Mutating, RulesetBranches
<1>. QED
  BY <1>1, <1>2, <1>3 DEF QInv, UInv, ListHolds, ListRead, Awaits, Creates, Mutating, Plan

LEMMA StaysUnique ==
  ASSUME QInv, [Next]_vars, OwnStep PROVE NoDuplicateRulesets' /\ FreshIds'
<1>1. CASE UNCHANGED RulesetList /\ FreshIds'
  BY <1>1 DEF QInv, UInv, NoDuplicateRulesets
<1>2. CASE UNCHANGED <<protection, rulesets, nextId>>
  BY <1>1, <1>2, SameList DEF QInv, UInv
<1>3. CASE WritesProtection
  BY <1>1, <1>3, SameList
     DEF WritesProtection, PutProtection, SetSignatures, QInv, UInv
<1>4. CASE Creates
  <2>1. \A id \in RulesetId : RulesetList'[id] =
          IF id = nextId THEN Target ELSE RulesetList[id]
    BY <1>4, CreatedList DEF RulesetList
  <2>. QED
    BY <1>4, <2>1, CreatedList, CreatedForUnnamed
       DEF Unnamed, QInv, UInv, NoDuplicateRulesets
<1>5. CASE Updates
  BY <1>1, <1>5, UpdatedList
<1>6. CASE Deletions
  BY <1>6, DeletedList DEF QInv, UInv, NoDuplicateRulesets
<1>. QED
  BY <1>2, <1>3, <1>4, <1>5, <1>6, WriteForms DEF QInv

-----------------------------------------------------------------------------
(* What was listed and planned goes on holding. *)

LEMMA ListStays ==
  ASSUME QInv, UNCHANGED <<cache, planned, RulesetList>>, ListRead,
         phase' = "preflight" => phase = "preflight" /\ step' # "list",
         phase = "mutate" => at' \in {at, at + 1}
  PROVE  ListHolds'
<1>1. \A b : Unnamed(b) => Unnamed(b)'
  BY DEF Unnamed
<1>2. at \in Nat
  BY DeclaredType DEF QInv, IInv, TypeOK
<1>3. ASSUME phase' \in Planners, NEW j \in 1 .. Len(Declared), Awaits(j)' PROVE Awaits(j)
  BY <1>2, <1>3, DeclaredType DEF Awaits, RulesetBranches, DeclaredSet, Planners, ListRead
<1>4. ASSUME NEW j \in 1 .. Len(Declared), Awaits(j) PROVE Unnamed(Declared[j])
  BY <1>4 DEF QInv, UInv, ListHolds
<1>5. ListRead' => \A j \in 1 .. Len(Declared) : Awaits(j)' => Unnamed(Declared[j])'
  BY <1>1, <1>3, <1>4 DEF ListRead, Planners
<1>6. phase' = "preflight" /\ RulesetBranches' # {} => cache' = RulesetList'
  BY DEF QInv, UInv, ListHolds, ListRead, RulesetBranches, DeclaredSet
<1>7. \A id \in RulesetId : cache'[id] # None => RulesetList'[id] = cache'[id]
  BY DEF QInv, UInv, ListHolds
<1>. QED
  BY <1>5, <1>6, <1>7 DEF ListHolds

LEMMA Elsewhere ==
  ASSUME phase' \notin Planners \/ (phase' = "preflight" /\ step' = "list") PROVE ListHolds'
BY DEF Planners, ListHolds, ListRead

LEMMA PrefetchHolds ==
  ASSUME QInv, PrefetchRulesets, phase = "preflight" PROVE ListHolds'
<1>1. UNCHANGED <<RulesetList, phase, planned>> /\ planned = NothingPlanned
  BY DEF PrefetchRulesets, QInv, Scope, repo, RulesetList
<1>2. cache' = IF Strict \/ RulesetBranches # {} THEN RulesetList ELSE NothingListed
  BY DEF PrefetchRulesets
<1>3. \A b \in Branch : planned'[b] = None
  BY <1>1 DEF NothingPlanned
<1>. QED
  BY <1>1, <1>2, <1>3, DeclaredType DEF ListHolds, NothingListed, Awaits, RulesetBranches,
     DeclaredSet, ListRead

LEMMA PlanHolds ==
  ASSUME QInv, PlanBranch, phase = "preflight" PROVE ListHolds'
<1>1. at \in 1 .. Len(Declared) /\ Declared[at] \in Branch
  BY DeclaredType DEF QInv, IInv, TypeOK, PlanBranch, AllPlanned
<1>2. PICK b \in Branch : b = Declared[at]
  BY <1>1
<1>3. PICK id \in Found(b) :
        planned' = [planned EXCEPT ![b] =
               [resolved |-> Resolve(b, Current(Raw(b, id))),
                extra    |-> CurrentExtra(Raw(b, id)),
                id       |-> id,
                changes  |-> BranchChanges(b, id, Raw(b, id))]]
  BY <1>2 DEF PlanBranch
<1>4. planned'[b].id = id /\ \A c \in Branch : c # b => planned'[c] = planned[c]
  BY <1>3 DEF QInv, IInv, TypeOK
<1>5. /\ UNCHANGED <<cache, phase, step, RulesetList>> /\ step = "plan"
      /\ phase' = "preflight" /\ step' # "list"
  BY DEF PlanBranch, repo, RulesetList
<1>6. RulesetBranches # {} => cache = RulesetList
  BY <1>5 DEF QInv, UInv, ListHolds
<1>7. ASSUME NEW j \in 1 .. Len(Declared), Awaits(j)' PROVE Unnamed(Declared[j])'
  <2>1. Declared[j] \in RulesetBranches /\ Declared[j] \in Branch
    BY <1>7, DeclaredType DEF Awaits, RulesetBranches, DeclaredSet
  <2>2. CASE Declared[j] = b
    <3>1. Enforcement[b] = "ruleset" /\ id = None
      BY <1>4, <1>7, <2>1, <2>2 DEF Awaits, RulesetBranches
    <3>2. \A i \in RulesetId : cache[i] # b
      BY <3>1, NoneAssumption DEF Found, Listed
    <3>3. \A i \in RulesetId : RulesetList[i] # b
      BY <1>6, <2>1, <3>2
    <3>. QED
      BY <1>5, <2>2, <3>3 DEF Unnamed
  <2>3. CASE Declared[j] # b
    <3>1. Awaits(j)
      BY <1>4, <1>5, <1>7, <2>1, <2>3 DEF Awaits
    <3>. QED
      BY <1>5, <3>1 DEF Unnamed, QInv, UInv, ListHolds, ListRead
  <2>. QED
    BY <2>2, <2>3
<1>8. ListRead /\ ListRead'
  BY <1>5 DEF ListRead
<1>9. \A i \in RulesetId : cache'[i] # None => RulesetList'[i] = cache'[i]
  BY <1>5, <1>8 DEF QInv, UInv, ListHolds
<1>10. RulesetBranches' # {} => cache' = RulesetList'
  BY <1>5, <1>6 DEF RulesetBranches, DeclaredSet
<1>. QED
  BY <1>7, <1>9, <1>10 DEF ListHolds

(* A new ruleset has the name of the branch at hand and of no other. *)
LEMMA CreateHolds ==
  ASSUME QInv, Creates, UNCHANGED <<cache, planned, phase>>, at' = NextBranch
  PROVE  ListHolds'
<1>1. at \in 1 .. Len(Declared) /\ at' = at + 1 /\ phase = "mutate" /\ phase' = "mutate"
  BY DeclaredType DEF QInv, IInv, TypeOK, Creates, Mutating, NextBranch
<1>2. /\ RulesetList[nextId] = None /\ nextId \in RulesetId
      /\ \A id \in RulesetId : RulesetList'[id] = IF id = nextId THEN Target ELSE RulesetList[id]
  BY CreatedList DEF RulesetList
<1>3. ASSUME NEW id \in RulesetId, cache'[id] # None PROVE RulesetList'[id] = cache'[id]
  BY <1>1, <1>2, <1>3 DEF QInv, UInv, ListHolds, ListRead
<1>4. ASSUME NEW j \in 1 .. Len(Declared), Awaits(j)' PROVE Unnamed(Declared[j])'
  <2>1. j >= at + 1 /\ Awaits(j)
    BY <1>1, <1>4, DeclaredType DEF Awaits, RulesetBranches, DeclaredSet
  <2>2. Declared[j] # Target
    BY <1>1, <2>1, ConfigAssumption DEF Target
  <2>3. Unnamed(Declared[j])
    BY <1>1, <2>1 DEF QInv, UInv, ListHolds, ListRead
  <2>. QED
    BY <1>2, <2>2, <2>3 DEF Unnamed
<1>. QED
  BY <1>1, <1>3, <1>4 DEF ListHolds

(* A branch's mutation either ends the run or leaves what was listed as it was. *)
LEMMA MutationHolds ==
  ASSUME QInv, [Next]_vars, OwnStep,
         SkipBranch \/ PutBranch \/ SignBranch \/ CreateBranchRuleset \/ UpdateBranchRuleset
  PROVE  ListHolds'
<1>1. Mutating /\ KeepInMutation /\ ListRead
  BY DEF SkipBranch, PutBranch, SignBranch, CreateBranchRuleset, UpdateBranchRuleset,
         Mutating, ListRead
<1>2. \/ phase' = "exited"
      \/ phase' = "mutate" /\ at' = NextBranch
      \/ phase' = "mutate" /\ at' = at /\ PutBranch
  BY <1>1 DEF SkipBranch, PutBranch, SignBranch, CreateBranchRuleset, UpdateBranchRuleset,
         BranchAnswered, BranchApplied, BranchFailed, Exit, Mutating
<1>3. CASE phase' = "exited"
  BY <1>3, Elsewhere DEF Planners
<1>4. CASE phase' # "exited" /\ UNCHANGED RulesetList
  BY <1>1, <1>2, <1>4, ListStays DEF KeepInMutation, NextBranch
<1>5. CASE UNCHANGED <<protection, rulesets, nextId>> \/ WritesProtection
  BY <1>3, <1>4, <1>5, SameList DEF WritesProtection, PutProtection, SetSignatures
<1>6. CASE Updates
  BY <1>3, <1>4, <1>6, UpdatedList
<1>7. CASE Creates
  <2>1. ~PutBranch
    BY <1>7 DEF PutBranch, Creates
  <2>. QED
    BY <1>1, <1>2, <1>3, <1>7, <2>1, CreateHolds DEF KeepInMutation, Mutating
<1>8. ~Deletions
  BY <1>1 DEF Deletions, Mutating
<1>. QED
  BY <1>5, <1>6, <1>7, <1>8, WriteForms DEF QInv

LEMMA NextHolds ==
  ASSUME QInv, [Next]_vars, OwnStep PROVE ListHolds'
<1>1. ASSUME NEW cmd \in {"check", "apply"}, Start(cmd) PROVE ListHolds'
  BY <1>1, Elsewhere DEF Start, Planners
<1>2. CASE phase = "verify" /\ (phase' = "verify" \/ phase' = "exited")
  BY <1>2, Elsewhere DEF Planners
<1>3. CASE PrefetchRulesets
  BY <1>2, <1>3, PrefetchHolds DEF PrefetchRulesets, Planning
<1>4. CASE DetectStale
  <2>1. phase = "preflight" => ListRead /\ UNCHANGED <<cache, planned, RulesetList>> /\ step' # "list"
    BY <1>4 DEF DetectStale, ListRead, repo, RulesetList
  <2>. QED
    BY <1>2, <1>4, <2>1, ListStays DEF DetectStale, Planning
<1>5. CASE PlanBranch
  BY <1>2, <1>5, PlanHolds DEF PlanBranch, Planning
<1>6. CASE EndPlanning
  <2>1. phase = "preflight" => ListRead /\ UNCHANGED <<cache, planned, RulesetList>>
                                /\ phase' = "mutate"
    BY <1>6 DEF EndPlanning, ListRead, repo, RulesetList
  <2>. QED
    BY <1>2, <1>6, <2>1, ListStays DEF EndPlanning, Planning
<1>7. CASE SkipBranch \/ PutBranch \/ SignBranch \/ CreateBranchRuleset \/ UpdateBranchRuleset
  BY <1>7, MutationHolds
<1>8. CASE EndMutation \/ EndPrune \/ PlanSettings \/ EnterVerify
  BY <1>8, Elsewhere DEF EndMutation, EndPrune, PlanSettings, EnterVerify, Planners
<1>9. CASE PruneOne
  BY <1>9, Elsewhere DEF PruneOne, Exit, Planners
<1>10. CASE MutateSetting \/ SettingUnavailable
  BY <1>10, Elsewhere
     DEF MutateSetting, SettingUnavailable, SettingDone, SettingFailed, Exit, Planners
<1>11. CASE EndVerify \/ PlanBranchFails \/ ReadFails \/ Killed
  BY <1>11, Elsewhere DEF EndVerify, PlanBranchFails, ReadFails, Killed, Exit, Planners
<1>12. CASE Others
  BY <1>12 DEF Others, Edit, OwnStep, QInv, IInv, TypeOK, GitHubTypeOK
<1>13. CASE UNCHANGED vars
  <2>1. UNCHANGED <<phase, step, at, cache, planned, RulesetList>>
    BY <1>13 DEF vars, local, repo, RulesetList
  <2>2. CASE ListRead
    BY <2>1, <2>2, ListStays DEF ListRead
  <2>3. CASE ~ListRead
    BY <2>1, <2>3 DEF ListHolds, ListRead
  <2>. QED
    BY <2>2, <2>3
<1>. QED
  BY <1>1, <1>3, <1>4, <1>5, <1>6, <1>7, <1>8, <1>9, <1>10, <1>11, <1>12, <1>13
     DEF Next, Work

(* Losing the reply to a create, the process or any other call never leads to  *)
(* two rulesets of one name, from a repository that has none and that nobody    *)
(* else edits: the next run finds what the last one left.                       *)
THEOREM NamesStayUnique ==
  Spec /\ NoDuplicateRulesets /\ [][OwnStep]_vars => []NoDuplicateRulesets
<1>1. Init /\ NoDuplicateRulesets => QInv
  BY InitIInv, InitScope DEF QInv, UInv, Init, FreshIds, ListHolds, ListRead
<1>2. QInv /\ [Next]_vars /\ [OwnStep]_vars => QInv'
  <2>1. UNCHANGED vars => OwnStep
    BY DEF vars, OwnStep
  <2>. QED
    BY <2>1, NextIInv, NextScope, StaysUnique, NextHolds DEF QInv, UInv
<1>3. QInv => NoDuplicateRulesets
  BY DEF QInv, UInv
<1>. QED
  BY <1>1, <1>2, <1>3, PTL DEF Spec

-----------------------------------------------------------------------------
(* What was listed keeps its name until this run deletes it. *)

LEMMA IdsStayFresh ==
  ASSUME IInv, Scope, FreshIds, [Next]_vars, OwnStep PROVE FreshIds'
<1>1. \A id \in RulesetId : rulesets[id] = None => id # Plan.id \/ ~Updates
  BY DEF Updates, UpdateRuleset
<1>2. CASE UNCHANGED <<protection, rulesets, nextId>>
  BY <1>2, SameList
<1>3. CASE WritesProtection
  BY <1>3, SameList DEF WritesProtection, PutProtection, SetSignatures
<1>4. CASE Creates
  <2>1. nextId \in Nat /\ nextId' = nextId + 1
        /\ \A id \in RulesetId : id # nextId => rulesets'[id] = rulesets[id]
    BY <1>4, GitHubAssumption
       DEF IInv, TypeOK, GitHubTypeOK, Creates, CreateRulesets, RulesetId
  <2>. QED
    BY <2>1 DEF FreshIds, RulesetId
<1>5. CASE Updates
  BY <1>1, <1>5 DEF FreshIds, Updates, UpdateRuleset, IInv, TypeOK, GitHubTypeOK
<1>6. CASE Deletions
  BY <1>6 DEF FreshIds, Deletions, DeleteRuleset, IInv, TypeOK, GitHubTypeOK
<1>. QED
  BY <1>2, <1>3, <1>4, <1>5, <1>6, WriteForms

(* Between the list and the last write that goes by it. *)
Listing == ListRead \/ phase = "prune"

NamesHold ==
  Listing => \A id \in RulesetId :
    cache[id] # None => id < nextId /\ RulesetList[id] \in {cache[id], None}

LEMMA ListingSteps ==
  ASSUME IInv, [Next]_vars
  PROVE  ~Listing' \/ PrefetchRulesets \/ (Listing /\ cache' = cache)
<1>1. CASE \E cmd \in {"check", "apply"} : Start(cmd)
  BY <1>1 DEF Start, Listing, ListRead
<1>2. CASE PrefetchRulesets
  BY <1>2
<1>3. CASE DetectStale \/ PlanBranch \/ PlanBranchFails \/ EndPlanning
  BY <1>3 DEF DetectStale, PlanBranch, PlanBranchFails, EndPlanning, Planning, Exit,
              Listing, ListRead
<1>4. CASE SkipBranch \/ PutBranch \/ SignBranch \/ CreateBranchRuleset
             \/ UpdateBranchRuleset \/ EndMutation
  BY <1>4 DEF SkipBranch, PutBranch, SignBranch, CreateBranchRuleset,
     UpdateBranchRuleset, EndMutation, KeepInMutation, Mutating, Listing, ListRead
<1>5. CASE PruneOne
  BY <1>5 DEF PruneOne, Listing, ListRead
<1>6. CASE EndPrune \/ PlanSettings \/ EnterVerify \/ EndVerify
  BY <1>6 DEF EndPrune, PlanSettings, EnterVerify, EndVerify, Exit, Listing, ListRead
<1>7. CASE MutateSetting \/ SettingUnavailable
  BY <1>7 DEF MutateSetting, SettingUnavailable, SettingDone, SettingFailed, Exit,
              Listing, ListRead
<1>8. CASE ReadFails \/ Killed
  BY <1>8 DEF ReadFails, Killed, Exit, Listing, ListRead
<1>9. CASE Others \/ UNCHANGED vars
  BY <1>9 DEF Others, vars, local, Listing, ListRead
<1>. QED
  BY <1>1, <1>2, <1>3, <1>4, <1>5, <1>6, <1>7, <1>8, <1>9 DEF Next, Work

(* Each kind of write, by what it does to the names on GitHub. *)
LEMMA NamesByWrites ==
  ASSUME IInv, Scope, FreshIds, NamesHold, [Next]_vars, OwnStep,
         NEW id \in RulesetId
  PROVE  /\ nextId' >= nextId
         /\ \/ rulesets'[id] = rulesets[id]
            \/ /\ id = nextId /\ nextId' = nextId + 1
               /\ RulesetList[id] = None /\ RulesetList'[id] \in RulesetBranches
            \/ /\ RulesetList[id] \in RulesetBranches
               /\ RulesetList'[id] = RulesetList[id]
            \/ /\ Strict /\ RulesetList[id] \in Branch \ RulesetBranches
               /\ RulesetList'[id] = None
<1> DEFINE new == OwnRuleset(Target, Plan.resolved, Plan.extra)
<1>1. nextId \in Nat /\ rulesets = [i \in RulesetId |-> rulesets[i]]
      /\ \A i \in RulesetId : rulesets[i] # None => RulesetList[i] # None
  <2>1. \A i \in RulesetId : rulesets[i] # None => rulesets[i].name \in RulesetName
    BY DEF IInv, TypeOK, GitHubTypeOK, Ruleset
  <2>. QED
    BY <2>1, GitHubAssumption, NoneAssumption DEF IInv, TypeOK, GitHubTypeOK, RulesetList
<1>2. Mutating /\ Enforcement[Target] = "ruleset"
        => Target \in RulesetBranches /\ new # None /\ new.name = Target
  <2>1. ASSUME Mutating, Enforcement[Target] = "ruleset"
        PROVE  Target \in RulesetBranches /\ new \in Ruleset
    BY <2>1, TargetType, PlanType, OwnRulesetType DEF IInv, RulesetBranches
  <2>. QED
    BY <2>1, NoneAssumption DEF OwnRuleset
<1>3. CASE UNCHANGED <<protection, rulesets, nextId>> \/ WritesProtection
  BY <1>1, <1>3 DEF WritesProtection, PutProtection, SetSignatures
<1>4. CASE Creates
  <2>1. nextId' = nextId + 1
        /\ rulesets' = [i \in RulesetId |-> IF i = nextId THEN new ELSE rulesets[i]]
    BY <1>1, <1>4 DEF Creates, CreateRulesets, RulesetId
  <2>2. id = nextId => RulesetList[id] = None
    BY <1>1 DEF FreshIds, RulesetList
  <2>3. id = nextId => RulesetList'[id] = Target
    BY <1>2, <1>4, <2>1 DEF Creates, RulesetList
  <2>. QED
    BY <1>1, <1>2, <1>4, <2>1, <2>2, <2>3 DEF Creates
<1>5. CASE Updates
  <2>1. /\ nextId' = nextId /\ rulesets[Plan.id] # None
        /\ \A i \in RulesetId : rulesets'[i] = IF i = Plan.id THEN new ELSE rulesets[i]
    BY <1>1, <1>5 DEF Updates, UpdateRuleset
  <2>2. cache[Plan.id] = Target /\ Target # None
    BY <1>5, PlanIdIsOwn, NoneAssumption DEF Updates, RulesetName
  <2>3. id = Plan.id => RulesetList[id] = Target
    BY <1>1, <1>5, <2>1, <2>2 DEF NamesHold, Listing, ListRead, Updates, Mutating
  <2>4. id = Plan.id => RulesetList'[id] = Target
    BY <1>2, <1>5, <2>1 DEF Updates, RulesetList
  <2>. QED
    BY <1>1, <1>2, <1>5, <2>1, <2>3, <2>4 DEF Updates
<1>6. CASE Deletions
  <2>1. PICK gone \in toPrune : DeleteRuleset(gone)
    BY <1>6 DEF Deletions
  <2>2. /\ nextId' = nextId /\ rulesets[gone] # None
        /\ \A i \in RulesetId : rulesets'[i] = IF i = gone THEN None ELSE rulesets[i]
    BY <1>1, <2>1 DEF DeleteRuleset
  <2>3. Strict /\ cache[gone] \in Branch \ RulesetBranches /\ cache[gone] # None
    BY <1>6, OrphanIsOwned, NoneAssumption DEF Deletions, Scope, IInv, RulesetName
  <2>4. id = gone => RulesetList[id] = cache[gone]
    BY <1>1, <1>6, <2>2, <2>3 DEF NamesHold, Listing, Deletions
  <2>5. id = gone => RulesetList'[id] = None
    BY <2>2 DEF RulesetList
  <2>. QED
    BY <1>1, <2>2, <2>3, <2>4, <2>5
<1>. QED
  BY <1>3, <1>4, <1>5, <1>6, WriteForms

LEMMA NamesGoOnHolding ==
  ASSUME IInv, Scope, FreshIds, NamesHold, [Next]_vars, OwnStep PROVE NamesHold'
<1> SUFFICES ASSUME Listing', NEW id \in RulesetId, cache'[id] # None
             PROVE  id < nextId' /\ RulesetList'[id] \in {cache'[id], None}
  BY DEF NamesHold
<1>1. nextId \in Nat /\ id \in Nat
  BY GitHubAssumption DEF IInv, TypeOK, GitHubTypeOK, RulesetId
<1>2. CASE PrefetchRulesets
  <2>1. cache'[id] = RulesetList[id] /\ UNCHANGED <<rulesets, nextId>>
    BY <1>2 DEF PrefetchRulesets, NothingListed, repo
  <2>2. rulesets[id] # None
    BY <2>1 DEF RulesetList
  <2>. QED
    BY <1>1, <2>1, <2>2 DEF FreshIds, RulesetList
<1>3. CASE Listing /\ cache' = cache
  <2>1. id < nextId /\ RulesetList[id] \in {cache[id], None}
    BY <1>3 DEF NamesHold
  <2>2. nextId' >= nextId /\ nextId' \in Nat
    BY NextIInv, NamesByWrites, GitHubAssumption DEF IInv, TypeOK, GitHubTypeOK
  <2>3. id < nextId'
    BY <1>1, <2>1, <2>2
  <2>4. RulesetList'[id] \in {RulesetList[id], None}
    <3>1. rulesets'[id] = rulesets[id] => RulesetList'[id] = RulesetList[id]
      BY DEF RulesetList
    <3>2. id # nextId
      BY <1>1, <2>1
    <3>. QED
      BY <3>1, <3>2, NamesByWrites
  <2>. QED
    BY <1>3, <2>1, <2>3, <2>4
<1>. QED
  BY <1>2, <1>3, ListingSteps

LEMMA OnlyOwnIsWritten ==
  ASSUME IInv, Scope, FreshIds, NamesHold, [Next]_vars, OwnStep
  PROVE  /\ \A b \in Branch : protection'[b] # protection[b]
               => b \in DeclaredSet \ RulesetBranches
         /\ \A id \in RulesetId : rulesets'[id] # rulesets[id]
               => RulesetWrite(RulesetList[id], RulesetList'[id])
<1>1. ASSUME NEW b \in Branch, protection'[b] # protection[b]
      PROVE  b \in DeclaredSet \ RulesetBranches
  <2>1. WritesProtection
    BY <1>1, WriteForms DEF Creates, CreateRulesets, Updates, UpdateRuleset,
                            Deletions, DeleteRuleset
  <2>2. Target \in DeclaredSet \ RulesetBranches
    BY <2>1, TargetType DEF WritesProtection, IInv, RulesetBranches
  <2>3. b # Target => protection'[b] = protection[b]
    BY <2>1 DEF WritesProtection, PutProtection, SetSignatures, IInv, TypeOK, GitHubTypeOK
  <2>. QED
    BY <1>1, <2>2, <2>3
<1>2. None \notin RulesetBranches
  BY DeclaredType, NoneAssumption DEF RulesetBranches, DeclaredSet, RulesetName
<1>3. ASSUME NEW id \in RulesetId, rulesets'[id] # rulesets[id]
      PROVE  RulesetWrite(RulesetList[id], RulesetList'[id])
  BY <1>2, <1>3, NamesByWrites DEF RulesetWrite
<1>. QED
  BY <1>1, <1>3

(* As long as nobody else edits the repository, classic protection of branches  *)
(* not declared under it is never written, and no ruleset but a declared        *)
(* branch's own or, in strict mode, an undeclared branch's is, by the names     *)
(* they have on GitHub when the write lands.                                    *)
THEOREM OthersAreSafe == Spec /\ [][OwnStep]_vars => OthersAreLeftAlone
<1> DEFINE Safe ==
      OwnStep =>
        /\ \A b \in Branch : protection'[b] # protection[b]
             => b \in DeclaredSet \ RulesetBranches
        /\ \A id \in RulesetId : rulesets'[id] # rulesets[id]
             => RulesetWrite(RulesetList[id], RulesetList'[id])
           NInv == IInv /\ Scope /\ FreshIds /\ NamesHold
<1>1. Init => NInv
  BY InitIInv, InitScope DEF Init, FreshIds, NamesHold, Listing, ListRead
<1>2. NInv /\ [Next]_vars /\ [OwnStep]_vars => NInv'
  <2>1. UNCHANGED vars => OwnStep
    BY DEF vars, OwnStep
  <2>. QED
    BY <2>1, NextIInv, NextScope, IdsStayFresh, NamesGoOnHolding
<1>3. NInv /\ [Next]_vars => [Safe]_vars
  BY OnlyOwnIsWritten
<1>. QED
  BY <1>1, <1>2, <1>3, PTL DEF Spec, OthersAreLeftAlone

-----------------------------------------------------------------------------
(* What the policy says nothing of stays as it was on GitHub. *)

(* What of an object is not as it should be, in force or not. *)
Differences(b, raw) == FieldChanges(b, Current(raw)) \cup MetadataChanges(b, raw)

(* The plan of b was made from what GitHub still holds. *)
Basis(b) ==
  LET raw == Raw(b, planned[b].id) IN
  /\ ~Gone(planned[b].id)
  /\ planned[b].resolved = Resolve(b, Current(raw))
  /\ planned[b].extra = CurrentExtra(raw)
  /\ Enforcement[b] = "branch_protection" => planned[b].id = None
  /\ IF Differences(b, raw) # {} THEN planned[b].changes = Differences(b, raw)
     ELSE planned[b].changes \subseteq
            (IF planned[b].id = None THEN {} ELSE {"ruleset_effectiveness"})

(* Between the PUT of b and its signatures, an undeclared requirement of        *)
(* signatures is planned to stay as it is.                                      *)
SignBasis(b) ==
  Desired[b][Signed] = None /\ ~StrictBranch[b] =>
    planned[b].resolved[Signed] = protection[b].policy[Signed]

(* The j-th branch is yet to be written to. *)
Ahead(j) ==
  \/ phase = "preflight"
  \/ phase = "mutate" /\ (j > at \/ (j = at /\ step = "call"))

PlansCurrent ==
  /\ \A j \in 1 .. Len(Declared) :
       Ahead(j) /\ planned[Declared[j]] # None => Basis(Declared[j])
  /\ Mutating /\ step = "sign" => SignBasis(Target)

LEMMA ResolveKeeps ==
  ASSUME NEW b, NEW current, NEW f \in Field, Desired[b][f] = None, ~StrictBranch[b]
  PROVE  Resolve(b, current)[f] = current[f]
BY DEF Resolve

LEMMA TargetBasis ==
  ASSUME IInv, PlansCurrent, Mutating, step = "call"
  PROVE  Basis(Target) /\ Plan = planned[Target]
<1>1. at \in 1 .. Len(Declared)
  BY DeclaredType DEF IInv, TypeOK, Mutating
<1>2. Target \in DeclaredSet /\ Target = Declared[at]
  BY TargetType DEF IInv, Target
<1>3. planned[Target] # None
  BY <1>2 DEF IInv, PlansHold, Mutating
<1>. QED
  BY <1>1, <1>2, <1>3 DEF PlansCurrent, Ahead, Mutating, Plan

(* What the PUT of classic protection makes of the branch. *)
LEMMA PutKeeps ==
  ASSUME IInv, PlansCurrent, Mutating, step = "call",
         Enforcement[Target] = "branch_protection",
         PutProtection(Target, Plan.resolved, Plan.extra)
  PROVE  /\ Kept(Target, protection[Target], protection'[Target])
         /\ Desired[Target][Signed] = None /\ ~StrictBranch[Target] =>
              Plan.resolved[Signed] = protection'[Target].policy[Signed]
<1> DEFINE old == protection[Target]
           signed == IF old = None THEN Permissive ELSE old.policy[Signed]
<1>1. Plan.resolved = Resolve(Target, Current(old)) /\ Plan.extra = CurrentExtra(old)
  BY TargetBasis DEF Basis, Raw
<1>2. Target \in Branch /\ Plan.resolved \in Policy /\ Plan = planned[Target]
  BY TargetType, PlanType, TargetBasis DEF IInv
<1>3. protection'[Target] = [policy |-> [Plan.resolved EXCEPT ![Signed] = signed],
                             extra  |-> Plan.extra]
  BY <1>2 DEF PutProtection, IInv, TypeOK, GitHubTypeOK
<1>4. signed = Current(old)[Signed]
  BY GitHubAssumption DEF Current, Nothing
<1>5. ASSUME NEW f \in Field, Desired[Target][f] = None, ~StrictBranch[Target]
      PROVE  protection'[Target].policy[f] = Current(old)[f] /\ Plan.resolved[f] = Current(old)[f]
  <2>1. Plan.resolved[f] = Current(old)[f]
    BY <1>1, <1>5, ResolveKeeps
  <2>2. protection'[Target].policy[f] = IF f = Signed THEN signed ELSE Plan.resolved[f]
    BY <1>2, <1>3 DEF Policy
  <2>. QED
    BY <1>4, <2>1, <2>2
<1>6. protection'[Target].extra = CurrentExtra(old)
  BY <1>1, <1>3
<1>7. Kept(Target, protection[Target], protection'[Target])
  BY <1>5, <1>6 DEF Kept
<1>. QED
  BY <1>5, <1>7, GitHubAssumption

(* The signatures: declared, strict, or as they are. *)
LEMMA SignKeeps ==
  ASSUME IInv, PlansCurrent, Mutating, step = "sign",
         SetSignatures(Target, Plan.resolved[Signed])
  PROVE  Kept(Target, protection[Target], protection'[Target])
<1> DEFINE old == protection[Target]
<1>1. Target \in Branch /\ old # None
  BY TargetType DEF IInv, SetSignatures
<1>2. old \in Protection
  BY <1>1 DEF IInv, TypeOK, GitHubTypeOK
<1>3. protection'[Target] = [old EXCEPT !.policy[Signed] = Plan.resolved[Signed]]
  BY <1>1 DEF SetSignatures, IInv, TypeOK, GitHubTypeOK
<1>4. protection'[Target].extra = old.extra
  BY <1>2, <1>3 DEF Protection
<1>5. \A f \in Field : protection'[Target].policy[f] =
        IF f = Signed THEN Plan.resolved[Signed] ELSE old.policy[f]
  BY <1>2, <1>3 DEF Protection, Policy
<1>6. SignBasis(Target) /\ Plan = planned[Target]
  BY DEF PlansCurrent, Plan
<1>. QED
  BY <1>1, <1>4, <1>5, <1>6 DEF Kept, SignBasis, Current, CurrentExtra

LEMMA OwnRulesetKeeps ==
  ASSUME IInv, PlansCurrent, Mutating, step = "call", Enforcement[Target] = "ruleset",
         NEW old, old = IF Plan.id = None THEN None ELSE rulesets[Plan.id]
  PROVE  Kept(Target, old, OwnRuleset(Target, Plan.resolved, Plan.extra))
<1>1. Plan.resolved = Resolve(Target, Current(old)) /\ Plan.extra = CurrentExtra(old)
  BY TargetBasis DEF Basis, Raw
<1>. QED
  BY <1>1, ResolveKeeps DEF Kept, OwnRuleset

(* Whatever a run writes keeps what it should. *)
LEMMA WritesKeep ==
  ASSUME IInv, Scope, FreshIds, PlansCurrent, [Next]_vars, OwnStep
  PROVE  /\ \A b \in Branch :
              protection'[b] # protection[b] => Kept(b, protection[b], protection'[b])
         /\ \A id \in RulesetId :
              LET r == rulesets'[id] IN
              r # rulesets[id] /\ r # None => Kept(r.name, rulesets[id], r)
<1> DEFINE new == OwnRuleset(Target, Plan.resolved, Plan.extra)
<1>1. CASE UNCHANGED <<protection, rulesets, nextId>>
  BY <1>1
<1>2. CASE WritesProtection
  <2>1. Kept(Target, protection[Target], protection'[Target])
    BY <1>2, PutKeeps, SignKeeps DEF WritesProtection
  <2>2. /\ \A b \in Branch : b # Target => protection'[b] = protection[b]
        /\ rulesets' = rulesets
    BY <1>2 DEF WritesProtection, PutProtection, SetSignatures, IInv, TypeOK, GitHubTypeOK
  <2>. QED
    BY <2>1, <2>2
<1>3. CASE Creates
  <2>1. /\ nextId \in RulesetId /\ protection' = protection /\ rulesets'[nextId] = new
        /\ \A id \in RulesetId : id # nextId => rulesets'[id] = rulesets[id]
    BY <1>3, GitHubAssumption
       DEF IInv, TypeOK, GitHubTypeOK, Creates, CreateRulesets, RulesetId
  <2>2. rulesets[nextId] = None
    BY <2>1, GitHubAssumption DEF FreshIds, IInv, TypeOK, GitHubTypeOK
  <2>3. Kept(Target, None, new) /\ new.name = Target
    BY <1>3, OwnRulesetKeeps DEF Creates, OwnRuleset
  <2>. QED
    BY <2>1, <2>2, <2>3
<1>4. CASE Updates
  <2>1. /\ protection' = protection
        /\ \A id \in RulesetId :
             rulesets'[id] = IF id = Plan.id THEN new ELSE rulesets[id]
    BY <1>4 DEF Updates, UpdateRuleset, IInv, TypeOK, GitHubTypeOK
  <2>2. Kept(Target, rulesets[Plan.id], new) /\ new.name = Target
    BY <1>4, OwnRulesetKeeps DEF Updates, OwnRuleset
  <2>. QED
    BY <2>1, <2>2
<1>5. CASE Deletions
  <2>1. PICK id \in toPrune : DeleteRuleset(id)
    BY <1>5 DEF Deletions
  <2>2. /\ protection' = protection
        /\ \A i \in RulesetId : rulesets'[i] = IF i = id THEN None ELSE rulesets[i]
    BY <2>1 DEF DeleteRuleset, IInv, TypeOK, GitHubTypeOK
  <2>. QED
    BY <2>2
<1>. QED
  BY <1>1, <1>2, <1>3, <1>4, <1>5, WriteForms

(* A plan holds as long as its branch is not written to. *)
LEMMA BasisStays ==
  ASSUME NEW b, Basis(b), planned'[b] = planned[b],
         Raw(b, planned[b].id)' = Raw(b, planned[b].id),
         ~Gone(planned[b].id)'
  PROVE  Basis(b)'
BY DEF Basis, Resolve, Current, CurrentExtra, Differences, FieldChanges, MetadataChanges

LEMMA BasisSame ==
  ASSUME NEW b, Basis(b), UNCHANGED <<protection, rulesets, planned>> PROVE Basis(b)'
BY DEF Basis, Raw, Gone

(* Writing to one branch leaves what another's plan was made from. *)
LEMMA OtherBasis ==
  ASSUME IInv, Scope, FreshIds, [Next]_vars, OwnStep, phase = "mutate", UNCHANGED planned,
         NEW c \in Branch, c # Target, planned[c] # None, Basis(c)
  PROVE  Basis(c)'
<1> DEFINE new == OwnRuleset(Target, Plan.resolved, Plan.extra)
<1>1. planned[c].id \in RulesetId \cup {None}
  BY DEF IInv, TypeOK, PlannedBranch
<1>2. CASE UNCHANGED <<protection, rulesets, nextId>>
  BY <1>2, BasisSame
<1>3. CASE WritesProtection
  <2>1. protection'[c] = protection[c] /\ rulesets' = rulesets
    BY <1>3 DEF WritesProtection, PutProtection, SetSignatures, IInv, TypeOK, GitHubTypeOK
  <2>. QED
    BY <2>1, BasisStays DEF Raw, Gone, Basis
<1>4. CASE Creates
  <2>1. /\ nextId \in RulesetId /\ protection' = protection
        /\ \A id \in RulesetId : id # nextId => rulesets'[id] = rulesets[id]
    BY <1>4, GitHubAssumption
       DEF IInv, TypeOK, GitHubTypeOK, Creates, CreateRulesets, RulesetId
  <2>2. rulesets[nextId] = None
    BY <2>1, GitHubAssumption DEF FreshIds, IInv, TypeOK, GitHubTypeOK
  <2>3. planned[c].id # nextId
    BY <2>1, <2>2, NoneAssumption DEF Basis, Gone
  <2>. QED
    BY <1>1, <2>1, <2>3, BasisStays DEF Raw, Gone, Basis
<1>5. CASE Updates
  <2>1. /\ protection' = protection
        /\ \A id \in RulesetId : id # Plan.id => rulesets'[id] = rulesets[id]
    BY <1>5 DEF Updates, UpdateRuleset, IInv, TypeOK, GitHubTypeOK
  <2>2. cache[Plan.id] = Target
    BY <1>5, PlanIdIsOwn DEF Updates
  <2>3. planned[c].id # None => cache[planned[c].id] = c
    BY DEF Scope, Planners
  <2>. QED
    BY <1>1, <2>1, <2>2, <2>3, BasisStays DEF Raw, Gone, Basis
<1>6. ~Deletions
  BY DEF Deletions
<1>. QED
  BY <1>2, <1>3, <1>4, <1>5, <1>6, WriteForms

LEMMA ElsewhereCurrent == ASSUME phase' \notin Planners PROVE PlansCurrent'
BY DEF Planners, PlansCurrent, Ahead, Mutating

LEMMA PreflightCurrent ==
  ASSUME PlansCurrent, phase = "preflight", UNCHANGED <<repo, planned>>,
         phase' = "preflight" \/ step' = "call"
  PROVE  PlansCurrent'
<1>1. \A j \in 1 .. Len(Declared) :
        planned[Declared[j]] # None => Basis(Declared[j])
  BY DEF PlansCurrent, Ahead
<1>2. \A j \in 1 .. Len(Declared) :
        planned'[Declared[j]] # None => Basis(Declared[j])'
  BY <1>1, BasisSame DEF repo
<1>. QED
  BY <1>2 DEF PlansCurrent, Mutating

(* What planning says is to change. *)
LEMMA ChangesAreDifferences ==
  ASSUME NEW b, NEW id, NEW raw
  PROVE  IF Differences(b, raw) # {} THEN BranchChanges(b, id, raw) = Differences(b, raw)
         ELSE BranchChanges(b, id, raw) \subseteq
                (IF id = None THEN {} ELSE {"ruleset_effectiveness"})
BY DEF Differences, BranchChanges, EffectivenessChanges

LEMMA PlanCurrent ==
  ASSUME IInv, PlansCurrent, PlanBranch, phase = "preflight" PROVE PlansCurrent'
<1>1. at \in 1 .. Len(Declared) /\ Declared[at] \in Branch
  BY DeclaredType DEF IInv, TypeOK, PlanBranch, AllPlanned
<1>2. PICK b \in Branch : b = Declared[at]
  BY <1>1
<1>3. PICK id \in Found(b) :
        /\ ~Gone(id)
        /\ planned' = [planned EXCEPT ![b] =
               [resolved |-> Resolve(b, Current(Raw(b, id))),
                extra    |-> CurrentExtra(Raw(b, id)),
                id       |-> id,
                changes  |-> BranchChanges(b, id, Raw(b, id))]]
  BY <1>2 DEF PlanBranch
<1>4. /\ planned'[b].id = id
      /\ planned'[b].resolved = Resolve(b, Current(Raw(b, id)))
      /\ planned'[b].extra = CurrentExtra(Raw(b, id))
      /\ planned'[b].changes = BranchChanges(b, id, Raw(b, id))
      /\ \A c \in Branch : c # b => planned'[c] = planned[c]
  BY <1>3 DEF IInv, TypeOK
<1>5. UNCHANGED <<protection, rulesets, phase>>
  BY DEF PlanBranch, repo
<1>6. Raw(b, id)' = Raw(b, id) /\ Gone(id)' = Gone(id)
  BY <1>5 DEF Raw, Gone
<1>7. Resolve(b, Current(Raw(b, id)))' = Resolve(b, Current(Raw(b, id)))
      /\ CurrentExtra(Raw(b, id))' = CurrentExtra(Raw(b, id))
  BY <1>6 DEF Resolve, Current, CurrentExtra
<1>8. Basis(b)'
  <2>1. Differences(b, Raw(b, id))' = Differences(b, Raw(b, id))
    BY <1>6 DEF Differences, FieldChanges, MetadataChanges, Resolve, Current
  <2>2. Enforcement[b] = "branch_protection" => id = None
    BY <1>3 DEF Found
  <2>3. /\ Raw(b, planned[b].id)' = Raw(b, id) /\ Gone(planned[b].id)' = Gone(id)
        /\ Differences(b, Raw(b, planned[b].id))' = Differences(b, Raw(b, id))
    BY <1>4, <1>6, <2>1 DEF Differences, FieldChanges, MetadataChanges, Resolve, Current
  <2>4. planned[b].resolved' = Resolve(b, Current(Raw(b, planned[b].id)))'
        /\ planned[b].extra' = CurrentExtra(Raw(b, planned[b].id))'
    BY <1>4, <1>7, <2>3 DEF Resolve, Current, CurrentExtra
  <2>. QED
    BY <1>3, <1>4, <2>2, <2>3, <2>4, ChangesAreDifferences DEF Basis
<1>9. ASSUME NEW j \in 1 .. Len(Declared), planned'[Declared[j]] # None
      PROVE  Basis(Declared[j])'
  <2>1. CASE Declared[j] = b
    BY <1>8, <2>1
  <2>2. CASE Declared[j] # b
    <3>1. Declared[j] \in Branch /\ planned'[Declared[j]] = planned[Declared[j]]
      BY <1>4, <2>2, DeclaredType
    <3>2. Basis(Declared[j])
      BY <1>9, <3>1 DEF PlansCurrent, Ahead
    <3>. QED
      BY <1>5, <3>1, <3>2, BasisStays DEF Raw, Gone, Basis
  <2>. QED
    BY <2>1, <2>2
<1>. QED
  BY <1>5, <1>9 DEF PlansCurrent, Mutating

(* The branches after the one at hand keep their plans. *)
LEMMA BasesAhead ==
  ASSUME IInv, Scope, FreshIds, PlansCurrent, [Next]_vars, OwnStep, Mutating,
         UNCHANGED planned, NEW j \in 1 .. Len(Declared), j > at,
         planned'[Declared[j]] # None
  PROVE  Basis(Declared[j])'
<1>1. at \in 1 .. Len(Declared) /\ Declared[j] \in Branch
  BY DeclaredType DEF IInv, TypeOK, Mutating
<1>2. Declared[j] # Target
  BY <1>1, DeclaredType, ConfigAssumption DEF Target
<1>3. Basis(Declared[j])
  BY DEF PlansCurrent, Ahead, Mutating
<1>. QED
  BY <1>1, <1>2, <1>3, OtherBasis DEF Mutating

(* The PUT that the signatures follow has landed. *)
LEMMA PutThenSign ==
  ASSUME IInv, PlansCurrent, PutBranch, phase' = "mutate", at' = at, step' = "sign"
  PROVE  SignBasis(Target)'
<1>1. PICK o \in Outcomes("put_branch_protection", TRUE) :
        /\ PutNow(o.landed)
        /\ IF o.result = "ok" /\ SignaturesChange
           THEN step' = "sign" /\ UNCHANGED <<journal, at, phase, code, printed>>
           ELSE BranchAnswered(o)
  BY DEF PutBranch
<1>2. Mutating /\ step = "call" /\ Enforcement[Target] = "branch_protection"
      /\ UNCHANGED planned
  BY DEF PutBranch, KeepInMutation
<1>3. at \in Nat
  BY DeclaredType DEF IInv, TypeOK
<1>4. o.result = "ok"
  BY <1>1, <1>2, <1>3 DEF BranchAnswered, BranchApplied, BranchFailed, Exit, NextBranch
<1>5. o.landed > 0
  BY <1>4, OkLands DEF Reads
<1>6. PutProtection(Target, Plan.resolved, Plan.extra)
  BY <1>1, <1>5 DEF PutNow
<1>7. Desired[Target][Signed] = None /\ ~StrictBranch[Target] =>
        Plan.resolved[Signed] = protection'[Target].policy[Signed]
  BY <1>2, <1>6, PutKeeps
<1>8. Target' = Target
  BY DEF Target
<1>. QED
  BY <1>2, <1>7, <1>8 DEF SignBasis, Plan

LEMMA MutationCurrent ==
  ASSUME IInv, Scope, FreshIds, PlansCurrent, [Next]_vars, OwnStep,
         SkipBranch \/ PutBranch \/ SignBranch \/ CreateBranchRuleset \/ UpdateBranchRuleset
  PROVE  PlansCurrent'
<1>0. at \in Nat
  BY DeclaredType DEF IInv, TypeOK
<1>1. Mutating /\ UNCHANGED planned
  BY DEF SkipBranch, PutBranch, SignBranch, CreateBranchRuleset, UpdateBranchRuleset,
         Mutating, KeepInMutation
<1>2. \/ phase' = "exited"
      \/ phase' = "mutate" /\ at' = at + 1 /\ step' = "call"
      \/ phase' = "mutate" /\ at' = at /\ step' = "sign" /\ PutBranch
  BY <1>1 DEF SkipBranch, PutBranch, SignBranch, CreateBranchRuleset, UpdateBranchRuleset,
         BranchAnswered, BranchApplied, BranchFailed, Exit, Mutating, NextBranch
<1>3. CASE phase' = "exited"
  BY <1>3, ElsewhereCurrent DEF Planners
<1>4. CASE phase' = "mutate"
  <2>1. ASSUME NEW j \in 1 .. Len(Declared), Ahead(j)', planned'[Declared[j]] # None
        PROVE  Basis(Declared[j])'
    <3>1. j > at
      BY <1>0, <1>2, <1>4, <2>1, DeclaredType DEF Ahead
    <3>. QED
      BY <1>1, <2>1, <3>1, BasesAhead
  <2>2. Mutating' /\ step' = "sign" => SignBasis(Target)'
    BY <1>2, <1>4, PutThenSign
  <2>. QED
    BY <2>1, <2>2 DEF PlansCurrent
<1>. QED
  BY <1>2, <1>3, <1>4

LEMMA NextCurrent ==
  ASSUME IInv, Scope, FreshIds, PlansCurrent, [Next]_vars, OwnStep PROVE PlansCurrent'
<1>1. ASSUME NEW cmd \in {"check", "apply"}, Start(cmd) PROVE PlansCurrent'
  <2>1. \A j \in 1 .. Len(Declared) : planned'[Declared[j]] = None
    BY <1>1, DeclaredType DEF Start, NothingPlanned
  <2>. QED
    BY <1>1, <2>1 DEF Start, PlansCurrent, Mutating
<1>2. CASE PrefetchRulesets \/ DetectStale \/ EndPlanning
  <2>1. CASE phase = "preflight"
    BY <1>2, <2>1, PreflightCurrent DEF PrefetchRulesets, DetectStale, EndPlanning
  <2>2. CASE phase = "verify"
    BY <1>2, <2>2, ElsewhereCurrent DEF PrefetchRulesets, DetectStale, EndPlanning, Planners
  <2>. QED
    BY <1>2, <2>1, <2>2 DEF PrefetchRulesets, DetectStale, EndPlanning, Planning
<1>3. CASE PlanBranch
  BY <1>3, PlanCurrent, ElsewhereCurrent DEF PlanBranch, Planning, Planners
<1>4. CASE SkipBranch \/ PutBranch \/ SignBranch \/ CreateBranchRuleset \/ UpdateBranchRuleset
  BY <1>4, MutationCurrent
<1>5. CASE EndMutation \/ EndPrune \/ PlanSettings \/ EnterVerify
  BY <1>5, ElsewhereCurrent DEF EndMutation, EndPrune, PlanSettings, EnterVerify, Planners
<1>6. CASE PruneOne
  BY <1>6, ElsewhereCurrent DEF PruneOne, Exit, Planners
<1>7. CASE MutateSetting \/ SettingUnavailable
  BY <1>7, ElsewhereCurrent
     DEF MutateSetting, SettingUnavailable, SettingDone, SettingFailed, Exit, Planners
<1>8. CASE EndVerify \/ PlanBranchFails \/ ReadFails \/ Killed
  BY <1>8, ElsewhereCurrent DEF EndVerify, PlanBranchFails, ReadFails, Killed, Exit, Planners
<1>9. CASE Others
  BY <1>9 DEF Others, Edit, OwnStep, IInv, TypeOK, GitHubTypeOK
<1>10. CASE UNCHANGED vars
  <2>1. UNCHANGED <<protection, rulesets, planned, phase, step, at>>
    BY <1>10 DEF vars, local, repo
  <2>2. \A j \in 1 .. Len(Declared) : Basis(Declared[j]) => Basis(Declared[j])'
    BY <2>1, BasisSame
  <2>. QED
    BY <2>1, <2>2 DEF PlansCurrent, Ahead, Mutating, SignBasis, Target
<1>. QED
  BY <1>1, <1>2, <1>3, <1>4, <1>5, <1>6, <1>7, <1>8, <1>9, <1>10 DEF Next, Work

(* A write to a branch keeps what BranchPolicy has no field for and, in managed *)
(* scope, what the policy does not declare, as long as nobody else edits the    *)
(* repository between the plan and the write (LostUpdate.cfg shows why).        *)
THEOREM UndeclaredStays == Spec /\ [][OwnStep]_vars => UndeclaredIsKept
<1> DEFINE Keeps ==
      OwnStep =>
       /\ \A b \in Branch :
            protection'[b] # protection[b] => Kept(b, protection[b], protection'[b])
       /\ \A id \in RulesetId :
            LET r == rulesets'[id] IN
            r # rulesets[id] /\ r # None => Kept(r.name, rulesets[id], r)
           KInv == IInv /\ Scope /\ FreshIds /\ PlansCurrent
<1>1. Init => KInv
  BY InitIInv, InitScope DEF Init, FreshIds, PlansCurrent, Ahead, Mutating
<1>2. KInv /\ [Next]_vars /\ [OwnStep]_vars => KInv'
  <2>1. UNCHANGED vars => OwnStep
    BY DEF vars, OwnStep
  <2>. QED
    BY <2>1, NextIInv, NextScope, IdsStayFresh, NextCurrent
<1>3. KInv /\ [Next]_vars => [Keeps]_vars
  BY WritesKeep
<1>. QED
  BY <1>1, <1>2, <1>3, PTL DEF Spec, UndeclaredIsKept
=============================================================================
