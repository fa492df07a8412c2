-------------------------- MODULE PromiseProofs --------------------------
(* Run after run, with calls that fail or are cut off, repo-policy is no more   *)
(* than module Promise says, as long as nobody else edits the repository: every *)
(* change puts something right that was wrong, and every verdict is true.       *)
EXTENDS RepairProofs, VerifyProofs

USE DEF outside, writing, found, history

PInv == DoneInv /\ VInv /\ ~disturbed

-----------------------------------------------------------------------------
(* Module Promise means by its words what ApplyRun does. *)

LEMMA SameWords ==
  /\ Promised!RulesetId = RulesetId /\ Promised!Protection = Protection
  /\ Promised!Ruleset = Ruleset /\ Promised!repo = repo
  /\ Promised!RulesetBranches = RulesetBranches /\ Promised!DeclaredSet = DeclaredSet
  /\ Promised!RulesetList = RulesetList /\ Promised!DeclaredSettings = DeclaredSettings
  /\ Promised!SettingField = SettingField /\ Promised!Needs = Needs
BY DEF Promised!RulesetId, RulesetId, Promised!Protection, Protection, Promised!Ruleset,
   Ruleset, Promised!repo, repo, Promised!RulesetBranches, RulesetBranches,
   Promised!DeclaredSet, DeclaredSet, Promised!RulesetList, RulesetList,
   Promised!DeclaredSettings, DeclaredSettings, Promised!SettingField, SettingField,
   Promised!Needs, Needs, Promised!Policy, Policy, Promised!RulesetName, RulesetName,
   Promised!Flat, Flat, Promised!SecurityAndAnalysis, SecurityAndAnalysis,
   Promised!ToggleSetting, ToggleSetting

LEMMA SameMeets ==
  ASSUME NEW b
  PROVE  /\ \A f, v : Promised!Meets(b, f, v) <=> Meets(b, f, v)
         /\ \A p : Promised!Satisfies(b, p) <=> Satisfies(b, p)
         /\ \A raw : Promised!Current(raw) = Current(raw)
         /\ \A raw : Promised!CurrentExtra(raw) = CurrentExtra(raw)
         /\ Promised!Named(b) = Named(b)
         /\ Promised!Nothing = Nothing
BY SameWords
   DEF Promised!Meets, Meets, Promised!Satisfies, Satisfies, Promised!Current, Current,
       Promised!CurrentExtra, CurrentExtra, Promised!Named, Named, Promised!Nothing, Nothing

LEMMA SameCompliance ==
  /\ \A b : Promised!AsDeclared(b) <=> AsDeclared(b)
  /\ \A s : Promised!OutOfReach(s) <=> OutOfReach(s)
  /\ Promised!NoDuplicateRulesets <=> NoDuplicateRulesets
  /\ Promised!Repaired <=> Repaired
  /\ Promised!RepositoryComplies <=> RepositoryComplies
<1>1. \A b : Promised!AsDeclared(b) <=> AsDeclared(b)
  BY SameMeets DEF Promised!AsDeclared, AsDeclared, Promised!RulesetMeets, RulesetMeets
<1>2. \A s : Promised!OutOfReach(s) <=> OutOfReach(s)
  BY DEF Promised!OutOfReach, OutOfReach, Promised!GroupOf, GroupOf, Promised!Flat, Flat,
         Promised!SecurityAndAnalysis, SecurityAndAnalysis
<1>3. Promised!NoDuplicateRulesets <=> NoDuplicateRulesets
  BY SameWords DEF Promised!NoDuplicateRulesets, NoDuplicateRulesets
<1>4. Promised!NoOrphans <=> NoOrphans
  BY SameWords DEF Promised!NoOrphans, NoOrphans
<1>5. \A id, b : Promised!InForce(b, id) <=> InForce(b, id)
  BY SameMeets DEF Promised!InForce, InForce, Promised!Effective, Effective,
                   Promised!Nothing, Nothing
<1>6. \A b : Promised!BranchComplies(b) <=> BranchComplies(b)
  BY <1>5, SameMeets
     DEF Promised!BranchComplies, BranchComplies, Promised!RulesetMeets, RulesetMeets
<1>7. Promised!Repaired <=> Repaired
  BY <1>1, <1>2, <1>4, SameWords DEF Promised!Repaired, Repaired
<1>8. Promised!RepositoryComplies <=> RepositoryComplies
  BY <1>4, <1>6, SameWords DEF Promised!RepositoryComplies, RepositoryComplies
<1>. QED
  BY <1>1, <1>2, <1>3, <1>7, <1>8

LEMMA SameRepository == UNCHANGED repo <=> UNCHANGED Promised!repo
BY DEF repo, Promised!repo

-----------------------------------------------------------------------------
(* How a run goes on or ends. *)

VerdictAt(c) ==
  CASE c = 0 -> "complies" [] c = 1 -> "drifts" [] c \in {2, 3} -> "failed" [] OTHER -> "none"

LEMMA Verdicts ==
  /\ Verdict = IF Running THEN IF command = "apply" THEN "applying" ELSE "auditing"
               ELSE VerdictAt(code)
  /\ VerdictAt(0) = "complies" /\ VerdictAt(1) = "drifts"
  /\ VerdictAt(2) = "failed" /\ VerdictAt(3) = "failed" /\ VerdictAt(None) = "none"
  /\ \A c \in 0 .. 3 \cup {None} : VerdictAt(c) \in {"complies", "drifts", "failed", "none"}
BY NoneAssumption DEF Verdict, VerdictAt

(* Every other step than the first and the last. *)
LEMMA GoesOn ==
  ASSUME TypeOK, [Next]_vars, OwnStep, ~UNCHANGED vars,
         ~(\E cmd \in {"check", "apply"} : Start(cmd)), ~EndVerify
  PROVE  /\ Running /\ command' = command
         /\ Running' \/ code' \in {2, 3, None}
<1>1. CASE PrefetchRulesets \/ DetectStale \/ PlanBranch \/ EndPlanning \/ EndMutation
           \/ EndPrune \/ PlanSettings \/ EnterVerify
  BY <1>1 DEF PrefetchRulesets, DetectStale, PlanBranch, EndPlanning, EndMutation, EndPrune,
              PlanSettings, EnterVerify, Planning, Running, Idle
<1>2. CASE PlanBranchFails \/ ReadFails \/ Killed
  BY <1>2 DEF PlanBranchFails, ReadFails, Killed, Exit, Planning, Running, Idle
<1>3. CASE SkipBranch \/ PutBranch \/ SignBranch \/ CreateBranchRuleset \/ UpdateBranchRuleset
  BY <1>3 DEF SkipBranch, PutBranch, SignBranch, CreateBranchRuleset, UpdateBranchRuleset,
              BranchAnswered, BranchApplied, BranchFailed, Exit, Mutating, KeepInMutation,
              Running, Idle
<1>4. CASE PruneOne
  BY <1>4 DEF PruneOne, Exit, Running, Idle
<1>5. CASE MutateSetting \/ SettingUnavailable
  BY <1>5 DEF MutateSetting, SettingUnavailable, SettingDone, SettingFailed, Exit,
              KeepInSettings, Running, Idle
<1>6. ~Others
  BY DEF Others, Edit, OwnStep, TypeOK, GitHubTypeOK
<1>. QED
  BY <1>1, <1>2, <1>3, <1>4, <1>5, <1>6 DEF Next, Work


-----------------------------------------------------------------------------
(* Every write is one that module Promise allows. *)

(* What resolving changes was wrong and becomes right. *)
LEMMA ResolvingRepairs ==
  ASSUME NEW b \in Branch, NEW current, NEW f \in Field, Resolve(b, current)[f] # current[f]
  PROVE  Meets(b, f, Resolve(b, current)[f]) /\ ~Meets(b, f, current[f])
BY DEF Resolve, Meets

LEMMA TowardsResolved ==
  ASSUME NEW b \in Branch, NEW old, NEW new, new.extra = CurrentExtra(old),
         \A f \in Field : new.policy[f] \in {Current(old)[f], Resolve(b, Current(old))[f]}
  PROVE  Promised!Towards(b, old, new)
<1>1. ASSUME NEW f \in Field
      PROVE  \/ new.policy[f] = Current(old)[f]
             \/ Meets(b, f, new.policy[f]) /\ ~Meets(b, f, Current(old)[f])
  BY ResolvingRepairs
<1>. QED
  BY <1>1, SameMeets DEF Promised!Towards

LEMMA FieldChangesAreWrong ==
  ASSUME NEW b \in Branch, NEW current, FieldChanges(b, current) # {}
  PROVE  ~Satisfies(b, current)
BY ResolvingRepairs DEF FieldChanges, Satisfies

(* A branch is first written to only if its plan has something to change. *)
LEMMA WritesAreNeeded ==
  ASSUME [Next]_vars, OwnStep, Mutating, step = "call", TypeOK, ~UNCHANGED repo
  PROVE  NeedsWrite
<1>1. CASE PutBranch \/ SignBranch \/ CreateBranchRuleset \/ UpdateBranchRuleset \/ SkipBranch
  BY <1>1 DEF PutBranch, SignBranch, CreateBranchRuleset, UpdateBranchRuleset, SkipBranch
<1>2. CASE Killed
  BY <1>2 DEF Killed, InFlightLands, Mutating
<1>3. CASE EndMutation \/ ReadFails \/ (\E cmd \in {"check", "apply"} : Start(cmd))
           \/ UNCHANGED vars
  BY <1>3 DEF EndMutation, ReadFails, Start, vars
<1>4. ~Others
  BY DEF Others, Edit, OwnStep, TypeOK, GitHubTypeOK
<1>5. ~(PrefetchRulesets \/ DetectStale \/ PlanBranch \/ PlanBranchFails \/ EndPlanning
        \/ PruneOne \/ EndPrune \/ PlanSettings \/ MutateSetting \/ SettingUnavailable
        \/ EnterVerify \/ EndVerify)
  BY DEF PrefetchRulesets, DetectStale, PlanBranch, PlanBranchFails, EndPlanning, PruneOne,
         EndPrune, PlanSettings, MutateSetting, SettingUnavailable, EnterVerify, EndVerify,
         Planning, Mutating
<1>. QED
  BY <1>1, <1>2, <1>3, <1>4, <1>5 DEF Next, Work

LEMMA PutProtects ==
  ASSUME DoneInv, Mutating, step = "call", NeedsWrite,
         Enforcement[Target] = "branch_protection",
         PutProtection(Target, Plan.resolved, Plan.extra)
  PROVE  Promised!Protect
<1> DEFINE old == protection[Target]
           signed == IF old = None THEN Permissive ELSE old.policy[Signed]
           new == [policy |-> [Plan.resolved EXCEPT ![Signed] = signed], extra |-> Plan.extra]
<1>0. QInv /\ PlansCurrent
  BY DEF DoneInv
<1>1. /\ Target \in Branch /\ Target \in DeclaredSet \ RulesetBranches
      /\ Plan.resolved \in Policy /\ Plan.extra \in Extra
      /\ Raw(Target, Plan.id) = old
      /\ Plan.resolved = Resolve(Target, Current(old)) /\ Plan.extra = CurrentExtra(old)
  BY <1>0, TargetPlan, PlanType DEF QInv, Raw, Basis, RulesetBranches
<1>2. old \in Protection \cup {None}
  BY <1>1 DEF DoneInv, QInv, IInv, TypeOK, GitHubTypeOK
<1>3. signed \in Value /\ signed = Current(old)[Signed]
  BY <1>2, GitHubAssumption DEF Current, Nothing, Protection, Policy
<1>4. new \in Protection
  BY <1>1, <1>3 DEF Protection, Policy
<1>5. \A f \in Field : new.policy[f] = IF f = Signed THEN signed ELSE Plan.resolved[f]
  BY <1>1 DEF Policy
<1>6. new.extra = CurrentExtra(old)
      /\ \A f \in Field : new.policy[f] \in {Current(old)[f], Resolve(Target, Current(old))[f]}
  BY <1>1, <1>3, <1>5
<1>7. protection' = [protection EXCEPT ![Target] = new]
      /\ UNCHANGED <<rulesets, nextId, overridden, settings>>
  BY DEF PutProtection
<1> HIDE DEF new
<1>8. Promised!Towards(Target, old, new)
  BY <1>1, <1>6, TowardsResolved
<1>9. ~AsDeclared(Target)
  <2>1. Differences(Target, old) # {}
    BY <1>0, <1>1, TargetPlan DEF Basis, NeedsWrite
  <2>2. FieldChanges(Target, Current(old)) # {}
    BY <1>0, <2>1, TargetPlan DEF Differences, MetadataChanges
  <2>. QED
    BY <1>1, <2>2, FieldChangesAreWrong DEF AsDeclared
<1>. QED
  BY <1>1, <1>4, <1>7, <1>8, <1>9, SameWords, SameCompliance DEF Promised!Protect

LEMMA SignProtects ==
  ASSUME DoneInv, Mutating, step = "sign", ~UNCHANGED repo,
         Enforcement[Target] = "branch_protection",
         SetSignatures(Target, Plan.resolved[Signed])
  PROVE  Promised!Protect
<1> DEFINE old == protection[Target]
           value == Plan.resolved[Signed]
           new == [old EXCEPT !.policy[Signed] = value]
<1>1. Target \in Branch /\ Target \in DeclaredSet \ RulesetBranches
      /\ old \in Protection /\ old # None /\ Plan.resolved \in Policy
  BY TargetType, PlanType, NoneAssumption
     DEF DoneInv, QInv, IInv, TypeOK, GitHubTypeOK, SetSignatures, RulesetBranches
<1>2. protection' = [protection EXCEPT ![Target] = new]
      /\ UNCHANGED <<rulesets, nextId, overridden, settings>>
  BY DEF SetSignatures
<1>3. new \in Protection
  BY <1>1, GitHubAssumption DEF Protection, Policy
<1>4. /\ \A f \in Field : new.policy[f] = IF f = Signed THEN value ELSE old.policy[f]
      /\ new.extra = old.extra
  BY <1>1 DEF Protection, Policy
<1>5. Current(old) = old.policy /\ CurrentExtra(old) = old.extra
  BY <1>1 DEF Current, CurrentExtra
<1>6. Plan = planned[Target] /\ planned[Target] # None
  BY <1>1 DEF DoneInv, QInv, IInv, PlansHold, Plan, Mutating
<1>7. Meets(Target, Signed, value)
  BY <1>1, <1>6, GitHubAssumption
     DEF DoneInv, Repairs, PlansMeet, Planners, Mutating, Satisfies
<1>8. value # old.policy[Signed]
  <2>1. SUFFICES ASSUME value = old.policy[Signed] PROVE FALSE
    OBVIOUS
  <2>2. new = old
    BY <1>1, <2>1, GitHubAssumption DEF Protection, Policy
  <2>3. protection' = protection
    BY <1>2, <2>2 DEF DoneInv, QInv, IInv, TypeOK, GitHubTypeOK
  <2>. QED
    BY <1>2, <2>3 DEF repo
<1>9. ~Meets(Target, Signed, old.policy[Signed])
  <2>1. Desired[Target][Signed] = None /\ ~StrictBranch[Target] => value = old.policy[Signed]
    BY <1>6 DEF DoneInv, PlansCurrent, SignBasis
  <2>. QED
    BY <1>7, <1>8, <2>1 DEF Meets
<1>10. Promised!Towards(Target, old, new)
  BY <1>4, <1>5, <1>7, <1>9, SameMeets DEF Promised!Towards
<1>11. ~AsDeclared(Target)
  BY <1>1, <1>5, <1>9, GitHubAssumption DEF AsDeclared, Satisfies
<1> HIDE DEF new
<1>. QED
  BY <1>1, <1>2, <1>3, <1>10, <1>11, SameWords, SameCompliance DEF Promised!Protect


(* A ruleset that apply writes was wrong, and is put right at once. *)
LEMMA RulesetIsWrong ==
  ASSUME DoneInv, Mutating, step = "call", NeedsWrite, Enforcement[Target] = "ruleset",
         NEW raw, raw = Raw(Target, Plan.id), Differences(Target, raw) # {}
  PROVE  ~AsDeclared(Target)
<1>0. QInv /\ PlansCurrent
  BY DEF DoneInv
<1>1. Target \in Branch /\ Target \notin {None, Foreign}
  BY <1>0, TargetPlan
<1>2. \/ ~Satisfies(Target, Current(raw))
      \/ raw # None /\ ~raw.canonical
  BY <1>1, FieldChangesAreWrong DEF Differences, MetadataChanges
<1>3. CASE Plan.id = None
  <2>1. Named(Target) = {} /\ raw = None
    BY <1>0, <1>3, TargetPlan DEF Raw
  <2>2. ~Satisfies(Target, Nothing)
    BY <1>2, <2>1 DEF Current
  <2>. QED
    BY <2>1, <2>2 DEF AsDeclared
<1>4. CASE Plan.id # None
  <2>1. /\ Plan.id \in RulesetId /\ RulesetList[Plan.id] = Target
        /\ raw = rulesets[Plan.id] /\ raw # None
    BY <1>0, <1>4, TargetPlan, NoneAssumption DEF Raw
  <2>2. ~RulesetMeets(Target, Plan.id)
    BY <1>2, <2>1 DEF RulesetMeets, Current
  <2>3. \A id \in Named(Target) : id = Plan.id
    BY <1>1, <2>1 DEF Named, DoneInv, QInv, UInv, NoDuplicateRulesets
  <2>4. Plan.id \in Named(Target)
    BY <2>1 DEF Named
  <2>. QED
    BY <2>2, <2>3, <2>4 DEF AsDeclared
<1>. QED
  BY <1>3, <1>4

(* What is common to creating a ruleset and updating it. *)
LEMMA WrittenRuleset ==
  ASSUME DoneInv, Mutating, step = "call", Enforcement[Target] = "ruleset",
         NEW raw, raw = Raw(Target, Plan.id),
         NEW new, new = OwnRuleset(Target, Plan.resolved, Plan.extra)
  PROVE  /\ Target \in RulesetBranches /\ Target \in Branch
         /\ new \in Ruleset /\ new.name = Target /\ new.canonical
         /\ new.policy = Plan.resolved /\ new.extra = Plan.extra
         /\ Promised!Towards(Target, raw, new) /\ Satisfies(Target, new.policy)
<1>0. QInv /\ PlansCurrent
  BY DEF DoneInv
<1>1. /\ Target \in RulesetBranches /\ Target \in Branch
      /\ Plan.resolved = Resolve(Target, Current(raw)) /\ Plan.extra = CurrentExtra(raw)
  BY <1>0, TargetPlan DEF Basis, RulesetBranches
<1>2. new \in Ruleset
  BY <1>0, <1>1, PlanType, OwnRulesetType DEF QInv
<1>3. new.name = Target /\ new.canonical /\ new.policy = Plan.resolved /\ new.extra = Plan.extra
  BY DEF OwnRuleset
<1>4. Promised!Towards(Target, raw, new)
  BY <1>1, <1>3, TowardsResolved
<1>5. Satisfies(Target, new.policy)
  BY <1>1, <1>3, ResolvedSatisfies
<1>. QED
  BY <1>1, <1>2, <1>3, <1>4, <1>5

LEMMA CreateRules ==
  ASSUME DoneInv, Creates, NeedsWrite PROVE Promised!Rule
<1> DEFINE raw == Raw(Target, Plan.id)
           new == OwnRuleset(Target, Plan.resolved, Plan.extra)
<1>0. QInv /\ PlansCurrent /\ Mutating /\ step = "call" /\ Enforcement[Target] = "ruleset"
      /\ Plan.id = None
  BY DEF DoneInv, Creates
<1>1. raw = None /\ Named(Target) = {}
  BY <1>0, TargetPlan DEF Raw
<1>2. /\ nextId \in RulesetId /\ nextId \in Nat /\ nextId' = nextId + 1
      /\ rulesets[nextId] = None
  <2>1. nextId \in RulesetId /\ nextId' = nextId + 1
    BY <1>0, CreatedList
  <2>2. nextId \in Nat
    BY <2>1, GitHubAssumption DEF RulesetId
  <2>. QED
    BY <2>1, <2>2 DEF DoneInv, QInv, UInv, FreshIds
<1>3. rulesets' = [rulesets EXCEPT ![nextId] = new]
      /\ UNCHANGED <<protection, overridden, settings>>
  <2>1. /\ rulesets' = [id \in RulesetId |->
                         IF id \in nextId .. nextId + 1 - 1 THEN new ELSE rulesets[id]]
        /\ UNCHANGED <<protection, overridden, settings>>
    BY DEF Creates, CreateRulesets
  <2>2. \A id \in RulesetId : id \in nextId .. nextId + 1 - 1 <=> id = nextId
    BY <1>2, GitHubAssumption DEF RulesetId
  <2>. QED
    BY <2>1, <2>2 DEF DoneInv, QInv, IInv, TypeOK, GitHubTypeOK
<1>4. Differences(Target, raw) # {}
  BY <1>0, TargetPlan DEF Basis, NeedsWrite
<1>5. ~AsDeclared(Target)
  BY <1>0, <1>4, RulesetIsWrong
<1> HIDE DEF new, raw
<1>6. /\ Target \in RulesetBranches /\ Target \in Branch
      /\ new \in Ruleset /\ new.name = Target /\ new.canonical
      /\ Promised!Towards(Target, raw, new) /\ Satisfies(Target, new.policy)
  BY <1>0, WrittenRuleset DEF new, raw
<1>. QED
  BY <1>1, <1>2, <1>3, <1>5, <1>6, SameWords, SameMeets, SameCompliance DEF Promised!Rule

LEMMA UpdateRules ==
  ASSUME DoneInv, Updates, NeedsWrite, ~UNCHANGED repo PROVE Promised!Rule
<1> DEFINE raw == Raw(Target, Plan.id)
           new == OwnRuleset(Target, Plan.resolved, Plan.extra)
<1>0. QInv /\ PlansCurrent /\ Mutating /\ step = "call" /\ Enforcement[Target] = "ruleset"
      /\ Plan.id # None
  BY DEF DoneInv, Updates
<1>1. /\ Plan.id \in RulesetId /\ RulesetList[Plan.id] = Target
      /\ raw = rulesets[Plan.id] /\ raw \in Ruleset /\ raw # None
      /\ Plan.id \in Named(Target)
  BY <1>0, TargetPlan, NoneAssumption DEF Raw, Named
<1>2. rulesets' = [rulesets EXCEPT ![Plan.id] = new]
      /\ UNCHANGED <<protection, nextId, overridden, settings>>
  BY DEF Updates, UpdateRuleset
<1>3. /\ Target \in RulesetBranches /\ Target \in Branch
      /\ new \in Ruleset /\ new.name = Target /\ new.canonical
      /\ new.policy = Plan.resolved /\ new.extra = Plan.extra
      /\ Promised!Towards(Target, raw, new) /\ Satisfies(Target, new.policy)
  BY <1>0, WrittenRuleset
<1>4. Differences(Target, raw) # {}
  <2>1. SUFFICES ASSUME Differences(Target, raw) = {} PROVE FALSE
    OBVIOUS
  <2>2. Resolve(Target, Current(raw)) = Current(raw) /\ raw.canonical
    BY <1>0, <1>1, <1>3, <2>1, NoDifference
  <2>3. /\ Plan.resolved = raw.policy /\ Plan.extra = raw.extra /\ raw.name = Target
    BY <1>0, <1>1, <2>2, TargetPlan DEF Basis, Current, CurrentExtra, RulesetList
  <2>4. new = raw
    BY <1>1, <1>3, <2>2, <2>3 DEF Ruleset, OwnRuleset
  <2>5. rulesets' = rulesets
    BY <1>1, <1>2, <2>4 DEF DoneInv, QInv, IInv, TypeOK, GitHubTypeOK
  <2>. QED
    BY <1>2, <2>5 DEF repo
<1>5. ~AsDeclared(Target)
  BY <1>0, <1>4, RulesetIsWrong
<1> HIDE DEF new, raw
<1>6. /\ Target \in Promised!RulesetBranches /\ Plan.id \in Promised!RulesetId
      /\ new \in Promised!Ruleset /\ ~Promised!AsDeclared(Target)
      /\ Plan.id \in Promised!Named(Target) /\ nextId' = nextId
      /\ Promised!Towards(Target, rulesets[Plan.id], new)
      /\ Promised!Satisfies(Target, new.policy)
  BY <1>1, <1>2, <1>3, <1>5, SameWords, SameMeets, SameCompliance
<1>. QED
  BY <1>2, <1>3, <1>6 DEF Promised!Rule

LEMMA DeletionPrunes ==
  ASSUME DoneInv, Deletions PROVE Promised!Prune
<1>1. PICK id \in toPrune : DeleteRuleset(id)
  BY DEF Deletions
<1>2. phase = "prune" /\ Strict /\ id \in Orphans /\ id \in RulesetId
  BY DEF Deletions, DoneInv, QInv, Scope, IInv, TypeOK
<1>3. RulesetList[id] \in Branch \ RulesetBranches
  BY <1>2, OrphanIsOwned DEF DoneInv, Repairs, PruneRepairs, QInv, IInv
<1>. QED
  BY <1>1, <1>2, <1>3, SameWords DEF Promised!Prune, Promised!DeleteRuleset, DeleteRuleset

LEMMA SettingSwitches ==
  ASSUME DoneInv, Sets, settings' \in [SettingField -> BOOLEAN] PROVE Promised!Switch
<1>1. PICK g \in Group \ Unlicensed : SetSettings(Payload(g), DesiredSetting)
  BY DEF Sets
<1>2. TypeOK /\ NeedsHold /\ todo \cap Unreadable = {}
  BY DEF Sets, DoneInv, QInv, IInv, Repairs, SettingsRepairs
<1>3. ASSUME NEW s \in SettingField
      PROVE  \/ settings'[s] = settings[s]
             \/ s \in DeclaredSettings /\ ~OutOfReach(s) /\ settings'[s] = DesiredSetting[s]
             \/ /\ s \in DOMAIN Needs /\ ~settings'[s]
                /\ settings[Needs[s]] /\ ~settings'[Needs[s]]
  <2>1. CASE s \in Payload(g)
    <3>1. s \in DeclaredSettings /\ ~OutOfReach(s)
      BY <1>2, <2>1 DEF Payload, TypeOK, OutOfReach
    <3>. QED
      BY <1>1, <1>2, <2>1, <3>1, SetEach
  <2>2. ASSUME s \notin Payload(g), settings'[s] # settings[s]
        PROVE  /\ s \in DOMAIN Needs /\ ~settings'[s]
               /\ settings[Needs[s]] /\ ~settings'[Needs[s]]
    <3>1. /\ s \in DOMAIN Needs /\ Needs[s] \in Payload(g) /\ settings'[s] = FALSE
          /\ DesiredSetting[Needs[s]] = FALSE
      BY <1>1, <1>2, <1>3, <2>2, SetEach
    <3>2. settings'[Needs[s]] = FALSE
      BY <1>1, <1>2, <3>1, SetEach
    <3>3. settings[s] = TRUE
      BY <1>2, <2>2, <3>1 DEF TypeOK, GitHubTypeOK
    <3>4. settings[Needs[s]]
      BY <1>2, <3>1, <3>3 DEF NeedsHold
    <3>. QED
      BY <3>1, <3>2, <3>4
  <2>. QED
    BY <2>1, <2>2
<1>4. UNCHANGED <<protection, rulesets, nextId, overridden>>
  BY <1>1 DEF SetSettings
<1>. QED
  BY <1>3, <1>4, SameWords, SameCompliance DEF Promised!Switch


LEMMA WritesKeepThePromise ==
  ASSUME PInv, [Next]_vars, OwnStep, ~UNCHANGED repo PROVE Promised!Next
<1>0. DoneInv /\ IInv /\ Scope /\ TypeOK
  BY DEF PInv, DoneInv, QInv, IInv
<1>1. phase \in {"mutate", "prune", "settings"} /\ command = "apply"
  <2>1. repo' # repo
    BY DEF repo
  <2>2. phase \in {"mutate", "prune", "settings"}
    BY <1>0, <2>1, WritersArePlanned
  <2>. QED
    BY <1>0, <2>2 DEF IInv, PlansHold
<1>2. Verdict = "applying" /\ Verdict' \in {"applying", "failed", "none"}
  <2>1. ~UNCHANGED vars /\ ~(\E cmd \in {"check", "apply"} : Start(cmd)) /\ ~EndVerify
    BY DEF vars, Start, EndVerify
  <2>2. Running /\ command' = command /\ (Running' \/ code' \in {2, 3, None})
    BY <1>0, <2>1, GoesOn
  <2>3. Verdict' = IF Running' THEN IF command' = "apply" THEN "applying" ELSE "auditing"
                   ELSE VerdictAt(code')
    BY NoneAssumption DEF Verdict, VerdictAt
  <2>. QED
    BY <1>1, <2>2, <2>3, Verdicts
<1>3. Promised!Protect \/ Promised!Rule \/ Promised!Prune \/ Promised!Switch
  <2>1. CASE WritesProtection
    <3>1. CASE step = "call" /\ PutProtection(Target, Plan.resolved, Plan.extra)
      <4>1. NeedsWrite
        BY <1>0, <2>1, <3>1, WritesAreNeeded DEF WritesProtection
      <4>. QED
        BY <1>0, <2>1, <3>1, <4>1, PutProtects DEF WritesProtection
    <3>2. CASE step = "sign" /\ SetSignatures(Target, Plan.resolved[Signed])
      BY <1>0, <2>1, <3>2, SignProtects DEF WritesProtection
    <3>. QED
      BY <2>1, <3>1, <3>2 DEF WritesProtection
  <2>2. CASE Creates
    <3>1. NeedsWrite
      BY <1>0, <2>2, WritesAreNeeded DEF Creates
    <3>. QED
      BY <1>0, <2>2, <3>1, CreateRules
  <2>3. CASE Updates
    <3>1. NeedsWrite
      BY <1>0, <2>3, WritesAreNeeded DEF Updates
    <3>. QED
      BY <1>0, <2>3, <3>1, UpdateRules
  <2>4. CASE Deletions
    BY <1>0, <2>4, DeletionPrunes
  <2>5. CASE Sets
    <3>1. settings' \in [SettingField -> BOOLEAN]
      BY <1>0, NextIInv DEF IInv, TypeOK, GitHubTypeOK
    <3>. QED
      BY <1>0, <2>5, <3>1, SettingSwitches
  <2>. QED
    BY <1>0, <2>1, <2>2, <2>3, <2>4, <2>5, AllWriteForms
<1>. QED
  BY <1>2, <1>3 DEF Promised!Next, Promised!Write, Promised!Cut

-----------------------------------------------------------------------------
(* Every verdict is true. *)

(* Drift is found only where there is some. *)
LEMMA DriftIsReal ==
  ASSUME IInv, Observed, NoDuplicateRulesets, phase = "verify", step = "read", ~disturbed,
         RepositoryComplies
  PROVE  ~Drift
<1>1. ListIsRead
  BY DEF Observed, ListIsRead
<1>2. ASSUME NEW b \in DeclaredSet PROVE planned[b].changes = {} /\ b \notin stale
  <2>1. Fresh(b)
    BY DEF Observed
  <2>2. PICK id \in Found(b) :
          ~Gone(id) /\ planned[b].changes = BranchChanges(b, id, Raw(b, id))
    BY <2>1 DEF Fresh
  <2>3. planned[b].changes = {}
    BY <1>1, <2>2, CompliantPlan DEF IInv
  <2>4. b \notin stale
    BY DEF Observed, RepositoryComplies, BranchComplies, RulesetBranches
  <2>. QED
    BY <2>3, <2>4
<1>3. ASSUME Strict PROVE Orphans = {}
  BY <1>1, <1>3 DEF ListIsRead, RepositoryComplies, NoOrphans, Orphans, Orphan
<1>4. SettingsChanges = {} /\ SettingsUnavailable = {}
  BY DEF RepositoryComplies, SettingsChanges, SettingsUnavailable
<1>. QED
  BY <1>2, <1>3, <1>4 DEF Drift

LEMMA VerdictIsTrue ==
  ASSUME PInv, EndVerify PROVE Promised!Judge
<1>1. IInv /\ Observed /\ NoDuplicateRulesets
  BY DEF PInv, DoneInv, VInv, QInv, UInv
<1>2. phase = "verify" /\ step = "read" /\ ~disturbed /\ UNCHANGED repo
      /\ phase' = "exited" /\ code' = IF Drift THEN 1 ELSE 0
  BY DEF PInv, EndVerify, Exit
<1>3. RepositoryComplies <=> ~Drift
  BY <1>1, <1>2, DriftIsReal, NoDriftComplies
<1>4. Verdict = IF command = "apply" THEN "applying" ELSE "auditing"
  BY <1>2, Verdicts DEF Running, Idle
<1>5. Verdict' = IF RepositoryComplies THEN "complies" ELSE "drifts"
  <2>1. Verdict' = VerdictAt(code')
    BY <1>2, NoneAssumption DEF Verdict, VerdictAt, Running, Idle
  <2>. QED
    BY <1>2, <1>3, <2>1, Verdicts
<1>6. Verdict = "applying" => Repaired
  BY <1>2, <1>4 DEF PInv, DoneInv, Repairs, VerifyRepaired
<1>. QED
  BY <1>2, <1>4, <1>5, <1>6, SameRepository, SameCompliance
     DEF Promised!Judge, Promised!Open

LEMMA QuietKeepsThePromise ==
  ASSUME PInv, [Next]_vars, OwnStep, UNCHANGED repo
  PROVE  Promised!Next \/ Verdict' = Verdict
<1>0. TypeOK /\ TypeOK'
  BY NextIInv DEF PInv, DoneInv, QInv, IInv
<1>1. Verdict' = IF Running' THEN IF command' = "apply" THEN "applying" ELSE "auditing"
                 ELSE VerdictAt(code')
  BY NoneAssumption DEF Verdict, VerdictAt
<1>2. ASSUME NEW cmd \in {"check", "apply"}, Start(cmd) PROVE Promised!Next
  <2>1. Verdict \notin {"auditing", "applying"}
    BY <1>0, <1>2, Verdicts DEF Start, Running, TypeOK
  <2>2. Verdict' \in {"auditing", "applying"}
    BY <1>1, <1>2 DEF Start, Running, Idle
  <2>. QED
    BY <2>1, <2>2, SameRepository DEF Promised!Next, Promised!Begin, Promised!Open
<1>3. CASE EndVerify
  BY <1>3, VerdictIsTrue DEF Promised!Next
<1>4. CASE UNCHANGED vars
  BY <1>4 DEF vars, local, Verdict, Running, Idle
<1>5. ASSUME ~UNCHANGED vars, ~EndVerify, ~(\E cmd \in {"check", "apply"} : Start(cmd))
      PROVE  Promised!Next \/ Verdict' = Verdict
  <2>1. Running /\ command' = command /\ (Running' \/ code' \in {2, 3, None})
    BY <1>0, <1>5, GoesOn
  <2>2. Verdict \in {"auditing", "applying"}
    BY <2>1, Verdicts
  <2>3. Verdict' = Verdict \/ Verdict' \in {"failed", "none"}
    BY <1>1, <2>1, Verdicts
  <2>. QED
    BY <2>2, <2>3, SameRepository
       DEF Promised!Next, Promised!GiveUp, Promised!Open, Promised!Cut
<1>. QED
  BY <1>2, <1>3, <1>4, <1>5

-----------------------------------------------------------------------------
LEMMA InitPromise == Init /\ NoDuplicateRulesets => PInv /\ Promised!Init
<1> SUFFICES ASSUME Init, NoDuplicateRulesets PROVE PInv /\ Promised!Init
  OBVIOUS
<1>1. PInv
  BY InitDone, InitVInv DEF Init, PInv
<1>2. Verdict = "none"
  BY Verdicts DEF Init, Running, Idle
<1>. QED
  BY <1>1, <1>2, SameCompliance DEF Promised!Init

LEMMA NextPromise == PInv /\ [Next]_vars /\ [OwnStep]_vars => PInv'
<1> SUFFICES ASSUME PInv, [Next]_vars, [OwnStep]_vars PROVE PInv'
  OBVIOUS
<1>1. OwnStep
  BY DEF OwnStep, vars
<1>2. DoneInv'
  BY NextDone DEF PInv
<1>3. VInv'
  BY NextVInv DEF PInv, DoneInv, QInv
<1>4. ~disturbed'
  <2>1. ~Others
    BY <1>1 DEF Others, Edit, OwnStep, PInv, DoneInv, QInv, IInv, TypeOK, GitHubTypeOK
  <2>. QED
    BY <2>1 DEF Next, Work, Start, PrefetchRulesets, DetectStale, PlanBranch,
       PlanBranchFails, EndPlanning, SkipBranch, PutBranch, SignBranch,
       CreateBranchRuleset, UpdateBranchRuleset, KeepInMutation, EndMutation, PruneOne,
       EndPrune, PlanSettings, MutateSetting, SettingUnavailable, KeepInSettings,
       EnterVerify, EndVerify, ReadFails, Killed, vars, PInv
<1>. QED
  BY <1>2, <1>3, <1>4 DEF PInv

(* Plans, lists, journals, retries and crashes come to no more than module      *)
(* Promise says: whatever calls fail or are cut off, in one run after another,  *)
(* each change puts right something that was wrong and touches nothing else and *)
(* each verdict is true, as long as nobody else edits the repository and no two *)
(* rulesets share a name to begin with.                                         *)
THEOREM RunsKeepThePromise ==
  Spec /\ NoDuplicateRulesets /\ [][OwnStep]_vars => KeepsItsPromise
<1>1. PInv /\ [Next]_vars /\ [OwnStep]_vars => [Promised!Next]_<<Promised!repo, Verdict>>
  <2> SUFFICES ASSUME PInv, [Next]_vars, [OwnStep]_vars
               PROVE  [Promised!Next]_<<Promised!repo, Verdict>>
    OBVIOUS
  <2>1. OwnStep
    BY DEF OwnStep, vars
  <2>. QED
    BY <2>1, SameRepository, WritesKeepThePromise, QuietKeepsThePromise
<1>. QED
  BY <1>1, InitPromise, NextPromise, PTL DEF Spec, KeepsItsPromise, Promised!Spec

-----------------------------------------------------------------------------
(* Module Promise alone: what its writes leave as it was. *)

LEMMA ProtectKeeps ==
  ASSUME Promised!Protect, TypeOK, NEW b \in DeclaredSet, AsDeclared(b)
  PROVE  AsDeclared(b)'
<1>1. PICK c \in DeclaredSet \ RulesetBranches :
        /\ ~AsDeclared(c)
        /\ \E new : protection' = [protection EXCEPT ![c] = new]
        /\ UNCHANGED rulesets
  BY SameWords, SameCompliance DEF Promised!Protect
<1>2. b # c /\ protection'[b] = protection[b]
  BY <1>1, DeclaredType DEF TypeOK, GitHubTypeOK
<1>3. RulesetList' = RulesetList
  BY <1>1 DEF RulesetList
<1>. QED
  BY <1>1, <1>2, <1>3, SameRulesets

LEMMA RuleKeeps ==
  ASSUME Promised!Rule, TypeOK, NEW b \in DeclaredSet, AsDeclared(b)
  PROVE  AsDeclared(b)'
<1>0. PICK c \in Promised!RulesetBranches, id \in Promised!RulesetId, new \in Promised!Ruleset :
        /\ ~Promised!AsDeclared(c)
        /\ id \in Promised!Named(c) \/ rulesets[id] = None
        /\ new.name = c
        /\ rulesets' = [rulesets EXCEPT ![id] = new]
        /\ UNCHANGED protection
  BY DEF Promised!Rule
<1>1. /\ c \in RulesetBranches /\ id \in RulesetId /\ new \in Ruleset
      /\ ~AsDeclared(c) /\ (id \in Named(c) \/ rulesets[id] = None)
      /\ new.name = c
      /\ rulesets' = [rulesets EXCEPT ![id] = new]
      /\ UNCHANGED protection
  BY <1>0, SameWords, SameMeets, SameCompliance
<1>2. b # c /\ b # None
  BY <1>1, DeclaredType, NoneAssumption DEF RulesetName
<1>3. /\ rulesets'[id] = new /\ new # None
      /\ \A i \in RulesetId : i # id => rulesets'[i] = rulesets[i]
  BY <1>1, NoneAssumption DEF TypeOK, GitHubTypeOK
<1>4. RulesetList[id] # b /\ RulesetList'[id] # b
  BY <1>1, <1>2, <1>3 DEF RulesetList, Named
<1>5. \A i \in RulesetId : i # id => RulesetList'[i] = RulesetList[i]
  BY <1>3 DEF RulesetList
<1>6. \A i \in RulesetId : RulesetList'[i] = b <=> RulesetList[i] = b
  BY <1>4, <1>5
<1>7. \A i \in RulesetId : RulesetList[i] = b => rulesets'[i] = rulesets[i]
  BY <1>3, <1>4
<1>. QED
  BY <1>1, <1>6, <1>7, SameRulesets

LEMMA PruneKeeps ==
  ASSUME Promised!Prune, TypeOK, NEW b \in DeclaredSet, AsDeclared(b)
  PROVE  AsDeclared(b)'
<1>1. PICK id \in RulesetId :
        /\ RulesetList[id] \in Branch \ RulesetBranches
        /\ rulesets' = [rulesets EXCEPT ![id] = None]
        /\ UNCHANGED protection
  BY SameWords DEF Promised!Prune, Promised!DeleteRuleset
<1>2. CASE b \in RulesetBranches
  <2>1. b # None /\ RulesetList[id] # b
    BY <1>1, <1>2, DeclaredType, NoneAssumption DEF RulesetName
  <2>2. /\ rulesets'[id] = None
        /\ \A i \in RulesetId : i # id => rulesets'[i] = rulesets[i]
    BY <1>1 DEF TypeOK, GitHubTypeOK
  <2>3. RulesetList'[id] # b
    BY <2>1, <2>2 DEF RulesetList
  <2>4. \A i \in RulesetId : i # id => RulesetList'[i] = RulesetList[i]
    BY <2>2 DEF RulesetList
  <2>. QED
    BY <1>1, <2>1, <2>2, <2>3, <2>4, SameRulesets
<1>3. CASE b \notin RulesetBranches
  BY <1>1, <1>3, ConfigAssumption, DeclaredType
     DEF RulesetBranches, AsDeclared, Satisfies, Meets, Current
<1>. QED
  BY <1>2, <1>3

LEMMA SwitchKeeps ==
  ASSUME Promised!Switch, NEW b \in DeclaredSet, AsDeclared(b)
  PROVE  AsDeclared(b)'
BY SameDeclared DEF Promised!Switch

(* Each write needs something that is wrong. *)
LEMMA WritesAreRepairs ==
  ASSUME Promised!Protect \/ Promised!Rule \/ Promised!Prune \/ Promised!Switch,
         TypeOK, Repaired
  PROVE  UNCHANGED repo
<1>1. ~Promised!Protect /\ ~Promised!Rule
  BY SameWords, SameCompliance
     DEF Promised!Protect, Promised!Rule, Repaired, RulesetBranches
<1>2. ~Promised!Prune
  BY SameWords, NoneAssumption, GitHubAssumption
     DEF Promised!Prune, Repaired, NoOrphans, RulesetName
<1>3. CASE Promised!Switch
  <2>1. PICK new \in [SettingField -> BOOLEAN] :
          /\ \A s \in SettingField :
               \/ new[s] = settings[s]
               \/ s \in DeclaredSettings /\ ~OutOfReach(s) /\ new[s] = DesiredSetting[s]
               \/ s \in DOMAIN Needs /\ ~new[s] /\ settings[Needs[s]] /\ ~new[Needs[s]]
          /\ settings' = new
    BY <1>3, SameWords, SameCompliance DEF Promised!Switch
  <2>2. \A s \in DeclaredSettings : OutOfReach(s) \/ settings[s] = DesiredSetting[s]
    BY DEF Repaired
  <2>3. \A s \in SettingField \ DOMAIN Needs : new[s] = settings[s]
    BY <2>1, <2>2
  <2>4. \A s \in DOMAIN Needs : Needs[s] \in SettingField \ DOMAIN Needs
    BY NeedsShape
  <2>5. \A s \in SettingField : new[s] = settings[s]
    BY <2>1, <2>2, <2>3, <2>4
  <2>6. settings' = settings
    BY <2>1, <2>5 DEF TypeOK, GitHubTypeOK
  <2>. QED
    BY <1>3, <2>6, SameWords DEF Promised!Switch, repo
<1>. QED
  BY <1>1, <1>2, <1>3

(* What is right stays right, and once all is done that can be no run changes   *)
(* anything again: no sequence of runs that fail, are killed or find drift they *)
(* cannot repair flaps a repository back and forth.                             *)
THEOREM RepairsAreFinal ==
  Spec /\ NoDuplicateRulesets /\ [][OwnStep]_vars => RepairIsFinal
<1>1. ASSUME PInv, [Next]_vars, OwnStep
      PROVE  /\ \A b \in DeclaredSet : AsDeclared(b) => AsDeclared(b)'
             /\ Repaired => UNCHANGED repo
  <2>1. TypeOK
    BY <1>1 DEF PInv, DoneInv, QInv, IInv
  <2>2. CASE UNCHANGED repo
    BY <2>2, SameDeclared DEF repo
  <2>3. CASE ~UNCHANGED repo
    <3>1. Promised!Protect \/ Promised!Rule \/ Promised!Prune \/ Promised!Switch
      <4>1. Promised!Next /\ ~UNCHANGED Promised!repo
        BY <1>1, <2>3, WritesKeepThePromise, SameRepository
      <4>. QED
        BY <4>1 DEF Promised!Next, Promised!Begin, Promised!Write, Promised!GiveUp,
                    Promised!Judge
    <3>2. \A b \in DeclaredSet : AsDeclared(b) => AsDeclared(b)'
      BY <2>1, <3>1, ProtectKeeps, RuleKeeps, PruneKeeps, SwitchKeeps
    <3>. QED
      BY <2>1, <3>1, <3>2, WritesAreRepairs
  <2>. QED
    BY <2>2, <2>3
<1>. QED
  BY <1>1, InitPromise, NextPromise, PTL DEF Spec, RepairIsFinal
=============================================================================
