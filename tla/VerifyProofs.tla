------------------------- MODULE VerifyProofs -------------------------
(* For every policy and whatever fails or is edited before verification: exit   *)
(* code 0 means that the repository complies.                                   *)
EXTENDS ApplyProofs

USE DEF outside, writing, found, history

(* The plan of b is what planning b again would find. *)
Fresh(b) ==
  /\ planned[b] # None
  /\ \E id \in Found(b) :
       ~Gone(id) /\ planned[b].changes = BranchChanges(b, id, Raw(b, id))

(* What verification has read so far is still what GitHub holds. *)
Observed ==
  phase = "verify" /\ ~disturbed =>
    /\ step \in {"list", "stale", "plan", "read"}
    /\ step \in {"list", "stale"} => at = 1
    /\ step # "list" =>
         cache = IF Strict \/ RulesetBranches # {} THEN RulesetList ELSE NothingListed
    /\ step \in {"plan", "read"} => stale = {b \in RulesetBranches : protection[b] # None}
    /\ step = "plan" => \A j \in 1 .. at - 1 : Fresh(Declared[j])
    /\ step = "read" => \A b \in DeclaredSet : Fresh(b)

VInv == Observed /\ ExitZeroMeansCompliant

-----------------------------------------------------------------------------
(* No change to any branch means that GitHub satisfies its policy. *)

LEMMA UnchangedSatisfies ==
  ASSUME NEW b \in Branch, NEW current \in Policy, FieldChanges(b, current) = {}
  PROVE  Satisfies(b, current) /\ Resolve(b, current) = current
<1>1. \A f \in Field : Resolve(b, current)[f] = current[f]
  BY DEF FieldChanges
<1>2. Resolve(b, current) = current
  BY <1>1 DEF Resolve, Policy
<1>. QED
  BY <1>1, <1>2 DEF Resolve, Satisfies, Meets

LEMMA BranchVerified ==
  ASSUME TypeOK, NEW b \in DeclaredSet, Fresh(b), planned[b].changes = {},
         Enforcement[b] = "ruleset" => cache = RulesetList /\ protection[b] = None
  PROVE  BranchComplies(b)
<1>. b \in Branch
  BY DeclaredType
<1>1. PICK id \in Found(b) : ~Gone(id) /\ BranchChanges(b, id, Raw(b, id)) = {}
  BY DEF Fresh
<1> DEFINE raw == Raw(b, id)
<1>2. id \in RulesetId \cup {None} /\ raw \in Protection \cup Ruleset \cup {None}
  BY RawType
<1>3. FieldChanges(b, Current(raw)) = {} /\ MetadataChanges(b, raw) = {}
      /\ EffectivenessChanges(b, id, raw) = {}
  BY <1>1 DEF BranchChanges
<1>4. Satisfies(b, Current(raw)) /\ Resolve(b, Current(raw)) = Current(raw)
  BY <1>2, <1>3, CurrentType, UnchangedSatisfies
<1>5. CASE Enforcement[b] = "branch_protection"
  BY <1>4, <1>5 DEF BranchComplies, Raw, Current
<1>6. CASE Enforcement[b] = "ruleset" /\ id = None
  <2>1. Listed(b) = {}
    BY <1>6, NoneAssumption DEF Found, Listed
  <2>2. \A i \in RulesetId : RulesetList[i] # b
    BY <1>6, <2>1 DEF Listed
  <2>3. Satisfies(b, Nothing)
    BY <1>4, <1>6 DEF Raw, Current
  <2>. QED
    BY <1>6, <2>2, <2>3 DEF BranchComplies, Named
<1>7. CASE Enforcement[b] = "ruleset" /\ id # None
  <2>1. id \in RulesetId /\ RulesetList[id] = b
    BY <1>2, <1>7 DEF Found, Listed
  <2>2. raw = rulesets[id] /\ rulesets[id] # None
    BY <1>1, <1>7 DEF Raw, Gone
  <2>3. Satisfies(b, rulesets[id].policy)
    BY <1>4, <2>2 DEF Current
  <2>4. rulesets[id].canonical
    BY <1>3, <1>7, <2>2 DEF MetadataChanges
  <2>5. \/ Effective(id, b)
        \/ rulesets[id].policy = Nothing /\ rulesets[id].extra = NoExtra
    BY <1>3, <1>4, <1>7, <2>2 DEF EffectivenessChanges, Current
  <2>. QED
    BY <1>7, <2>1, <2>3, <2>4, <2>5 DEF BranchComplies, Named, RulesetMeets, InForce
<1>. QED
  BY <1>5, <1>6, <1>7, ConfigAssumption

LEMMA NoDriftComplies ==
  ASSUME IInv, Observed, phase = "verify", step = "read", ~disturbed, ~Drift
  PROVE  RepositoryComplies
<1>1. ASSUME NEW b \in DeclaredSet PROVE BranchComplies(b)
  <2>1. Fresh(b) /\ planned[b].changes = {} /\ b \notin stale
    BY DEF Observed, Drift
  <2>2. Enforcement[b] = "ruleset" => cache = RulesetList /\ protection[b] = None
    BY <2>1 DEF Observed, RulesetBranches
  <2>. QED
    BY <2>1, <2>2, BranchVerified DEF IInv
<1>2. ASSUME Strict, NEW id \in RulesetId
      PROVE  RulesetList[id] \in RulesetBranches \cup {None, Foreign}
  <2>1. cache = RulesetList /\ Orphans = {}
    BY <1>2 DEF Observed, Drift
  <2>. QED
    BY <2>1 DEF Orphans, Orphan
<1>3. \A s \in DeclaredSettings : s \notin Unreadable /\ settings[s] = DesiredSetting[s]
  BY DEF Drift, SettingsChanges, SettingsUnavailable
<1>. QED
  BY <1>1, <1>2, <1>3 DEF RepositoryComplies, NoOrphans

-----------------------------------------------------------------------------
(* Every action keeps what was observed. *)

LEMMA SameReading ==
  ASSUME UNCHANGED <<repo, cache>>, NEW b, NEW id
  PROVE  /\ Found(b)' = Found(b)
         /\ Gone(id)' = Gone(id)
         /\ BranchChanges(b, id, Raw(b, id))' = BranchChanges(b, id, Raw(b, id))
<1>1. UNCHANGED <<protection, rulesets, overridden, cache>>
  BY DEF repo
<1>2. Raw(b, id)' = Raw(b, id) /\ Found(b)' = Found(b) /\ Gone(id)' = Gone(id)
  BY <1>1 DEF Raw, Found, Listed, Gone
<1>3. Effective(id, b)' = Effective(id, b)
  BY <1>1 DEF Effective
<1>. QED
  BY <1>2, <1>3 DEF BranchChanges, FieldChanges, MetadataChanges, EffectivenessChanges,
                    Current

LEMMA FreshKept ==
  ASSUME NEW b, Fresh(b), planned'[b] = planned[b], UNCHANGED <<repo, cache>>
  PROVE  Fresh(b)'
<1>1. PICK id \in Found(b) :
        ~Gone(id) /\ planned[b].changes = BranchChanges(b, id, Raw(b, id))
  BY DEF Fresh
<1>. QED
  BY <1>1, SameReading DEF Fresh

LEMMA CompliesKept ==
  ASSUME UNCHANGED repo, RepositoryComplies PROVE RepositoryComplies'
BY DEF repo, RepositoryComplies, BranchComplies, Named, RulesetMeets, InForce,
       NoOrphans, RulesetList, Effective

LEMMA InitVInv == Init => VInv
BY NoneAssumption DEF Init, VInv, Observed, ExitZeroMeansCompliant

(* A step that neither verifies nor exits with 0. *)
LEMMA ElsewhereVInv ==
  ASSUME phase' # "verify" \/ (step' = "list" /\ at' = 1),
         phase' = "exited" => code' \in {2, 3, None} \/ disturbed'
  PROVE  VInv'
BY NoneAssumption DEF VInv, Observed, ExitZeroMeansCompliant, Idle

LEMMA PlanBranchVInv ==
  ASSUME IInv, VInv, PlanBranch PROVE VInv'
<1>1. at \in 1 .. Len(Declared) /\ Declared[at] \in Branch
  BY DeclaredType DEF IInv, TypeOK, PlanBranch, AllPlanned
<1>0. PICK b \in Branch : b = Declared[at]
  BY <1>1
<1>2. PICK id \in Found(b) :
        /\ ~Gone(id)
        /\ planned' = [planned EXCEPT ![b] =
               [resolved |-> Resolve(b, Current(Raw(b, id))),
                extra    |-> CurrentExtra(Raw(b, id)),
                id       |-> id,
                changes  |-> BranchChanges(b, id, Raw(b, id))]]
  BY <1>0 DEF PlanBranch
<1> DEFINE plan == [resolved |-> Resolve(b, Current(Raw(b, id))),
                    extra    |-> CurrentExtra(Raw(b, id)),
                    id       |-> id,
                    changes  |-> BranchChanges(b, id, Raw(b, id))]
<1>3. plan \in PlannedBranch
  <2>1. Raw(b, id) \in Protection \cup Ruleset \cup {None} /\ id \in RulesetId \cup {None}
    BY <1>1, <1>2, RawType DEF IInv
  <2>. QED
    BY <1>1, <2>1, CurrentType, ResolveType, ChangesType DEF PlannedBranch
<1>4. planned'[b] = plan /\ planned'[b] # None
  BY <1>1, <1>2, <1>3, NoneAssumption DEF IInv, TypeOK
<1>5. UNCHANGED repo /\ cache' = cache /\ step' = "plan" /\ step = "plan" /\ at' = at + 1
      /\ UNCHANGED <<phase, code, stale, disturbed>>
  BY DEF PlanBranch
<1>6. Fresh(b)'
  <2>1. /\ Found(b)' = Found(b)
        /\ Gone(id)' = Gone(id)
        /\ BranchChanges(b, id, Raw(b, id))' = BranchChanges(b, id, Raw(b, id))
    BY <1>5, SameReading
  <2>2. planned'[b].changes = BranchChanges(b, id, Raw(b, id))
    BY <1>4
  <2>. QED
    BY <1>2, <1>4, <2>1, <2>2 DEF Fresh
<1>7. ASSUME phase = "verify", ~disturbed, NEW j \in 1 .. at' - 1 PROVE Fresh(Declared[j])'
  <2>1. CASE j = at
    BY <1>0, <1>6, <2>1
  <2>2. CASE j # at
    <3>1. j \in 1 .. at - 1 /\ j \in 1 .. Len(Declared)
      BY <1>1, <1>5, <1>7, <2>2
    <3>2. Declared[j] # b
      BY <1>0, <1>1, <2>2, <3>1, ConfigAssumption
    <3>3. Fresh(Declared[j])
      BY <1>5, <1>7, <3>1 DEF VInv, Observed
    <3>. QED
      BY <1>2, <1>5, <3>2, <3>3, FreshKept DEF IInv, TypeOK
  <2>. QED
    BY <2>1, <2>2
<1>8. ExitZeroMeansCompliant'
  BY <1>5 DEF ExitZeroMeansCompliant, Idle, PlanBranch, Planning
<1>9. Observed'
  BY <1>5, <1>7 DEF VInv, Observed, repo, RulesetList
<1>. QED
  BY <1>8, <1>9 DEF VInv

LEMMA EndPlanningVInv ==
  ASSUME IInv, VInv, EndPlanning, phase = "verify" PROVE VInv'
<1>1. at = Len(Declared) + 1 /\ UNCHANGED <<repo, cache, planned, stale, disturbed, code>>
      /\ step = "plan" /\ step' = "read" /\ phase' = phase
  BY DEF EndPlanning, AllPlanned
<1>2. ASSUME ~disturbed, NEW b \in DeclaredSet PROVE Fresh(b)'
  <2>1. PICK j \in 1 .. Len(Declared) : b = Declared[j]
    BY DEF DeclaredSet
  <2>2. j \in 1 .. at - 1
    BY <1>1, <2>1, DeclaredType
  <2>3. Fresh(b)
    BY <1>1, <1>2, <2>1, <2>2 DEF VInv, Observed
  <2>. QED
    BY <1>1, <2>3, FreshKept
<1>3. Observed'
  BY <1>1, <1>2 DEF VInv, Observed, repo, RulesetList
<1>. QED
  BY <1>1, <1>3 DEF VInv, ExitZeroMeansCompliant, Idle

LEMMA EndVerifyVInv == ASSUME IInv, VInv, EndVerify PROVE VInv'
<1>1. phase' = "exited" /\ UNCHANGED <<repo, disturbed>>
  BY DEF EndVerify, Exit
<1>2. ASSUME code' = 0, ~disturbed' PROVE RepositoryComplies'
  <2>1. ~Drift /\ phase = "verify" /\ step = "read"
    BY <1>2 DEF EndVerify, Exit
  <2>. QED
    BY <1>1, <1>2, <2>1, NoDriftComplies, CompliesKept DEF VInv
<1>. QED
  BY <1>1, <1>2 DEF VInv, Observed, ExitZeroMeansCompliant

LEMMA StillVInv == ASSUME VInv, UNCHANGED vars PROVE VInv'
<1>1. UNCHANGED <<repo, phase, step, at, cache, stale, planned, code, disturbed>>
  BY DEF vars, local
<1>2. \A b : Fresh(b) => Fresh(b)'
  BY <1>1, FreshKept
<1>3. RepositoryComplies => RepositoryComplies'
  BY <1>1, CompliesKept
<1>. QED
  BY <1>1, <1>2, <1>3 DEF VInv, Observed, ExitZeroMeansCompliant, Idle, repo, RulesetList

LEMMA NextVInv == IInv /\ VInv /\ [Next]_vars => VInv'
<1> SUFFICES ASSUME IInv, VInv, [Next]_vars PROVE VInv'
  OBVIOUS
<1>1. ASSUME NEW cmd \in {"check", "apply"}, Start(cmd) PROVE VInv'
  BY <1>1, ElsewhereVInv DEF Start
<1>2. CASE PrefetchRulesets
  BY <1>2 DEF PrefetchRulesets, Planning, VInv, Observed, ExitZeroMeansCompliant, Idle,
              RulesetList, repo
<1>3. CASE DetectStale
  <2>1. at' = at
    BY <1>3 DEF DetectStale
  <2>. QED
    BY <1>3, <2>1 DEF DetectStale, Planning, VInv, Observed, ExitZeroMeansCompliant, Idle,
                RulesetList, repo
<1>4. CASE PlanBranch
  BY <1>4, PlanBranchVInv
<1>5. CASE EndPlanning
  <2>1. CASE phase = "verify"
    BY <1>5, <2>1, EndPlanningVInv
  <2>2. CASE phase = "preflight"
    BY <1>5, <2>2, ElsewhereVInv DEF EndPlanning
  <2>. QED
    BY <1>5, <2>1, <2>2 DEF EndPlanning, Planning
<1>6. CASE PlanBranchFails \/ ReadFails \/ Killed
  BY <1>6, ElsewhereVInv DEF PlanBranchFails, ReadFails, Killed, Exit
<1>7. CASE SkipBranch \/ PutBranch \/ SignBranch \/ CreateBranchRuleset \/ UpdateBranchRuleset
  <2>1. phase = "mutate" /\ (phase' = phase \/ (phase' = "exited" /\ code' = 3))
    BY <1>7 DEF SkipBranch, PutBranch, SignBranch, CreateBranchRuleset, UpdateBranchRuleset,
                BranchAnswered, BranchApplied, BranchFailed, Exit, Mutating
  <2>. QED
    BY <2>1, ElsewhereVInv
<1>8. CASE EndMutation \/ EndPrune \/ PlanSettings \/ EnterVerify
  BY <1>8, ElsewhereVInv DEF EndMutation, EndPrune, PlanSettings, EnterVerify
<1>9. CASE PruneOne
  BY <1>9, ElsewhereVInv DEF PruneOne, Exit
<1>10. CASE MutateSetting \/ SettingUnavailable
  BY <1>10, ElsewhereVInv
     DEF MutateSetting, SettingUnavailable, SettingDone, SettingFailed, Exit
<1>11. CASE EndVerify
  BY <1>11, EndVerifyVInv
<1>12. CASE Others
  BY <1>12 DEF Others, VInv, Observed, ExitZeroMeansCompliant
<1>13. CASE UNCHANGED vars
  BY <1>13, StillVInv
<1>. QED
  BY <1>1, <1>2, <1>3, <1>4, <1>5, <1>6, <1>7, <1>8, <1>9, <1>10, <1>11, <1>12, <1>13
     DEF Next, Work

(* An exit with 0 is honest: every branch, ruleset and setting is as policy.yml *)
(* declares it, unless somebody interfered with the verification.              *)
THEOREM ExitZeroIsHonest == Spec => []ExitZeroMeansCompliant
<1>1. Init => IInv /\ VInv
  BY InitIInv, InitVInv
<1>2. IInv /\ VInv /\ [Next]_vars => (IInv /\ VInv)'
  BY NextIInv, NextVInv
<1>3. VInv => ExitZeroMeansCompliant
  BY DEF VInv
<1>. QED
  BY <1>1, <1>2, <1>3, PTL DEF Spec

-----------------------------------------------------------------------------
(* A repository that complies is left alone. *)

ListIsRead ==
  cache = IF Strict \/ RulesetBranches # {} THEN RulesetList ELSE NothingListed

NothingToChange == \A b \in Branch : planned[b] # None => planned[b].changes = {}

(* After an exit with 0, with nobody touching the repository, every plan of     *)
(* every later run is empty.                                                    *)
Settled ==
  settled =>
    /\ RepositoryComplies
    /\ phase = "preflight" /\ step # "list" => ListIsRead
    /\ phase = "mutate" => step = "call" /\ ListIsRead
    /\ phase \in {"preflight", "mutate"} => NothingToChange
    /\ phase = "prune" => toPrune = {}
    /\ phase = "settings" /\ step = "call" => todo = {}

LEMMA SatisfiedIsUnchanged ==
  ASSUME NEW b \in Branch, NEW current \in Policy, Satisfies(b, current)
  PROVE  FieldChanges(b, current) = {} /\ Resolve(b, current) = current
<1>1. \A f \in Field : Resolve(b, current)[f] = current[f]
  BY DEF Resolve, Satisfies, Meets
<1>2. Resolve(b, current) = current
  BY <1>1 DEF Resolve, Policy
<1>. QED
  BY <1>1, <1>2 DEF FieldChanges

(* A branch that complies is planned to stay as it is, provided that its name  *)
(* is that of one ruleset at most.                                              *)
LEMMA CompliantPlan ==
  ASSUME TypeOK, NoDuplicateRulesets, RepositoryComplies, ListIsRead,
         NEW b \in DeclaredSet, NEW id \in Found(b), ~Gone(id)
  PROVE  BranchChanges(b, id, Raw(b, id)) = {}
<1>1. b \in Branch /\ BranchComplies(b) /\ b \notin {None, Foreign}
  BY DeclaredType, GitHubAssumption, NoneAssumption DEF RepositoryComplies, RulesetName
<1>2. Raw(b, id) \in Protection \cup Ruleset \cup {None} /\ id \in RulesetId \cup {None}
  BY <1>1, RawType
<1>3. Current(Raw(b, id)) \in Policy
  BY <1>2, CurrentType
<1>4. CASE Enforcement[b] = "branch_protection"
  <2>1. id = None /\ Satisfies(b, Current(Raw(b, id)))
    BY <1>1, <1>4 DEF BranchComplies, Found, Raw, Current
  <2>2. FieldChanges(b, Current(Raw(b, id))) = {}
    BY <1>1, <1>3, <2>1, SatisfiedIsUnchanged
  <2>. QED
    BY <1>4, <2>1, <2>2 DEF BranchChanges, MetadataChanges, EffectivenessChanges
<1>5. CASE Enforcement[b] = "ruleset" /\ id = None
  <2>1. cache = RulesetList
    BY <1>5 DEF ListIsRead, RulesetBranches
  <2>2. \A i \in RulesetId : RulesetList[i] # b
    BY <1>5, <2>1, NoneAssumption DEF Found, Listed
  <2>3. Satisfies(b, Nothing) /\ Raw(b, id) = None /\ Current(None) = Nothing
    BY <1>1, <1>5, <2>2 DEF BranchComplies, Named, Raw, Current
  <2>4. FieldChanges(b, Current(Raw(b, id))) = {}
    BY <1>1, <1>3, <2>3, SatisfiedIsUnchanged
  <2>. QED
    BY <1>5, <2>3, <2>4 DEF BranchChanges, MetadataChanges, EffectivenessChanges
<1>6. CASE Enforcement[b] = "ruleset" /\ id # None
  <2>1. cache = RulesetList
    BY <1>6 DEF ListIsRead, RulesetBranches
  <2>2. id \in RulesetId /\ RulesetList[id] = b
    BY <1>2, <1>6, <2>1 DEF Found, Listed
  <2>3. PICK i \in RulesetId :
          /\ RulesetList[i] = b
          /\ Satisfies(b, rulesets[i].policy)
          /\ rulesets[i].canonical
          /\ \/ Effective(i, b)
             \/ rulesets[i].policy = Nothing /\ rulesets[i].extra = NoExtra
    BY <1>1, <1>6, <2>2 DEF BranchComplies, Named, RulesetMeets, InForce
  <2>4. i = id
    BY <1>1, <2>2, <2>3 DEF NoDuplicateRulesets
  <2>5. Raw(b, id) = rulesets[id] /\ Raw(b, id) # None
    BY <1>6 DEF Raw, Gone
  <2>6. Current(Raw(b, id)) = rulesets[id].policy
    BY <2>5 DEF Current
  <2>7. FieldChanges(b, Current(Raw(b, id))) = {}
        /\ Resolve(b, Current(Raw(b, id))) = Current(Raw(b, id))
    BY <1>1, <1>3, <2>3, <2>4, <2>6, SatisfiedIsUnchanged
  <2>8. MetadataChanges(b, Raw(b, id)) = {}
    BY <2>3, <2>4, <2>5 DEF MetadataChanges
  <2>9. EffectivenessChanges(b, id, Raw(b, id)) = {}
    BY <2>3, <2>4, <2>5, <2>6, <2>7 DEF EffectivenessChanges
  <2>. QED
    BY <2>7, <2>8, <2>9 DEF BranchChanges
<1>. QED
  BY <1>1, <1>4, <1>5, <1>6, ConfigAssumption

(* None of the writing actions has anything to do. *)
LEMMA NothingLeft ==
  ASSUME IInv, Settled, settled
  PROVE  /\ ~PutBranch /\ ~SignBranch /\ ~CreateBranchRuleset /\ ~UpdateBranchRuleset
         /\ ~PruneOne /\ ~MutateSetting /\ ~SettingUnavailable
         /\ ~InFlightLands
<1>1. Mutating => step = "call" /\ ~NeedsWrite
  <2>1. ASSUME Mutating PROVE planned[Target] # None /\ Target \in Branch
    BY <2>1, TargetType DEF IInv, PlansHold, Mutating
  <2>. QED
    BY <2>1 DEF Settled, NothingToChange, NeedsWrite, Plan, Mutating
<1>2. phase = "settings" /\ step = "call" => TodoGroups = {}
  BY DEF Settled, TodoGroups
<1>3. ~PutBranch /\ ~SignBranch /\ ~CreateBranchRuleset /\ ~UpdateBranchRuleset
  BY <1>1 DEF PutBranch, SignBranch, CreateBranchRuleset, UpdateBranchRuleset
<1>4. ~PruneOne /\ ~MutateSetting /\ ~SettingUnavailable
  BY <1>2 DEF PruneOne, MutateSetting, SettingUnavailable, NextGroup, Settled
<1>5. ~InFlightLands
  BY <1>1, <1>2 DEF InFlightLands, NextGroup, Settled
<1>. QED
  BY <1>3, <1>4, <1>5

LEMMA NothingWritten ==
  ASSUME IInv, Settled, settled, [Next]_vars, OwnStep
  PROVE  UNCHANGED repo /\ changed' \subseteq changed
<1>1. CASE Killed
  BY <1>1, NothingLeft DEF Killed
<1>2. CASE Others
  BY <1>2 DEF Others, Edit, OwnStep, IInv, TypeOK, GitHubTypeOK
<1>3. CASE \E cmd \in {"check", "apply"} : Start(cmd)
  BY <1>3 DEF Start
<1>4. CASE PrefetchRulesets \/ DetectStale \/ PlanBranch \/ PlanBranchFails
            \/ EndPlanning \/ SkipBranch \/ EndMutation \/ EndPrune \/ PlanSettings
            \/ EnterVerify \/ EndVerify \/ ReadFails \/ UNCHANGED vars
  BY <1>4 DEF PrefetchRulesets, DetectStale, PlanBranch, PlanBranchFails, EndPlanning,
     SkipBranch, EndMutation, EndPrune, PlanSettings, EnterVerify, EndVerify, ReadFails,
     vars, local
<1>. QED
  BY <1>1, <1>2, <1>3, <1>4, NothingLeft DEF Next, Work

(* A step with nothing to write keeps the repository as it should be. *)
LEMMA StillCompliant ==
  ASSUME IInv, Settled, settled, [Next]_vars, OwnStep
  PROVE  RepositoryComplies' /\ UNCHANGED <<RulesetList, repo>>
<1>1. UNCHANGED repo /\ RepositoryComplies
  BY NothingWritten DEF Settled
<1>. QED
  BY <1>1, CompliesKept DEF repo, RulesetList

LEMMA SettledElsewhere ==
  ASSUME settled' => RepositoryComplies', phase' \in {"verify", "exited"}
  PROVE  Settled'
BY DEF Settled

LEMMA PlanBranchSettled ==
  ASSUME IInv, Settled, NoDuplicateRulesets, PlanBranch, phase = "preflight", settled
  PROVE  NothingToChange'
<1>1. at \in 1 .. Len(Declared) /\ Declared[at] \in DeclaredSet
  BY DeclaredType DEF IInv, TypeOK, PlanBranch, AllPlanned, DeclaredSet
<1>2. PICK b \in DeclaredSet : b = Declared[at]
  BY <1>1
<1>3. PICK id \in Found(b) :
        /\ ~Gone(id)
        /\ planned' = [planned EXCEPT ![b] =
               [resolved |-> Resolve(b, Current(Raw(b, id))),
                extra    |-> CurrentExtra(Raw(b, id)),
                id       |-> id,
                changes  |-> BranchChanges(b, id, Raw(b, id))]]
  BY <1>2 DEF PlanBranch
<1>4. BranchChanges(b, id, Raw(b, id)) = {}
  BY <1>3, CompliantPlan DEF IInv, Settled, PlanBranch
<1>5. \A c \in Branch :
        planned'[c] = planned[c] \/ planned'[c].changes = BranchChanges(b, id, Raw(b, id))
  BY <1>3 DEF IInv, TypeOK
<1>. QED
  BY <1>4, <1>5 DEF Settled, NothingToChange

LEMMA NextSettled ==
  ASSUME IInv, VInv, Settled, NoDuplicateRulesets, [Next]_vars PROVE Settled'
<1>1. CASE Others
  BY <1>1 DEF Others, Settled
<1>2. CASE EndVerify
  <2>1. settled' => settled \/ (~Drift /\ ~disturbed)
    BY <1>2 DEF EndVerify
  <2>2. settled' => RepositoryComplies
    BY <1>2, <2>1, NoDriftComplies DEF EndVerify, VInv, Settled
  <2>3. settled' => RepositoryComplies'
    BY <1>2, <2>2, CompliesKept DEF EndVerify
  <2>. QED
    BY <1>2, <2>3, SettledElsewhere DEF EndVerify, Exit
<1>3. ASSUME settled', ~Others, ~EndVerify PROVE Settled'
  <2>1. settled /\ OwnStep
    BY <1>3 DEF Next, Work, Start, PrefetchRulesets, DetectStale, PlanBranch,
       PlanBranchFails, EndPlanning, SkipBranch, PutBranch, SignBranch,
       CreateBranchRuleset, UpdateBranchRuleset, KeepInMutation, EndMutation, PruneOne,
       EndPrune, PlanSettings, MutateSetting, SettingUnavailable, KeepInSettings,
       EnterVerify, ReadFails, Killed, OwnStep, vars
  <2>2. RepositoryComplies' /\ UNCHANGED <<RulesetList, repo>>
    BY <2>1, StillCompliant
  <2>3. CASE phase' \in {"verify", "exited"}
    BY <2>2, <2>3, SettledElsewhere
  <2>4. ListIsRead /\ UNCHANGED cache => ListIsRead'
    BY <2>2 DEF ListIsRead, RulesetBranches, DeclaredSet, NothingListed
  <2>5. NothingToChange /\ UNCHANGED planned => NothingToChange'
    BY DEF NothingToChange
  <2>6. ASSUME NEW cmd \in {"check", "apply"}, Start(cmd) PROVE Settled'
    <3>1. NothingToChange'
      BY <2>6 DEF Start, NothingPlanned, NothingToChange
    <3>. QED
      BY <2>2, <2>6, <3>1 DEF Start, Settled
  <2>7. CASE phase = "preflight" /\ (PrefetchRulesets \/ DetectStale)
    <3>1. ListIsRead'
      <4>1. CASE PrefetchRulesets
        BY <2>2, <4>1
           DEF PrefetchRulesets, ListIsRead, RulesetBranches, DeclaredSet, NothingListed
      <4>2. CASE DetectStale
        BY <2>1, <2>4, <2>7, <4>2 DEF DetectStale, Settled
      <4>. QED
        BY <2>7, <4>1, <4>2
    <3>2. NothingToChange'
      BY <2>1, <2>5, <2>7 DEF PrefetchRulesets, DetectStale, Settled
    <3>3. phase' = "preflight"
      BY <2>7 DEF PrefetchRulesets, DetectStale
    <3>. QED
      BY <2>2, <3>1, <3>2, <3>3 DEF Settled
  <2>8. CASE phase = "preflight" /\ PlanBranch
    <3>1. ListIsRead' /\ phase' = "preflight"
      BY <2>1, <2>4, <2>8 DEF PlanBranch, Settled
    <3>. QED
      BY <2>1, <2>2, <2>8, <3>1, PlanBranchSettled DEF Settled
  <2>9. CASE phase = "preflight" /\ EndPlanning
    <3>1. ListIsRead' /\ NothingToChange'
      BY <2>1, <2>4, <2>5, <2>9 DEF EndPlanning, Settled
    <3>2. phase' = "mutate" /\ step' = "call"
      BY <2>9 DEF EndPlanning
    <3>. QED
      BY <2>2, <3>1, <3>2 DEF Settled
  <2>10. CASE SkipBranch
    <3>1. ListIsRead' /\ NothingToChange'
      BY <2>1, <2>4, <2>5, <2>10 DEF SkipBranch, KeepInMutation, Mutating, Settled
    <3>2. phase' = "mutate" /\ step' = "call"
      BY <2>10 DEF SkipBranch, Mutating
    <3>. QED
      BY <2>2, <3>1, <3>2 DEF Settled
  <2>11. CASE EndMutation
    <3>1. Strict => Orphans = {}
      BY <2>1, <2>11 DEF EndMutation, Settled, ListIsRead, RepositoryComplies,
         NoOrphans, Orphans, Orphan
    <3>2. \/ phase' = "prune" /\ toPrune' = {}
          \/ phase' = "settings" /\ step' = "read"
      BY <2>11, <3>1 DEF EndMutation
    <3>. QED
      BY <2>2, <3>2 DEF Settled
  <2>12. CASE EndPrune
    BY <2>2, <2>12 DEF EndPrune, Settled
  <2>13. CASE PlanSettings
    <3>1. SettingsChanges = {}
      BY <2>1 DEF Settled, RepositoryComplies, SettingsChanges
    <3>. QED
      BY <2>2, <2>13, <3>1 DEF PlanSettings, Settled
  <2>14. ~PutBranch /\ ~SignBranch /\ ~CreateBranchRuleset /\ ~UpdateBranchRuleset
         /\ ~PruneOne /\ ~MutateSetting /\ ~SettingUnavailable
    BY <2>1, NothingLeft
  <2>15. CASE UNCHANGED vars
    <3>1. UNCHANGED <<phase, step, cache, planned, toPrune, todo, settled>>
      BY <2>15 DEF vars, local
    <3>. QED
      BY <2>1, <2>2, <2>4, <2>5, <3>1 DEF Settled
  <2>16. CASE phase = "verify" /\ (PrefetchRulesets \/ DetectStale \/ PlanBranch \/ EndPlanning)
    BY <2>3, <2>16 DEF PrefetchRulesets, DetectStale, PlanBranch, EndPlanning
  <2>17. CASE PlanBranchFails \/ ReadFails \/ Killed \/ EnterVerify
    BY <2>3, <2>17 DEF PlanBranchFails, ReadFails, Killed, EnterVerify, Exit
  <2>18. PrefetchRulesets \/ DetectStale \/ PlanBranch \/ EndPlanning
           => phase = "preflight" \/ phase = "verify"
    BY DEF PrefetchRulesets, DetectStale, PlanBranch, EndPlanning, Planning
  <2>. QED
    BY <1>3, <2>6, <2>7, <2>8, <2>9, <2>10, <2>11, <2>12, <2>13, <2>14, <2>15, <2>16,
       <2>17, <2>18 DEF Next, Work
<1>. QED
  BY <1>1, <1>2, <1>3 DEF Settled

(* Apply is idempotent: after an exit with 0, nothing is written again until    *)
(* somebody else edits the repository, provided that no two rulesets share a    *)
(* name (ScopeProofs!NamesStayUnique).                                          *)
THEOREM CompliantStays == Spec /\ []NoDuplicateRulesets => CompliantIsLeftAlone
<1> DEFINE Alone == settled /\ OwnStep => changed' \subseteq changed
<1>1. Init => Settled
  BY DEF Init, Settled
<1>2. Init => IInv /\ VInv
  BY InitIInv, InitVInv
<1>3. IInv /\ VInv /\ [Next]_vars => (IInv /\ VInv)'
  BY NextIInv, NextVInv
<1>4. IInv /\ VInv /\ Settled /\ NoDuplicateRulesets /\ [Next]_vars => Settled'
  BY NextSettled
<1>5. IInv /\ Settled /\ [Next]_vars => [Alone]_vars
  BY NothingWritten
<1>. QED
  BY <1>1, <1>2, <1>3, <1>4, <1>5, PTL DEF Spec, CompliantIsLeftAlone
=============================================================================
