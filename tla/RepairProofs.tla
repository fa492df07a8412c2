-------------------------- MODULE RepairProofs --------------------------
(* For every policy and whatever calls fail or are cut off, as long as only     *)
(* repo-policy writes to the repository: what apply is about to enable has what *)
(* it needs, and an apply that comes to its verdict has put right all it can.   *)
EXTENDS ScopeProofs

USE DEF outside, writing, found, history

(* What a setting waiting to be enabled needs is on, or waits before it. *)
NeedsWait ==
  phase = "settings" /\ step = "call" =>
    \A s \in todo \cap DOMAIN Needs :
      DesiredSetting[s] = TRUE => settings[Needs[s]] = TRUE \/ Needs[s] \in todo

(* The two dependencies, their groups and their place in the order. *)
LEMMA NeedsShape ==
  ASSUME NEW s \in DOMAIN Needs
  PROVE  /\ s \in SettingField /\ Needs[s] \in SettingField /\ Needs[s] \notin DOMAIN Needs
         /\ \/ GroupOf(Needs[s]) = GroupOf(s) /\ GroupOf(s) = "security_and_analysis"
            \/ /\ GroupOf(Needs[s]) = "vulnerability_alerts"
               /\ GroupOf(s) = "automated_security_fixes"
<1>1. DOMAIN Needs = {"automated_security_fixes", "secret_scanning_push_protection"}
  BY DEF Needs
<1>2. CASE s = "automated_security_fixes"
  BY <1>1, <1>2 DEF Needs, SettingField, ToggleSetting, Flat, SecurityAndAnalysis, GroupOf
<1>3. CASE s = "secret_scanning_push_protection"
  BY <1>1, <1>3 DEF Needs, SettingField, ToggleSetting, Flat, SecurityAndAnalysis, GroupOf
<1>. QED
  BY <1>1, <1>2, <1>3

(* security_and_analysis is readable whole or not at all, and the alerts are   *)
(* always readable: nothing needed is left out of the plan as unreadable.       *)
LEMMA NeedsAreReadable ==
  ASSUME NEW s \in DOMAIN Needs, s \notin Unreadable PROVE Needs[s] \notin Unreadable
<1>1. DOMAIN Needs = {"automated_security_fixes", "secret_scanning_push_protection"}
  BY DEF Needs
<1>2. CASE s = "automated_security_fixes"
  <2>1. Needs[s] = "vulnerability_alerts"
    BY <1>2 DEF Needs
  <2>2. "vulnerability_alerts"
          \notin Flat \cup SecurityAndAnalysis \cup {"private_vulnerability_reporting"}
    BY DEF Flat, SecurityAndAnalysis
  <2>. QED
    BY <2>1, <2>2, ConfigAssumption
<1>3. CASE s = "secret_scanning_push_protection"
  <2>1. Needs[s] = "secret_scanning"
    BY <1>3 DEF Needs
  <2>2. s \in SecurityAndAnalysis /\ "secret_scanning" \in SecurityAndAnalysis
    BY <1>3 DEF SecurityAndAnalysis
  <2>. QED
    BY <2>1, <2>2, ConfigAssumption
<1>. QED
  BY <1>1, <1>2, <1>3

LEMMA PlanSettingsNeeds ==
  ASSUME TypeOK, PlanSettings PROVE NeedsWait'
<1>1. todo' = SettingsChanges /\ UNCHANGED settings
  BY DEF PlanSettings, repo
<1>2. ASSUME NEW s \in todo' \cap DOMAIN Needs, DesiredSetting[s] = TRUE
      PROVE  settings[Needs[s]] = TRUE \/ Needs[s] \in SettingsChanges
  <2>1. s \notin Unreadable
    BY <1>1, <1>2 DEF SettingsChanges
  <2>2. Needs[s] \notin Unreadable /\ Needs[s] \in SettingField
    BY <2>1, NeedsAreReadable, NeedsShape
  <2>3. DesiredSetting[Needs[s]] = TRUE
    BY <1>2, ConfigAssumption
  <2>4. Needs[s] \in DeclaredSettings
    BY <2>2, <2>3, ConfigAssumption DEF DeclaredSettings
  <2>. QED
    BY <2>2, <2>3, <2>4 DEF SettingsChanges
<1>. QED
  BY <1>1, <1>2 DEF NeedsWait

(* A call takes all that is left of its group, and enables what it was asked. *)
LEMMA SettingDoneNeeds ==
  ASSUME TypeOK, NeedsWait, phase = "settings", step = "call", NEW g \in Group,
         todo' = todo \ Payload(g),
         \/ SetSettings(Payload(g), DesiredSetting)
         \/ Answered422(g) /\ UNCHANGED settings
  PROVE  NeedsWait'
<1>1. ASSUME NEW s \in todo' \cap DOMAIN Needs, DesiredSetting[s] = TRUE
      PROVE  settings'[Needs[s]] = TRUE \/ Needs[s] \in todo'
  <2>1. s \in todo /\ s \notin Payload(g) /\ s \in DOMAIN Needs
    BY <1>1
  <2>2. GroupOf(s) # g
    BY <2>1 DEF Payload
  <2>3. settings[Needs[s]] = TRUE \/ Needs[s] \in todo
    BY <1>1, <2>1 DEF NeedsWait
  <2>4. DesiredSetting[Needs[s]] = TRUE
    BY <1>1, ConfigAssumption
  <2>5. CASE SetSettings(Payload(g), DesiredSetting)
    <3>1. settings'[Needs[s]] = Sent(Payload(g), DesiredSetting)[Needs[s]]
      <4>1. settings'[Needs[s]] =
              (/\ Sent(Payload(g), DesiredSetting)[Needs[s]]
               /\ Needs[s] \in DOMAIN Needs => Sent(Payload(g), DesiredSetting)[Needs[Needs[s]]])
        BY <2>1, <2>5, NeedsShape DEF SetSettings
      <4>2. Sent(Payload(g), DesiredSetting)[Needs[s]] \in BOOLEAN
        BY <2>1, <2>4, NeedsShape DEF Sent, TypeOK, GitHubTypeOK
      <4>. QED
        BY <2>1, <4>1, <4>2, NeedsShape
    <3>2. Needs[s] \in Payload(g) => settings'[Needs[s]] = TRUE
      BY <2>1, <2>4, <3>1, NeedsShape DEF Sent
    <3>3. Needs[s] \notin Payload(g) => settings'[Needs[s]] = settings[Needs[s]]
      BY <2>1, <3>1, NeedsShape DEF Sent
    <3>. QED
      BY <2>3, <3>2, <3>3
  <2>6. CASE Answered422(g) /\ UNCHANGED settings
    <3>1. GroupOf(Needs[s]) # g
      <4>1. g # "vulnerability_alerts"
        BY <2>6, WhichAre422
      <4>. QED
        BY <2>1, <2>2, <4>1, NeedsShape
    <3>2. Needs[s] \notin Payload(g)
      BY <3>1 DEF Payload
    <3>. QED
      BY <2>3, <2>6, <3>2
  <2>. QED
    BY <2>5, <2>6
<1>. QED
  BY <1>1 DEF NeedsWait

LEMMA MutateSettingNeeds ==
  ASSUME TypeOK, NeedsWait, MutateSetting PROVE NeedsWait'
<1>1. PICK g \in Group : \E o \in Outcomes(SettingCall(g), Accepted(g)) :
        /\ SetNow(g, o.landed)
        /\ IF o.result = "ok" THEN SettingDone(g, "applied") ELSE SettingFailed(g)
  BY DEF MutateSetting
<1>2. PICK o \in Outcomes(SettingCall(g), Accepted(g)) :
        /\ SetNow(g, o.landed)
        /\ IF o.result = "ok" THEN SettingDone(g, "applied") ELSE SettingFailed(g)
  BY <1>1
<1>3. CASE o.result = "ok"
  <2>1. Accepted(g) \in BOOLEAN
    BY DEF Accepted, AcceptsSettings
  <2>2. o.landed > 0
    BY <1>3, <2>1, OkLands, SettingCallWrites
  <2>3. SetSettings(Payload(g), DesiredSetting)
    BY <1>2, <2>2 DEF SetNow
  <2>. QED
    BY <1>2, <1>3, <2>3, SettingDoneNeeds DEF MutateSetting, SettingDone
<1>4. CASE o.result # "ok"
  BY <1>2, <1>4 DEF SettingFailed, Exit, NeedsWait
<1>. QED
  BY <1>3, <1>4

LEMMA NextNeeds ==
  TypeOK /\ NeedsWait /\ [Next]_vars /\ [OwnStep]_vars => NeedsWait'
<1> SUFFICES ASSUME TypeOK, NeedsWait, [Next]_vars, [OwnStep]_vars PROVE NeedsWait'
  OBVIOUS
<1>1. ASSUME NEW cmd \in {"check", "apply"}, Start(cmd) PROVE NeedsWait'
  BY <1>1 DEF Start, NeedsWait
<1>2. CASE PrefetchRulesets \/ DetectStale \/ PlanBranch \/ PlanBranchFails \/ EndPlanning
  BY <1>2 DEF PrefetchRulesets, DetectStale, PlanBranch, PlanBranchFails, EndPlanning,
              Exit, Planning, NeedsWait
<1>3. CASE SkipBranch \/ PutBranch \/ SignBranch \/ CreateBranchRuleset \/ UpdateBranchRuleset
  BY <1>3 DEF SkipBranch, PutBranch, SignBranch, CreateBranchRuleset, UpdateBranchRuleset,
              BranchAnswered, BranchApplied, BranchFailed, Exit, Mutating, NeedsWait
<1>4. CASE EndMutation \/ EndPrune \/ EnterVerify
  BY <1>4 DEF EndMutation, EndPrune, EnterVerify, NeedsWait
<1>5. CASE PruneOne
  BY <1>5 DEF PruneOne, Exit, NeedsWait
<1>6. CASE PlanSettings
  BY <1>6, PlanSettingsNeeds
<1>7. CASE MutateSetting
  BY <1>7, MutateSettingNeeds
<1>8. CASE SettingUnavailable
  <2>1. PICK g \in Group :
          Answered422(g) /\ (SettingDone(g, Status422) \/ SettingFailed(g))
    BY <1>8 DEF SettingUnavailable
  <2>2. UNCHANGED settings /\ phase = "settings" /\ step = "call"
    BY <1>8 DEF SettingUnavailable, repo
  <2>3. CASE SettingDone(g, Status422)
    BY <2>1, <2>2, <2>3, SettingDoneNeeds DEF SettingDone
  <2>4. CASE SettingFailed(g)
    BY <2>4 DEF SettingFailed, Exit, NeedsWait
  <2>. QED
    BY <2>1, <2>3, <2>4
<1>9. CASE EndVerify \/ ReadFails \/ Killed
  BY <1>9 DEF EndVerify, ReadFails, Killed, Exit, NeedsWait
<1>10. CASE Others
  <2>1. edits' # edits
    BY <1>10 DEF Others, Edit, TypeOK, GitHubTypeOK
  <2>. QED
    BY <2>1 DEF OwnStep, vars
<1>11. CASE UNCHANGED vars
  BY <1>11 DEF vars, local, repo, NeedsWait
<1>. QED
  BY <1>1, <1>2, <1>3, <1>4, <1>5, <1>6, <1>7, <1>8, <1>9, <1>10, <1>11 DEF Next, Work

(* The alerts have their turn before the fixes, and one call sets the rest. *)
LEMMA NeedsWaitMeansMet == TypeOK /\ NeedsWait => NeedsAreMet
<1> SUFFICES ASSUME TypeOK, NeedsWait, phase = "settings", step = "call",
                    NEW g \in Group, NextGroup(g),
                    NEW s \in Payload(g) \cap DOMAIN Needs, DesiredSetting[s]
             PROVE  Sent(Payload(g), DesiredSetting)[Needs[s]]
  BY DEF NeedsAreMet, AcceptsSettings
<1>1. s \in todo /\ GroupOf(s) = g /\ s \in DeclaredSettings
  BY DEF Payload, TypeOK
<1>2. DesiredSetting[s] = TRUE
  BY <1>1, ConfigAssumption DEF DeclaredSettings
<1>3. DesiredSetting[Needs[s]] = TRUE
  BY <1>2, ConfigAssumption
<1>4. CASE Needs[s] \in Payload(g)
  BY <1>3, <1>4, NeedsShape DEF Sent
<1>5. CASE Needs[s] \notin Payload(g)
  <2>1. Needs[s] \notin todo
    <3>1. SUFFICES ASSUME Needs[s] \in todo PROVE FALSE
      OBVIOUS
    <3>2. GroupOf(Needs[s]) # g
      BY <1>5, <3>1 DEF Payload
    <3>3. GroupOf(Needs[s]) = "vulnerability_alerts" /\ g = "automated_security_fixes"
      BY <1>1, <3>2, NeedsShape
    <3>4. "vulnerability_alerts" \in TodoGroups
      BY <3>1, <3>3 DEF TodoGroups
    <3>5. Rank("automated_security_fixes") <= Rank("vulnerability_alerts")
      BY <3>3, <3>4 DEF NextGroup
    <3>. QED
      BY <3>5 DEF Rank
  <2>2. settings[Needs[s]] = TRUE
    BY <1>1, <1>2, <2>1 DEF NeedsWait
  <2>. QED
    BY <1>5, <2>2, NeedsShape DEF Sent
<1>. QED
  BY <1>4, <1>5

(* What is asked of GitHub next has what it needs, unless somebody else edits  *)
(* the repository while apply is at work.                                       *)
THEOREM NeedsComeFirst == Spec /\ [][OwnStep]_vars => []NeedsAreMet
<1>1. Init => TypeOK /\ NeedsWait
  BY InitIInv DEF IInv, Init, NeedsWait
<1>2. IInv /\ NeedsWait /\ [Next]_vars /\ [OwnStep]_vars => (IInv /\ NeedsWait)'
  BY NextIInv, NextNeeds DEF IInv
<1>3. IInv /\ NeedsWait => NeedsAreMet
  BY NeedsWaitMeansMet DEF IInv
<1>. QED
  BY <1>1, <1>2, <1>3, InitIInv, PTL DEF Spec

-----------------------------------------------------------------------------
(* What each write to a branch does to it, and that it leaves the others as    *)
(* they are.                                                                    *)

LEMMA ResolvedSatisfies ==
  ASSUME NEW b \in Branch, NEW current PROVE Satisfies(b, Resolve(b, current))
BY DEF Satisfies, Meets, Resolve

(* Nothing to change: the object is as declared, or there is none to speak of. *)
LEMMA NoDifference ==
  ASSUME NEW b \in Branch, NEW raw \in Protection \cup Ruleset \cup {None},
         Differences(b, raw) = {}
  PROVE  /\ Satisfies(b, Current(raw)) /\ Resolve(b, Current(raw)) = Current(raw)
         /\ Enforcement[b] = "ruleset" /\ raw # None => raw.canonical
<1>1. Current(raw) \in Policy
  BY CurrentType
<1>2. \A f \in Field : Resolve(b, Current(raw))[f] = Current(raw)[f]
  BY DEF Differences, FieldChanges
<1>3. Resolve(b, Current(raw)) = Current(raw)
  BY <1>1, <1>2 DEF Resolve, Policy
<1>. QED
  BY <1>3, ResolvedSatisfies DEF Differences, MetadataChanges

LEMMA SameDeclared ==
  ASSUME UNCHANGED <<protection, rulesets>>, NEW b, AsDeclared(b) PROVE AsDeclared(b)'
BY DEF AsDeclared, Named, RulesetMeets, RulesetList, Satisfies, Meets, Current

(* A ruleset of b that says what it should is enough. *)
LEMMA DeclaredByRuleset ==
  ASSUME NEW b \in Branch, Enforcement[b] = "ruleset",
         NEW id \in RulesetId, RulesetList[id] = b, RulesetMeets(b, id)
  PROVE  AsDeclared(b)
BY DEF AsDeclared, Named

(* The current branch's plan, and what it was made from. *)
LEMMA TargetPlan ==
  ASSUME QInv, PlansCurrent, Mutating, step = "call"
  PROVE  /\ Target \in Branch /\ Target \in DeclaredSet /\ Target \notin {None, Foreign}
         /\ Plan = planned[Target] /\ Basis(Target) /\ Plan.id \in RulesetId \cup {None}
         /\ Raw(Target, Plan.id) \in Protection \cup Ruleset \cup {None}
         /\ Enforcement[Target] \in {"branch_protection", "ruleset"}
         /\ Plan.id # None => /\ RulesetList[Plan.id] = Target
                              /\ rulesets[Plan.id] \in Ruleset
         /\ Plan.id = None /\ Enforcement[Target] = "ruleset" => Named(Target) = {}
<1>1. Target \in Branch /\ Target \in DeclaredSet /\ Target \notin {None, Foreign}
  BY TargetType, NoneAssumption, GitHubAssumption DEF QInv, IInv, RulesetName
<1>2. Plan = planned[Target] /\ Basis(Target)
  BY TargetBasis DEF QInv
<1>3. Plan.id \in RulesetId \cup {None}
  BY PlanType DEF QInv, PlannedBranch
<1>4. rulesets \in [RulesetId -> Ruleset \cup {None}]
      /\ protection \in [Branch -> Protection \cup {None}]
  BY DEF QInv, IInv, TypeOK, GitHubTypeOK
<1>5. Raw(Target, Plan.id) \in Protection \cup Ruleset \cup {None}
  BY <1>1, <1>3, <1>4 DEF Raw
<1>6. ASSUME Plan.id # None PROVE RulesetList[Plan.id] = Target /\ rulesets[Plan.id] \in Ruleset
  <2>1. cache[Plan.id] = Target
    BY <1>6, PlanIdIsOwn DEF QInv
  <2>2. RulesetList[Plan.id] = Target
    BY <1>1, <1>3, <1>6, <2>1 DEF QInv, UInv, ListHolds, ListRead, Mutating
  <2>3. rulesets[Plan.id] # None
    BY <1>2, <1>6 DEF Basis, Gone
  <2>. QED
    BY <1>3, <1>4, <1>6, <2>2, <2>3
<1>7. ASSUME Plan.id = None, Enforcement[Target] = "ruleset" PROVE Named(Target) = {}
  <2>1. at \in 1 .. Len(Declared) /\ Target = Declared[at]
    BY DeclaredType DEF QInv, IInv, TypeOK, Mutating, Target
  <2>2. planned[Target] # None /\ Target \in RulesetBranches
    BY <1>1, <1>7 DEF QInv, IInv, PlansHold, Mutating, RulesetBranches
  <2>3. Awaits(at)
    BY <1>2, <1>7, <2>1, <2>2 DEF Awaits
  <2>4. Unnamed(Target)
    BY <2>1, <2>3 DEF QInv, UInv, ListHolds, ListRead, Mutating
  <2>. QED
    BY <2>4 DEF Unnamed, Named
<1>8. Enforcement[Target] \in {"branch_protection", "ruleset"}
  BY <1>1, ConfigAssumption
<1>. QED
  BY <1>1, <1>2, <1>3, <1>5, <1>6, <1>7, <1>8

(* What is skipped is as declared. *)
LEMMA SkipDeclares ==
  ASSUME QInv, PlansCurrent, Mutating, step = "call", ~NeedsWrite PROVE AsDeclared(Target)
<1> DEFINE raw == Raw(Target, Plan.id)
<1>1. Differences(Target, raw) = {}
  BY TargetPlan DEF Basis, NeedsWrite
<1>2. Satisfies(Target, Current(raw))
      /\ (Enforcement[Target] = "ruleset" /\ raw # None => raw.canonical)
  BY <1>1, TargetPlan, NoDifference
<1>3. CASE Enforcement[Target] = "branch_protection"
  BY <1>2, <1>3 DEF Raw, AsDeclared
<1>4. CASE Enforcement[Target] = "ruleset" /\ Plan.id = None
  BY <1>2, <1>4, TargetPlan DEF Raw, AsDeclared, Current
<1>5. CASE Enforcement[Target] = "ruleset" /\ Plan.id # None
  <2>1. raw = rulesets[Plan.id] /\ raw # None
    BY <1>5, TargetPlan, NoneAssumption DEF Raw
  <2>2. RulesetMeets(Target, Plan.id)
    BY <1>2, <1>5, <2>1 DEF RulesetMeets, Current
  <2>. QED
    BY <1>5, <2>2, TargetPlan, DeclaredByRuleset
<1>. QED
  BY <1>3, <1>4, <1>5, TargetPlan

(* The PUT brings everything but the signatures. *)
LEMMA PutDeclares ==
  ASSUME QInv, PlansCurrent, Mutating, step = "call", NEW b, b = Target,
         Enforcement[Target] = "branch_protection",
         PutProtection(Target, Plan.resolved, Plan.extra)
  PROVE  /\ protection'[b] \in Protection
         /\ \A f \in Field \ {Signed} : Meets(b, f, protection'[b].policy[f])
         /\ ~SignaturesChange => AsDeclared(b)'
<1> DEFINE old == protection[Target]
           raw == Raw(Target, Plan.id)
           signed == IF old = None THEN Permissive ELSE old.policy[Signed]
           new == [policy |-> [Plan.resolved EXCEPT ![Signed] = signed], extra |-> Plan.extra]
<1>1. Target \in Branch /\ raw = old /\ Plan.resolved \in Policy /\ Plan.extra \in Extra
      /\ Plan.resolved = Resolve(Target, Current(old)) /\ Plan = planned[Target]
  BY TargetPlan, PlanType DEF QInv, Raw, Basis
<1>2. old \in Protection \cup {None}
  BY <1>1 DEF QInv, IInv, TypeOK, GitHubTypeOK
<1>3. protection'[Target] = new
  BY <1>1 DEF PutProtection, QInv, IInv, TypeOK, GitHubTypeOK
<1>4. signed \in Value /\ signed = Current(old)[Signed]
  BY <1>2, GitHubAssumption DEF Current, Nothing, Protection, Policy
<1>5. new \in Protection
  BY <1>1, <1>4 DEF Protection, Policy
<1>6. \A f \in Field : new.policy[f] = IF f = Signed THEN signed ELSE Plan.resolved[f]
  BY <1>1 DEF Policy
<1>7. \A f \in Field : Meets(Target, f, Plan.resolved[f])
  BY <1>1, ResolvedSatisfies DEF Satisfies
<1>8. \A f \in Field \ {Signed} : Meets(Target, f, new.policy[f])
  BY <1>6, <1>7
<1>9. ASSUME ~SignaturesChange PROVE AsDeclared(b)'
  <2>1. Signed \notin FieldChanges(Target, Current(old))
    BY <1>1, <1>9, TargetPlan DEF SignaturesChange, Basis, Differences
  <2>2. Plan.resolved[Signed] = signed
    BY <1>1, <1>4, <2>1, GitHubAssumption DEF FieldChanges
  <2>3. \A f \in Field : new.policy[f] = Plan.resolved[f]
    BY <1>6, <2>2
  <2>4. \A f \in Field : Meets(Target, f, new.policy[f])
    BY <1>7, <2>3
  <2>5. Current(protection[b])' = new.policy
    <3>1. new # None
      BY <1>5, NoneAssumption
    <3>. QED
      BY <1>3, <3>1 DEF Current
  <2>. QED
    BY <2>4, <2>5 DEF AsDeclared, Satisfies, Meets
<1>. QED
  BY <1>3, <1>5, <1>8, <1>9

(* The signatures bring the rest. *)
LEMMA SignDeclares ==
  ASSUME QInv, Mutating, NEW b, b = Target, Enforcement[Target] = "branch_protection",
         \A f \in Field \ {Signed} : Meets(Target, f, protection[Target].policy[f]),
         Satisfies(Target, Plan.resolved),
         SetSignatures(Target, Plan.resolved[Signed])
  PROVE  AsDeclared(b)'
<1> DEFINE old == protection[Target]
           new == [old EXCEPT !.policy[Signed] = Plan.resolved[Signed]]
<1>1. Target \in Branch /\ old \in Protection /\ Plan.resolved \in Policy
  BY TargetType, PlanType DEF QInv, IInv, TypeOK, GitHubTypeOK, SetSignatures
<1>2. protection'[Target] = new
  BY <1>1 DEF SetSignatures, QInv, IInv, TypeOK, GitHubTypeOK
<1>3. new \in Protection
  BY <1>1, GitHubAssumption DEF Protection, Policy
<1>4. \A f \in Field : new.policy[f] =
        IF f = Signed THEN Plan.resolved[Signed] ELSE old.policy[f]
  BY <1>1 DEF Protection, Policy
<1>5. \A f \in Field : Meets(Target, f, new.policy[f])
  BY <1>4 DEF Satisfies
<1>6. Current(protection[b])' = new.policy
  <2>1. new # None
    BY <1>3, NoneAssumption
  <2>. QED
    BY <1>2, <2>1 DEF Current
<1>. QED
  BY <1>5, <1>6 DEF AsDeclared, Satisfies, Meets

(* A ruleset that apply writes says what it should, and is the branch's. *)
LEMMA OwnRulesetMeets ==
  ASSUME QInv, PlansCurrent, Mutating, step = "call", NEW b, b = Target,
         Enforcement[Target] = "ruleset", NEW id \in RulesetId,
         rulesets'[id] = OwnRuleset(Target, Plan.resolved, Plan.extra)
  PROVE  AsDeclared(b)'
<1> DEFINE new == OwnRuleset(Target, Plan.resolved, Plan.extra)
<1>1. b \in Branch /\ Satisfies(b, Plan.resolved)
  BY TargetPlan, ResolvedSatisfies DEF Basis
<1>2. new \in Ruleset
  BY PlanType, OwnRulesetType, TargetPlan DEF QInv
<1>3. new # None /\ new.name = b /\ new.canonical /\ new.policy = Plan.resolved
  BY <1>2, NoneAssumption DEF OwnRuleset
<1>4. RulesetList'[id] = b
  BY <1>3 DEF RulesetList
<1>5. RulesetMeets(b, id)'
  BY <1>1, <1>3 DEF RulesetMeets, Satisfies, Meets
<1>. QED
  BY <1>4, <1>5 DEF AsDeclared, Named

LEMMA CreateDeclares ==
  ASSUME QInv, PlansCurrent, Creates, NEW b, b = Target PROVE AsDeclared(b)'
<1>1. nextId \in RulesetId /\ nextId \in Nat
  BY CreatedList, GitHubAssumption DEF QInv, IInv, TypeOK, GitHubTypeOK
<1>2. rulesets'[nextId] = OwnRuleset(Target, Plan.resolved, Plan.extra)
  BY <1>1 DEF Creates, CreateRulesets
<1>. QED
  BY <1>1, <1>2, OwnRulesetMeets DEF Creates

LEMMA UpdateDeclares ==
  ASSUME QInv, PlansCurrent, Updates, NEW b, b = Target PROVE AsDeclared(b)'
<1>1. Plan.id \in RulesetId
  BY TargetPlan DEF Updates
<1>2. rulesets'[Plan.id] = OwnRuleset(Target, Plan.resolved, Plan.extra)
  BY <1>1 DEF Updates, UpdateRuleset, QInv, IInv, TypeOK, GitHubTypeOK
<1>. QED
  BY <1>1, <1>2, OwnRulesetMeets DEF Updates

(* The same rulesets bear the name of b and say the same. *)
LEMMA SameRulesets ==
  ASSUME NEW b, AsDeclared(b), protection'[b] = protection[b],
         \A id \in RulesetId : RulesetList'[id] = b <=> RulesetList[id] = b,
         \A id \in RulesetId : RulesetList[id] = b => rulesets'[id] = rulesets[id]
  PROVE  AsDeclared(b)'
<1>1. Named(b)' = Named(b)
  BY DEF Named
<1>2. \A id \in Named(b) : RulesetMeets(b, id) => RulesetMeets(b, id)'
  BY DEF Named, RulesetMeets, Satisfies, Meets
<1>3. Satisfies(b, Nothing)' = Satisfies(b, Nothing)
      /\ Satisfies(b, Current(protection[b]))' = Satisfies(b, Current(protection[b]))
  BY DEF Satisfies, Meets, Nothing, Current
<1>. QED
  BY <1>1, <1>2, <1>3 DEF AsDeclared

(* Writing to one branch leaves the others as they are. *)
LEMMA OtherStaysDeclared ==
  ASSUME QInv, PlansCurrent, [Next]_vars, OwnStep, Mutating,
         NEW c \in Branch, c # Target, AsDeclared(c)
  PROVE  AsDeclared(c)'
<1>0. c # None
  BY NoneAssumption DEF RulesetName
<1>1. CASE UNCHANGED <<protection, rulesets, nextId>>
  BY <1>1, SameDeclared
<1>2. CASE WritesProtection
  <2>1. protection'[c] = protection[c] /\ rulesets' = rulesets
    BY <1>2 DEF WritesProtection, PutProtection, SetSignatures, QInv, IInv, TypeOK, GitHubTypeOK
  <2>2. RulesetList' = RulesetList
    BY <2>1 DEF RulesetList
  <2>. QED
    BY <2>1, <2>2, SameRulesets
<1>3. CASE Creates
  <2>1. /\ RulesetList[nextId] = None /\ nextId \in RulesetId
        /\ \A id \in RulesetId :
             RulesetList'[id] = IF id = nextId THEN Target ELSE RulesetList[id]
    BY <1>3, CreatedList DEF RulesetList
  <2>2. /\ protection' = protection
        /\ \A id \in RulesetId : id # nextId => rulesets'[id] = rulesets[id]
    BY <1>3, GitHubAssumption
       DEF QInv, IInv, TypeOK, GitHubTypeOK, Creates, CreateRulesets, RulesetId
  <2>. QED
    BY <1>0, <2>1, <2>2, SameRulesets
<1>4. CASE Updates
  <2>1. RulesetList' = RulesetList /\ RulesetList[Plan.id] = Target
    BY <1>4, UpdatedList, TargetPlan DEF Updates
  <2>2. /\ protection' = protection
        /\ \A id \in RulesetId : id # Plan.id => rulesets'[id] = rulesets[id]
    BY <1>4 DEF Updates, UpdateRuleset, QInv, IInv, TypeOK, GitHubTypeOK
  <2>. QED
    BY <2>1, <2>2, SameRulesets
<1>5. ~Deletions
  BY DEF Mutating, Deletions
<1>. QED
  BY <1>1, <1>2, <1>3, <1>4, <1>5, WriteForms DEF QInv

-----------------------------------------------------------------------------
(* What an apply has put right so far. *)

PlansMeet ==
  phase \in Planners =>
    \A b \in Branch : planned[b] # None => Satisfies(b, planned[b].resolved)

(* In strict mode every ruleset outside the declared ones is on the list. *)
ListComplete ==
  ListRead /\ Strict =>
    \A id \in RulesetId : RulesetList[id] \notin RulesetBranches => cache[id] = RulesetList[id]

(* GitHub's own rule: nothing is on without what it needs. *)
NeedsHold == \A s \in DOMAIN Needs : settings[s] => settings[Needs[s]]

(* Behind the branch at hand all is done; before its signatures, all but them. *)
MutationRepairs ==
  phase = "mutate" =>
    /\ \A j \in 1 .. at - 1 : AsDeclared(Declared[j])
    /\ step = "sign" =>
         \A f \in Field \ {Signed} : Meets(Target, f, protection[Target].policy[f])

BranchesRepaired ==
  phase \in {"prune", "settings"} => \A b \in DeclaredSet : AsDeclared(b)

PruneRepairs ==
  phase = "prune" =>
    /\ \A id \in RulesetId :
         RulesetList[id] \notin RulesetBranches \cup {None, Foreign} => id \in toPrune
    /\ \A id \in toPrune : RulesetList[id] = cache[id]

SettingsRepairs ==
  phase = "settings" =>
    /\ Strict => NoOrphans
    /\ step = "call" =>
         /\ todo \cap Unreadable = {}
         /\ \A s \in DeclaredSettings :
              OutOfReach(s) \/ settings[s] = DesiredSetting[s] \/ s \in todo

VerifyRepaired == command = "apply" /\ phase = "verify" => Repaired

Repairs ==
  /\ PlansMeet /\ ListComplete /\ NeedsHold
  /\ MutationRepairs /\ BranchesRepaired /\ PruneRepairs /\ SettingsRepairs
  /\ VerifyRepaired /\ ApplyDoesAllItCan

DoneInv == QInv /\ PlansCurrent /\ NeedsWait /\ Repairs

(* Deletions take nothing that policy.yml declares. *)
LEMMA DeletionDeclared ==
  ASSUME DoneInv, NEW id \in toPrune, DeleteRuleset(id)
  PROVE  /\ phase = "prune" => \A b \in DeclaredSet : AsDeclared(b)'
         /\ \A i \in RulesetId : RulesetList'[i] = IF i = id THEN None ELSE RulesetList[i]
<1>1. id \in RulesetId
  BY DEF DoneInv, QInv, IInv, TypeOK
<1>2. /\ \A i \in RulesetId : rulesets'[i] = IF i = id THEN None ELSE rulesets[i]
      /\ protection' = protection
  BY <1>1 DEF DeleteRuleset, DoneInv, QInv, IInv, TypeOK, GitHubTypeOK
<1>3. \A i \in RulesetId : RulesetList'[i] = IF i = id THEN None ELSE RulesetList[i]
  BY <1>2 DEF RulesetList
<1>4. ASSUME phase = "prune", NEW b \in DeclaredSet PROVE AsDeclared(b)'
  <2>1. AsDeclared(b) /\ b \in Branch /\ b # None
    BY <1>4, DeclaredType, NoneAssumption DEF DoneInv, Repairs, BranchesRepaired, RulesetName
  <2>2. RulesetList[id] \notin RulesetBranches
    BY <1>4, OrphanIsOwned DEF DoneInv, Repairs, PruneRepairs, QInv, IInv, Scope
  <2>3. CASE Enforcement[b] = "branch_protection"
    BY <1>2, <2>1, <2>3 DEF AsDeclared, Satisfies, Meets, Current
  <2>4. CASE b \in RulesetBranches
    BY <1>2, <1>3, <2>1, <2>2, <2>4, SameRulesets
  <2>. QED
    BY <2>1, <2>3, <2>4, ConfigAssumption DEF RulesetBranches
<1>. QED
  BY <1>3, <1>4

(* What a call for g does to each setting. *)
LEMMA SetEach ==
  ASSUME TypeOK, NeedsHold, NEW g, SetSettings(Payload(g), DesiredSetting)
  PROVE  /\ \A s \in Payload(g) : settings'[s] = DesiredSetting[s]
         /\ \A s \in SettingField \ Payload(g) :
              \/ settings'[s] = settings[s]
              \/ /\ s \in DOMAIN Needs /\ Needs[s] \in Payload(g) /\ settings'[s] = FALSE
                 /\ DesiredSetting[Needs[s]] = FALSE
         /\ NeedsHold'
<1> DEFINE sent == Sent(Payload(g), DesiredSetting)
<1>1. Payload(g) \subseteq DeclaredSettings /\ Payload(g) \subseteq SettingField
  BY DEF TypeOK, Payload, DeclaredSettings
<1>2. \A s \in Payload(g) : DesiredSetting[s] \in BOOLEAN
  BY <1>1, ConfigAssumption DEF DeclaredSettings
<1>3. /\ \A s \in SettingField : sent[s] = IF s \in Payload(g) THEN DesiredSetting[s] ELSE settings[s]
      /\ \A s \in SettingField : sent[s] \in BOOLEAN
  BY <1>2 DEF Sent, TypeOK, GitHubTypeOK
<1>4. \A s \in SettingField : settings'[s] = (sent[s] /\ (s \in DOMAIN Needs => sent[Needs[s]]))
  BY DEF SetSettings
<1>5. \A s \in Payload(g) : s \in DOMAIN Needs /\ DesiredSetting[s] => sent[Needs[s]]
  BY DEF SetSettings, AcceptsSettings
<1> HIDE DEF sent
<1>6. ASSUME NEW s \in Payload(g) PROVE settings'[s] = DesiredSetting[s]
  <2>1. s \in SettingField /\ sent[s] = DesiredSetting[s] /\ DesiredSetting[s] \in BOOLEAN
    BY <1>1, <1>2, <1>3, <1>6
  <2>. QED
    BY <1>4, <1>5, <1>6, <2>1
<1>7. ASSUME NEW s \in SettingField \ Payload(g), settings'[s] # settings[s]
      PROVE  /\ s \in DOMAIN Needs /\ Needs[s] \in Payload(g) /\ settings'[s] = FALSE
             /\ DesiredSetting[Needs[s]] = FALSE
  <2>1. sent[s] = settings[s] /\ settings[s] \in BOOLEAN
    BY <1>3 DEF TypeOK, GitHubTypeOK
  <2>2. s \in DOMAIN Needs /\ ~sent[Needs[s]] /\ settings[s] /\ settings'[s] = FALSE
    BY <1>4, <1>7, <2>1
  <2>3. Needs[s] \in SettingField /\ settings[Needs[s]]
    BY <2>2, NeedsShape DEF NeedsHold
  <2>4. Needs[s] \in Payload(g)
    BY <1>3, <2>2, <2>3
  <2>. QED
    BY <1>2, <1>3, <2>2, <2>3, <2>4
<1>8. NeedsHold'
  <2>1. ASSUME NEW s \in DOMAIN Needs, settings'[s] PROVE settings'[Needs[s]]
    <3>1. s \in SettingField /\ Needs[s] \in SettingField /\ Needs[s] \notin DOMAIN Needs
      BY NeedsShape
    <3>2. sent[Needs[s]]
      BY <1>4, <2>1, <3>1
    <3>. QED
      BY <1>4, <3>1, <3>2
  <2>. QED
    BY <2>1 DEF NeedsHold
<1>. QED
  BY <1>6, <1>7, <1>8

(* A declared setting that is right, or out of reach, stays so; one that was   *)
(* sent is right.                                                               *)
LEMMA SettingSettled ==
  ASSUME TypeOK, NeedsHold, NEW g, SetSettings(Payload(g), DesiredSetting),
         NEW s \in DeclaredSettings,
         OutOfReach(s) \/ settings[s] = DesiredSetting[s] \/ s \in todo
  PROVE  OutOfReach(s) \/ settings'[s] = DesiredSetting[s] \/ s \in todo \ Payload(g)
<1>1. s \in SettingField /\ DesiredSetting[s] \in BOOLEAN
  BY ConfigAssumption DEF DeclaredSettings
<1>2. CASE s \in Payload(g)
  BY <1>2, SetEach
<1>3. CASE s \notin Payload(g) /\ settings[s] = DesiredSetting[s]
  <2>1. ASSUME settings'[s] # settings[s] PROVE FALSE
    <3>1. /\ s \in DOMAIN Needs /\ settings'[s] = FALSE
          /\ DesiredSetting[Needs[s]] = FALSE
      BY <1>1, <1>3, <2>1, SetEach
    <3>2. DesiredSetting[s] = TRUE
      BY <1>1, <1>3, <2>1, <3>1
    <3>. QED
      BY <3>1, <3>2, ConfigAssumption
  <2>. QED
    BY <1>3, <2>1
<1>4. CASE s \notin Payload(g) /\ s \in todo
  BY <1>4
<1>. QED
  BY <1>2, <1>3, <1>4

LEMMA NeedsHoldStays ==
  ASSUME DoneInv, [Next]_vars, OwnStep PROVE NeedsHold'
<1>1. TypeOK /\ NeedsHold
  BY DEF DoneInv, Repairs, QInv, IInv
<1>2. CASE UNCHANGED settings
  BY <1>1, <1>2 DEF NeedsHold
<1>3. CASE Sets
  BY <1>1, <1>3, SetEach DEF Sets
<1>. QED
  BY <1>2, <1>3, AllWriteForms
     DEF DoneInv, QInv, repo, WritesProtection, PutProtection, SetSignatures, Creates,
         CreateRulesets, Updates, UpdateRuleset, Deletions, DeleteRuleset

LEMMA SameRepaired ==
  ASSUME UNCHANGED repo
  PROVE  /\ Repaired => Repaired'
         /\ (\A b \in DeclaredSet : AsDeclared(b)) => (\A b \in DeclaredSet : AsDeclared(b)')
         /\ NoOrphans => NoOrphans'
         /\ RulesetList' = RulesetList
<1>1. UNCHANGED <<protection, rulesets, settings>>
  BY DEF repo
<1>2. \A b : AsDeclared(b) => AsDeclared(b)'
  BY <1>1, SameDeclared
<1>3. RulesetList' = RulesetList
  BY <1>1 DEF RulesetList
<1>. QED
  BY <1>1, <1>2, <1>3 DEF Repaired, NoOrphans, OutOfReach

(* A run that ends without a verdict has nothing to answer for. *)
LEMMA CutShort ==
  ASSUME NeedsHold', phase' = "exited", code' \in {2, 3, None} PROVE Repairs'
BY NoneAssumption
   DEF Repairs, PlansMeet, ListComplete, ListRead, MutationRepairs, BranchesRepaired,
       PruneRepairs, SettingsRepairs, VerifyRepaired, ApplyDoesAllItCan, Idle, Planners

(* Reading and planning. *)
LEMMA StartRepairs ==
  ASSUME DoneInv, NEW cmd \in {"check", "apply"}, Start(cmd), NeedsHold' PROVE Repairs'
<1>1. \A b \in Branch : planned'[b] = None
  BY DEF Start, NothingPlanned
<1>2. phase' \in {"preflight", "verify"} /\ step' = "list"
      /\ (phase' = "verify" => command' = "check")
  BY DEF Start
<1>. QED
  BY <1>1, <1>2
   DEF Repairs, PlansMeet, ListComplete, ListRead, MutationRepairs, BranchesRepaired,
       PruneRepairs, SettingsRepairs, VerifyRepaired, ApplyDoesAllItCan, Idle, Planners

LEMMA VerifyRepairs ==
  ASSUME DoneInv, phase = "verify", phase' = "verify", UNCHANGED <<repo, command>>, NeedsHold'
  PROVE  Repairs'
<1>1. command' = "apply" => Repaired'
  BY SameRepaired DEF DoneInv, Repairs, VerifyRepaired
<1>. QED
  BY <1>1
   DEF Repairs, PlansMeet, ListComplete, ListRead, MutationRepairs, BranchesRepaired,
       PruneRepairs, SettingsRepairs, VerifyRepaired, ApplyDoesAllItCan, Idle, Planners

LEMMA PreflightRepairs ==
  ASSUME DoneInv, phase = "preflight", phase' \in {"preflight", "mutate"}, NeedsHold',
         PrefetchRulesets \/ DetectStale \/ PlanBranch \/ EndPlanning
  PROVE  Repairs'
<1>1. UNCHANGED repo
  BY DEF PrefetchRulesets, DetectStale, PlanBranch, EndPlanning
<1>2. RulesetList' = RulesetList
  BY <1>1, SameRepaired
<1>3. PlansMeet'
  <2>1. CASE PlanBranch
    <3>1. at \in 1 .. Len(Declared) /\ Declared[at] \in Branch
      BY <2>1, DeclaredType DEF DoneInv, QInv, IInv, TypeOK, PlanBranch, AllPlanned
    <3>2. PICK b \in Branch : b = Declared[at]
      BY <3>1
    <3>3. PICK id \in Found(b) :
            planned' = [planned EXCEPT ![b] =
               [resolved |-> Resolve(b, Current(Raw(b, id))),
                extra    |-> CurrentExtra(Raw(b, id)),
                id       |-> id,
                changes  |-> BranchChanges(b, id, Raw(b, id))]]
      BY <2>1, <3>2 DEF PlanBranch
    <3>4. /\ planned'[b].resolved = Resolve(b, Current(Raw(b, id)))
          /\ \A c \in Branch : c # b => planned'[c] = planned[c]
      BY <3>3 DEF DoneInv, QInv, IInv, TypeOK
    <3>5. Satisfies(b, planned'[b].resolved)
      BY <3>4, ResolvedSatisfies
    <3>6. \A c \in Branch : planned'[c] # None => Satisfies(c, planned'[c].resolved)
      BY <3>4, <3>5 DEF DoneInv, Repairs, PlansMeet, Planners
    <3>. QED
      BY <3>6 DEF PlansMeet, Satisfies, Meets
  <2>2. CASE UNCHANGED planned
    BY <2>2 DEF DoneInv, Repairs, PlansMeet, Planners, Satisfies, Meets
  <2>. QED
    BY <2>1, <2>2 DEF PrefetchRulesets, DetectStale, EndPlanning
<1>4. ListComplete'
  <2>1. CASE PrefetchRulesets
    BY <1>2, <2>1 DEF PrefetchRulesets, ListComplete
  <2>2. CASE DetectStale \/ PlanBranch \/ EndPlanning
    <3>1. ListRead /\ cache' = cache
      BY <2>2 DEF DetectStale, PlanBranch, EndPlanning, ListRead
    <3>. QED
      BY <1>2, <3>1 DEF DoneInv, Repairs, ListComplete, RulesetBranches, DeclaredSet
  <2>. QED
    BY <2>1, <2>2
<1>5. phase' = "mutate" => at' = 1 /\ step' = "call"
  BY DEF PrefetchRulesets, DetectStale, PlanBranch, EndPlanning
<1>6. MutationRepairs'
  BY <1>5 DEF MutationRepairs
<1>. QED
  BY <1>3, <1>4, <1>6
   DEF Repairs, BranchesRepaired, PruneRepairs, SettingsRepairs, VerifyRepaired,
       ApplyDoesAllItCan, Idle

(* Mutating: a branch is done, waits for its signatures, or ends the run. *)
LEMMA MutationAnswer ==
  ASSUME DoneInv,
         SkipBranch \/ PutBranch \/ SignBranch \/ CreateBranchRuleset \/ UpdateBranchRuleset
  PROVE  \/ phase' = "exited" /\ code' = 3
         \/ /\ phase' = "mutate" /\ at' = at + 1 /\ step' = "call"
            /\ \A b : b = Target => AsDeclared(b)'
         \/ /\ phase' = "mutate" /\ at' = at /\ step' = "sign"
            /\ \A f \in Field \ {Signed} : Meets(Target, f, protection[Target].policy[f])'
<1>0. Mutating /\ phase = "mutate" /\ Target \in Branch
  BY TargetType DEF SkipBranch, PutBranch, SignBranch, CreateBranchRuleset,
     UpdateBranchRuleset, Mutating, DoneInv, QInv, IInv
<1>1. CASE SkipBranch
  <2>1. AsDeclared(Target) /\ UNCHANGED <<protection, rulesets>>
    BY <1>0, <1>1, SkipDeclares DEF SkipBranch, DoneInv, repo
  <2>2. \A b : b = Target => AsDeclared(b)'
    BY <2>1, SameDeclared
  <2>. QED
    BY <1>0, <1>1, <2>2 DEF SkipBranch, NextBranch
<1>2. CASE PutBranch
  <2>1. PICK o \in Outcomes("put_branch_protection", TRUE) :
          /\ PutNow(o.landed)
          /\ IF o.result = "ok" /\ SignaturesChange
             THEN step' = "sign" /\ UNCHANGED <<journal, at, phase, code, printed>>
             ELSE BranchAnswered(o)
    BY <1>2 DEF PutBranch
  <2>2. step = "call" /\ Enforcement[Target] = "branch_protection"
    BY <1>2 DEF PutBranch
  <2>3. ASSUME o.result = "ok" PROVE PutProtection(Target, Plan.resolved, Plan.extra)
    <3>1. o.landed > 0
      BY <2>3, OkLands DEF Reads
    <3>. QED
      BY <2>1, <3>1 DEF PutNow
  <2>4. CASE o.result = "ok" /\ SignaturesChange
    <3>1. \A f \in Field \ {Signed} : Meets(Target, f, protection'[Target].policy[f])
      BY <1>0, <2>2, <2>3, <2>4, PutDeclares DEF DoneInv
    <3>2. at' = at
      BY <2>1, <2>4
    <3>. QED
      BY <1>0, <2>1, <2>4, <3>1, <3>2 DEF Target, Meets
  <2>5. CASE o.result = "ok" /\ ~SignaturesChange
    <3>1. \A b : b = Target => AsDeclared(b)'
      BY <1>0, <2>2, <2>3, <2>5, PutDeclares DEF DoneInv
    <3>. QED
      BY <1>0, <2>1, <2>5, <3>1 DEF BranchAnswered, BranchApplied, NextBranch
  <2>6. CASE o.result # "ok"
    BY <2>1, <2>6 DEF BranchAnswered, BranchFailed, Exit
  <2>. QED
    BY <2>4, <2>5, <2>6
<1>3. CASE SignBranch
  <2>1. PICK o \in Outcomes("set_required_signatures", protection[Target] # None) :
          SignNow(o.landed) /\ BranchAnswered(o)
    BY <1>3 DEF SignBranch
  <2>2. step = "sign" /\ Enforcement[Target] = "branch_protection"
    BY <1>0, <1>3 DEF SignBranch, DoneInv, QInv, Scope
  <2>3. CASE o.result = "ok"
    <3>1. SetSignatures(Target, Plan.resolved[Signed])
      <4>1. (protection[Target] # None) \in BOOLEAN
        OBVIOUS
      <4>2. o.landed > 0
        BY <2>3, <4>1, OkLands DEF Reads
      <4>. QED
        BY <2>1, <4>2 DEF SignNow
    <3>2. planned[Target] # None /\ Plan = planned[Target]
      BY <1>0, TargetType DEF DoneInv, QInv, IInv, PlansHold, Plan
    <3>3. Satisfies(Target, Plan.resolved)
      BY <1>0, <3>2 DEF DoneInv, Repairs, PlansMeet, Planners
    <3>4. \A b : b = Target => AsDeclared(b)'
      BY <1>0, <2>2, <3>1, <3>3, SignDeclares DEF DoneInv, Repairs, MutationRepairs
    <3>. QED
      BY <1>0, <2>1, <2>3, <3>4 DEF BranchAnswered, BranchApplied, NextBranch, SignBranch
  <2>4. CASE o.result # "ok"
    BY <2>1, <2>4 DEF BranchAnswered, BranchFailed, Exit
  <2>. QED
    BY <2>3, <2>4
<1>4. CASE CreateBranchRuleset
  <2>1. PICK o \in Outcomes("create_ruleset", TRUE) : CreateNow(o.landed) /\ BranchAnswered(o)
    BY <1>4 DEF CreateBranchRuleset
  <2>2. CASE o.result = "ok"
    <3>1. o.landed = 1
      <4>1. o.landed > 0
        BY <2>2, OkLands DEF Reads
      <4>2. o.landed \in {0, 1}
        BY CreateOutcome
      <4>. QED
        BY <4>1, <4>2
    <3>2. Creates
      BY <1>4, <2>1, <3>1 DEF CreateBranchRuleset, CreateNow, Creates
    <3>3. \A b : b = Target => AsDeclared(b)'
      BY <3>2, CreateDeclares DEF DoneInv
    <3>. QED
      BY <1>0, <2>1, <2>2, <3>3 DEF BranchAnswered, BranchApplied, NextBranch
  <2>3. CASE o.result # "ok"
    BY <2>1, <2>3 DEF BranchAnswered, BranchFailed, Exit
  <2>. QED
    BY <2>2, <2>3
<1>5. CASE UpdateBranchRuleset
  <2>1. PICK o \in Outcomes("update_ruleset", ~Gone(Plan.id)) :
          UpdateNow(o.landed) /\ BranchAnswered(o)
    BY <1>5 DEF UpdateBranchRuleset
  <2>2. CASE o.result = "ok"
    <3>1. (~Gone(Plan.id)) \in BOOLEAN
      BY DEF Gone
    <3>2. o.landed > 0
      BY <2>2, <3>1, OkLands DEF Reads
    <3>3. Updates
      BY <1>5, <2>1, <3>2 DEF UpdateBranchRuleset, UpdateNow, Updates
    <3>4. \A b : b = Target => AsDeclared(b)'
      BY <3>3, UpdateDeclares DEF DoneInv
    <3>. QED
      BY <1>0, <2>1, <2>2, <3>4 DEF BranchAnswered, BranchApplied, NextBranch
  <2>3. CASE o.result # "ok"
    BY <2>1, <2>3 DEF BranchAnswered, BranchFailed, Exit
  <2>. QED
    BY <2>2, <2>3
<1>. QED
  BY <1>1, <1>2, <1>3, <1>4, <1>5

LEMMA MutationListComplete ==
  ASSUME DoneInv, [Next]_vars, OwnStep, Mutating, UNCHANGED cache PROVE ListComplete'
<1>1. ListRead /\ phase = "mutate" /\ Target \in DeclaredSet
  BY TargetType DEF Mutating, ListRead, DoneInv, QInv, IInv
<1>2. ASSUME Strict, NEW id \in RulesetId, RulesetList[id] \notin RulesetBranches
      PROVE  cache[id] = RulesetList[id]
  BY <1>1, <1>2 DEF DoneInv, Repairs, ListComplete
<1>3. CASE RulesetList' = RulesetList
  BY <1>2, <1>3 DEF ListComplete, RulesetBranches, DeclaredSet
<1>4. CASE UNCHANGED <<protection, rulesets, nextId>> \/ WritesProtection
  BY <1>3, <1>4, SameList DEF WritesProtection, PutProtection, SetSignatures
<1>5. CASE Updates
  BY <1>3, <1>5, UpdatedList DEF DoneInv
<1>6. CASE Creates
  <2>1. \A id \in RulesetId :
          RulesetList'[id] = IF id = nextId THEN Target ELSE RulesetList[id]
    BY <1>6, CreatedList DEF DoneInv, RulesetList
  <2>2. Target \in RulesetBranches
    BY <1>1, <1>6 DEF Creates, RulesetBranches
  <2>. QED
    BY <1>2, <2>1, <2>2 DEF ListComplete, RulesetBranches, DeclaredSet
<1>7. ~Deletions
  BY DEF Mutating, Deletions
<1>. QED
  BY <1>4, <1>5, <1>6, <1>7, WriteForms DEF DoneInv, QInv

LEMMA MutationStepRepairs ==
  ASSUME DoneInv, [Next]_vars, OwnStep, NeedsHold',
         SkipBranch \/ PutBranch \/ SignBranch \/ CreateBranchRuleset \/ UpdateBranchRuleset
  PROVE  Repairs'
<1>1. Mutating /\ UNCHANGED <<cache, planned>> /\ at \in 1 .. Len(Declared)
  <2>1. Mutating /\ UNCHANGED <<cache, planned>>
    BY DEF SkipBranch, PutBranch, SignBranch, CreateBranchRuleset, UpdateBranchRuleset,
           KeepInMutation
  <2>. QED
    BY <2>1, DeclaredType DEF Mutating, DoneInv, QInv, IInv, TypeOK
<1>2. CASE phase' = "exited" /\ code' = 3
  BY <1>2, CutShort
<1>3. CASE phase' = "mutate"
  <2>1. PlansMeet'
    BY <1>1 DEF DoneInv, Repairs, PlansMeet, Planners, Mutating, Satisfies, Meets
  <2>2. ListComplete'
    BY <1>1, MutationListComplete
  <2>3. ASSUME NEW j \in 1 .. at - 1 PROVE AsDeclared(Declared[j])'
    <3>1. j \in 1 .. Len(Declared) /\ j # at
      BY <1>1, <2>3, DeclaredType
    <3>2. Declared[j] \in Branch /\ Declared[j] # Target
      BY <1>1, <3>1, DeclaredType, ConfigAssumption DEF Target
    <3>3. AsDeclared(Declared[j])
      BY <1>1, <2>3 DEF DoneInv, Repairs, MutationRepairs, Mutating
    <3>. QED
      BY <1>1, <3>2, <3>3, OtherStaysDeclared DEF DoneInv
  <2>4. MutationRepairs'
    <3>1. CASE at' = at + 1 /\ step' = "call" /\ \A b : b = Target => AsDeclared(b)'
      <4>1. \A j \in 1 .. at' - 1 : j \in 1 .. at - 1 \/ Declared[j] = Target
        BY <1>1, <3>1, DeclaredType DEF Target
      <4>. QED
        BY <2>3, <3>1, <4>1 DEF MutationRepairs
    <3>2. CASE /\ at' = at
               /\ \A f \in Field \ {Signed} : Meets(Target, f, protection[Target].policy[f])'
      BY <2>3, <3>2 DEF MutationRepairs
    <3>. QED
      BY <1>3, <3>1, <3>2, MutationAnswer
  <2>. QED
    BY <1>3, <2>1, <2>2, <2>4
       DEF Repairs, BranchesRepaired, PruneRepairs, SettingsRepairs, VerifyRepaired,
           ApplyDoesAllItCan, Idle
<1>. QED
  BY <1>2, <1>3, MutationAnswer

(* All branches are done, and what the prune is to delete is all there is. *)
LEMMA EndMutationRepairs ==
  ASSUME DoneInv, EndMutation, NeedsHold' PROVE Repairs'
<1>1. UNCHANGED repo /\ cache' = cache /\ phase = "mutate" /\ at = Len(Declared) + 1
  BY DEF EndMutation
<1>2. RulesetList' = RulesetList
  BY <1>1, SameRepaired
<1>3. \A b \in DeclaredSet : AsDeclared(b)
  <2>1. \A j \in 1 .. Len(Declared) : j \in 1 .. at - 1
    BY <1>1, DeclaredType
  <2>. QED
    BY <1>1, <2>1 DEF DeclaredSet, DoneInv, Repairs, MutationRepairs
<1>4. BranchesRepaired'
  BY <1>1, <1>3, SameRepaired DEF BranchesRepaired, DeclaredSet
<1>5. ASSUME Strict, NEW id \in RulesetId,
             RulesetList[id] \notin RulesetBranches \cup {None, Foreign}
      PROVE  id \in Orphans
  <2>1. cache[id] = RulesetList[id]
    BY <1>1, <1>5 DEF DoneInv, Repairs, ListComplete, ListRead
  <2>. QED
    BY <1>5, <2>1 DEF Orphans, Orphan
<1>6. \A id \in Orphans : RulesetList[id] = cache[id]
  BY <1>1 DEF Orphans, Orphan, DoneInv, QInv, UInv, ListHolds, ListRead
<1>7. CASE phase' = "prune"
  <2>1. Strict /\ toPrune' = Orphans
    BY <1>7 DEF EndMutation
  <2>2. PruneRepairs'
    BY <1>1, <1>2, <1>5, <1>6, <2>1 DEF PruneRepairs, RulesetBranches, DeclaredSet
  <2>. QED
    BY <1>4, <1>7, <2>2
     DEF Repairs, PlansMeet, ListComplete, ListRead, MutationRepairs,
         SettingsRepairs, VerifyRepaired, ApplyDoesAllItCan, Idle, Planners
<1>8. CASE phase' = "settings" /\ ~Strict /\ step' = "read"
  BY <1>4, <1>8
   DEF Repairs, PlansMeet, ListComplete, ListRead, MutationRepairs, PruneRepairs,
       SettingsRepairs, VerifyRepaired, ApplyDoesAllItCan, Idle, Planners
<1>. QED
  BY <1>7, <1>8 DEF EndMutation

LEMMA PruneOneRepairs ==
  ASSUME DoneInv, PruneOne, NeedsHold' PROVE Repairs'
<1>1. PICK id \in toPrune : \E o \in Outcomes("delete_ruleset", ~Gone(id)) :
        /\ DeleteNow(id, o.landed)
        /\ IF o.result = "ok"
           THEN toPrune' = toPrune \ {id} /\ UNCHANGED <<phase, code>>
           ELSE Exit(3) /\ UNCHANGED toPrune
  BY DEF PruneOne
<1>2. PICK o \in Outcomes("delete_ruleset", ~Gone(id)) :
        /\ DeleteNow(id, o.landed)
        /\ IF o.result = "ok"
           THEN toPrune' = toPrune \ {id} /\ UNCHANGED <<phase, code>>
           ELSE Exit(3) /\ UNCHANGED toPrune
  BY <1>1
<1>3. CASE o.result # "ok"
  BY <1>2, <1>3, CutShort DEF Exit
<1>4. CASE o.result = "ok"
  <2>1. DeleteRuleset(id)
    <3>1. (~Gone(id)) \in BOOLEAN
      BY DEF Gone
    <3>2. o.landed > 0
      BY <1>4, <3>1, OkLands DEF Reads
    <3>. QED
      BY <1>2, <3>2 DEF DeleteNow
  <2>2. phase = "prune" /\ phase' = "prune" /\ toPrune' = toPrune \ {id} /\ cache' = cache
        /\ step' = step
    BY <1>2, <1>4 DEF PruneOne
  <2>3. BranchesRepaired'
    BY <2>1, <2>2, DeletionDeclared DEF BranchesRepaired, DeclaredSet
  <2>4. \A i \in RulesetId : RulesetList'[i] = IF i = id THEN None ELSE RulesetList[i]
    BY <2>1, DeletionDeclared
  <2>5. toPrune \subseteq RulesetId
    BY DEF DoneInv, QInv, IInv, TypeOK
  <2>6. PruneRepairs'
    <3>1. \A i \in RulesetId :
            RulesetList'[i] \notin RulesetBranches \cup {None, Foreign} => i \in toPrune'
      BY <2>2, <2>4 DEF DoneInv, Repairs, PruneRepairs
    <3>2. \A i \in toPrune' : RulesetList'[i] = cache'[i]
      BY <2>2, <2>4, <2>5 DEF DoneInv, Repairs, PruneRepairs
    <3>. QED
      BY <3>1, <3>2 DEF PruneRepairs, RulesetBranches, DeclaredSet
  <2>. QED
    BY <2>2, <2>3, <2>6
     DEF Repairs, PlansMeet, ListComplete, ListRead, MutationRepairs,
         SettingsRepairs, VerifyRepaired, ApplyDoesAllItCan, Idle, Planners
<1>. QED
  BY <1>3, <1>4

(* Within the settings phase, and on the way into it. *)
LEMMA InSettings ==
  ASSUME phase' = "settings", NeedsHold', BranchesRepaired', SettingsRepairs' PROVE Repairs'
BY DEF Repairs, PlansMeet, ListComplete, ListRead, MutationRepairs, PruneRepairs,
       VerifyRepaired, ApplyDoesAllItCan, Idle, Planners

LEMMA EndPruneRepairs ==
  ASSUME DoneInv, EndPrune, NeedsHold' PROVE Repairs'
<1>1. UNCHANGED repo /\ phase = "prune" /\ toPrune = {}
      /\ phase' = "settings" /\ step' = "read"
  BY DEF EndPrune
<1>2. NoOrphans
  BY <1>1 DEF DoneInv, Repairs, PruneRepairs, NoOrphans
<1>3. NoOrphans' /\ BranchesRepaired'
  BY <1>1, <1>2, SameRepaired DEF DoneInv, Repairs, BranchesRepaired, DeclaredSet
<1>. QED
  BY <1>1, <1>3, InSettings DEF SettingsRepairs

LEMMA PlanSettingsRepairs ==
  ASSUME DoneInv, PlanSettings, NeedsHold' PROVE Repairs'
<1>1. UNCHANGED repo /\ phase = "settings" /\ phase' = "settings" /\ todo' = SettingsChanges
  BY DEF PlanSettings
<1>2. (Strict => NoOrphans') /\ BranchesRepaired'
  BY <1>1, SameRepaired
     DEF DoneInv, Repairs, SettingsRepairs, BranchesRepaired, DeclaredSet
<1>3. settings' = settings
  BY <1>1 DEF repo
<1>4. todo' \cap Unreadable = {}
  BY <1>1 DEF SettingsChanges
<1>5. \A s \in DeclaredSettings :
        OutOfReach(s) \/ settings'[s] = DesiredSetting[s] \/ s \in todo'
  BY <1>1, <1>3 DEF SettingsChanges, OutOfReach
<1>. QED
  BY <1>1, <1>2, <1>4, <1>5, InSettings DEF SettingsRepairs, DeclaredSettings, OutOfReach


(* A call to the settings leaves branches and rulesets as they are. *)
LEMMA SettingStepRepairs ==
  ASSUME DoneInv, phase = "settings", phase' = "settings", step = "call", step' = "call",
         UNCHANGED <<protection, rulesets>>, NeedsHold',
         todo' \cap Unreadable = {},
         \A s \in DeclaredSettings :
           OutOfReach(s) \/ settings'[s] = DesiredSetting[s] \/ s \in todo'
  PROVE  Repairs'
<1>1. \A b \in DeclaredSet : AsDeclared(b)'
  BY SameDeclared DEF DoneInv, Repairs, BranchesRepaired
<1>2. RulesetList' = RulesetList
  BY DEF RulesetList
<1>3. Strict => NoOrphans'
  BY <1>2 DEF DoneInv, Repairs, SettingsRepairs, NoOrphans, RulesetBranches, DeclaredSet
<1>4. BranchesRepaired' /\ SettingsRepairs'
  BY <1>1, <1>3
     DEF BranchesRepaired, SettingsRepairs, DeclaredSet, DeclaredSettings, OutOfReach
<1>. QED
  BY <1>4, InSettings

LEMMA MutateSettingRepairs ==
  ASSUME DoneInv, MutateSetting, NeedsHold' PROVE Repairs'
<1>1. PICK g \in Group : \E o \in Outcomes(SettingCall(g), Accepted(g)) :
        /\ SetNow(g, o.landed)
        /\ IF o.result = "ok" THEN SettingDone(g, "applied") ELSE SettingFailed(g)
  BY DEF MutateSetting
<1>2. PICK o \in Outcomes(SettingCall(g), Accepted(g)) :
        /\ SetNow(g, o.landed)
        /\ IF o.result = "ok" THEN SettingDone(g, "applied") ELSE SettingFailed(g)
  BY <1>1
<1>3. CASE o.result # "ok"
  BY <1>2, <1>3, CutShort DEF SettingFailed, Exit
<1>4. CASE o.result = "ok"
  <2>1. SetSettings(Payload(g), DesiredSetting)
    <3>1. Accepted(g) \in BOOLEAN
      BY DEF Accepted, AcceptsSettings
    <3>2. o.landed > 0
      BY <1>4, <3>1, OkLands, SettingCallWrites
    <3>. QED
      BY <1>2, <3>2 DEF SetNow
  <2>2. /\ phase = "settings" /\ phase' = "settings" /\ step = "call" /\ step' = "call"
        /\ todo' = todo \ Payload(g)
    BY <1>2, <1>4 DEF MutateSetting, SettingDone, KeepInSettings
  <2>3. UNCHANGED <<protection, rulesets>>
    BY <2>1 DEF SetSettings
  <2>4. TypeOK /\ NeedsHold
    BY DEF DoneInv, QInv, IInv, Repairs
  <2>5. \A s \in DeclaredSettings :
          OutOfReach(s) \/ settings'[s] = DesiredSetting[s] \/ s \in todo'
    BY <2>1, <2>2, <2>4, SettingSettled DEF DoneInv, Repairs, SettingsRepairs
  <2>6. todo' \cap Unreadable = {}
    BY <2>2 DEF DoneInv, Repairs, SettingsRepairs
  <2>. QED
    BY <2>2, <2>3, <2>5, <2>6, SettingStepRepairs
<1>. QED
  BY <1>3, <1>4

(* What is asked for has what it needs, so a 422 means that GitHub does not    *)
(* offer it, and what it does not offer is out of reach.                       *)
LEMMA UnavailableRepairs ==
  ASSUME DoneInv, SettingUnavailable, NeedsHold' PROVE Repairs'
<1>1. PICK g \in Group :
        /\ NextGroup(g) /\ Answered422(g)
        /\ SettingDone(g, Status422) \/ SettingFailed(g)
  BY DEF SettingUnavailable
<1>2. CASE SettingFailed(g)
  BY <1>2, CutShort DEF SettingFailed, Exit
<1>3. CASE SettingDone(g, Status422)
  <2>1. /\ phase = "settings" /\ phase' = "settings" /\ step = "call" /\ step' = "call"
        /\ todo' = todo \ Payload(g) /\ UNCHANGED <<protection, rulesets, settings>>
    BY <1>3 DEF SettingUnavailable, SettingDone, KeepInSettings, repo
  <2>5. AcceptsSettings(Payload(g), DesiredSetting)
    BY <1>1, <2>1, NeedsWaitMeansMet DEF NeedsAreMet, DoneInv, QInv, IInv
  <2>2. \A s \in Payload(g) : OutOfReach(s)
    <3>1. g \in Unlicensed
      BY <1>1, <2>5 DEF Answered422, Accepted
    <3>. QED
      BY <3>1 DEF Payload, OutOfReach
  <2>3. \A s \in DeclaredSettings :
          OutOfReach(s) \/ settings'[s] = DesiredSetting[s] \/ s \in todo'
    BY <2>1, <2>2 DEF DoneInv, Repairs, SettingsRepairs
  <2>4. todo' \cap Unreadable = {}
    BY <2>1 DEF DoneInv, Repairs, SettingsRepairs
  <2>. QED
    BY <2>1, <2>3, <2>4, SettingStepRepairs
<1>. QED
  BY <1>1, <1>2, <1>3

LEMMA EnterVerifyRepairs ==
  ASSUME DoneInv, EnterVerify, NeedsHold' PROVE Repairs'
<1>1. phase = "settings" /\ step = "call" /\ todo = {} /\ UNCHANGED repo
      /\ phase' = "verify"
  BY DEF EnterVerify
<1>2. Repaired
  BY <1>1 DEF DoneInv, Repairs, BranchesRepaired, SettingsRepairs, Repaired
<1>3. Repaired'
  BY <1>1, <1>2, SameRepaired
<1>. QED
  BY <1>1, <1>3
   DEF Repairs, PlansMeet, ListComplete, ListRead, MutationRepairs, BranchesRepaired,
       PruneRepairs, SettingsRepairs, VerifyRepaired, ApplyDoesAllItCan, Idle, Planners

LEMMA EndVerifyRepairs ==
  ASSUME DoneInv, EndVerify, NeedsHold' PROVE Repairs'
<1>1. phase = "verify" /\ phase' = "exited" /\ UNCHANGED <<repo, command>>
  BY DEF EndVerify, Exit
<1>2. command' = "apply" => Repaired'
  BY <1>1, SameRepaired DEF DoneInv, Repairs, VerifyRepaired
<1>. QED
  BY <1>1, <1>2
   DEF Repairs, PlansMeet, ListComplete, ListRead, MutationRepairs, BranchesRepaired,
       PruneRepairs, SettingsRepairs, VerifyRepaired, ApplyDoesAllItCan, Idle, Planners

LEMMA StillRepairs ==
  ASSUME DoneInv, UNCHANGED vars PROVE Repairs'
<1>1. UNCHANGED <<repo, phase, step, at, cache, planned, toPrune, todo, command, code>>
  BY DEF vars, local
<1>2. UNCHANGED <<protection, rulesets, settings>> /\ RulesetList' = RulesetList
  BY <1>1, SameRepaired DEF repo
<1>3. \A b : AsDeclared(b) => AsDeclared(b)'
  BY <1>2, SameDeclared
<1>4. Repaired => Repaired'
  BY <1>1, SameRepaired
<1>5. /\ PlansMeet' /\ ListComplete' /\ NeedsHold'
  BY <1>1, <1>2 DEF DoneInv, Repairs, PlansMeet, ListComplete, ListRead, NeedsHold, Planners,
                    Satisfies, Meets, RulesetBranches, DeclaredSet
<1>6. MutationRepairs' /\ BranchesRepaired'
  BY <1>1, <1>2, <1>3
     DEF DoneInv, Repairs, MutationRepairs, BranchesRepaired, DeclaredSet, Meets, Target
<1>7. PruneRepairs' /\ SettingsRepairs'
  BY <1>1, <1>2 DEF DoneInv, Repairs, PruneRepairs, SettingsRepairs, NoOrphans,
                    RulesetBranches, DeclaredSet, DeclaredSettings, OutOfReach
<1>8. VerifyRepaired' /\ ApplyDoesAllItCan'
  BY <1>1, <1>4 DEF DoneInv, Repairs, VerifyRepaired, ApplyDoesAllItCan, Idle
<1>. QED
  BY <1>5, <1>6, <1>7, <1>8 DEF Repairs

LEMMA NextRepairs ==
  ASSUME DoneInv, [Next]_vars, OwnStep PROVE Repairs'
<1>0. NeedsHold'
  BY NeedsHoldStays
<1>1. CASE \E cmd \in {"check", "apply"} : Start(cmd)
  BY <1>0, <1>1, StartRepairs
<1>2. CASE PrefetchRulesets \/ DetectStale \/ PlanBranch \/ EndPlanning
  <2>1. UNCHANGED <<repo, command>> /\ Planning
    BY <1>2 DEF PrefetchRulesets, DetectStale, PlanBranch, EndPlanning
  <2>2. CASE phase = "verify"
    <3>1. phase' = "verify"
      BY <1>2, <2>2 DEF PrefetchRulesets, DetectStale, PlanBranch, EndPlanning
    <3>. QED
      BY <1>0, <2>1, <2>2, <3>1, VerifyRepairs
  <2>3. CASE phase = "preflight"
    <3>1. phase' \in {"preflight", "mutate"}
      BY <1>2, <2>3 DEF PrefetchRulesets, DetectStale, PlanBranch, EndPlanning
    <3>. QED
      BY <1>0, <1>2, <2>3, <3>1, PreflightRepairs
  <2>. QED
    BY <2>1, <2>2, <2>3 DEF Planning
<1>3. CASE SkipBranch \/ PutBranch \/ SignBranch \/ CreateBranchRuleset \/ UpdateBranchRuleset
  BY <1>0, <1>3, MutationStepRepairs
<1>4. CASE PlanBranchFails \/ ReadFails \/ Killed
  BY <1>0, <1>4, CutShort DEF PlanBranchFails, ReadFails, Killed, Exit
<1>5. ~Others
  BY DEF Others, Edit, OwnStep, DoneInv, QInv, IInv, TypeOK, GitHubTypeOK
<1>. QED
  BY <1>0, <1>1, <1>2, <1>3, <1>4, <1>5, EndMutationRepairs, PruneOneRepairs, EndPruneRepairs,
     PlanSettingsRepairs, MutateSettingRepairs, UnavailableRepairs, EnterVerifyRepairs,
     EndVerifyRepairs, StillRepairs DEF Next, Work

LEMMA InitDone == Init /\ NoDuplicateRulesets => DoneInv
<1> SUFFICES ASSUME Init, NoDuplicateRulesets PROVE DoneInv
  OBVIOUS
<1>1. QInv
  BY InitIInv, InitScope DEF Init, QInv, UInv, FreshIds, ListHolds, ListRead
<1>2. phase = "exited" /\ code = None
  BY DEF Init
<1>3. PlansCurrent /\ NeedsWait
  BY <1>2 DEF PlansCurrent, NeedsWait, Ahead, Mutating
<1>4. NeedsHold
  BY DEF Init, NeedsHold
<1>5. Repairs
  BY <1>2, <1>4, NoneAssumption
   DEF Repairs, PlansMeet, ListComplete, ListRead, MutationRepairs, BranchesRepaired,
       PruneRepairs, SettingsRepairs, VerifyRepaired, ApplyDoesAllItCan, Idle, Planners
<1>. QED
  BY <1>1, <1>3, <1>5 DEF DoneInv

LEMMA NextDone == DoneInv /\ [Next]_vars /\ [OwnStep]_vars => DoneInv'
<1> SUFFICES ASSUME DoneInv, [Next]_vars, [OwnStep]_vars PROVE DoneInv'
  OBVIOUS
<1>1. OwnStep
  BY DEF OwnStep, vars
<1>2. QInv'
  BY <1>1, NextIInv, NextScope, StaysUnique, NextHolds DEF DoneInv, QInv, UInv
<1>3. PlansCurrent'
  BY <1>1, NextCurrent DEF DoneInv, QInv, UInv
<1>4. NeedsWait'
  BY <1>1, NextNeeds DEF DoneInv, QInv, IInv
<1>5. Repairs'
  BY <1>1, NextRepairs
<1>. QED
  BY <1>2, <1>3, <1>4, <1>5 DEF DoneInv

(* An apply that comes to its verdict, complying or not, has put right every    *)
(* branch, ruleset and setting that its calls can, as long as nobody else edits *)
(* the repository and no two rulesets share a name to begin with.               *)
THEOREM ApplyRepairs ==
  Spec /\ NoDuplicateRulesets /\ [][OwnStep]_vars => []ApplyDoesAllItCan
<1>1. DoneInv => ApplyDoesAllItCan
  BY DEF DoneInv, Repairs
<1>. QED
  BY <1>1, InitDone, NextDone, PTL DEF Spec
=============================================================================
