-------------------------- MODULE ApplyProofs --------------------------
(* For every policy, any number of branches, rulesets, failures and edits: the  *)
(* state of a run keeps its types, and nothing is written before every branch  *)
(* has been planned.                                                            *)
EXTENDS ApplyProperties, SequenceTheorems, TLAPS

USE DEF outside, writing, found, history

(* A plan is kept from the moment it is made until verification begins. *)
PlansHold ==
  /\ phase = "preflight" =>
       command = "apply" /\ \A k \in 1 .. at - 1 : planned[Declared[k]] # None
  /\ phase \in {"mutate", "prune", "settings"} =>
       command = "apply" /\ \A b \in DeclaredSet : planned[b] # None

IInv == TypeOK /\ PlansHold

-----------------------------------------------------------------------------
(* Each write leaves GitHub a repository of the same shape. *)

LEMMA PutKeepsShape ==
  ASSUME NEW b \in Branch, NEW policy \in Policy, NEW extra \in Extra,
         GitHubTypeOK, UNCHANGED edits, PutProtection(b, policy, extra)
  PROVE  GitHubTypeOK'
<1> DEFINE signed == IF protection[b] = None THEN Permissive
                     ELSE protection[b].policy[Signed]
           new == [policy EXCEPT ![Signed] = signed]
<1>1. signed \in Value
  BY GitHubAssumption DEF GitHubTypeOK, Protection, Policy
<1>2. new \in Policy
  BY <1>1 DEF Policy
<1>3. [policy |-> new, extra |-> extra] \in Protection
  BY <1>2 DEF Protection
<1>4. protection' \in [Branch -> Protection \cup {None}]
  BY <1>3 DEF PutProtection, GitHubTypeOK
<1>. QED
  BY <1>4 DEF PutProtection, GitHubTypeOK

LEMMA SignKeepsShape ==
  ASSUME NEW b \in Branch, NEW value \in Value,
         GitHubTypeOK, UNCHANGED edits, SetSignatures(b, value)
  PROVE  GitHubTypeOK'
<1>1. protection[b] \in Protection
  BY DEF GitHubTypeOK, SetSignatures
<1>2. [protection[b] EXCEPT !.policy[Signed] = value] \in Protection
  BY <1>1 DEF Protection, Policy
<1>3. protection' \in [Branch -> Protection \cup {None}]
  BY <1>2 DEF SetSignatures, GitHubTypeOK
<1>. QED
  BY <1>3 DEF SetSignatures, GitHubTypeOK

LEMMA OwnRulesetType ==
  ASSUME NEW b \in Branch, NEW policy \in Policy, NEW extra \in Extra
  PROVE  OwnRuleset(b, policy, extra) \in Ruleset
BY DEF OwnRuleset, Ruleset, RulesetName

LEMMA CreateKeepsShape ==
  ASSUME NEW n \in Nat, NEW b \in Branch, NEW policy \in Policy, NEW extra \in Extra,
         GitHubTypeOK, UNCHANGED edits, CreateRulesets(n, b, policy, extra)
  PROVE  GitHubTypeOK'
<1>1. rulesets' \in [RulesetId -> Ruleset \cup {None}]
  BY OwnRulesetType DEF CreateRulesets, GitHubTypeOK
<1>2. nextId' \in 1 .. MaxRulesets + 1
  BY GitHubAssumption DEF CreateRulesets, GitHubTypeOK
<1>. QED
  BY <1>1, <1>2 DEF CreateRulesets, GitHubTypeOK

LEMMA UpdateKeepsShape ==
  ASSUME NEW id, NEW b \in Branch, NEW policy \in Policy, NEW extra \in Extra,
         GitHubTypeOK, UNCHANGED edits, UpdateRuleset(id, b, policy, extra)
  PROVE  GitHubTypeOK'
<1>1. rulesets' \in [RulesetId -> Ruleset \cup {None}]
  BY OwnRulesetType DEF UpdateRuleset, GitHubTypeOK
<1>. QED
  BY <1>1 DEF UpdateRuleset, GitHubTypeOK

LEMMA DeleteKeepsShape ==
  ASSUME NEW id, GitHubTypeOK, UNCHANGED edits, DeleteRuleset(id)
  PROVE  GitHubTypeOK'
BY DEF DeleteRuleset, GitHubTypeOK

LEMMA SettingKeepsShape ==
  ASSUME NEW fields, NEW value, GitHubTypeOK, UNCHANGED edits,
         SetSettings(fields, value)
  PROVE  GitHubTypeOK'
<1>1. settings' \in [SettingField -> BOOLEAN]
  BY DEF SetSettings
<1>. QED
  BY <1>1 DEF SetSettings, GitHubTypeOK

LEMMA EditKeepsShape == GitHubTypeOK /\ Edit => GitHubTypeOK'
<1> SUFFICES ASSUME GitHubTypeOK, Edit PROVE GitHubTypeOK'
  OBVIOUS
<1>1. edits' \in 0 .. MaxEdits
  BY GitHubAssumption DEF Edit, GitHubTypeOK
<1>2. CASE EditProtection
  BY <1>1, <1>2 DEF EditProtection, GitHubTypeOK
<1>3. CASE EditRuleset
  BY <1>1, <1>3 DEF EditRuleset, GitHubTypeOK
<1>4. CASE AddRuleset
  <2>1. nextId' \in 1 .. MaxRulesets + 1
    BY <1>4, GitHubAssumption DEF AddRuleset, GitHubTypeOK
  <2>2. rulesets' \in [RulesetId -> Ruleset \cup {None}]
    BY <1>4 DEF AddRuleset, GitHubTypeOK
  <2>. QED
    BY <1>1, <1>4, <2>1, <2>2 DEF AddRuleset, GitHubTypeOK
<1>5. CASE Override
  BY <1>1, <1>5 DEF Override, GitHubTypeOK
<1>6. CASE EditSetting
  <2>1. PICK s \in SettingField, v \in BOOLEAN : SetSettings({s}, [t \in {s} |-> v])
    BY <1>6 DEF EditSetting
  <2>2. settings' \in [SettingField -> BOOLEAN]
    BY <2>1 DEF SetSettings
  <2>. QED
    BY <1>1, <2>1, <2>2 DEF SetSettings, GitHubTypeOK
<1>. QED
  BY <1>2, <1>3, <1>4, <1>5, <1>6 DEF Edit

-----------------------------------------------------------------------------
(* The values a step computes have their types. *)

LEMMA OutcomeType ==
  ASSUME NEW c, NEW accepted \in BOOLEAN, NEW o \in Outcomes(c, accepted)
  PROVE  /\ o.result \in Result
         /\ o.landed \in Nat
         /\ ~accepted => o.landed = 0 /\ o.result = "error"
         /\ accepted /\ o.result = "error" => faults < MaxFaults
<1>1. CASE accepted
  BY <1>1 DEF Outcomes, Contract, Landings, Many
<1>2. CASE ~accepted
  BY <1>2 DEF Outcomes, Result
<1>. QED
  BY <1>1, <1>2

(* A write that is answered landed. *)
LEMMA OkLands ==
  ASSUME NEW c, c \notin Reads, NEW accepted \in BOOLEAN,
         NEW o \in Outcomes(c, accepted), o.result = "ok"
  PROVE  o.landed > 0
<1>1. CASE accepted
  <2>1. o.landed \in MayLand(c, "ok", FALSE)
    BY <1>1 DEF Outcomes, Contract
  <2>. QED
    BY <2>1 DEF MayLand, Many
<1>2. CASE ~accepted
  BY <1>2 DEF Outcomes
<1>. QED
  BY <1>1, <1>2

(* Only two methods of apply_repo_settings take a 422 for an answer, and what  *)
(* GitHub does not offer is always answered so.                                *)
LEMMA WhichAre422 ==
  ASSUME NEW g \in Group
  PROVE  /\ Answered422(g)
              => g \in {"security_and_analysis", "private_vulnerability_reporting"}
         /\ g \in Unlicensed => Answered422(g)
<1>1. ASSUME Answered422(g), g = "flat" PROVE FALSE
  BY <1>1 DEF Answered422, SettingCall, Allow422
<1>2. ASSUME Answered422(g), g \in {"vulnerability_alerts", "automated_security_fixes"}
      PROVE  FALSE
  BY <1>2 DEF Answered422, SettingCall, Allow422
<1>3. ASSUME g \in Unlicensed PROVE Answered422(g)
  <2>1. g \in {"security_and_analysis", "private_vulnerability_reporting"}
    BY <1>3, ConfigAssumption
  <2>2. SettingCall(g) \in Allow422
    BY <2>1 DEF SettingCall, Allow422
  <2>. QED
    BY <1>3, <2>2 DEF Answered422, Accepted
<1>. QED
  BY <1>1, <1>2, <1>3 DEF Group, ToggleSetting

LEMMA SettingCallWrites == ASSUME NEW g PROVE SettingCall(g) \notin Reads
BY DEF SettingCall, Reads

LEMMA FaultsType ==
  ASSUME NEW c, NEW accepted \in BOOLEAN, NEW o \in Outcomes(c, accepted),
         faults \in 0 .. MaxFaults, CountFault(o, accepted)
  PROVE  faults' \in 0 .. MaxFaults
BY OutcomeType, FaultsAssumption DEF CountFault

LEMMA JournalType ==
  ASSUME NEW r \in Resource, NEW s \in Status, journal \in Seq(JournalEntry),
         Journaled(r, s)
  PROVE  journal' \in Seq(JournalEntry)
<1>1. [resource |-> r, status |-> s] \in JournalEntry
  BY DEF JournalEntry
<1>. QED
  BY <1>1, AppendProperties DEF Journaled

LEMMA EntriesType ==
  ASSUME journal \in Seq(JournalEntry) PROVE Entries \subseteq JournalEntry
BY DEF Entries

LEMMA DeclaredType ==
  /\ Len(Declared) \in Nat
  /\ \A k \in 1 .. Len(Declared) : Declared[k] \in Branch
  /\ DeclaredSet \subseteq Branch
BY ConfigAssumption DEF DeclaredSet

LEMMA TargetType ==
  ASSUME TypeOK, Mutating
  PROVE  Target \in DeclaredSet /\ Target \in Branch /\ Me \in Resource
<1>1. at \in 1 .. Len(Declared)
  BY DeclaredType DEF TypeOK, Mutating
<1>2. Target \in Branch /\ Target \in DeclaredSet
  BY <1>1, DeclaredType DEF Target, DeclaredSet
<1>. QED
  BY <1>2 DEF Me, Resource

LEMMA PlanType ==
  ASSUME IInv, Mutating
  PROVE  /\ Plan \in PlannedBranch
         /\ Plan.resolved \in Policy
         /\ Plan.extra \in Extra
<1>1. Target \in DeclaredSet /\ Target \in Branch
  BY TargetType DEF IInv
<1>2. planned[Target] # None
  BY <1>1 DEF IInv, PlansHold, Mutating
<1>3. Plan \in PlannedBranch
  BY <1>1, <1>2 DEF IInv, TypeOK, Plan
<1>. QED
  BY <1>3 DEF PlannedBranch, Policy

(* What a branch is read as, and what is decided to do about it. *)
LEMMA RawType ==
  ASSUME TypeOK, NEW b \in Branch, NEW id \in Found(b)
  PROVE  /\ id \in RulesetId \cup {None}
         /\ Raw(b, id) \in Protection \cup Ruleset \cup {None}
<1>1. id \in RulesetId \cup {None}
  BY DEF Found, Listed
<1>2. id # None => rulesets[id] \in Ruleset \cup {None}
  BY <1>1 DEF TypeOK, GitHubTypeOK
<1>3. protection[b] \in Protection \cup {None}
  BY DEF TypeOK, GitHubTypeOK
<1>. QED
  BY <1>1, <1>2, <1>3 DEF Raw

LEMMA CurrentType ==
  ASSUME NEW raw \in Protection \cup Ruleset \cup {None}
  PROVE  Current(raw) \in Policy /\ CurrentExtra(raw) \in Extra
BY GitHubAssumption DEF Current, CurrentExtra, Nothing, Protection, Ruleset, Policy

LEMMA ResolveType ==
  ASSUME NEW b \in Branch, NEW current \in Policy
  PROVE  Resolve(b, current) \in [Field -> Value]
<1>1. ASSUME NEW f \in Field
      PROVE  Desired[b][f] \in Value \cup {None} /\ current[f] \in Value
  BY ConfigAssumption DEF Policy
<1>. QED
  BY <1>1, GitHubAssumption DEF Resolve

LEMMA ChangesType ==
  ASSUME NEW b, NEW id, NEW raw
  PROVE  BranchChanges(b, id, raw) \in SUBSET Change
BY DEF BranchChanges, FieldChanges, MetadataChanges, EffectivenessChanges, Change

-----------------------------------------------------------------------------
(* Every action keeps the invariant. *)

LEMMA BlankTypes ==
  /\ << >> \in Seq(JournalEntry)
  /\ NothingListed \in [RulesetId -> RulesetName \cup {None}]
  /\ NothingPlanned \in [Branch -> PlannedBranch \cup {None}]
  /\ 1 \in 1 .. Len(Declared) + 1
<1>1. << >> \in Seq(JournalEntry)
  OBVIOUS
<1>2. NothingListed \in [RulesetId -> RulesetName \cup {None}]
  BY DEF NothingListed
<1>3. NothingPlanned \in [Branch -> PlannedBranch \cup {None}]
  BY DEF NothingPlanned
<1>4. 1 \in 1 .. Len(Declared) + 1
  BY DeclaredType
<1>. QED
  BY <1>1, <1>2, <1>3, <1>4

LEMMA InitIInv == Init => IInv
<1> SUFFICES ASSUME Init PROVE IInv
  OBVIOUS
<1>1. TypeOK
  <2>1. 0 \in 0 .. MaxFaults
    BY FaultsAssumption
  <2>2. GitHubTypeOK /\ command = "check" /\ phase = "exited" /\ step = "list"
        /\ at = 1 /\ cache = NothingListed /\ planned = NothingPlanned
        /\ journal = << >> /\ stale = {} /\ toPrune = {} /\ todo = {}
    BY DEF Init
  <2>3. unavailable = {} /\ code = None /\ printed = {} /\ changed = {}
        /\ disturbed = FALSE /\ settled = FALSE /\ faults = 0
    BY DEF Init
  <2>. QED
    BY <2>1, <2>2, <2>3, BlankTypes DEF TypeOK
<1>2. PlansHold
  BY <1>1 DEF Init, PlansHold
<1>. QED
  BY <1>1, <1>2 DEF IInv

LEMMA StartIInv ==
  ASSUME IInv, NEW cmd \in {"check", "apply"}, Start(cmd) PROVE IInv'
<1>1. GitHubTypeOK'
  BY DEF IInv, TypeOK, GitHubTypeOK, Start, repo
<1>2. TypeOK'
  BY <1>1, BlankTypes DEF IInv, TypeOK, Start
<1>3. PlansHold'
  BY DEF Start, PlansHold
<1>. QED
  BY <1>2, <1>3 DEF IInv

LEMMA PrefetchIInv == IInv /\ PrefetchRulesets => IInv'
<1> SUFFICES ASSUME IInv, PrefetchRulesets PROVE IInv'
  OBVIOUS
<1>1. GitHubTypeOK'
  BY DEF IInv, TypeOK, GitHubTypeOK, PrefetchRulesets, repo
<1>2. RulesetList \in [RulesetId -> RulesetName \cup {None}]
  BY DEF RulesetList, IInv, TypeOK, GitHubTypeOK, Ruleset
<1>3. TypeOK'
  BY <1>1, <1>2 DEF IInv, TypeOK, PrefetchRulesets, NothingListed
<1>4. PlansHold'
  BY DEF IInv, PlansHold, PrefetchRulesets
<1>. QED
  BY <1>3, <1>4 DEF IInv

LEMMA StaleIInv == IInv /\ DetectStale => IInv'
<1> SUFFICES ASSUME IInv, DetectStale PROVE IInv'
  OBVIOUS
<1>1. GitHubTypeOK'
  BY DEF IInv, TypeOK, GitHubTypeOK, DetectStale, repo
<1>2. TypeOK'
  BY <1>1, DeclaredType DEF IInv, TypeOK, DetectStale, RulesetBranches
<1>3. PlansHold'
  BY DEF IInv, PlansHold, DetectStale
<1>. QED
  BY <1>2, <1>3 DEF IInv

(* The branch just planned is added to those already planned. *)
LEMMA PlanBranchIInv == IInv /\ PlanBranch => IInv'
<1> SUFFICES ASSUME IInv, PlanBranch PROVE IInv'
  OBVIOUS
<1> DEFINE b == Declared[at]
<1>1. at \in 1 .. Len(Declared) /\ b \in Branch
  BY DeclaredType DEF IInv, TypeOK, PlanBranch, AllPlanned
<1>2. PICK id \in Found(b) :
        planned' = [planned EXCEPT ![b] =
               [resolved |-> Resolve(b, Current(Raw(b, id))),
                extra    |-> CurrentExtra(Raw(b, id)),
                id       |-> id,
                changes  |-> BranchChanges(b, id, Raw(b, id))]]
  BY DEF PlanBranch
<1> DEFINE plan == [resolved |-> Resolve(b, Current(Raw(b, id))),
                    extra    |-> CurrentExtra(Raw(b, id)),
                    id       |-> id,
                    changes  |-> BranchChanges(b, id, Raw(b, id))]
<1>3. plan \in PlannedBranch
  <2>1. id \in RulesetId \cup {None}
    BY <1>1, RawType DEF IInv
  <2>2. Current(Raw(b, id)) \in Policy /\ CurrentExtra(Raw(b, id)) \in Extra
    BY <1>1, RawType, CurrentType DEF IInv
  <2>3. Resolve(b, Current(Raw(b, id))) \in [Field -> Value]
    BY <1>1, <2>2, ResolveType
  <2>. QED
    BY <2>1, <2>2, <2>3, ChangesType DEF PlannedBranch
<1>4. planned' \in [Branch -> PlannedBranch \cup {None}]
  BY <1>2, <1>3 DEF IInv, TypeOK
<1>5. GitHubTypeOK'
  BY DEF IInv, TypeOK, GitHubTypeOK, PlanBranch, repo
<1>6. at' = at + 1 /\ at' \in 1 .. Len(Declared) + 1
  BY <1>1, DeclaredType DEF PlanBranch
<1>7. TypeOK'
  BY <1>4, <1>5, <1>6 DEF IInv, TypeOK, PlanBranch
<1>8. planned'[b] # None
  BY <1>1, <1>2, <1>3, NoneAssumption DEF IInv, TypeOK
<1>9. \A c \in Branch : planned[c] # None => planned'[c] # None
  BY <1>1, <1>2, <1>8 DEF IInv, TypeOK
<1>10. PlansHold'
  <2>1. phase' = phase /\ command' = command /\ phase \in {"preflight", "verify"}
    BY DEF PlanBranch, Planning
  <2>2. ASSUME phase = "preflight", NEW k \in 1 .. at' - 1
        PROVE  planned'[Declared[k]] # None
    <3>1. k = at \/ k \in 1 .. at - 1
      BY <1>1, <1>6, DeclaredType
    <3>2. Declared[k] \in Branch
      BY <1>1, <3>1, DeclaredType
    <3>. QED
      BY <1>8, <1>9, <2>2, <3>1, <3>2 DEF IInv, PlansHold
  <2>. QED
    BY <2>1, <2>2 DEF IInv, PlansHold
<1>. QED
  BY <1>7, <1>10 DEF IInv

LEMMA PlanFailsIInv == IInv /\ PlanBranchFails => IInv'
<1> SUFFICES ASSUME IInv, PlanBranchFails PROVE IInv'
  OBVIOUS
<1>1. phase' = "exited" /\ code' \in {2, 3}
  BY DEF PlanBranchFails, Exit
<1>2. GitHubTypeOK'
  BY DEF IInv, TypeOK, GitHubTypeOK, PlanBranchFails, repo
<1>3. TypeOK'
  BY <1>1, <1>2 DEF IInv, TypeOK, PlanBranchFails
<1>. QED
  BY <1>1, <1>3 DEF IInv, PlansHold

LEMMA EndPlanningIInv == IInv /\ EndPlanning => IInv'
<1> SUFFICES ASSUME IInv, EndPlanning PROVE IInv'
  OBVIOUS
<1>1. GitHubTypeOK'
  BY DEF IInv, TypeOK, GitHubTypeOK, EndPlanning, repo
<1>2. TypeOK'
  BY <1>1, DeclaredType DEF IInv, TypeOK, EndPlanning, Planning
<1>3. phase = "preflight" => \A b \in DeclaredSet : planned[b] # None
  BY DeclaredType DEF IInv, PlansHold, EndPlanning, AllPlanned, DeclaredSet
<1>4. PlansHold'
  BY <1>3 DEF IInv, PlansHold, EndPlanning, Planning
<1>. QED
  BY <1>2, <1>4 DEF IInv

LEMMA SkipIInv == IInv /\ SkipBranch => IInv'
<1> SUFFICES ASSUME IInv, SkipBranch PROVE IInv'
  OBVIOUS
<1>1. GitHubTypeOK'
  BY DEF IInv, TypeOK, GitHubTypeOK, SkipBranch, KeepInMutation, repo
<1>2. journal' \in Seq(JournalEntry)
  BY TargetType, JournalType DEF IInv, TypeOK, SkipBranch, Status
<1>3. at' \in 1 .. Len(Declared) + 1
  BY DeclaredType DEF IInv, TypeOK, SkipBranch, Mutating, NextBranch
<1>4. TypeOK'
  BY <1>1, <1>2, <1>3 DEF IInv, TypeOK, SkipBranch, KeepInMutation
<1>5. PlansHold'
  BY DEF IInv, PlansHold, SkipBranch, KeepInMutation, Mutating
<1>. QED
  BY <1>4, <1>5 DEF IInv

(* What a branch's call leads to, once GitHub's side is accounted for. *)
LEMMA AnsweredIInv ==
  ASSUME IInv, Mutating, KeepInMutation, GitHubTypeOK', faults' \in 0 .. MaxFaults,
         NEW o, Landed(o, Me),
         \/ BranchAnswered(o)
         \/ step' = "sign" /\ UNCHANGED <<journal, at, phase, code, printed>>
  PROVE  IInv'
<1>1. Me \in Resource
  BY TargetType DEF IInv
<1>2. changed' \in SUBSET Resource
  BY <1>1 DEF Landed, IInv, TypeOK
<1>3. CASE BranchApplied
  <2>1. journal' \in Seq(JournalEntry)
    BY <1>1, <1>3, JournalType DEF IInv, TypeOK, BranchApplied, Status
  <2>2. at' \in 1 .. Len(Declared) + 1
    BY <1>3, DeclaredType DEF IInv, TypeOK, BranchApplied, Mutating, NextBranch
  <2>3. TypeOK'
    BY <1>2, <1>3, <2>1, <2>2 DEF IInv, TypeOK, BranchApplied, KeepInMutation
  <2>4. PlansHold'
    BY <1>3 DEF IInv, PlansHold, BranchApplied, KeepInMutation, Mutating
  <2>. QED
    BY <2>3, <2>4 DEF IInv
<1>4. CASE BranchFailed
  <2>1. journal' \in Seq(JournalEntry)
    BY <1>1, <1>4, JournalType DEF IInv, TypeOK, BranchFailed, Status
  <2>2. printed' \in SUBSET JournalEntry
    BY <1>1, <1>4, EntriesType DEF IInv, TypeOK, BranchFailed, JournalEntry, Status
  <2>3. phase' = "exited" /\ code' = 3
    BY <1>4 DEF BranchFailed, Exit
  <2>4. TypeOK'
    BY <1>2, <1>4, <2>1, <2>2, <2>3 DEF IInv, TypeOK, BranchFailed, KeepInMutation
  <2>. QED
    BY <2>3, <2>4 DEF IInv, PlansHold
<1>5. CASE step' = "sign" /\ UNCHANGED <<journal, at, phase, code, printed>>
  <2>1. TypeOK'
    BY <1>2, <1>5 DEF IInv, TypeOK, KeepInMutation
  <2>2. PlansHold'
    BY <1>5 DEF IInv, PlansHold, KeepInMutation, Mutating
  <2>. QED
    BY <2>1, <2>2 DEF IInv
<1>. QED
  BY <1>3, <1>4, <1>5 DEF BranchAnswered

(* The shape of the repository when a branch's write lands. *)
LEMMA BranchWriteShape ==
  ASSUME IInv, Mutating, UNCHANGED edits, NEW n \in Nat,
         \/ UNCHANGED repo
         \/ PutNow(n)
         \/ SignNow(n)
         \/ CreateNow(n)
         \/ UpdateNow(n)
  PROVE  GitHubTypeOK'
<1>1. Target \in Branch
  BY TargetType DEF IInv
<1>2. Plan.resolved \in Policy /\ Plan.extra \in Extra
  BY PlanType
<1>3. Plan.resolved[Signed] \in Value
  BY <1>2, GitHubAssumption DEF Policy
<1>4. GitHubTypeOK
  BY DEF IInv, TypeOK
<1>5. CASE UNCHANGED repo
  BY <1>4, <1>5 DEF GitHubTypeOK, repo
<1>6. CASE PutNow(n) /\ ~UNCHANGED repo
  <2>1. PutProtection(Target, Plan.resolved, Plan.extra)
    BY <1>6 DEF PutNow
  <2>. QED
    BY <1>1, <1>2, <1>4, <2>1, PutKeepsShape
<1>7. CASE SignNow(n) /\ ~UNCHANGED repo
  <2>1. SetSignatures(Target, Plan.resolved[Signed])
    BY <1>7 DEF SignNow
  <2>. QED
    BY <1>1, <1>3, <1>4, <2>1, SignKeepsShape
<1>8. CASE CreateNow(n)
  BY <1>1, <1>2, <1>4, <1>8, CreateKeepsShape DEF CreateNow
<1>9. CASE UpdateNow(n) /\ ~UNCHANGED repo
  <2>1. UpdateRuleset(Plan.id, Target, Plan.resolved, Plan.extra)
    BY <1>9 DEF UpdateNow
  <2>. QED
    BY <1>1, <1>2, <1>4, <2>1, UpdateKeepsShape
<1>. QED
  BY <1>5, <1>6, <1>7, <1>8, <1>9

LEMMA PutBranchIInv == IInv /\ PutBranch => IInv'
<1> SUFFICES ASSUME IInv, PutBranch PROVE IInv'
  OBVIOUS
<1>1. Mutating /\ KeepInMutation
  BY DEF PutBranch
<1>2. PICK o \in Outcomes("put_branch_protection", TRUE) :
        /\ PutNow(o.landed) /\ Landed(o, Me) /\ CountFault(o, TRUE)
        /\ \/ BranchAnswered(o)
           \/ step' = "sign" /\ UNCHANGED <<journal, at, phase, code, printed>>
  BY DEF PutBranch
<1>3. o.landed \in Nat /\ faults' \in 0 .. MaxFaults
  BY <1>2, OutcomeType, FaultsType DEF IInv, TypeOK
<1>4. GitHubTypeOK'
  BY <1>1, <1>2, <1>3, BranchWriteShape DEF KeepInMutation
<1>. QED
  BY <1>1, <1>2, <1>3, <1>4, AnsweredIInv

LEMMA SignBranchIInv == IInv /\ SignBranch => IInv'
<1> SUFFICES ASSUME IInv, SignBranch PROVE IInv'
  OBVIOUS
<1>1. Mutating /\ KeepInMutation
  BY DEF SignBranch
<1> DEFINE there == protection[Target] # None
<1>2. PICK o \in Outcomes("set_required_signatures", there) :
        SignNow(o.landed) /\ Landed(o, Me) /\ CountFault(o, there) /\ BranchAnswered(o)
  BY DEF SignBranch
<1>3. there \in BOOLEAN
  OBVIOUS
<1> HIDE DEF there
<1>4. o.landed \in Nat /\ faults' \in 0 .. MaxFaults
  BY <1>2, <1>3, OutcomeType, FaultsType DEF IInv, TypeOK
<1>5. GitHubTypeOK'
  BY <1>1, <1>2, <1>4, BranchWriteShape DEF KeepInMutation
<1>. QED
  BY <1>1, <1>2, <1>4, <1>5, AnsweredIInv

LEMMA CreateBranchIInv == IInv /\ CreateBranchRuleset => IInv'
<1> SUFFICES ASSUME IInv, CreateBranchRuleset PROVE IInv'
  OBVIOUS
<1>1. Mutating /\ KeepInMutation
  BY DEF CreateBranchRuleset
<1>2. PICK o \in Outcomes("create_ruleset", TRUE) :
        CreateNow(o.landed) /\ Landed(o, Me) /\ CountFault(o, TRUE) /\ BranchAnswered(o)
  BY DEF CreateBranchRuleset
<1>3. o.landed \in Nat /\ faults' \in 0 .. MaxFaults
  BY <1>2, OutcomeType, FaultsType DEF IInv, TypeOK
<1>4. GitHubTypeOK'
  BY <1>1, <1>2, <1>3, BranchWriteShape DEF KeepInMutation
<1>. QED
  BY <1>1, <1>2, <1>3, <1>4, AnsweredIInv

LEMMA UpdateBranchIInv == IInv /\ UpdateBranchRuleset => IInv'
<1> SUFFICES ASSUME IInv, UpdateBranchRuleset PROVE IInv'
  OBVIOUS
<1>1. Mutating /\ KeepInMutation
  BY DEF UpdateBranchRuleset
<1> DEFINE there == ~Gone(Plan.id)
<1>2. PICK o \in Outcomes("update_ruleset", there) :
        UpdateNow(o.landed) /\ Landed(o, Me) /\ CountFault(o, there) /\ BranchAnswered(o)
  BY DEF UpdateBranchRuleset
<1>3. there \in BOOLEAN
  BY DEF Gone
<1> HIDE DEF there
<1>4. o.landed \in Nat /\ faults' \in 0 .. MaxFaults
  BY <1>2, <1>3, OutcomeType, FaultsType DEF IInv, TypeOK
<1>5. GitHubTypeOK'
  BY <1>1, <1>2, <1>4, BranchWriteShape DEF KeepInMutation
<1>. QED
  BY <1>1, <1>2, <1>4, <1>5, AnsweredIInv

LEMMA EndMutationIInv == IInv /\ EndMutation => IInv'
<1> SUFFICES ASSUME IInv, EndMutation PROVE IInv'
  OBVIOUS
<1>1. GitHubTypeOK'
  BY DEF IInv, TypeOK, GitHubTypeOK, EndMutation, repo
<1>2. printed' \in SUBSET JournalEntry
  BY EntriesType DEF IInv, TypeOK, EndMutation, JournalPrinted
<1>3. toPrune' \in SUBSET RulesetId
  BY DEF IInv, TypeOK, EndMutation, Orphans
<1>4. TypeOK'
  BY <1>1, <1>2, <1>3 DEF IInv, TypeOK, EndMutation
<1>5. PlansHold'
  BY DEF IInv, PlansHold, EndMutation
<1>. QED
  BY <1>4, <1>5 DEF IInv

LEMMA PruneOneIInv == IInv /\ PruneOne => IInv'
<1> SUFFICES ASSUME IInv, PruneOne PROVE IInv'
  OBVIOUS
<1>1. PICK id \in toPrune : \E o \in Outcomes("delete_ruleset", ~Gone(id)) :
        /\ DeleteNow(id, o.landed)
        /\ Landed(o, <<"ruleset", id>>)
        /\ CountFault(o, ~Gone(id))
        /\ IF o.result = "ok"
           THEN toPrune' = toPrune \ {id} /\ UNCHANGED <<phase, code>>
           ELSE Exit(3) /\ UNCHANGED toPrune
  BY DEF PruneOne
<1> DEFINE there == ~Gone(id)
<1>2. PICK o \in Outcomes("delete_ruleset", there) :
        /\ DeleteNow(id, o.landed)
        /\ Landed(o, <<"ruleset", id>>)
        /\ CountFault(o, there)
        /\ IF o.result = "ok"
           THEN toPrune' = toPrune \ {id} /\ UNCHANGED <<phase, code>>
           ELSE Exit(3) /\ UNCHANGED toPrune
  BY <1>1
<1>3. there \in BOOLEAN
  BY DEF Gone
<1>4. faults' \in 0 .. MaxFaults
  <2> HIDE DEF there
  <2>1. o \in Outcomes("delete_ruleset", there) /\ CountFault(o, there)
    BY <1>2
  <2>. QED
    BY <1>3, <2>1, FaultsType DEF IInv, TypeOK
<1>5. GitHubTypeOK'
  <2>1. GitHubTypeOK /\ edits' = edits
    BY DEF IInv, TypeOK, PruneOne
  <2>2. CASE UNCHANGED repo
    BY <2>1, <2>2 DEF GitHubTypeOK, repo
  <2>3. CASE DeleteRuleset(id)
    BY <2>1, <2>3, DeleteKeepsShape
  <2>. QED
    BY <1>2, <2>2, <2>3 DEF DeleteNow
<1>6. <<"ruleset", id>> \in Resource
  BY <1>1 DEF IInv, TypeOK, Resource
<1>7. changed' \in SUBSET Resource
  BY <1>2, <1>6 DEF Landed, IInv, TypeOK
<1>8. phase' \in {phase, "exited"} /\ code' \in 0 .. 3 \cup {None}
      /\ toPrune' \in SUBSET RulesetId
  BY <1>2 DEF Exit, IInv, TypeOK
<1>9. TypeOK'
  BY <1>4, <1>5, <1>7, <1>8 DEF IInv, TypeOK, PruneOne
<1>10. PlansHold'
  BY <1>8 DEF IInv, PlansHold, PruneOne
<1>. QED
  BY <1>9, <1>10 DEF IInv

LEMMA EndPruneIInv == IInv /\ EndPrune => IInv'
<1> SUFFICES ASSUME IInv, EndPrune PROVE IInv'
  OBVIOUS
<1>1. GitHubTypeOK'
  BY DEF IInv, TypeOK, GitHubTypeOK, EndPrune, repo
<1>2. PrunedEntries \subseteq JournalEntry
  BY DEF PrunedEntries, JournalEntry, Resource, Status, Orphans
<1>3. TypeOK'
  BY <1>1, <1>2 DEF IInv, TypeOK, EndPrune
<1>4. PlansHold'
  BY DEF IInv, PlansHold, EndPrune
<1>. QED
  BY <1>3, <1>4 DEF IInv

LEMMA PlanSettingsIInv == IInv /\ PlanSettings => IInv'
<1> SUFFICES ASSUME IInv, PlanSettings PROVE IInv'
  OBVIOUS
<1>1. GitHubTypeOK'
  BY DEF IInv, TypeOK, GitHubTypeOK, PlanSettings, repo
<1>2. todo' \in SUBSET DeclaredSettings /\ unavailable' \in SUBSET SettingField
  BY DEF PlanSettings, SettingsChanges, SettingsUnavailable, DeclaredSettings
<1>3. TypeOK'
  BY <1>1, <1>2 DEF IInv, TypeOK, PlanSettings
<1>4. PlansHold'
  BY DEF IInv, PlansHold, PlanSettings
<1>. QED
  BY <1>3, <1>4 DEF IInv

(* Both ends of a setting's mutation. *)
LEMMA SettingAnsweredIInv ==
  ASSUME IInv, phase = "settings", KeepInSettings, GitHubTypeOK',
         faults' \in 0 .. MaxFaults, changed' \in SUBSET Resource,
         NEW g \in Group,
         (\E s \in Status : SettingDone(g, s)) \/ SettingFailed(g)
  PROVE  IInv'
<1>1. <<"setting", g>> \in Resource
  BY DEF Resource
<1>2. CASE \E s \in Status : SettingDone(g, s)
  <2>1. PICK s \in Status : SettingDone(g, s)
    BY <1>2
  <2>2. journal' \in Seq(JournalEntry)
    BY <1>1, <2>1, JournalType DEF IInv, TypeOK, SettingDone
  <2>3. todo' \in SUBSET DeclaredSettings /\ unavailable' \in SUBSET SettingField
    BY <2>1 DEF IInv, TypeOK, SettingDone, Payload, DeclaredSettings
  <2>4. TypeOK'
    BY <2>1, <2>2, <2>3 DEF IInv, TypeOK, SettingDone, KeepInSettings
  <2>5. PlansHold'
    BY <2>1 DEF IInv, PlansHold, SettingDone, KeepInSettings
  <2>. QED
    BY <2>4, <2>5 DEF IInv
<1>3. CASE SettingFailed(g)
  <2>1. journal' \in Seq(JournalEntry)
    BY <1>1, <1>3, JournalType DEF IInv, TypeOK, SettingFailed, Status
  <2>2. printed' \in SUBSET JournalEntry
    <3>1. [resource |-> <<"setting", g>>, status |-> "failed"] \in JournalEntry
      BY <1>1 DEF JournalEntry, Status
    <3>2. Entries \subseteq JournalEntry /\ printed \subseteq JournalEntry
      BY EntriesType DEF IInv, TypeOK
    <3>. QED
      BY <1>3, <3>1, <3>2 DEF SettingFailed
  <2>3. phase' = "exited" /\ code' = 3
    BY <1>3 DEF SettingFailed, Exit
  <2>4. TypeOK'
    BY <1>3, <2>1, <2>2, <2>3 DEF IInv, TypeOK, SettingFailed, KeepInSettings
  <2>. QED
    BY <2>3, <2>4 DEF IInv, PlansHold
<1>. QED
  BY <1>2, <1>3

LEMMA SetNowShape ==
  ASSUME IInv, UNCHANGED edits, NEW g, NEW n, UNCHANGED repo \/ SetNow(g, n)
  PROVE  GitHubTypeOK'
<1>2. GitHubTypeOK
  BY DEF IInv, TypeOK
<1>3. CASE UNCHANGED repo
  BY <1>2, <1>3 DEF GitHubTypeOK, repo
<1>4. CASE SetSettings(Payload(g), DesiredSetting)
  BY <1>2, <1>4, SettingKeepsShape
<1>. QED
  BY <1>3, <1>4 DEF SetNow

LEMMA MutateSettingIInv == IInv /\ MutateSetting => IInv'
<1> SUFFICES ASSUME IInv, MutateSetting PROVE IInv'
  OBVIOUS
<1>1. PICK g \in Group : NextGroup(g) /\
        \E o \in Outcomes(SettingCall(g), Accepted(g)) :
          /\ SetNow(g, o.landed)
          /\ Landed(o, <<"setting", g>>)
          /\ CountFault(o, Accepted(g))
          /\ IF o.result = "ok" THEN SettingDone(g, "applied") ELSE SettingFailed(g)
  BY DEF MutateSetting
<1>2. PICK o \in Outcomes(SettingCall(g), Accepted(g)) :
          /\ SetNow(g, o.landed)
          /\ Landed(o, <<"setting", g>>)
          /\ CountFault(o, Accepted(g))
          /\ IF o.result = "ok" THEN SettingDone(g, "applied") ELSE SettingFailed(g)
  BY <1>1
<1>3. Accepted(g) \in BOOLEAN
  BY DEF Accepted, AcceptsSettings
<1>4. faults' \in 0 .. MaxFaults
  BY <1>2, <1>3, FaultsType DEF IInv, TypeOK
<1>6. GitHubTypeOK'
  BY <1>2, SetNowShape DEF MutateSetting, KeepInSettings
<1>7. changed' \in SUBSET Resource
  BY <1>2 DEF Landed, Resource, IInv, TypeOK
<1>. QED
  BY <1>2, <1>4, <1>6, <1>7, SettingAnsweredIInv DEF MutateSetting, Status

LEMMA UnavailableIInv == IInv /\ SettingUnavailable => IInv'
<1> SUFFICES ASSUME IInv, SettingUnavailable PROVE IInv'
  OBVIOUS
<1>1. PICK g \in Group :
        /\ NextGroup(g)
        /\ \/ SettingDone(g, Status422) /\ UNCHANGED faults
           \/ faults < MaxFaults /\ SettingFailed(g) /\ faults' = faults + 1
  BY DEF SettingUnavailable
<1>3. GitHubTypeOK'
  BY DEF IInv, TypeOK, GitHubTypeOK, SettingUnavailable, KeepInSettings, repo
<1>4. faults' \in 0 .. MaxFaults
  BY <1>1, FaultsAssumption DEF IInv, TypeOK
<1>5. changed' \in SUBSET Resource
  BY DEF IInv, TypeOK, SettingUnavailable
<1>. QED
  BY <1>1, <1>3, <1>4, <1>5, SettingAnsweredIInv
     DEF SettingUnavailable, Status, Status422

LEMMA EnterVerifyIInv == IInv /\ EnterVerify => IInv'
<1> SUFFICES ASSUME IInv, EnterVerify PROVE IInv'
  OBVIOUS
<1>1. GitHubTypeOK'
  BY DEF IInv, TypeOK, GitHubTypeOK, EnterVerify, repo
<1>2. TypeOK'
  BY <1>1, BlankTypes DEF IInv, TypeOK, EnterVerify
<1>. QED
  BY <1>2 DEF IInv, PlansHold, EnterVerify

LEMMA EndVerifyIInv == IInv /\ EndVerify => IInv'
<1> SUFFICES ASSUME IInv, EndVerify PROVE IInv'
  OBVIOUS
<1>1. GitHubTypeOK'
  BY DEF IInv, TypeOK, GitHubTypeOK, EndVerify, repo
<1>2. SettingEntries \subseteq JournalEntry
  BY EntriesType DEF IInv, TypeOK, SettingEntries
<1>3. settled' \in BOOLEAN
  BY DEF IInv, TypeOK, EndVerify
<1>4. phase' = "exited" /\ code' \in {0, 1}
  BY DEF EndVerify, Exit
<1>5. TypeOK'
  BY <1>1, <1>2, <1>3, <1>4 DEF IInv, TypeOK, EndVerify
<1>. QED
  BY <1>4, <1>5 DEF IInv, PlansHold

LEMMA ReadFailsIInv == IInv /\ ReadFails => IInv'
<1> SUFFICES ASSUME IInv, ReadFails PROVE IInv'
  OBVIOUS
<1>1. GitHubTypeOK'
  BY DEF IInv, TypeOK, GitHubTypeOK, ReadFails, repo
<1>2. phase' = "exited" /\ code' = 3 /\ faults' \in 0 .. MaxFaults
  BY FaultsAssumption DEF ReadFails, Exit, IInv, TypeOK
<1>3. TypeOK'
  BY <1>1, <1>2 DEF IInv, TypeOK, ReadFails
<1>. QED
  BY <1>2, <1>3 DEF IInv, PlansHold

(* A request in flight lands like any other. *)
LEMMA KilledIInv == IInv /\ Killed => IInv'
<1> SUFFICES ASSUME IInv, Killed PROVE IInv'
  OBVIOUS
<1>1. phase' = "exited" /\ code' = None /\ faults' \in 0 .. MaxFaults
  BY FaultsAssumption DEF Killed, Exit, IInv, TypeOK
<1>2. GitHubTypeOK' /\ changed' \in SUBSET Resource
  <2>1. CASE UNCHANGED <<repo, changed>>
    BY <2>1 DEF IInv, TypeOK, GitHubTypeOK, Killed, repo
  <2>2. CASE /\ Mutating
             /\ PutNow(1) \/ SignNow(1) \/ CreateNow(1) \/ UpdateNow(1)
             /\ changed' = changed \cup {Me}
    <3>1. GitHubTypeOK'
      BY <2>2, BranchWriteShape DEF Killed
    <3>. QED
      BY <2>2, <3>1, TargetType DEF IInv, TypeOK
  <2>3. CASE \E id \in toPrune : /\ DeleteNow(id, 1)
                                 /\ changed' = changed \cup {<<"ruleset", id>>}
    <3>1. PICK id \in toPrune : /\ DeleteRuleset(id)
                                /\ changed' = changed \cup {<<"ruleset", id>>}
      BY <2>3 DEF DeleteNow
    <3>2. GitHubTypeOK'
      BY <3>1, DeleteKeepsShape DEF Killed, IInv, TypeOK
    <3>. QED
      BY <3>1, <3>2 DEF IInv, TypeOK, Resource
  <2>4. CASE \E g \in Group : /\ NextGroup(g) /\ SetNow(g, 1)
                              /\ changed' = changed \cup {<<"setting", g>>}
    <3>1. PICK g \in Group : /\ NextGroup(g) /\ SetNow(g, 1)
                             /\ changed' = changed \cup {<<"setting", g>>}
      BY <2>4
    <3>2. GitHubTypeOK'
      BY <3>1, SetNowShape DEF Killed, NextGroup
    <3>. QED
      BY <3>1, <3>2 DEF IInv, TypeOK, Resource
  <2>. QED
    BY <2>1, <2>2, <2>3, <2>4 DEF Killed, InFlightLands
<1>3. TypeOK'
  BY <1>1, <1>2 DEF IInv, TypeOK, Killed
<1>. QED
  BY <1>1, <1>3 DEF IInv, PlansHold

LEMMA OthersIInv == IInv /\ Others => IInv'
<1> SUFFICES ASSUME IInv, Others PROVE IInv'
  OBVIOUS
<1>1. GitHubTypeOK'
  BY EditKeepsShape DEF Others, IInv, TypeOK
<1>2. TypeOK'
  BY <1>1 DEF IInv, TypeOK, Others, local
<1>. QED
  BY <1>2 DEF IInv, PlansHold, Others, local

LEMMA NextIInv == IInv /\ [Next]_vars => IInv'
<1> SUFFICES ASSUME IInv, [Next]_vars PROVE IInv'
  OBVIOUS
<1>1. CASE UNCHANGED vars
  BY <1>1 DEF vars, local, repo, IInv, TypeOK, GitHubTypeOK, PlansHold
<1>2. CASE \E cmd \in {"check", "apply"} : Start(cmd)
  BY <1>2, StartIInv
<1>3. CASE Work
  BY <1>3, PrefetchIInv, StaleIInv, PlanBranchIInv, PlanFailsIInv, EndPlanningIInv,
     SkipIInv, PutBranchIInv, SignBranchIInv, CreateBranchIInv, UpdateBranchIInv,
     EndMutationIInv, PruneOneIInv, EndPruneIInv, PlanSettingsIInv,
     MutateSettingIInv, UnavailableIInv, EnterVerifyIInv, EndVerifyIInv DEF Work
<1>. QED
  BY <1>1, <1>2, <1>3, ReadFailsIInv, KilledIInv, OthersIInv DEF Next

LEMMA SpecIInv == Spec => []IInv
BY InitIInv, NextIInv, PTL DEF Spec

-----------------------------------------------------------------------------
(* The variables of a run keep their types. *)
THEOREM ApplyTypes == Spec => []TypeOK
<1>1. IInv => TypeOK
  BY DEF IInv
<1>. QED
  BY <1>1, SpecIInv, PTL

(* Only the three mutating phases write.                                        *)
LEMMA WritersArePlanned ==
  ASSUME IInv, [Next]_vars, OwnStep, repo' # repo
  PROVE  phase \in {"mutate", "prune", "settings"}
<1>1. ~UNCHANGED repo
  BY DEF repo
<1>2. CASE \E cmd \in {"check", "apply"} : Start(cmd)
  BY <1>1, <1>2 DEF Start
<1>3. CASE Work
  BY <1>1, <1>3
     DEF Work, PrefetchRulesets, DetectStale, PlanBranch, PlanBranchFails,
         EndPlanning, SkipBranch, PutBranch, SignBranch, CreateBranchRuleset,
         UpdateBranchRuleset, EndMutation, PruneOne, EndPrune, PlanSettings,
         MutateSetting, SettingUnavailable, EnterVerify, EndVerify, Mutating
<1>4. CASE ReadFails
  BY <1>1, <1>4 DEF ReadFails
<1>5. CASE Killed
  BY <1>1, <1>5 DEF Killed, InFlightLands, Mutating
<1>6. CASE Others
  BY <1>6 DEF Others, Edit, OwnStep, IInv, TypeOK, GitHubTypeOK
<1>7. CASE UNCHANGED vars
  BY <1>1, <1>7 DEF vars
<1>. QED
  BY <1>2, <1>3, <1>4, <1>5, <1>6, <1>7 DEF Next

(* Whatever fails, is killed or is edited meanwhile, a run writes to GitHub     *)
(* only as apply and only once it has planned every declared branch.            *)
THEOREM NoWriteBeforeThePlan == Spec => PlansBeforeWriting
<1> DEFINE Planned == OwnStep /\ repo' # repo
                        => command = "apply" /\ \A b \in DeclaredSet : planned[b] # None
<1>1. IInv /\ [Next]_vars => [Planned]_vars
  <2> SUFFICES ASSUME IInv, [Next]_vars, OwnStep, repo' # repo
               PROVE  command = "apply" /\ \A b \in DeclaredSet : planned[b] # None
    OBVIOUS
  <2>. QED
    BY WritersArePlanned DEF IInv, PlansHold
<1>. QED
  BY <1>1, SpecIInv, PTL DEF Spec, PlansBeforeWriting

=============================================================================
