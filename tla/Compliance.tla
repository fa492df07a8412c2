-------------------------- MODULE Compliance --------------------------
(* What policy.yml says of a repository, once parsed and validated, and what it *)
(* means for the repository on GitHub to be as it says.  Nothing here knows how *)
(* repo-policy goes about it: ApplyRun does it, Promise says what comes of it.  *)
EXTENDS GitHub, Sequences

CONSTANTS
  Declared,      \* the branches of policy.yml, in its order
  Enforcement,   \* branch -> "branch_protection" or "ruleset"
  Desired,       \* branch -> field -> value or None
  StrictBranch,  \* models.effective_strict of each branch
  Strict,        \* the top-level strict
  DesiredSetting,\* repository setting -> BOOLEAN or None
  Unreadable,    \* settings whose value GitHub does not show this token
  Unlicensed     \* groups whose PATCH or PUT GitHub answers 422

DeclaredSet == {Declared[k] : k \in 1 .. Len(Declared)}
RulesetBranches == {b \in DeclaredSet : Enforcement[b] = "ruleset"}
DeclaredSettings == {s \in SettingField : DesiredSetting[s] # None}

ASSUME ConfigAssumption ==
  /\ Declared \in Seq(Branch)
  /\ \A j, k \in 1 .. Len(Declared) : Declared[j] = Declared[k] => j = k
  /\ Enforcement \in [Branch -> {"branch_protection", "ruleset"}]
  /\ Desired \in [Branch -> [Field -> (Value \ {Unparsable}) \cup {None}]]
  /\ StrictBranch \in [Branch -> BOOLEAN]
  /\ Strict \in BOOLEAN
  /\ DesiredSetting \in [SettingField -> BOOLEAN \cup {None}]
  /\ Unreadable \subseteq
       Flat \cup SecurityAndAnalysis \cup {"private_vulnerability_reporting"}
  /\ Unlicensed \subseteq {"security_and_analysis",
                           "private_vulnerability_reporting"}
  /\ None \notin Value /\ None \notin BOOLEAN
  \* security_and_analysis is shown whole or not at all.
  /\ SecurityAndAnalysis \subseteq Unreadable \/ SecurityAndAnalysis \cap Unreadable = {}
  \* RepoSettingsPolicy rejects a setting declared without what it needs.
  /\ \A s \in DOMAIN Needs :
       DesiredSetting[s] = TRUE => DesiredSetting[Needs[s]] = TRUE

(* What an object on GitHub says, or the permissive policy when there is none. *)
Current(raw) == IF raw = None THEN Nothing ELSE raw.policy
CurrentExtra(raw) == IF raw = None THEN NoExtra ELSE raw.extra

-----------------------------------------------------------------------------
(* GitHub is as policy.yml says: stated of the repository alone, without the    *)
(* plan that the code computes.                                                 *)

(* The value of a field is the declared one or, in strict mode, the default. *)
Meets(b, f, value) ==
  /\ Desired[b][f] # None => value = Desired[b][f]
  /\ Desired[b][f] = None /\ StrictBranch[b] => value = Permissive

Satisfies(b, policy) == \A f \in Field : Meets(b, f, policy[f])

(* The ruleset of b. *)
Named(b) == {id \in RulesetId : RulesetList[id] = b}

RulesetMeets(b, id) == Satisfies(b, rulesets[id].policy) /\ rulesets[id].canonical

InForce(b, id) ==
  \/ Effective(id, b)
  \/ rulesets[id].policy = Nothing /\ rulesets[id].extra = NoExtra

(* The object of b says what policy.yml does, whether or not it is in force. *)
AsDeclared(b) ==
  IF Enforcement[b] = "branch_protection" THEN Satisfies(b, Current(protection[b]))
  ELSE \/ Named(b) = {} /\ Satisfies(b, Nothing)
       \/ \E id \in Named(b) : RulesetMeets(b, id)

BranchComplies(b) ==
  IF Enforcement[b] = "branch_protection" THEN Satisfies(b, Current(protection[b]))
  ELSE /\ protection[b] = None
       /\ \/ Named(b) = {} /\ Satisfies(b, Nothing)
          \/ \E id \in Named(b) : RulesetMeets(b, id) /\ InForce(b, id)

NoOrphans ==
  \A id \in RulesetId : RulesetList[id] \in RulesetBranches \cup {None, Foreign}

RepositoryComplies ==
  /\ \A b \in DeclaredSet : BranchComplies(b)
  /\ Strict => NoOrphans
  /\ \A s \in DeclaredSettings : s \notin Unreadable /\ settings[s] = DesiredSetting[s]

(* Losing the reply to create_ruleset, or the whole process, and running again *)
(* never makes a second ruleset of the same name.                              *)
NoDuplicateRulesets ==
  \A i, j \in RulesetId :
    i # j /\ RulesetList[i] = RulesetList[j] => RulesetList[i] \in {None, Foreign}

-----------------------------------------------------------------------------
(* What no call of repo-policy changes, and an apply can only report: classic  *)
(* protection that stands beside a ruleset, rulesets that GitHub does not      *)
(* enforce, settings it neither shows nor offers.                              *)
OutOfReach(s) == s \in Unreadable \/ GroupOf(s) \in Unlicensed

(* All is done that can be. *)
Repaired ==
  /\ \A b \in DeclaredSet : AsDeclared(b)
  /\ Strict => NoOrphans
  /\ \A s \in DeclaredSettings : OutOfReach(s) \/ settings[s] = DesiredSetting[s]
=============================================================================
