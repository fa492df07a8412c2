---------------------------- MODULE GitHub ----------------------------
(* The repository on GitHub as repo-policy sees it: the state behind the REST  *)
(* endpoints GitHubClient calls, what each write does to it, and what people   *)
(* and other tools may do to it meanwhile.  None of this is code of            *)
(* repo-policy: it is what the code assumes of the service.                    *)
EXTENDS Naturals, FiniteSets

CONSTANTS
  Branch,        \* branch names
  Foreign,       \* a ruleset name outside the "repo-policy:" convention
  Field,         \* the fields of a BranchPolicy
  Value,         \* their values, up to diff's equality
  Permissive,    \* the schema default of every field: nothing is enforced
  Unparsable,    \* a value the schema of models.py rejects
  Extra,         \* settings of a branch that BranchPolicy has no field for
  NoExtra,       \* none of them set
  None,          \* Python's None
  MaxRulesets,   \* bound on the rulesets ever created
  MaxEdits       \* bound on what others do to the repository

Signed == "signed_commits"

(* Repository settings, and the call that changes each: two share a PATCH of   *)
(* the repository, two of its security_and_analysis, and three have their own. *)
Flat == {"delete_branch_on_merge", "allow_update_branch"}
SecurityAndAnalysis == {"secret_scanning", "secret_scanning_push_protection"}
ToggleSetting == {"vulnerability_alerts", "automated_security_fixes",
                  "private_vulnerability_reporting"}
SettingField == Flat \cup SecurityAndAnalysis \cup ToggleSetting
Group == {"flat", "security_and_analysis"} \cup ToggleSetting
GroupOf(s) == IF s \in Flat THEN "flat"
              ELSE IF s \in SecurityAndAnalysis THEN "security_and_analysis" ELSE s

ASSUME GitHubAssumption ==
  /\ Permissive \in Value
  /\ NoExtra \in Extra
  /\ Signed \in Field
  /\ Foreign \notin Branch
  /\ MaxRulesets \in Nat
  /\ MaxEdits \in Nat

RulesetId == 1 .. MaxRulesets
RulesetName == Branch \cup {Foreign}       \* b stands for "repo-policy:b"
Policy == [Field -> Value]
Protection == [policy : Policy, extra : Extra]
Ruleset == [name : RulesetName, policy : Policy, extra : Extra,
            canonical : BOOLEAN]

VARIABLES
  protection,   \* classic branch protection of each branch, or None
  rulesets,     \* the ruleset with each id, or None
  nextId,       \* the id the next ruleset gets
  overridden,   \* branches on which GitHub does not enforce the rulesets
  settings,     \* repository settings
  edits         \* how often somebody else changed the repository

repo == <<protection, rulesets, nextId, overridden, settings>>

GitHubTypeOK ==
  /\ protection \in [Branch -> Protection \cup {None}]
  /\ rulesets \in [RulesetId -> Ruleset \cup {None}]
  /\ nextId \in 1 .. MaxRulesets + 1
  /\ overridden \in SUBSET Branch
  /\ settings \in [SettingField -> BOOLEAN]
  /\ edits \in 0 .. MaxEdits

Nothing == [f \in Field |-> Permissive]

(* GET .../rulesets: ids and names only. *)
RulesetList ==
  [id \in RulesetId |-> IF rulesets[id] = None THEN None ELSE rulesets[id].name]

(* GET .../rules/branches/b: the rulesets contributing an active rule to b. *)
Effective(id, b) ==
  /\ rulesets[id] # None
  /\ rulesets[id].canonical
  /\ rulesets[id].policy # Nothing \/ rulesets[id].extra # NoExtra
  /\ b \notin overridden

-----------------------------------------------------------------------------
(* The writes.  Each leaves the rest of the repository alone. *)

(* PUT .../protection replaces the object whole; only the signature            *)
(* requirement is kept, which has an endpoint of its own.                      *)
PutProtection(b, policy, extra) ==
  /\ protection' =
       [protection EXCEPT ![b] =
          [policy |-> [policy EXCEPT ![Signed] =
                         IF protection[b] = None THEN Permissive
                         ELSE protection[b].policy[Signed]],
           extra |-> extra]]
  /\ UNCHANGED <<rulesets, nextId, overridden, settings>>

SetSignatures(b, value) ==
  /\ protection[b] # None
  /\ protection' = [protection EXCEPT ![b].policy[Signed] = value]
  /\ UNCHANGED <<rulesets, nextId, overridden, settings>>

OwnRuleset(b, policy, extra) ==
  [name |-> b, policy |-> policy, extra |-> extra, canonical |-> TRUE]

(* POST .../rulesets landing n times makes n rulesets. *)
CreateRulesets(n, b, policy, extra) ==
  /\ nextId + n <= MaxRulesets + 1
  /\ rulesets' = [id \in RulesetId |->
                    IF id \in nextId .. nextId + n - 1
                    THEN OwnRuleset(b, policy, extra) ELSE rulesets[id]]
  /\ nextId' = nextId + n
  /\ UNCHANGED <<protection, overridden, settings>>

UpdateRuleset(id, b, policy, extra) ==
  /\ rulesets[id] # None
  /\ rulesets' = [rulesets EXCEPT ![id] = OwnRuleset(b, policy, extra)]
  /\ UNCHANGED <<protection, nextId, overridden, settings>>

DeleteRuleset(id) ==
  /\ rulesets[id] # None
  /\ rulesets' = [rulesets EXCEPT ![id] = None]
  /\ UNCHANGED <<protection, nextId, overridden, settings>>

(* Dependabot security updates need Dependabot alerts, and push protection     *)
(* needs secret scanning: neither can be enabled without the other, and both   *)
(* go when what they need is disabled.                                         *)
Needs == [automated_security_fixes |-> "vulnerability_alerts",
          secret_scanning_push_protection |-> "secret_scanning"]

Sent(fields, value) ==
  [s \in SettingField |-> IF s \in fields THEN value[s] ELSE settings[s]]

AcceptsSettings(fields, value) ==
  \A s \in fields \cap DOMAIN Needs : value[s] => Sent(fields, value)[Needs[s]]

SetSettings(fields, value) ==
  /\ AcceptsSettings(fields, value)
  /\ settings' =
       [s \in SettingField |->
          /\ Sent(fields, value)[s]
          /\ s \in DOMAIN Needs => Sent(fields, value)[Needs[s]]]
  /\ UNCHANGED <<protection, rulesets, nextId, overridden>>

-----------------------------------------------------------------------------
(* What people, other tools and another run may do to the repository. *)

EditProtection ==
  \E b \in Branch, p \in Protection \cup {None} :
    /\ protection' = [protection EXCEPT ![b] = p]
    /\ UNCHANGED <<rulesets, nextId, overridden, settings>>

EditRuleset ==
  \E id \in RulesetId, r \in Ruleset \cup {None} :
    /\ rulesets[id] # None
    /\ rulesets' = [rulesets EXCEPT ![id] = r]
    /\ UNCHANGED <<protection, nextId, overridden, settings>>

AddRuleset ==
  \E r \in Ruleset :
    /\ nextId <= MaxRulesets
    /\ rulesets' = [rulesets EXCEPT ![nextId] = r]
    /\ nextId' = nextId + 1
    /\ UNCHANGED <<protection, overridden, settings>>

(* An organization ruleset, or GitHub's own lag, decides what is in force. *)
Override ==
  \E b \in Branch :
    /\ overridden' = IF b \in overridden THEN overridden \ {b}
                     ELSE overridden \cup {b}
    /\ UNCHANGED <<protection, rulesets, nextId, settings>>

EditSetting ==
  \E s \in SettingField, v \in BOOLEAN : SetSettings({s}, [t \in {s} |-> v])

Edit ==
  /\ edits < MaxEdits
  /\ edits' = edits + 1
  /\ EditProtection \/ EditRuleset \/ AddRuleset \/ Override \/ EditSetting
=============================================================================
