--------------------------- MODULE Promise ---------------------------
(* What repo-policy promises about a repository nobody else edits meanwhile,    *)
(* whatever calls fail and whenever it is killed: it moves only what is not as  *)
(* policy.yml says, only to what policy.yml says, and its verdict is true.      *)
(* There are no plans, lists or journals here: every step is judged by the      *)
(* repository alone.                                                            *)
EXTENDS Compliance

VARIABLE verdict    \* of the last run; "auditing" or "applying" until it has one

Open == {"auditing", "applying"}
Cut == {"failed", "none"}       \* an error, or no verdict at all

(* Every field is as it was, or has been put right. *)
Towards(b, old, new) ==
  /\ new.extra = CurrentExtra(old)
  /\ \A f \in Field :
       \/ new.policy[f] = Current(old)[f]
       \/ Meets(b, f, new.policy[f]) /\ ~Meets(b, f, Current(old)[f])

Protect ==
  \E b \in DeclaredSet \ RulesetBranches, new \in Protection :
    /\ ~AsDeclared(b)
    /\ Towards(b, protection[b], new)
    /\ protection' = [protection EXCEPT ![b] = new]
    /\ UNCHANGED <<rulesets, nextId, overridden, settings>>

(* A ruleset is put right at once; a new one has a name nobody bears. *)
Rule ==
  \E b \in RulesetBranches, id \in RulesetId, new \in Ruleset :
    /\ ~AsDeclared(b)
    /\ \/ id \in Named(b) /\ nextId' = nextId
       \/ Named(b) = {} /\ rulesets[id] = None /\ id = nextId /\ nextId' = nextId + 1
    /\ new.name = b /\ new.canonical
    /\ Towards(b, rulesets[id], new) /\ Satisfies(b, new.policy)
    /\ rulesets' = [rulesets EXCEPT ![id] = new]
    /\ UNCHANGED <<protection, overridden, settings>>

Prune ==
  \E id \in RulesetId :
    /\ Strict /\ RulesetList[id] \in Branch \ RulesetBranches
    /\ DeleteRuleset(id)

(* A setting is put right, or goes with the one it needs.                       *)
Switch ==
  /\ \E new \in [SettingField -> BOOLEAN] :
       /\ \A s \in SettingField :
            \/ new[s] = settings[s]
            \/ s \in DeclaredSettings /\ ~OutOfReach(s) /\ new[s] = DesiredSetting[s]
            \/ s \in DOMAIN Needs /\ ~new[s] /\ settings[Needs[s]] /\ ~new[Needs[s]]
       /\ settings' = new
  /\ UNCHANGED <<protection, rulesets, nextId, overridden>>

-----------------------------------------------------------------------------
Begin == verdict \notin Open /\ verdict' \in Open /\ UNCHANGED repo

(* The call that fails or is in flight when the process dies may have worked. *)
Write ==
  /\ verdict = "applying" /\ verdict' \in {"applying"} \cup Cut
  /\ Protect \/ Rule \/ Prune \/ Switch

GiveUp == verdict \in Open /\ verdict' \in Cut /\ UNCHANGED repo

(* An apply that comes to its verdict has left nothing undone that it can do. *)
Judge ==
  /\ verdict \in Open
  /\ verdict' = IF RepositoryComplies THEN "complies" ELSE "drifts"
  /\ verdict = "applying" => Repaired
  /\ UNCHANGED repo

Init == NoDuplicateRulesets /\ verdict = "none"
Next == Begin \/ Write \/ GiveUp \/ Judge
Spec == Init /\ [][Next]_<<repo, verdict>>
=============================================================================
