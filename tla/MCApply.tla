--------------------------- MODULE MCApply ---------------------------
(* Instances of ApplyRun small enough to explore: "main" is under classic      *)
(* protection, "release" under a ruleset, and policy.yml no longer names       *)
(* "old".  A policy has two fields, the second with an endpoint of its own.    *)
EXTENDS ApplyProperties

MCBranch == {"main", "release", "old"}
MCField == {"rules", Signed}
MCBoth == <<"main", "release">>
MCMain == <<"main">>
MCEnforcement ==
  [b \in MCBranch |-> IF b = "main" THEN "branch_protection" ELSE "ruleset"]
MCStrict == [b \in MCBranch |-> TRUE]
MCManaged == [b \in MCBranch |-> FALSE]

(* "main" declares signatures only, "release" rules only. *)
MCDesired ==
  [b \in MCBranch |->
     [f \in MCField |-> IF (b = "main") = (f = Signed) THEN "on" ELSE None]]
MCDesiredAll == [b \in MCBranch |-> [f \in MCField |-> "on"]]

MCNoSettings == [s \in SettingField |-> None]
MCSettings ==
  [s \in SettingField |->
     IF s = "private_vulnerability_reporting" THEN FALSE ELSE TRUE]

-----------------------------------------------------------------------------
(* Repositories to start from.  Ruleset 1, if there is one, is release's; the  *)
(* next two are an orphan and a human's, in either order.                      *)

On(f) == [Nothing EXCEPT ![f] = "on"]
Bad == [Nothing EXCEPT !["rules"] = Unparsable]
Protections(policies) == {[policy |-> p, extra |-> x] : p \in policies, x \in Extra}
Owned(b, policies) ==
  {[name |-> b, policy |-> p, extra |-> x, canonical |-> c] :
     p \in policies, x \in Extra, c \in BOOLEAN}
Old == [name |-> "old", policy |-> Nothing, extra |-> NoExtra, canonical |-> TRUE]
Human == [name |-> Foreign, policy |-> Nothing, extra |-> "set", canonical |-> FALSE]

Listing(first, others) ==
  [id \in RulesetId |->
     IF id = 1 THEN first
     ELSE IF id <= 1 + Len(others) THEN others[id - 1] ELSE None]

Found0(mains, releases, others) ==
  /\ protection \in {[b \in MCBranch |-> IF b = "main" THEN p ELSE None] : p \in mains}
  /\ rulesets \in {Listing(r, o) : r \in releases, o \in others}
  /\ nextId = 4
  /\ overridden = {}

Policies == {Nothing, On("rules"), On(Signed)}
NoneSet == [s \in SettingField |-> FALSE]

(* Every way main and release can stand, one state the schema cannot read and  *)
(* a ruleset that is overridden among them.                                    *)
BranchInit ==
  /\ \/ Found0(Protections(Policies) \cup {None}, Owned("release", Policies) \cup {None},
               {<<Old, Human>>, <<Human, Old>>})
     \/ Found0(Protections({Bad}), Owned("release", {Nothing}), {<<Old, Human>>})
     \/ Found0({None}, Owned("release", {Bad}), {<<Old, Human>>})
     \/ /\ protection \in {[b \in MCBranch |-> IF b = "release" THEN p ELSE None] :
                             p \in Protections({Nothing}) \cup {None}}
        /\ rulesets = Listing([Old EXCEPT !.name = "release"], <<Old>>)
        /\ nextId = 3
        /\ overridden = {"release"}
  /\ settings = NoneSet
  /\ Init
BranchSpec == BranchInit /\ [][Next]_vars

(* A branch and a ruleset each in need of a change, for others to interfere.   *)
EditInit ==
  /\ Found0(Protections({On("rules")}), Owned("release", {On(Signed)}) \cup {None},
            {<<Old, Human>>})
  /\ settings = NoneSet
  /\ Init
EditSpec == EditInit /\ [][Next]_vars

(* Every combination of repository settings. *)
SettingsInit ==
  /\ Found0({None}, {None}, {<< >>})
  /\ settings \in [SettingField -> BOOLEAN]
  /\ Init
SettingsSpec == SettingsInit /\ [][Next]_vars

(* Two orphans to prune, a branch to protect and settings to change. *)
ReportInit ==
  /\ Found0({None}, {None}, {<<Old, [Old EXCEPT !.name = "release"]>>})
  /\ settings = NoneSet
  /\ Init
ReportSpec == ReportInit /\ [][Next]_vars

LiveInit ==
  /\ Found0(Protections({On("rules")}) \cup {None}, Owned("release", {On(Signed)}) \cup {None},
            {<<Old, Human>>})
  /\ settings \in {NoneSet, [NoneSet EXCEPT !["private_vulnerability_reporting"] = TRUE]}
  /\ Init
LiveSpec == LiveInit /\ [][Next]_vars /\ Fairness
=============================================================================
