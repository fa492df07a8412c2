------------------------- MODULE ApplyProperties -------------------------
(* What makes a run of repo-policy correct. *)
EXTENDS ApplyRun

(* Only a run's own steps, not those of others, are held to the properties.    *)
OwnStep == UNCHANGED edits

-----------------------------------------------------------------------------
(* A run changes GitHub only as apply, and only once every declared branch has *)
(* been read, resolved and diffed: a planning failure can never follow a write *)
(* to a branch (apply.py:250-256).                                             *)
PlansBeforeWriting ==
  [][OwnStep /\ repo' # repo
       => command = "apply" /\ \A b \in DeclaredSet : planned[b] # None]_vars

(* The journal follows policy.yml's order, one entry a branch, and tells the   *)
(* truth: what is applied took effect, what is verified was left alone, and    *)
(* nothing comes after a failure (apply.py:43-56, 287-302).                    *)
JournalIsTrue ==
  \A k \in 1 .. Len(journal) :
    LET e == journal[k] IN
    /\ k <= Len(Declared) => e.resource = <<"branch", Declared[k]>>
    /\ e.status = "applied" => e.resource \in changed
    /\ e.status \in {"verified", "unavailable"} => e.resource \notin changed
    /\ e.status = "failed" => k = Len(journal) /\ Idle /\ code = 3

Reported(r) == \E e \in printed : e.resource = r /\ e.status \in {"applied", "failed"}

(* Unless it is killed, apply says of every branch it changed that it changed  *)
(* it or failed on it, however it ends (apply.py:59-63, cli.py:308-320).       *)
BranchWritesAreReported ==
  Idle /\ code # None =>
    \A b \in Branch : <<"branch", b>> \in changed => Reported(<<"branch", b>>)

(* Exit code 0 means that the repository complies, whatever calls failed, were *)
(* retried or lost their replies, unless somebody changed it while it was      *)
(* being verified (cli.py:258-270, ARCHITECTURE.md:235-239).                   *)
ExitZeroMeansCompliant == Idle /\ code = 0 /\ ~disturbed => RepositoryComplies

(* After an exit 0 on a repository nobody touches, no run writes again:        *)
(* apply is idempotent (ARCHITECTURE.md:124-125).                              *)
CompliantIsLeftAlone == [][settled /\ OwnStep => changed' \subseteq changed]_vars

(* The run deletes a ruleset only in strict mode, and only one that was listed *)
(* under a repo-policy name no declared branch claims (apply.py:307-340).      *)
PrunesOnlyOrphans ==
  [][OwnStep => \A id \in RulesetId :
       rulesets[id] # None /\ rulesets'[id] = None
         => Strict /\ cache[id] \in Branch \ RulesetBranches]_vars

(* What belongs to nobody's policy is not touched: classic protection of a     *)
(* branch not declared under branch_protection, and a ruleset that has not, on *)
(* GitHub and at this moment, the name of a declared branch or, in strict mode *)
(* and to be deleted, the name of an undeclared one (ARCHITECTURE.md:169-178). *)
RulesetWrite(old, new) ==
  IF new = None THEN Strict /\ old \in Branch \ RulesetBranches
  ELSE new \in RulesetBranches /\ old \in {None, new}

OthersAreLeftAlone ==
  [][OwnStep =>
       /\ \A b \in Branch : protection'[b] # protection[b]
            => b \in DeclaredSet \ RulesetBranches
       /\ \A id \in RulesetId : rulesets'[id] # rulesets[id]
            => RulesetWrite(RulesetList[id], RulesetList'[id])]_vars

(* A write to a branch leaves the settings repo-policy does not model as they  *)
(* were on GitHub, and in managed scope the fields policy.yml does not declare *)
(* (ARCHITECTURE.md:169-175, docs/adrs/0003-*.md:22-23).                       *)
Kept(b, old, new) ==
  /\ new.extra = CurrentExtra(old)
  /\ \A f \in Field :
       Desired[b][f] = None /\ ~StrictBranch[b] => new.policy[f] = Current(old)[f]

UndeclaredIsKept ==
  [][OwnStep =>
       /\ \A b \in Branch :
            protection'[b] # protection[b] => Kept(b, protection[b], protection'[b])
       /\ \A id \in RulesetId :
            LET r == rulesets'[id] IN
            r # rulesets[id] /\ r # None => Kept(r.name, rulesets[id], r)]_vars

(* What is asked of GitHub next has what it needs: security fixes their        *)
(* alerts, by the order of the calls, and push protection secret scanning, in  *)
(* the same call or before (repo_settings.py:151-155, models.py:279-298).      *)
NeedsAreMet ==
  phase = "settings" /\ step = "call" =>
    \A g \in Group : NextGroup(g) => AcceptsSettings(Payload(g), DesiredSetting)

(* An apply that comes to an exit code of its own verdict has put right all    *)
(* that its calls can: what drift it still reports is out of its reach, and    *)
(* the next apply would find nothing to write (cli.py:364-371).                *)
ApplyDoesAllItCan == Idle /\ command = "apply" /\ code \in {0, 1} => Repaired

(* To whoever looks at the repository and the exit codes, plans, caches, journal *)
(* and retries are no more than this: every change puts something right that    *)
(* was wrong and touches nothing else, and every verdict is true.               *)
Verdict ==
  IF Running THEN IF command = "apply" THEN "applying" ELSE "auditing"
  ELSE CASE code = 0 -> "complies" [] code = 1 -> "drifts" [] code \in {2, 3} -> "failed"
         [] OTHER -> "none"

Promised == INSTANCE Promise WITH verdict <- Verdict

KeepsItsPromise == Promised!Spec

(* What is right stays right while runs repair the rest, whatever fails; and    *)
(* once all is done that can be, no run changes anything again, even where      *)
(* drift out of its reach has it exit 1 every time (apply.py:146-156, 333,      *)
(* cli.py:364-371).                                                             *)
RepairIsFinal ==
  [][OwnStep =>
       /\ \A b \in DeclaredSet : AsDeclared(b) => AsDeclared(b)'
       /\ Repaired => UNCHANGED repo]_vars

(* Every run ends. *)
RunsEnd == Running ~> Idle

(* Once calls stop failing and nobody interferes, applying again and again     *)
(* brings the repository to the declared policy and keeps it there: what       *)
(* earlier runs left half done does not stand in the way.                      *)
ReapplyingConverges == <>[]RepositoryComplies

-----------------------------------------------------------------------------
(* What the documents say and the code does not do. *)

(* "Line-by-line record of exactly what succeeded before a mutation failure"   *)
(* (README.md:34): of all that a run changed before it failed, only the change *)
(* whose own call failed may be missing from what it printed.                  *)
ChangesAreReported ==
  Idle /\ code # None =>
    \A r, q \in changed : Reported(r) \/ Reported(q) \/ r = q

(* "failed -- N change(s) not applied" (render.py:75).                         *)
FailedIsNotApplied ==
  \A e \in printed : e.status = "failed" => e.resource \notin changed
=============================================================================
