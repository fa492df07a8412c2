------------------------- MODULE JournalProofs -------------------------
(* For every policy and whatever fails: the journal tells the truth, and every  *)
(* branch that was changed is reported, however the run ends.                   *)
EXTENDS ApplyProofs

USE DEF outside, writing, found, history

BranchResource(b) == <<"branch", b>>
SettingResource(g) == <<"setting", g>>

Honest ==
  /\ JournalIsTrue
  /\ Running => \A k \in 1 .. Len(journal) : journal[k].status # "failed"

(* How far the journal has come. *)
Progress ==
  /\ phase = "preflight" => journal = << >> /\ changed = {}
  /\ phase = "mutate" => Len(journal) = at - 1
  /\ phase = "prune" => Len(journal) = Len(Declared)
  /\ phase = "settings" =>
       \A k \in 1 .. Len(journal) : k > Len(Declared) =>
         step = "call" /\ \E g \in Group \ TodoGroups : journal[k].resource = SettingResource(g)
  /\ phase = "settings" => Len(journal) >= Len(Declared)

(* What has been changed so far. *)
Footprint ==
  /\ phase = "mutate" =>
       \A b \in Branch : BranchResource(b) \in changed =>
         \E j \in 1 .. Len(Declared) :
           Declared[j] = b /\ (j < at \/ (j = at /\ step = "sign"))
  /\ phase = "mutate" /\ step = "sign" => Me \in changed
  /\ phase \in {"mutate", "prune"} => \A g \in Group : SettingResource(g) \notin changed
  /\ phase = "settings" =>
       \A g \in Group : SettingResource(g) \in changed => step = "call" /\ g \notin TodoGroups

JInv == Honest /\ Progress /\ Footprint

-----------------------------------------------------------------------------
(* Three ways for the journal to stay honest. *)

(* Nothing is journaled and nothing is changed. *)
LEMMA QuietHonest ==
  ASSUME Honest, UNCHANGED <<journal, changed>>, Running \/ UNCHANGED <<phase, code>>
  PROVE  Honest'
BY DEF Honest, JournalIsTrue, Running, Idle

(* Something is changed that no entry is about. *)
LEMMA GrownHonest ==
  ASSUME Honest, Running, UNCHANGED journal, NEW r \in Resource,
         changed' \in {changed, changed \cup {r}},
         \A k \in 1 .. Len(journal) : journal[k].resource # r
  PROVE  Honest'
BY DEF Honest, JournalIsTrue, Running, Idle

(* The entry of the resource at hand is added. *)
LEMMA AppendHonest ==
  ASSUME TypeOK, Honest, Running, NEW r \in Resource, NEW s \in Status,
         Journaled(r, s),
         changed' \in {changed, changed \cup {r}},
         \A k \in 1 .. Len(journal) : journal[k].resource # r,
         Len(journal) < Len(Declared)
           => r = BranchResource(Declared[Len(journal) + 1]),
         s = "applied" => r \in changed',
         s \in {"verified", "unavailable"} => r \notin changed',
         s = "failed" => phase' = "exited" /\ code' = 3
  PROVE  Honest'
<1> DEFINE e == [resource |-> r, status |-> s]
<1>1. journal \in Seq(JournalEntry) /\ e \in JournalEntry /\ Len(journal) \in Nat
  BY DEF TypeOK, JournalEntry
<1>2. /\ Len(journal') = Len(journal) + 1
      /\ \A k \in 1 .. Len(journal) : journal'[k] = journal[k]
      /\ journal'[Len(journal) + 1] = e
  BY <1>1, AppendProperties DEF Journaled
<1>3. \A k \in 1 .. Len(journal') : k \in 1 .. Len(journal) \/ k = Len(journal) + 1
  BY <1>1, <1>2
<1>4. ASSUME NEW k \in 1 .. Len(journal)
      PROVE  /\ journal[k].status # "failed"
             /\ k <= Len(Declared) => journal[k].resource = BranchResource(Declared[k])
             /\ journal[k].status = "applied" => journal[k].resource \in changed'
             /\ journal[k].status \in {"verified", "unavailable"}
                  => journal[k].resource \notin changed'
  BY <1>4 DEF Honest, JournalIsTrue, BranchResource
<1>5. JournalIsTrue'
  <2> SUFFICES ASSUME NEW k \in 1 .. Len(journal')
               PROVE  /\ k <= Len(Declared)
                           => journal'[k].resource = <<"branch", Declared[k]>>
                      /\ journal'[k].status = "applied" => journal'[k].resource \in changed'
                      /\ journal'[k].status \in {"verified", "unavailable"}
                           => journal'[k].resource \notin changed'
                      /\ journal'[k].status = "failed"
                           => k = Len(journal') /\ phase' = "exited" /\ code' = 3
    BY DEF JournalIsTrue, Idle
  <2>1. CASE k \in 1 .. Len(journal)
    BY <1>2, <1>4, <2>1 DEF BranchResource
  <2>2. CASE k = Len(journal) + 1
    BY <1>1, <1>2, <2>2, DeclaredType DEF BranchResource
  <2>. QED
    BY <1>3, <2>1, <2>2
<1>6. phase' # "exited" => \A k \in 1 .. Len(journal') : journal'[k].status # "failed"
  BY <1>2, <1>3, <1>4
<1>. QED
  BY <1>5, <1>6 DEF Honest, Running, Idle

LEMMA LandedForm ==
  ASSUME NEW o, NEW r, Landed(o, r)
  PROVE  changed' \in {changed, changed \cup {r}} /\ (o.landed > 0 => r \in changed')
BY DEF Landed

-----------------------------------------------------------------------------
(* The mutation loop. *)

LEMMA MutatingFacts ==
  ASSUME IInv, JInv, Mutating
  PROVE  /\ at \in 1 .. Len(Declared) /\ Len(journal) = at - 1
         /\ Running
         /\ Me \in Resource /\ Me = BranchResource(Declared[at])
         /\ Me = BranchResource(Declared[Len(journal) + 1])
         /\ \A k \in 1 .. Len(journal) : journal[k].resource # Me
         /\ step # "sign" => Me \notin changed
         /\ \A g \in Group : SettingResource(g) # Me
<1>1. at \in 1 .. Len(Declared) /\ Len(journal) = at - 1
  BY DeclaredType DEF IInv, TypeOK, JInv, Progress, Mutating
<1>2. Running
  BY DEF Mutating, Running, Idle
<1>3. Me \in Resource /\ Me = BranchResource(Declared[at]) /\ Target \in Branch
  BY TargetType DEF IInv, Me, BranchResource, Target
<1>4. ASSUME NEW k \in 1 .. Len(journal) PROVE journal[k].resource # Me
  <2>1. k \in 1 .. Len(Declared) /\ k # at
    BY <1>1, DeclaredType
  <2>2. Declared[k] # Declared[at]
    BY <1>1, <2>1, ConfigAssumption
  <2>3. journal[k].resource = BranchResource(Declared[k])
    BY <2>1 DEF JInv, Honest, JournalIsTrue, BranchResource
  <2>. QED
    BY <1>3, <2>2, <2>3 DEF BranchResource
<1>5. step # "sign" => Me \notin changed
  <2> SUFFICES ASSUME step # "sign", Me \in changed PROVE FALSE
    OBVIOUS
  <2>1. PICK j \in 1 .. Len(Declared) :
          Declared[j] = Target /\ (j < at \/ (j = at /\ step = "sign"))
    BY <1>3 DEF JInv, Footprint, Mutating, Me, BranchResource
  <2>2. j = at
    BY <1>1, <2>1, ConfigAssumption DEF Target
  <2>. QED
    BY <1>1, <2>1, <2>2
<1>6. \A g \in Group : SettingResource(g) # Me
  BY DEF SettingResource, Me
<1>7. at = Len(journal) + 1
  BY <1>1, DeclaredType
<1>. QED
  BY <1>1, <1>2, <1>3, <1>4, <1>5, <1>6, <1>7

(* The loop moves on: what it leaves behind is in the footprint. *)
LEMMA MovesOn ==
  ASSUME IInv, JInv, Mutating, NEW s \in Status, Journaled(Me, s), at' = NextBranch,
         phase' = phase, step' = "call", changed' \in {changed, changed \cup {Me}}
  PROVE  Progress' /\ Footprint'
<1>1. at \in 1 .. Len(Declared) /\ at' = at + 1 /\ phase' = "mutate"
  BY MutatingFacts DEF NextBranch, Mutating
<1>2. Len(journal') = at' - 1
  <2>1. journal \in Seq(JournalEntry) /\ [resource |-> Me, status |-> s] \in JournalEntry
    BY MutatingFacts DEF IInv, TypeOK, JournalEntry
  <2>2. Len(journal') = Len(journal) + 1
    BY <2>1, AppendProperties DEF Journaled
  <2>. QED
    BY <1>1, <2>2, MutatingFacts
<1>3. ASSUME NEW b \in Branch, BranchResource(b) \in changed'
      PROVE  \E j \in 1 .. Len(Declared) : Declared[j] = b /\ j < at'
  <2>1. CASE BranchResource(b) \in changed
    BY <1>1, <2>1, DeclaredType DEF JInv, Footprint, Mutating
  <2>2. CASE BranchResource(b) = Me
    BY <1>1, <2>2, DeclaredType DEF Me, Target, BranchResource
  <2>. QED
    BY <1>3, <2>1, <2>2
<1>4. \A g \in Group : SettingResource(g) \notin changed'
  BY MutatingFacts DEF JInv, Footprint, Mutating
<1>. QED
  BY <1>1, <1>2, <1>3, <1>4 DEF Progress, Footprint

LEMMA SkipJInv == IInv /\ JInv /\ SkipBranch => JInv'
<1> SUFFICES ASSUME IInv, JInv, SkipBranch PROVE JInv'
  OBVIOUS
<1>1. Mutating /\ step = "call" /\ Journaled(Me, "verified") /\ changed' = changed
  BY DEF SkipBranch
<1>2. Honest'
  BY <1>1, MutatingFacts, AppendHonest DEF IInv, JInv, Status
<1>3. Progress' /\ Footprint'
  BY <1>1, MovesOn DEF SkipBranch, Status
<1>. QED
  BY <1>2, <1>3 DEF JInv

LEMMA AnsweredJInv ==
  ASSUME IInv, JInv, Mutating, KeepInMutation, NEW o, Landed(o, Me),
         o.result = "ok" => o.landed > 0,
         \/ BranchAnswered(o)
         \/ o.result = "ok" /\ step' = "sign" /\ UNCHANGED <<journal, at, phase, code, printed>>
  PROVE  JInv'
<1>1. changed' \in {changed, changed \cup {Me}} /\ (o.result = "ok" => Me \in changed')
  BY LandedForm
<1>2. CASE o.result = "ok" /\ BranchApplied
  <2>1. Honest'
    BY <1>1, <1>2, MutatingFacts, AppendHonest DEF IInv, JInv, Status, BranchApplied
  <2>2. Progress' /\ Footprint'
    BY <1>1, <1>2, MovesOn DEF BranchApplied, Status
  <2>. QED
    BY <2>1, <2>2 DEF JInv
<1>3. CASE BranchFailed
  <2>1. phase' = "exited" /\ code' = 3
    BY <1>3 DEF BranchFailed, Exit
  <2>2. Honest'
    BY <1>1, <1>3, <2>1, MutatingFacts, AppendHonest DEF IInv, JInv, Status, BranchFailed
  <2>. QED
    BY <2>1, <2>2 DEF JInv, Progress, Footprint
<1>4. CASE o.result = "ok" /\ step' = "sign" /\ UNCHANGED <<journal, at, phase, code, printed>>
  <2>1. Honest'
    <3>1. /\ Honest /\ Running /\ Me \in Resource
          /\ \A k \in 1 .. Len(journal) : journal[k].resource # Me
      BY MutatingFacts DEF JInv
    <3>2. UNCHANGED journal /\ changed' \in {changed, changed \cup {Me}}
      BY <1>1, <1>4
    <3>. QED
      BY <3>1, <3>2, GrownHonest
  <2>2. Me' = Me
    BY <1>4 DEF Me, Target
  <2>3. Progress'
    BY <1>4 DEF JInv, Progress, Mutating
  <2>4. ASSUME NEW b \in Branch, BranchResource(b) \in changed'
        PROVE  \E j \in 1 .. Len(Declared) :
                 Declared[j] = b /\ (j < at' \/ (j = at' /\ step' = "sign"))
    <3>1. CASE BranchResource(b) \in changed
      BY <1>4, <3>1 DEF JInv, Footprint, Mutating
    <3>2. CASE BranchResource(b) = Me
      BY <1>4, <3>2, MutatingFacts DEF BranchResource
    <3>. QED
      BY <1>1, <2>4, <3>1, <3>2
  <2>5. \A g \in Group : SettingResource(g) \notin changed'
    BY <1>1, MutatingFacts DEF JInv, Footprint, Mutating
  <2>6. Footprint'
    BY <1>1, <1>4, <2>2, <2>4, <2>5 DEF Footprint, Mutating
  <2>. QED
    BY <2>1, <2>3, <2>6 DEF JInv
<1>. QED
  BY <1>2, <1>3, <1>4 DEF BranchAnswered

LEMMA BranchJInv ==
  IInv /\ JInv /\ (PutBranch \/ SignBranch \/ CreateBranchRuleset \/ UpdateBranchRuleset)
    => JInv'
<1> SUFFICES ASSUME IInv, JInv,
                    PutBranch \/ SignBranch \/ CreateBranchRuleset \/ UpdateBranchRuleset
             PROVE  JInv'
  OBVIOUS
<1> DEFINE Called(c, accepted) ==
             \E o \in Outcomes(c, accepted) :
               /\ Landed(o, Me)
               /\ \/ BranchAnswered(o)
                  \/ /\ o.result = "ok" /\ step' = "sign"
                     /\ UNCHANGED <<journal, at, phase, code, printed>>
<1>1. Mutating /\ KeepInMutation
  BY DEF PutBranch, SignBranch, CreateBranchRuleset, UpdateBranchRuleset
<1>2. ASSUME NEW c, c \notin Reads, NEW accepted \in BOOLEAN, Called(c, accepted)
      PROVE  JInv'
  <2>1. PICK o \in Outcomes(c, accepted) :
               /\ Landed(o, Me)
               /\ \/ BranchAnswered(o)
                  \/ /\ o.result = "ok" /\ step' = "sign"
                     /\ UNCHANGED <<journal, at, phase, code, printed>>
    BY <1>2
  <2>2. o.result = "ok" => o.landed > 0
    BY <1>2, OkLands
  <2>. QED
    BY <1>1, <2>1, <2>2, AnsweredJInv
<1>3. CASE PutBranch
  <2>1. Called("put_branch_protection", TRUE)
    BY <1>3 DEF PutBranch
  <2>. QED
    BY <1>2, <2>1 DEF Reads
<1>4. CASE SignBranch
  <2>1. Called("set_required_signatures", protection[Target] # None)
    BY <1>4 DEF SignBranch
  <2>. QED
    BY <1>2, <2>1 DEF Reads
<1>5. CASE CreateBranchRuleset
  <2>1. Called("create_ruleset", TRUE)
    BY <1>5 DEF CreateBranchRuleset
  <2>. QED
    BY <1>2, <2>1 DEF Reads
<1>6. CASE UpdateBranchRuleset
  <2>1. Called("update_ruleset", ~Gone(Plan.id))
    BY <1>6 DEF UpdateBranchRuleset
  <2>. QED
    BY <1>2, <2>1 DEF Reads
<1>. QED
  BY <1>3, <1>4, <1>5, <1>6

-----------------------------------------------------------------------------
(* Pruning, settings, verification and the ends of a run. *)

LEMMA PruneOneJInv == IInv /\ JInv /\ PruneOne => JInv'
<1> SUFFICES ASSUME IInv, JInv, PruneOne PROVE JInv'
  OBVIOUS
<1>1. PICK id \in toPrune : \E o : Landed(o, <<"ruleset", id>>)
  BY DEF PruneOne
<1> DEFINE r == <<"ruleset", id>>
<1>2. phase = "prune" /\ phase' \in {phase, "exited"} /\ UNCHANGED <<journal, step>>
  BY DEF PruneOne, Exit
<1>3. changed' \in {changed, changed \cup {r}}
  BY <1>1, LandedForm
<1>4. \A k \in 1 .. Len(journal) : journal[k].resource # r
  BY <1>2 DEF JInv, Progress, Honest, JournalIsTrue
<1>5. Honest'
  <2>1. Honest /\ Running /\ UNCHANGED journal /\ r \in Resource
    BY <1>2 DEF JInv, Running, Idle, Resource, IInv, TypeOK
  <2>. QED
    BY <1>3, <1>4, <2>1, GrownHonest
<1>6. Progress' /\ Footprint'
  BY <1>2, <1>3 DEF JInv, Progress, Footprint, SettingResource
<1>. QED
  BY <1>5, <1>6 DEF JInv

LEMMA TodoGroupsType == todo \in SUBSET DeclaredSettings => TodoGroups \subseteq Group
BY DEF TodoGroups, DeclaredSettings, GroupOf, Group, SettingField, Flat,
       SecurityAndAnalysis, ToggleSetting

(* A call takes all that is left of its group. *)
LEMMA PayloadGone == ASSUME NEW g, todo' = todo \ Payload(g)
                     PROVE  TodoGroups' = TodoGroups \ {g}
BY DEF TodoGroups, Payload

(* A setting waiting to be mutated has neither an entry nor been changed. *)
LEMMA TodoFacts ==
  ASSUME IInv, JInv, phase = "settings", step = "call", NEW g \in TodoGroups
  PROVE  /\ Running /\ g \in Group
         /\ SettingResource(g) \in Resource /\ SettingResource(g) \notin changed
         /\ \A k \in 1 .. Len(journal) : journal[k].resource # SettingResource(g)
<1>1. g \in Group
  BY TodoGroupsType DEF IInv, TypeOK
<1>2. SettingResource(g) \in Resource /\ SettingResource(g) \notin changed
  BY <1>1 DEF SettingResource, Resource, JInv, Footprint
<1>3. ASSUME NEW k \in 1 .. Len(journal) PROVE journal[k].resource # SettingResource(g)
  <2>1. CASE k <= Len(Declared)
    BY <2>1 DEF JInv, Honest, JournalIsTrue, SettingResource
  <2>2. CASE k > Len(Declared)
    BY <2>2 DEF JInv, Progress, SettingResource
  <2>. QED
    BY <2>1, <2>2, DeclaredType
<1>. QED
  BY <1>1, <1>2, <1>3 DEF Running, Idle

LEMMA SettingDoneJInv ==
  ASSUME IInv, JInv, phase = "settings", step = "call", KeepInSettings, NEW g \in TodoGroups,
         NEW s \in {"applied", "unavailable"}, SettingDone(g, s),
         changed' \in {changed, changed \cup {SettingResource(g)}},
         s = "applied" => SettingResource(g) \in changed',
         s = "unavailable" => changed' = changed
  PROVE  JInv'
<1>1. Journaled(SettingResource(g), s) /\ phase' = phase /\ step' = step
      /\ TodoGroups' = TodoGroups \ {g}
  BY PayloadGone DEF SettingDone, SettingResource, KeepInSettings
<1>2. journal \in Seq(JournalEntry) /\ Len(journal) \in Nat
      /\ [resource |-> SettingResource(g), status |-> s] \in JournalEntry
  BY TodoFacts DEF IInv, TypeOK, JournalEntry, Status
<1>3. /\ Len(journal') = Len(journal) + 1
      /\ \A k \in 1 .. Len(journal) : journal'[k] = journal[k]
      /\ journal'[Len(journal) + 1].resource = SettingResource(g)
  BY <1>1, <1>2, AppendProperties DEF Journaled
<1>4. Len(journal) >= Len(Declared)
  BY DEF JInv, Progress
<1>5. Honest'
  <2>1. ~(Len(journal) < Len(Declared))
    BY <1>2, <1>4, DeclaredType
  <2>2. TypeOK /\ Honest /\ SettingResource(g) \in Resource /\ Running
        /\ SettingResource(g) \notin changed /\ s \in Status
        /\ \A k \in 1 .. Len(journal) : journal[k].resource # SettingResource(g)
    BY TodoFacts DEF IInv, JInv, Status
  <2>. QED
    BY <1>1, <2>1, <2>2, AppendHonest
<1>6. ASSUME NEW k \in 1 .. Len(journal'), k > Len(Declared)
      PROVE  \E h \in Group \ TodoGroups' : journal'[k].resource = SettingResource(h)
  <2>1. CASE k = Len(journal) + 1
    BY <1>1, <1>3, <2>1, TodoFacts
  <2>2. CASE k \in 1 .. Len(journal)
    BY <1>1, <1>3, <1>6, <2>2 DEF JInv, Progress
  <2>. QED
    BY <1>2, <1>3, <2>1, <2>2
<1>7. Progress'
  BY <1>1, <1>2, <1>3, <1>4, <1>6, DeclaredType DEF Progress
<1>8. Footprint'
  <2>1. \A h \in Group : SettingResource(h) \in changed' => h = g \/ SettingResource(h) \in changed
    BY DEF SettingResource
  <2>. QED
    BY <1>1, <2>1 DEF JInv, Footprint
<1>. QED
  BY <1>5, <1>7, <1>8 DEF JInv

LEMMA SettingFailedJInv ==
  ASSUME IInv, JInv, phase = "settings", step = "call", NEW g \in TodoGroups,
         SettingFailed(g), changed' \in {changed, changed \cup {SettingResource(g)}}
  PROVE  JInv'
<1>1. Journaled(SettingResource(g), "failed") /\ phase' = "exited" /\ code' = 3
  BY DEF SettingFailed, SettingResource, Exit
<1>2. ~(Len(journal) < Len(Declared))
  BY DeclaredType DEF JInv, Progress, IInv, TypeOK
<1>3. TypeOK /\ Honest /\ SettingResource(g) \in Resource /\ Running
      /\ "failed" \in Status
      /\ \A k \in 1 .. Len(journal) : journal[k].resource # SettingResource(g)
  BY TodoFacts DEF IInv, JInv, Status
<1>4. Honest'
  BY <1>1, <1>2, <1>3, AppendHonest
<1>. QED
  BY <1>1, <1>4 DEF JInv, Progress, Footprint

LEMMA MutateSettingJInv == IInv /\ JInv /\ MutateSetting => JInv'
<1> SUFFICES ASSUME IInv, JInv, MutateSetting PROVE JInv'
  OBVIOUS
<1>1. PICK g \in Group : NextGroup(g) /\
        \E o \in Outcomes(SettingCall(g), Accepted(g)) :
          /\ Landed(o, <<"setting", g>>)
          /\ IF o.result = "ok" THEN SettingDone(g, "applied") ELSE SettingFailed(g)
  BY DEF MutateSetting
<1>2. PICK o \in Outcomes(SettingCall(g), Accepted(g)) :
          /\ Landed(o, SettingResource(g))
          /\ IF o.result = "ok" THEN SettingDone(g, "applied") ELSE SettingFailed(g)
  BY <1>1 DEF SettingResource
<1>3. Accepted(g) \in BOOLEAN
  BY DEF Accepted, AcceptsSettings
<1>4. /\ changed' \in {changed, changed \cup {SettingResource(g)}}
      /\ o.result = "ok" => SettingResource(g) \in changed'
  BY <1>2, <1>3, OkLands, LandedForm, SettingCallWrites
<1>5. g \in TodoGroups /\ phase = "settings" /\ step = "call" /\ KeepInSettings
  BY <1>1 DEF NextGroup, MutateSetting
<1>6. CASE o.result = "ok"
  BY <1>2, <1>4, <1>5, <1>6, SettingDoneJInv
<1>7. CASE o.result # "ok"
  BY <1>2, <1>4, <1>5, <1>7, SettingFailedJInv
<1>. QED
  BY <1>6, <1>7

LEMMA UnavailableJInv == IInv /\ JInv /\ SettingUnavailable => JInv'
<1> SUFFICES ASSUME IInv, JInv, SettingUnavailable PROVE JInv'
  OBVIOUS
<1>1. PICK g \in Group :
        NextGroup(g) /\ (SettingDone(g, "unavailable") \/ SettingFailed(g))
  BY DEF SettingUnavailable, Status422
<1>2. g \in TodoGroups /\ phase = "settings" /\ step = "call" /\ KeepInSettings
      /\ changed' = changed
  BY <1>1 DEF NextGroup, SettingUnavailable
<1>. QED
  BY <1>1, <1>2, SettingDoneJInv, SettingFailedJInv

LEMMA KilledJInv == IInv /\ JInv /\ Killed => JInv'
<1> SUFFICES ASSUME IInv, JInv, Killed PROVE JInv'
  OBVIOUS
<1>1. Running /\ phase' = "exited" /\ UNCHANGED journal
  BY DEF Killed, Exit
<1>2. Honest'
  <2>1. CASE UNCHANGED <<repo, changed>>
    BY <1>1, <2>1, QuietHonest DEF JInv
  <2>2. CASE Mutating /\ changed' = changed \cup {Me}
    BY <1>1, <2>2, MutatingFacts, GrownHonest DEF JInv
  <2>3. CASE phase = "prune" /\ \E id \in toPrune : changed' = changed \cup {<<"ruleset", id>>}
    <3>1. PICK id \in toPrune : changed' = changed \cup {<<"ruleset", id>>}
      BY <2>3
    <3>2. \A k \in 1 .. Len(journal) : journal[k].resource # <<"ruleset", id>>
      BY <2>3 DEF JInv, Progress, Honest, JournalIsTrue
    <3>3. <<"ruleset", id>> \in Resource
      BY DEF Resource, IInv, TypeOK
    <3>. QED
      BY <1>1, <3>1, <3>2, <3>3, GrownHonest DEF JInv
  <2>4. CASE /\ phase = "settings" /\ step = "call"
             /\ \E g \in Group : NextGroup(g) /\ changed' = changed \cup {<<"setting", g>>}
    <3>1. PICK g \in TodoGroups : changed' = changed \cup {SettingResource(g)}
      BY <2>4 DEF NextGroup, SettingResource
    <3>. QED
      BY <1>1, <2>4, <3>1, TodoFacts, GrownHonest DEF JInv
  <2>. QED
    BY <2>1, <2>2, <2>3, <2>4 DEF Killed, InFlightLands
<1>. QED
  BY <1>1, <1>2 DEF JInv, Progress, Footprint

(* The steps that journal and change nothing. *)
LEMMA QuietJInv ==
  ASSUME IInv, JInv,
         \/ PrefetchRulesets \/ DetectStale \/ PlanBranch \/ PlanBranchFails
         \/ EndPlanning \/ EndMutation \/ EndPrune \/ PlanSettings \/ EnterVerify
         \/ EndVerify \/ ReadFails \/ Others \/ UNCHANGED vars
  PROVE  JInv'
<1>1. UNCHANGED <<journal, changed>> /\ (Running \/ UNCHANGED <<phase, code>>)
  BY DEF PrefetchRulesets, DetectStale, PlanBranch, PlanBranchFails, EndPlanning,
     EndMutation, EndPrune, PlanSettings, EnterVerify, EndVerify, ReadFails, Others,
     vars, local, Planning, Running, Idle
<1>2. Honest'
  BY <1>1, QuietHonest DEF JInv
<1>3. Progress' /\ Footprint'
  <2>1. CASE PrefetchRulesets \/ DetectStale \/ PlanBranch
    BY <1>1, <2>1 DEF PrefetchRulesets, DetectStale, PlanBranch, Planning, JInv,
       Progress, Footprint
  <2>2. CASE PlanBranchFails \/ EnterVerify \/ EndVerify \/ ReadFails
    BY <2>2 DEF PlanBranchFails, EnterVerify, EndVerify, ReadFails, Exit, Progress,
       Footprint
  <2>3. CASE EndPlanning
    BY <1>1, <2>3 DEF EndPlanning, Planning, JInv, Progress, Footprint
  <2>4. CASE EndMutation
    <3>1. Len(journal) = Len(Declared)
      BY <2>4, DeclaredType DEF EndMutation, JInv, Progress
    <3>. QED
      BY <1>1, <2>4, <3>1, DeclaredType DEF EndMutation, JInv, Progress, Footprint
  <2>5. CASE EndPrune
    BY <1>1, <2>5, DeclaredType DEF EndPrune, JInv, Progress, Footprint
  <2>6. CASE PlanSettings
    BY <1>1, <2>6 DEF PlanSettings, JInv, Progress, Footprint
  <2>7. CASE Others \/ UNCHANGED vars
    BY <2>7 DEF Others, vars, local, JInv, Progress, Footprint, Me, Target, TodoGroups
  <2>. QED
    BY <2>1, <2>2, <2>3, <2>4, <2>5, <2>6, <2>7
<1>. QED
  BY <1>2, <1>3 DEF JInv

LEMMA StartJInv ==
  ASSUME IInv, NEW cmd \in {"check", "apply"}, Start(cmd) PROVE JInv'
BY DEF Start, JInv, Honest, JournalIsTrue, Progress, Footprint

LEMMA InitJInv == Init => JInv
BY DEF Init, JInv, Honest, JournalIsTrue, Progress, Footprint

LEMMA NextJInv == IInv /\ JInv /\ [Next]_vars => JInv'
BY SkipJInv, BranchJInv, PruneOneJInv, MutateSettingJInv, UnavailableJInv, KilledJInv,
   QuietJInv, StartJInv DEF Next, Work

LEMMA SpecJInv == Spec => [](IInv /\ JInv)
BY InitIInv, NextIInv, InitJInv, NextJInv, PTL DEF Spec

(* The journal of apply_all and apply_repo_settings tells the truth, whatever  *)
(* fails: applied took effect, verified and unavailable were left alone, a     *)
(* failure is last and ends the run with exit code 3.                           *)
THEOREM JournalTellsTheTruth == Spec => []JournalIsTrue
<1>1. JInv => JournalIsTrue
  BY DEF JInv, Honest
<1>. QED
  BY <1>1, SpecJInv, PTL

-----------------------------------------------------------------------------
(* The report: what is printed covers every branch that was changed. *)

Covered ==
  \A b \in Branch : BranchResource(b) \in changed => Reported(BranchResource(b))

RInv ==
  /\ phase \in {"prune", "settings", "verify"} => Covered
  /\ BranchWritesAreReported

LEMMA CoveredReports == Covered => BranchWritesAreReported
BY DEF Covered, BranchWritesAreReported, BranchResource

(* Printing more, and changing no further branch, keeps the report complete. *)
LEMMA CoveredGrows ==
  ASSUME Covered, printed \subseteq printed',
         \A b \in Branch : BranchResource(b) \in changed' => BranchResource(b) \in changed
  PROVE  RInv'
<1>1. Covered'
  BY DEF Covered, Reported
<1>. QED
  BY <1>1 DEF RInv, Covered, BranchWritesAreReported, BranchResource

(* A branch the loop has passed and changed is journaled as applied. *)
LEMMA PassedIsJournaled ==
  ASSUME IInv, JInv, phase = "mutate",
         NEW b \in Branch, BranchResource(b) \in changed,
         NEW j \in 1 .. Len(Declared), j < at, Declared[j] = b
  PROVE  \E e \in Entries : e.resource = BranchResource(b) /\ e.status = "applied"
<1>1. Len(journal) = at - 1 /\ j \in 1 .. Len(journal)
  BY DeclaredType DEF JInv, Progress, IInv, TypeOK
<1>2. journal[j].resource = BranchResource(b)
  BY <1>1 DEF JInv, Honest, JournalIsTrue, BranchResource
<1>3. journal[j].status \in Status
  <2>1. journal \in Seq(JournalEntry)
    BY DEF IInv, TypeOK
  <2>2. journal[j] \in JournalEntry
    BY <1>1, <2>1
  <2>. QED
    BY <2>2 DEF JournalEntry
<1>4. journal[j].status \notin {"verified", "unavailable", "failed"}
  BY <1>1, <1>2 DEF JInv, Honest, JournalIsTrue, Running, Idle
<1>5. journal[j] \in Entries
  BY <1>1 DEF Entries
<1>. QED
  BY <1>2, <1>3, <1>4, <1>5 DEF Status

(* A branch that fails is printed as failed, the ones before it as journaled. *)
LEMMA FailedRInv ==
  ASSUME IInv, JInv, Mutating, BranchFailed, changed' \in {changed, changed \cup {Me}}
  PROVE  RInv'
<1>1. phase' = "exited" /\ printed' = Entries \cup {[resource |-> Me, status |-> "failed"]}
  BY DEF BranchFailed, Exit
<1>2. ASSUME NEW b \in Branch, BranchResource(b) \in changed'
      PROVE  \E e \in printed' : e.resource = BranchResource(b)
                                 /\ e.status \in {"applied", "failed"}
  <2>1. CASE BranchResource(b) = Me
    <3> DEFINE e == [resource |-> Me, status |-> "failed"]
    <3>1. e \in printed' /\ e.resource = BranchResource(b) /\ e.status = "failed"
      BY <1>1, <2>1
    <3>. QED
      BY <3>1
  <2>2. CASE BranchResource(b) # Me
    <3>1. BranchResource(b) \in changed
      BY <1>2, <2>2
    <3>2. PICK j \in 1 .. Len(Declared) : Declared[j] = b /\ (j < at \/ j = at)
      BY <3>1 DEF JInv, Footprint, Mutating
    <3>3. j < at
      BY <2>2, <3>2 DEF Me, Target, BranchResource
    <3>4. \E e \in Entries : e.resource = BranchResource(b) /\ e.status = "applied"
      BY <3>1, <3>2, <3>3, PassedIsJournaled DEF Mutating
    <3>. QED
      BY <1>1, <3>4
  <2>. QED
    BY <2>1, <2>2
<1>3. Covered'
  BY <1>2 DEF Covered, Reported, BranchResource
<1>. QED
  BY <1>1, <1>3 DEF RInv, Covered, BranchWritesAreReported, BranchResource

(* The mutation loop goes on: nothing is promised yet. *)
LEMMA LoopRInv == ASSUME phase' = "mutate" PROVE RInv'
BY DEF RInv, BranchWritesAreReported, Idle

LEMMA AnsweredRInv ==
  ASSUME IInv, JInv, Mutating, NEW o, Landed(o, Me),
         \/ BranchAnswered(o)
         \/ UNCHANGED phase
  PROVE  RInv'
<1>1. CASE BranchFailed
  BY <1>1, LandedForm, FailedRInv
<1>2. CASE UNCHANGED phase \/ BranchApplied
  BY <1>2, LoopRInv DEF BranchApplied, Mutating
<1>. QED
  BY <1>1, <1>2 DEF BranchAnswered

LEMMA BranchRInv ==
  IInv /\ JInv /\ (PutBranch \/ SignBranch \/ CreateBranchRuleset \/ UpdateBranchRuleset)
    => RInv'
<1> SUFFICES ASSUME IInv, JInv,
                    PutBranch \/ SignBranch \/ CreateBranchRuleset \/ UpdateBranchRuleset
             PROVE  RInv'
  OBVIOUS
<1>1. Mutating
  BY DEF PutBranch, SignBranch, CreateBranchRuleset, UpdateBranchRuleset
<1>2. \E o : Landed(o, Me) /\ (BranchAnswered(o) \/ UNCHANGED phase)
  <2>1. CASE PutBranch
    BY <2>1 DEF PutBranch
  <2>2. CASE SignBranch
    BY <2>2 DEF SignBranch
  <2>3. CASE CreateBranchRuleset
    BY <2>3 DEF CreateBranchRuleset
  <2>4. CASE UpdateBranchRuleset
    BY <2>4 DEF UpdateBranchRuleset
  <2>. QED
    BY <2>1, <2>2, <2>3, <2>4
<1>. QED
  BY <1>1, <1>2, AnsweredRInv

(* When the loop ends the journal is printed, and it names every changed branch. *)
LEMMA EndMutationRInv == IInv /\ JInv /\ EndMutation => RInv'
<1> SUFFICES ASSUME IInv, JInv, EndMutation PROVE RInv'
  OBVIOUS
<1>1. /\ phase = "mutate" /\ at = Len(Declared) + 1 /\ printed' = Entries
      /\ changed' = changed /\ phase' # "exited"
  BY DEF EndMutation, JournalPrinted
<1>2. ASSUME NEW b \in Branch, BranchResource(b) \in changed
      PROVE  \E e \in Entries : e.resource = BranchResource(b) /\ e.status = "applied"
  <2>1. PICK j \in 1 .. Len(Declared) : Declared[j] = b
    BY <1>1, <1>2 DEF JInv, Footprint
  <2>2. j < at
    BY <1>1, DeclaredType
  <2>. QED
    BY <1>1, <1>2, <2>1, <2>2, PassedIsJournaled
<1>3. Covered'
  BY <1>1, <1>2 DEF Covered, Reported, BranchResource
<1>. QED
  BY <1>1, <1>3 DEF RInv, BranchWritesAreReported, Idle

(* Pruning, the settings and verification change no branch and unprint nothing. *)
LEMMA LaterRInv ==
  IInv /\ JInv /\ RInv
    /\ (PruneOne \/ EndPrune \/ PlanSettings \/ MutateSetting \/ SettingUnavailable
          \/ EnterVerify)
    => RInv'
<1> SUFFICES ASSUME RInv, PruneOne \/ EndPrune \/ PlanSettings \/ MutateSetting
                            \/ SettingUnavailable \/ EnterVerify
             PROVE  RInv'
  OBVIOUS
<1>1. Covered
  BY DEF RInv, PruneOne, EndPrune, PlanSettings, MutateSetting, SettingUnavailable,
     EnterVerify
<1>2. printed \subseteq printed'
  <2>1. CASE MutateSetting \/ SettingUnavailable
    BY <2>1 DEF MutateSetting, SettingUnavailable, SettingDone, SettingFailed
  <2>. QED
    BY <2>1 DEF PruneOne, EndPrune, PlanSettings, EnterVerify
<1>3. ASSUME NEW b \in Branch, BranchResource(b) \in changed'
      PROVE  BranchResource(b) \in changed
  <2>1. CASE PruneOne
    BY <1>3, <2>1 DEF PruneOne, Landed, BranchResource
  <2>2. CASE MutateSetting
    BY <1>3, <2>2 DEF MutateSetting, Landed, BranchResource
  <2>. QED
    BY <1>3, <2>1, <2>2 DEF EndPrune, PlanSettings, SettingUnavailable, EnterVerify
<1>. QED
  BY <1>1, <1>2, <1>3, CoveredGrows

(* Reading and planning change nothing; before the loop nothing is changed yet. *)
LEMMA ReadingRInv ==
  IInv /\ JInv /\ RInv
    /\ (PrefetchRulesets \/ DetectStale \/ PlanBranch \/ PlanBranchFails \/ EndPlanning
          \/ ReadFails \/ EndVerify)
    => RInv'
<1> SUFFICES ASSUME JInv, RInv,
                    PrefetchRulesets \/ DetectStale \/ PlanBranch \/ PlanBranchFails
                      \/ EndPlanning \/ ReadFails \/ EndVerify
             PROVE  RInv'
  OBVIOUS
<1>1. UNCHANGED changed /\ printed \subseteq printed'
  BY DEF PrefetchRulesets, DetectStale, PlanBranch, PlanBranchFails, EndPlanning,
     ReadFails, EndVerify
<1>2. phase \in {"preflight", "settings", "verify"}
  BY DEF PrefetchRulesets, DetectStale, PlanBranch, PlanBranchFails, EndPlanning,
     ReadFails, EndVerify, Planning, Reading
<1>3. Covered
  BY <1>2 DEF RInv, JInv, Progress, Covered
<1>. QED
  BY <1>1, <1>3, CoveredGrows

LEMMA NextRInv == IInv /\ JInv /\ RInv /\ [Next]_vars => RInv'
<1> SUFFICES ASSUME IInv, JInv, RInv, [Next]_vars PROVE RInv'
  OBVIOUS
<1>1. CASE SkipBranch
  BY <1>1, LoopRInv DEF SkipBranch, Mutating
<1>2. CASE Killed
  BY <1>2 DEF Killed, Exit, RInv, BranchWritesAreReported
<1>3. ASSUME NEW cmd \in {"check", "apply"}, Start(cmd) PROVE RInv'
  BY <1>3 DEF Start, RInv, Covered, BranchWritesAreReported, Idle
<1>4. CASE Others \/ UNCHANGED vars
  BY <1>4 DEF Others, vars, local, RInv, Covered, BranchWritesAreReported, Reported, Idle
<1>. QED
  BY <1>1, <1>2, <1>3, <1>4, BranchRInv, EndMutationRInv, LaterRInv, ReadingRInv
     DEF Next, Work

(* Unless the process is killed, apply reports every branch it changed, as     *)
(* applied or as failed, however the run ends.                                 *)
THEOREM BranchesAreReported == Spec => []BranchWritesAreReported
<1>1. Init => RInv
  BY DEF Init, RInv, BranchWritesAreReported, Idle
<1>2. RInv => BranchWritesAreReported
  BY DEF RInv
<1>. QED
  BY <1>1, <1>2, NextRInv, SpecJInv, PTL DEF Spec

=============================================================================
