--------------------------- MODULE OneCall ---------------------------
(* What a method of GitHubClient promises whoever calls it: the call ends once, *)
(* in a way its contract allows, and what it did to GitHub is then final.       *)
(* Meanwhile the repository may be renamed.                                     *)
EXTENDS Calls

VARIABLES call, moved, outcome

Init == call \in Call /\ moved \in BOOLEAN /\ outcome = Pending

Rename ==
  /\ moved' = TRUE
  /\ UNCHANGED <<call, outcome>>

Finish ==
  /\ outcome = Pending
  /\ outcome' \in Contract(call, moved)
  /\ UNCHANGED <<call, moved>>

Next == Rename \/ Finish

Spec == Init /\ [][Next]_<<call, moved, outcome>>
=============================================================================
