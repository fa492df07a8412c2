------------------------- MODULE RequestProofs -------------------------
(* For every retry budget: a call is one step of OneCall, and a ruleset is     *)
(* created at most once however often replies are lost.                        *)
EXTENDS Request, TLAPS

(* What the loop has done to GitHub at each point of an attempt. *)
Accounting ==
  /\ call \in Reads => landed = 0
  /\ pc = "send" => landed <= attempt
  /\ landed <= attempt + 1
  /\ pc = "sleep" => attempt < MaxRetries
  /\ call \notin Idempotent => landed <= 1 /\ (pc \in {"send", "sleep"} => landed = 0)
  /\ call \notin Idempotent /\ pc = "handle" /\ reply = "rate_limited" => landed = 0
  /\ call \in Deletes => landed <= 1 /\ (landed = 1 => ~exists)
  /\ ~eligible => landed = 0
  /\ reply = "unprocessable" => ~eligible
  /\ reply = "redirected" => moved
  /\ pc = "handle" /\ reply \in {"done", "garbled"} /\ call \in Writes => landed >= 1
  /\ pc = "returned" /\ call \in Writes => landed >= 1 \/ moved
  /\ pc = "absent" => landed = 0 /\ call \in Allow404 \cup Allow422

IInv == TypeOK /\ Accounting

(* The call starts with nothing landed. *)
LEMMA InitIInv == Init => IInv
<1> SUFFICES ASSUME Init PROVE IInv
  OBVIOUS
<1>1. exists \in BOOLEAN
  BY DEF Init
<1>2. TypeOK
  BY <1>1, MaxRetriesAssumption DEF Init, TypeOK, Location
<1>3. Accounting
  BY MaxRetriesAssumption DEF Init, Accounting, NoReply
<1>. QED
  BY <1>2, <1>3 DEF IInv

(* An attempt lands at most once more, and not where GitHub refused it. *)
LEMMA SendIInv == IInv /\ Send => IInv'
<1> SUFFICES ASSUME IInv, Send PROVE IInv'
  OBVIOUS
<1> USE MaxRetriesAssumption
<1>1. landed \in Nat /\ attempt \in Nat /\ landed <= attempt /\ attempt <= MaxRetries
  BY DEF IInv, TypeOK, Accounting, Send
<1>2. \/ landed' = landed /\ exists' = exists
      \/ TakesEffect
  BY DEF Send, Answered, Rejected, Unknown, NoEffect
<1>3. TypeOK'
  <2>1. exists' \in BOOLEAN
    BY <1>2 DEF IInv, TypeOK, TakesEffect
  <2>2. reply' \in Reply
    BY DEF Send, Answered, Rejected, Unknown, Reply, Refusal
  <2>3. landed' \in 0 .. MaxRetries + 1
    BY <1>1, <1>2 DEF TakesEffect
  <2>. QED
    BY <2>1, <2>2, <2>3 DEF IInv, TypeOK, Send, Location
<1>4. reply' \in {"done", "garbled"} /\ call \in Writes => TakesEffect
  BY DEF Send, Answered, Rejected, Unknown, Refusal
<1>5. reply' = "rate_limited" => landed' = landed
  BY DEF Send, Answered, Rejected, Unknown, NoEffect
<1>6. reply' = "unprocessable" => ~eligible
  BY DEF Send, Answered, Rejected, Unknown, Refusal
<1>8. reply' = "redirected" => moved
  BY DEF Send, Answered, Rejected, Unknown, Refusal
<1>7. Accounting'
  <2>1. CASE landed' = landed /\ exists' = exists
    BY <1>1, <1>4, <1>5, <1>6, <1>8, <2>1
       DEF IInv, Accounting, TypeOK, Send, TakesEffect, Location
  <2>2. CASE TakesEffect
    <3>1. landed' = landed + 1 /\ call \in Writes /\ eligible' /\ exists
      BY <2>2 DEF TakesEffect, Send
    <3>2. call' = call /\ attempt' = attempt /\ pc' = "handle"
      BY DEF Send
    <3>3. call \in Deletes => landed = 0
      BY <1>1, <3>1 DEF IInv, Accounting
    <3>7. call \in Deletes => ~exists'
      BY <2>2 DEF TakesEffect
    <3>8. (reply' = "redirected" => moved') /\ moved' = moved
      BY <1>8 DEF Send
    <3>4. call \notin Idempotent => landed = 0
      BY DEF IInv, Accounting, Send
    <3>5. call \notin Reads
      BY <3>1 DEF Reads, Writes
    <3>6. reply' # "unprocessable" /\ reply' # "rate_limited"
      BY <1>1, <1>5, <1>6, <3>1 DEF Send
    <3>. QED
      BY <1>1, <3>1, <3>2, <3>3, <3>4, <3>5, <3>6, <3>7, <3>8 DEF Accounting
  <2>. QED
    BY <1>2, <2>1, <2>2
<1>. QED
  BY <1>3, <1>7 DEF IInv

(* Whatever _request decides, it is entitled to. *)
LEMMA HandleIInv == IInv /\ Handle => IInv'
<1> SUFFICES ASSUME IInv, Handle PROVE IInv'
  OBVIOUS
<1>1. TypeOK'
  BY DEF IInv, TypeOK, Handle, NextLocation, Location
<1>2. Accounting'
  <2>1. CASE AllowedAbsence
    BY <2>1 DEF IInv, Accounting, Handle, NextLocation, AllowedAbsence, Allow404,
       Allow422, Reads
  <2>2. CASE ~AllowedAbsence /\ Good
    BY <2>2 DEF IInv, Accounting, Handle, NextLocation, Good
  <2>3. CASE ~AllowedAbsence /\ ~Good
    BY <2>3 DEF IInv, Accounting, Handle, NextLocation, MayRetry, Retryable
  <2>. QED
    BY <2>1, <2>2, <2>3
<1>. QED
  BY <1>1, <1>2 DEF IInv

(* The next attempt starts within the budget. *)
LEMMA WakeIInv == IInv /\ Wake => IInv'
BY MaxRetriesAssumption DEF IInv, TypeOK, Accounting, Wake, NextAttempt, Location

(* A renamed repository only makes more replies possible. *)
LEMMA RenameIInv == IInv /\ Rename => IInv'
BY DEF IInv, TypeOK, Accounting, Rename

LEMMA NextIInv == IInv /\ [Next]_vars => IInv'
<1> SUFFICES ASSUME IInv, [Next]_vars PROVE IInv'
  OBVIOUS
<1>1. CASE Send
  BY <1>1, SendIInv
<1>2. CASE Handle
  BY <1>2, HandleIInv
<1>3. CASE Wake
  BY <1>3, WakeIInv
<1>4. CASE Rename
  BY <1>4, RenameIInv
<1>5. CASE UNCHANGED vars
  BY <1>5 DEF vars, IInv, TypeOK, Accounting
<1>. QED
  BY <1>1, <1>2, <1>3, <1>4, <1>5 DEF Next, Done

LEMMA SpecIInv == Spec => []IInv
BY InitIInv, NextIInv, PTL DEF Spec

-----------------------------------------------------------------------------
(* The local variables of _request keep their types, and no call makes more    *)
(* than MaxRetries + 1 attempts (github_client.py:118-158).                    *)
THEOREM RequestTypes == Spec => []TypeOK
<1>1. IInv => TypeOK
  BY DEF IInv
<1>. QED
  BY <1>1, SpecIInv, PTL

(* One create_ruleset makes at most one ruleset: lost replies and 5xx are not  *)
(* retried for it, and a rate limit, which is, did no work.                    *)
THEOREM CreateIsOnce == Spec => []CreatesAtMostOnce
<1>1. IInv => CreatesAtMostOnce
  BY DEF IInv, Accounting, CreatesAtMostOnce, Idempotent
<1>. QED
  BY <1>1, SpecIInv, PTL

(* A call that gives up on something retryable has used its budget. *)
THEOREM BudgetIsSpent == Spec => []GivesUpOnlyWhenSpent
<1> DEFINE Spent == IInv /\ GivesUpOnlyWhenSpent
<1>1. Init => GivesUpOnlyWhenSpent
  BY DEF Init, GivesUpOnlyWhenSpent
<1>2. IInv /\ GivesUpOnlyWhenSpent /\ [Next]_vars => GivesUpOnlyWhenSpent'
  <2> SUFFICES ASSUME IInv, GivesUpOnlyWhenSpent, [Next]_vars, pc' = "raised",
                      Retryable'
               PROVE  attempt' = MaxRetries
    BY DEF GivesUpOnlyWhenSpent
  <2>1. CASE Handle
    <3>1. ~MayRetry /\ Retryable /\ attempt' = attempt
      BY <2>1 DEF Handle, NextLocation, Retryable
    <3>. QED
      BY <3>1, MaxRetriesAssumption DEF MayRetry, IInv, TypeOK
  <2>2. CASE UNCHANGED vars
    BY <2>2 DEF vars, GivesUpOnlyWhenSpent, Retryable
  <2>3. CASE Send \/ Wake
    BY <2>3 DEF Send, Wake
  <2>4. CASE Rename
    BY <2>4 DEF Rename, GivesUpOnlyWhenSpent, Retryable
  <2>. QED
    BY <2>1, <2>2, <2>3, <2>4 DEF Next, Done
<1>. QED
  BY <1>1, <1>2, SpecIInv, PTL DEF Spec

-----------------------------------------------------------------------------
(* The refinement: pending until the call ends, then one step to an outcome    *)
(* its contract allows, then nothing more.                                     *)

LEMMA EndMeetsContract ==
  IInv /\ Ended => [result |-> ResultOf, landed |-> Capped(landed)] \in Contract(call, moved)
<1> SUFFICES ASSUME IInv, Ended
             PROVE  [result |-> ResultOf, landed |-> Capped(landed)] \in Contract(call, moved)
  OBVIOUS
<1>1. landed \in Nat /\ call \in Call
  BY MaxRetriesAssumption DEF IInv, TypeOK
<1>2. ResultOf \in Result /\ Capped(landed) \in Landings
  BY <1>1 DEF ResultOf, Result, Capped, Landings, Many
<1>3. Capped(landed) \in MayLand(call, ResultOf, moved)
  <2>1. CASE call \in Reads
    <3>1. landed = 0
      BY <2>1 DEF IInv, Accounting
    <3>2. Capped(landed) = 0
      BY <3>1 DEF Capped, Many
    <3>3. MayLand(call, ResultOf, moved) = {0}
      BY <2>1 DEF MayLand
    <3>. QED
      BY <3>2, <3>3
  <2>2. CASE call \notin Reads /\ pc = "absent"
    BY <2>2 DEF IInv, Accounting, Capped, Many, MayLand, ResultOf
  <2>3. CASE call \notin Reads /\ pc = "returned"
    <3>1. ResultOf = "ok" /\ (landed >= 1 \/ moved)
      BY <1>1, <2>3 DEF ResultOf, IInv, Accounting, Call
    <3>2. call \in Deletes \/ call \notin Idempotent => landed \in {0, 1}
      BY <1>1, <3>1 DEF IInv, Accounting
    <3>. QED
      BY <1>1, <2>3, <3>1, <3>2 DEF Capped, Many, MayLand
  <2>4. CASE call \notin Reads /\ pc = "raised"
    <3>1. ResultOf = "error"
      BY <2>4 DEF ResultOf
    <3>2. call \in Deletes \/ call \notin Idempotent => landed \in {0, 1}
      BY <1>1 DEF IInv, Accounting
    <3>. QED
      BY <1>1, <2>4, <3>1, <3>2 DEF Capped, Many, MayLand
  <2>. QED
    BY <2>1, <2>2, <2>3, <2>4 DEF Ended
<1>4. ResultOf = "absent" => call \in Allow404 \cup Allow422
  BY DEF ResultOf, IInv, Accounting, Ended
<1>. QED
  BY <1>2, <1>3, <1>4 DEF Contract

(* Module OneCall's contract is this module's. *)
LEMMA SameContract == Abstract!Contract(call, moved) = Contract(call, moved)
BY DEF Abstract!Contract, Contract, Abstract!MayLand, MayLand, Abstract!Result,
   Result, Abstract!Landings, Landings, Abstract!Many, Many, Abstract!Allow404,
   Allow404, Abstract!Allow422, Allow422, Abstract!Reads, Reads, Abstract!Deletes,
   Deletes, Abstract!Idempotent, Idempotent, Abstract!Call, Call, Abstract!Writes,
   Writes

(* _request implements OneCall: whoever calls a method of GitHubClient may     *)
(* think of it as one step with the outcomes of its contract: a write that     *)
(* returned was done unless the repository has moved.  Module ApplyRun models  *)
(* every call so, for a repository at its address.                             *)
THEOREM RequestImplementsOneCall == Spec => ImplementsOneCall
<1>1. Init => Abstract!Init
  BY DEF Init, Abstract!Init, OutcomeNow, Ended, Abstract!Pending, Pending,
     Abstract!Call, Call, Abstract!Reads, Reads, Abstract!Writes, Writes
<1>3. (IInv /\ Ended => [result |-> ResultOf, landed |-> Capped(landed)] \in Contract(call, moved))'
  BY EndMeetsContract, PTL
<1>2. IInv /\ IInv' /\ [Next]_vars => [Abstract!Next]_<<call, moved, OutcomeNow>>
  <2> SUFFICES ASSUME IInv, IInv', [Next]_vars
               PROVE  [Abstract!Next]_<<call, moved, OutcomeNow>>
    OBVIOUS
  <2>1. CASE Send \/ Wake
    BY <2>1 DEF Send, Wake, OutcomeNow, Ended
  <2>4. CASE Rename
    BY <2>4 DEF Rename, OutcomeNow, Ended, ResultOf, Abstract!Next, Abstract!Rename
  <2>2. CASE UNCHANGED vars
    BY <2>2 DEF vars, OutcomeNow, Ended, ResultOf
  <2>3. CASE Handle
    <3>1. ~Ended /\ call' = call /\ moved' = moved
      BY <2>3 DEF Handle, Ended
    <3>2. CASE Ended'
      <4>1. OutcomeNow = Abstract!Pending
        BY <3>1 DEF OutcomeNow, Abstract!Pending, Pending
      <4>2. OutcomeNow' \in Contract(call, moved)
        BY <1>3, <3>1, <3>2 DEF OutcomeNow
      <4>. QED
        BY <3>1, <4>1, <4>2, SameContract DEF Abstract!Next, Abstract!Finish
    <3>3. CASE ~Ended'
      BY <3>1, <3>3 DEF OutcomeNow
    <3>. QED
      BY <3>2, <3>3
  <2>. QED
    BY <2>1, <2>2, <2>3, <2>4 DEF Next, Done
<1>. QED
  BY <1>1, <1>2, SpecIInv, PTL DEF Spec, ImplementsOneCall, Abstract!Spec
=============================================================================
