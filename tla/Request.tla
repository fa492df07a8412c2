--------------------------- MODULE Request ---------------------------
(* GitHubClient._request: one call, its retries and its backoff, against a     *)
(* network that may lose a request or a reply and a server that may fail       *)
(* before or after it did the work.                                            *)
EXTENDS Calls

CONSTANT MaxRetries          \* GitHubClient(max_retries=3)
ASSUME MaxRetriesAssumption == MaxRetries \in Nat

VARIABLES
  call,       \* the method of GitHubClient that was called
  moved,      \* the repository has been renamed or transferred (GitHub's state)
  exists,     \* the object the path names is there (GitHub's state)
  eligible,   \* GitHub accepts the request for this repository
  pc,         \* where _request stands
  attempt,    \* the local variable attempt
  reply,      \* what the last self._client.request gave
  landed      \* how many attempts took effect on GitHub

vars == <<call, moved, exists, eligible, pc, attempt, reply, landed>>

(* What one self._client.request gives: an httpx.RequestError ("lost"), or a   *)
(* response sorted by status code; "garbled" is a 2xx whose body is not JSON,   *)
(* "redirected" a 301 or 307, which the httpx client does not follow.          *)
Reply == {"done", "garbled", "redirected", "lost", "rate_limited", "server_error",
          "not_found", "unprocessable", "refused"}
NoReply == "none"

Location == {"send", "handle", "sleep", "returned", "absent", "raised"}
Ended == pc \in {"returned", "absent", "raised"}

TypeOK ==
  /\ call \in Call
  /\ moved \in BOOLEAN
  /\ exists \in BOOLEAN
  /\ eligible \in BOOLEAN
  /\ pc \in Location
  /\ attempt \in 0 .. MaxRetries
  /\ reply \in Reply \cup {NoReply}
  /\ landed \in 0 .. MaxRetries + 1

Init ==
  /\ call \in Call
  /\ moved \in BOOLEAN
  /\ exists \in (IF call = "create_ruleset" THEN {TRUE} ELSE BOOLEAN)
  /\ eligible \in BOOLEAN
  /\ pc = "send"
  /\ attempt = 0
  /\ reply = NoReply
  /\ landed = 0

-----------------------------------------------------------------------------
(* GitHub and the network.  A request that finds its object and is eligible    *)
(* may do its work; the reply may still be lost or replaced by a 5xx.  A rate  *)
(* limit is answered before any work is done, and so is every request under    *)
(* the address of a repository that has moved.                                 *)

Refusal == IF ~exists THEN "not_found"
           ELSE IF ~eligible THEN "unprocessable" ELSE "refused"

TakesEffect ==
  /\ call \in Writes /\ exists /\ eligible
  /\ landed' = landed + 1
  /\ exists' = (call \notin Deletes)

NoEffect == UNCHANGED <<landed, exists>>

Answered ==
  /\ ~moved /\ exists /\ eligible
  /\ reply' \in {"done", "garbled"}
  /\ IF call \in Writes THEN TakesEffect ELSE NoEffect

Rejected ==
  /\ reply' \in {IF moved THEN "redirected" ELSE Refusal, "rate_limited"}
  /\ NoEffect

Unknown ==
  /\ reply' \in {"lost", "server_error"}
  /\ (~moved /\ TakesEffect) \/ NoEffect

Send ==
  /\ pc = "send"
  /\ pc' = "handle"
  /\ Answered \/ Rejected \/ Unknown
  /\ UNCHANGED <<call, moved, eligible, attempt>>

(* Somebody renames the repository, between two attempts or at any other time. *)
Rename ==
  /\ ~moved
  /\ moved' = TRUE
  /\ UNCHANGED <<call, exists, eligible, pc, attempt, reply, landed>>

-----------------------------------------------------------------------------
(* What _request does with it. *)

Retryable ==
  \/ reply = "rate_limited"
  \/ reply \in {"lost", "server_error"} /\ call \in Idempotent

RetryOnePast == Retryable /\ attempt <= MaxRetries
GiveUpEarly == Retryable /\ attempt + 1 < MaxRetries
MayRetry == Retryable /\ attempt < MaxRetries

AnyAbsence == reply \in {"not_found", "unprocessable"}
AllowedAbsence ==
  \/ reply = "not_found" /\ call \in Allow404
  \/ reply = "unprocessable" /\ call \in Allow422

(* status_code < 400; the redirect's body is JSON. *)
Good == reply \in {"done", "redirected"} \/ (reply = "garbled" /\ call \notin Parsed)

NextLocation ==
  IF AllowedAbsence THEN "absent"
  ELSE IF Good THEN "returned"
  ELSE IF MayRetry THEN "sleep" ELSE "raised"

Handle ==
  /\ pc = "handle"
  /\ pc' = NextLocation
  /\ UNCHANGED <<call, moved, exists, eligible, attempt, reply, landed>>

SameAttempt == attempt
NextAttempt == attempt + 1

Wake ==
  /\ pc = "sleep"
  /\ pc' = "send"
  /\ attempt' = NextAttempt
  /\ UNCHANGED <<call, moved, exists, eligible, reply, landed>>

Done == Ended /\ UNCHANGED vars

Next == Send \/ Handle \/ Wake \/ Rename \/ Done

Spec == Init /\ [][Next]_vars

(* The loop is a while that nothing preempts, the transport has a 30 s timeout *)
(* and time.sleep returns: each of its steps is eventually taken.              *)
FairSpec == Spec /\ WF_vars(Send) /\ WF_vars(Handle) /\ WF_vars(Wake)

-----------------------------------------------------------------------------
(* What callers rely on. *)

(* However replies are lost, create_ruleset, whose POST makes a new ruleset    *)
(* each time, never creates two (github_client.py:114-117, 297-301).           *)
CreatesAtMostOnce == call = "create_ruleset" => landed <= 1

ResultOf == CASE pc = "returned" -> "ok" [] pc = "absent" -> "absent"
              [] OTHER -> "error"

OutcomeNow == IF Ended THEN [result |-> ResultOf, landed |-> Capped(landed)]
              ELSE Pending

Abstract == INSTANCE OneCall WITH outcome <- OutcomeNow

(* Retries and all, a call is one step of OneCall to its caller: unless the    *)
(* repository has moved, a returned write took effect; an absent one did not;  *)
(* after an error nobody knows; and none of it changes once the call is over   *)
(* (github_client.py:103-158).                                                 *)
ImplementsOneCall == Abstract!Spec

(* A call that fails on what the code retries, lost requests included, has     *)
(* used its whole budget: MaxRetries + 1 attempts, one more than               *)
(* ARCHITECTURE.md:162 has it (github_client.py:122-131, 150).                 *)
GivesUpOnlyWhenSpent ==
  pc = "raised" /\ Retryable => attempt = MaxRetries

(* Every call ends, whatever the network does. *)
EveryCallEnds == <>Ended

(* The comment at github_client.py:114-117 says that every call but            *)
(* create_ruleset is a no-op when repeated, so that it may be retried.  A      *)
(* deletion that landed but lost its reply is repeated on a ruleset that is    *)
(* gone, and fails.                                                            *)
RepeatIsNoOp == pc = "raised" /\ reply = "not_found" => landed = 0

(* "retries 429, 403-with-rate-limit-text, and 5xx [...]; anything else raises *)
(* GitHubAPIError immediately" (ARCHITECTURE.md:162): so that a write which    *)
(* returned was done.  A redirect is no 2xx and does not raise                 *)
(* (github_client.py:139).                                                     *)
ReturnedWritesAreDone == pc = "returned" /\ call \in Writes => landed >= 1
=============================================================================
