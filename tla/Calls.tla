---------------------------- MODULE Calls ----------------------------
(* The calls GitHubClient offers the rest of repo-policy, and what their      *)
(* callers may rely on.  A call is named after the method of GitHubClient      *)
(* that makes it.  The sets below are the flags each method passes to          *)
(* _request; Contract is the abstract specification of a call, which module    *)
(* Request is checked to meet and on which module ApplyRun is built.           *)
EXTENDS Naturals

Reads ==
  {"get_branch_protection", "get_required_signatures", "get_repo",
   "get_vulnerability_alerts", "get_automated_security_fixes",
   "get_private_vulnerability_reporting", "list_rulesets", "get_ruleset",
   "get_rules_for_branch"}

Writes ==
  {"put_branch_protection", "set_required_signatures", "update_repo_settings",
   "update_security_and_analysis", "enable_vulnerability_alerts",
   "disable_vulnerability_alerts", "enable_automated_security_fixes",
   "disable_automated_security_fixes", "enable_private_vulnerability_reporting",
   "disable_private_vulnerability_reporting", "create_ruleset",
   "update_ruleset", "delete_ruleset"}

Call == Reads \cup Writes

(* The methods that pass allow_404=True: a missing object is an answer. *)
Allow404 ==
  {"get_branch_protection", "get_required_signatures", "get_vulnerability_alerts",
   "get_automated_security_fixes", "get_private_vulnerability_reporting"}

(* The methods that pass allow_422=True: an ineligible repository is an answer. *)
Allow422 ==
  {"get_private_vulnerability_reporting", "enable_private_vulnerability_reporting",
   "disable_private_vulnerability_reporting", "update_security_and_analysis"}

(* Every method but create_ruleset keeps the default idempotent=True. *)
AllIdempotent == Call
Idempotent == Call \ {"create_ruleset"}

(* The methods that hand the reply to _parse_json, which raises on a body that *)
(* is not JSON, whatever the status code said.                                 *)
Parsed ==
  {"get_branch_protection", "get_required_signatures", "get_repo",
   "get_automated_security_fixes", "get_private_vulnerability_reporting",
   "list_rulesets", "get_ruleset", "get_rules_for_branch",
   "put_branch_protection", "update_repo_settings",
   "update_security_and_analysis", "create_ruleset", "update_ruleset"}

(* Creating adds one more object each time it lands, and a delete cannot land  *)
(* twice: the object it names is gone.                                         *)
Deletes == {"delete_ruleset"}

-----------------------------------------------------------------------------
(* The contract.  A call ends with a result for its caller and with a number   *)
(* of times it took effect on GitHub: "ok" is a reply, "absent" the None that  *)
(* stands for an allowed 404 or 422, "error" a GitHubAPIError.  Many stands    *)
(* for every number of landings above one.  moved says that the repository has *)
(* been renamed or transferred: GitHub then answers with a redirect, which     *)
(* _request returns like a success although nothing was done.                  *)
Result == {"ok", "absent", "error"}
Many == 2
Landings == 0 .. Many

Pending == [result |-> "pending", landed |-> 0]

Capped(n) == IF n > Many THEN Many ELSE n

MayLand(c, result, moved) ==
  IF c \in Reads \/ result = "absent" THEN {0}
  ELSE {1} \cup (IF result = "error" \/ moved THEN {0} ELSE {})
           \cup (IF c \in Idempotent \ Deletes THEN {Many} ELSE {})

Contract(c, moved) ==
  {o \in [result : Result, landed : Landings] :
     /\ o.landed \in MayLand(c, o.result, moved)
     /\ o.result = "absent" => c \in Allow404 \cup Allow422}
=============================================================================
