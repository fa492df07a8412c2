-------------------------- MODULE MCRequest --------------------------
(* Model checking of Request: every method of GitHubClient, the default budget *)
(* of three retries.                                                           *)
EXTENDS Request
=============================================================================
