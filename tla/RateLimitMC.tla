---------------------------- MODULE RateLimitMC ----------------------------
(* The throttle with interchangeable clients and workers. *)
EXTENDS RateLimit, TLC

Sym == Permutations(Client) \cup Permutations(Worker)
=============================================================================
