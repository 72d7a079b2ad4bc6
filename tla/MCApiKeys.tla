------------------------------ MODULE MCApiKeys -------------------------------
(* ApiKeys for TLC: tenants, keys and handlers are interchangeable. *)
EXTENDS ApiKeys, TLC

Interchangeable ==
  Permutations(Tenants) \cup Permutations(Keys) \cup Permutations(Handlers)
===============================================================================
