-------------------------- MODULE ProviderRegistry ---------------------------
(***************************************************************************)
(* What the LLM provider registry promises: a provider belongs to the one  *)
(* tenant that registered it, and a tenant has at most one default, which  *)
(* is one of its own providers.  A tenant may be without a default at any  *)
(* time (Demote): the registration of a new default goes through that      *)
(* state.  The abstract specification the two stores of LlmProviders       *)
(* implement.  Who acts does not show in it: that tenants leave one        *)
(* another's providers alone is a property of LlmProviders.                *)
(***************************************************************************)
CONSTANTS Tenants, Ids, None

VARIABLES
  owner,      \* the tenant of each provider, or None
  default     \* the default provider of each tenant, or None

vars == <<owner, default>>

Init ==
  /\ owner = [i \in Ids |-> None]
  /\ default = [t \in Tenants |-> None]

Register(t, i) ==
  /\ owner[i] = None
  /\ owner' = [owner EXCEPT ![i] = t]
  /\ default' \in {default, [default EXCEPT ![t] = i]}

Remove(t, i) ==
  /\ owner[i] = t
  /\ owner' = [owner EXCEPT ![i] = None]
  /\ default' = [default EXCEPT ![t] = IF @ = i THEN None ELSE @]

Demote(t) ==
  /\ owner' = owner
  /\ default' = [default EXCEPT ![t] = None]

\* A store kept in memory starts empty.
Restart ==
  /\ owner' = [i \in Ids |-> None]
  /\ default' = [t \in Tenants |-> None]

Next ==
  \/ \E t \in Tenants :
       \/ Demote(t)
       \/ \E i \in Ids : Register(t, i) \/ Remove(t, i)
  \/ Restart

Spec == Init /\ [][Next]_vars
===============================================================================
