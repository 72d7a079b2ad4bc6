------------------------------- MODULE ApiKeys --------------------------------
(***************************************************************************)
(* Tenants and their API keys: the handlers that create a tenant with its  *)
(* first key (routes/signup.rs, routes/admin.rs), mint and revoke keys,    *)
(* and the extractor that resolves the key of every request (auth.rs),     *)
(* over the store chosen at start-up (tenant/in_memory.rs, tenant/pg.rs).  *)
(*                                                                         *)
(* A key is looked up, verified against the copy that was read, and marked *)
(* as used, in separate steps, so it may be revoked at any point between.  *)
(* An element of Keys is a key's uuid, and the plaintext its holder        *)
(* presents; scopes are left to the handlers.                              *)
(***************************************************************************)
EXTENDS FiniteSets

CONSTANTS
  Tenants, Keys,
  Handlers,     \* handlers at work at one time
  Stores,       \* the stores an operator may choose
  Faults,       \* a subset of {"error", "disconnect", "crash"}
  NoKey, NoJob

KeySet == [tenant : Tenants, indexed : BOOLEAN, revoked : BOOLEAN, used : BOOLEAN]
Stages == {"lookup", "scan", "found", "serving", "rejected"}
Jobs == [kind : {"mint"}, tenant : Tenants]
          \cup [kind : {"auth"}, key : Keys, stage : Stages]

ASSUME KeysAssumption ==
  /\ Stores \subseteq {"memory", "postgres"}
  /\ Faults \subseteq {"error", "disconnect", "crash"}
  /\ NoKey \notin KeySet /\ NoJob \notin Jobs

VARIABLES
  store,     \* the store in use
  tenants,   \* the tenants in it
  keys,      \* the keys in it, or NoKey
  job,       \* what each handler is doing
  minted,    \* history: the keys drawn so far
  shown,     \* history: the keys whose plaintext reached a client
  stranded   \* history: tenants whose first key was never shown to anybody

vars == <<store, tenants, keys, job, minted, shown, stranded>>

Active(k) == keys[k] # NoKey /\ ~keys[k].revoked
Minting(h) == job[h] # NoJob /\ job[h].kind = "mint"
At(h, stage) == job[h] # NoJob /\ job[h].kind = "auth" /\ job[h].stage = stage

TypeOK ==
  /\ store \in Stores
  /\ tenants \subseteq Tenants
  /\ keys \in [Keys -> KeySet \cup {NoKey}]
  /\ job \in [Handlers -> Jobs \cup {NoJob}]
  /\ minted \subseteq Keys /\ shown \subseteq minted
  /\ stranded \subseteq Tenants
  /\ store = "memory" => ~\E h \in Handlers : At(h, "scan")
  /\ \A k \in Keys : keys[k] # NoKey => k \in minted /\ keys[k].tenant \in tenants

NewKey(t) == [tenant |-> t, indexed |-> TRUE, revoked |-> FALSE, used |-> FALSE]
LegacyKey(t) == [NewKey(t) EXCEPT !.indexed = FALSE]
Only(k, row) == [j \in Keys |-> IF j = k THEN row ELSE NoKey]

\* A store in memory is seeded with a tenant and its key, shown to the
\* operator; a database may hold a key from before the public ids (legacy).
Init ==
  /\ \/ /\ store = "postgres"
        /\ tenants = {} /\ minted = {}
        /\ keys = [k \in Keys |-> NoKey]
     \/ \E t \in Tenants, k \in Keys :
          /\ tenants = {t} /\ minted = {k}
          /\ \/ store = "postgres" /\ keys = Only(k, LegacyKey(t))
             \/ store = "memory" /\ keys = Only(k, NewKey(t))
  /\ store \in Stores
  /\ shown = minted
  /\ job = [h \in Handlers |-> NoJob]
  /\ stranded = {}

-------------------------------------------------------------------------------
(* Tenants and their keys *)

\* Fault seeded: no first key is minted.
CreateTenantOnly(h, t) ==
  /\ job[h] = NoJob
  /\ t \notin tenants
  /\ tenants' = tenants \cup {t}
  /\ UNCHANGED <<store, keys, job, minted, shown, stranded>>

\* POST /v1/signup and /admin/v1/tenants: the tenant's row, then a key.
CreateTenant(h, t) ==
  /\ job[h] = NoJob
  /\ t \notin tenants
  /\ tenants' = tenants \cup {t}
  /\ job' = [job EXCEPT ![h] = [kind |-> "mint", tenant |-> t]]
  /\ UNCHANGED <<store, keys, minted, shown, stranded>>

\* The administrator's mint, for a tenant that exists (404 if not).
StartMint(h, t) ==
  /\ job[h] = NoJob
  /\ t \in tenants
  /\ job' = [job EXCEPT ![h] = [kind |-> "mint", tenant |-> t]]
  /\ UNCHANGED <<store, tenants, keys, minted, shown, stranded>>

Reached(t, held) == \E k \in held : keys[k] # NoKey /\ keys[k].tenant = t

\* The key is hashed and its row inserted; the answer shows it, this once.
InsertKey(h, k, delivered) ==
  LET t == job[h].tenant IN
  /\ Minting(h)
  /\ k \notin minted
  /\ delivered \/ "disconnect" \in Faults
  /\ keys' = [keys EXCEPT ![k] = NewKey(t)]
  /\ minted' = minted \cup {k}
  /\ shown' = IF delivered THEN shown \cup {k} ELSE shown
  /\ stranded' = IF delivered THEN stranded \ {t}
                 ELSE IF Reached(t, shown) THEN stranded ELSE stranded \cup {t}
  /\ job' = [job EXCEPT ![h] = NoJob]
  /\ UNCHANGED <<store, tenants>>

Revoke(k) ==
  /\ Active(k)
  /\ keys' = [keys EXCEPT ![k].revoked = TRUE]
  /\ UNCHANGED <<store, tenants, job, minted, shown, stranded>>

-------------------------------------------------------------------------------
(* The extractor of every request *)

Present(h, k) ==
  /\ job[h] = NoJob
  /\ k \in shown
  /\ job' = [job EXCEPT ![h] = [kind |-> "auth", key |-> k, stage |-> "lookup"]]
  /\ UNCHANGED <<store, tenants, keys, minted, shown, stranded>>

GoTo(h, stage) ==
  /\ job' = [job EXCEPT ![h].stage = stage]
  /\ UNCHANGED <<store, tenants, keys, minted, shown, stranded>>

\* A copy of all keys, under the read lock.
ReadSnapshot(h) ==
  /\ store = "memory"
  /\ At(h, "lookup")
  /\ GoTo(h, IF Active(job[h].key) THEN "found" ELSE "rejected")

\* Faults seeded: the legacy keys are forgotten; the store is not asked first.
LookupWithoutFallback(h) ==
  /\ store = "postgres"
  /\ At(h, "lookup")
  /\ GoTo(h, IF Active(job[h].key) /\ keys[job[h].key].indexed THEN "found" ELSE "rejected")

LookupInAnyStore(h) ==
  /\ At(h, "lookup")
  /\ GoTo(h, IF Active(job[h].key) /\ keys[job[h].key].indexed THEN "found" ELSE "scan")

\* The unrevoked row with the token's public id, if any.
LookupByPublicId(h) ==
  /\ store = "postgres"
  /\ At(h, "lookup")
  /\ GoTo(h, IF Active(job[h].key) /\ keys[job[h].key].indexed THEN "found" ELSE "scan")

\* Fault seeded: revoked rows are scanned too.
ScanRevoked(h) ==
  /\ At(h, "scan")
  /\ GoTo(h, IF keys[job[h].key] # NoKey /\ ~keys[job[h].key].indexed THEN "found" ELSE "rejected")

\* The unrevoked rows without a public id.
ScanLegacy(h) ==
  /\ At(h, "scan")
  /\ GoTo(h, IF Active(job[h].key) /\ ~keys[job[h].key].indexed THEN "found" ELSE "rejected")

\* The tenant is read, last_used_at written, and the request let in; an
\* update that fails is ignored.
Touch(h, stored) ==
  LET k == job[h].key IN
  /\ At(h, "found")
  /\ ~stored => store = "postgres" /\ "error" \in Faults
  /\ keys' = IF stored /\ keys[k] # NoKey THEN [keys EXCEPT ![k].used = TRUE] ELSE keys
  /\ job' = [job EXCEPT ![h].stage = "serving"]
  /\ UNCHANGED <<store, tenants, minted, shown, stranded>>

Finish(h) ==
  /\ At(h, "serving") \/ At(h, "rejected")
  /\ job' = [job EXCEPT ![h] = NoJob]
  /\ UNCHANGED <<store, tenants, keys, minted, shown, stranded>>

-------------------------------------------------------------------------------
(* Failures *)

Strand(quitting) ==
  LET left == {job[h].tenant : h \in {g \in quitting : Minting(g)}}
  IN stranded' = stranded \cup {t \in left : ~Reached(t, shown)}

\* A statement fails, or the client is gone.
BreakOff(h) ==
  /\ Faults \cap {"error", "disconnect"} # {}
  /\ job[h] # NoJob
  /\ Strand({h})
  /\ job' = [job EXCEPT ![h] = NoJob]
  /\ UNCHANGED <<store, tenants, keys, minted, shown>>

\* A new process; a store in memory is empty but for a new seed.
Crash ==
  /\ "crash" \in Faults
  /\ job' = [h \in Handlers |-> NoJob]
  /\ \/ /\ store = "memory"
        /\ \E t \in Tenants, k \in Keys \ minted :
             /\ tenants' = {t}
             /\ keys' = Only(k, NewKey(t))
             /\ minted' = minted \cup {k}
             /\ shown' = shown \cup {k}
        /\ stranded' = {}
     \/ /\ store = "postgres"
        /\ UNCHANGED <<tenants, keys, minted, shown>>
        /\ Strand(Handlers)
  /\ UNCHANGED store

Next ==
  \/ \E h \in Handlers :
       \/ \E t \in Tenants : CreateTenant(h, t) \/ StartMint(h, t)
       \/ \E k \in Keys :
            \/ \E delivered \in BOOLEAN : InsertKey(h, k, delivered)
            \/ Present(h, k)
       \/ ReadSnapshot(h) \/ LookupByPublicId(h) \/ ScanLegacy(h)
       \/ \E stored \in BOOLEAN : Touch(h, stored)
       \/ Finish(h) \/ BreakOff(h)
  \/ \E k \in Keys : Revoke(k)
  \/ Crash

Spec == Init /\ [][Next]_vars
-------------------------------------------------------------------------------
(* Properties *)

(***************************************************************************)
(* Revocation drains.  Once a key is revoked, or lost with the store, the  *)
(* requests that are or may yet be let in with it are those that had read  *)
(* it before: their set only shrinks, for every path of the lookup.        *)
(***************************************************************************)
Admits(k) == {h \in Handlers :
  (At(h, "found") \/ At(h, "serving")) /\ job[h].key = k}

RevocationDrains == [][\A k \in Keys : ~Active(k) => Admits(k)' \subseteq Admits(k)]_vars

(***************************************************************************)
(* No false refusal.  A client is told that a key it was shown is invalid  *)
(* only if the key was revoked, or lost in the restart of a store kept in  *)
(* memory; keys from before the public ids included.                       *)
(***************************************************************************)
RejectedForCause ==
  \A h \in Handlers : At(h, "rejected") =>
    /\ ~Active(job[h].key)
    /\ store = "postgres" => keys[job[h].key] # NoKey

(***************************************************************************)
(* A tenant and its first key are two writes.  A tenant nobody was shown a *)
(* key of is one whose creation is under way, or broke off between the two *)
(* or before the answer: nothing else leaves a tenant out of reach.        *)
(***************************************************************************)
TenantsReachable ==
  \A t \in tenants \ stranded :
    \/ Reached(t, shown)
    \/ \E h \in Handlers : Minting(h) /\ job[h].tenant = t
===============================================================================
