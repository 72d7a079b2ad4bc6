---------------------------- MODULE ApiKeysProofs -----------------------------
(***************************************************************************)
(* The safety properties of ApiKeys, for every set of tenants, keys and    *)
(* handlers and under every fault.                                         *)
(***************************************************************************)
EXTENDS ApiKeys, TLAPS

-------------------------------------------------------------------------------
(* What a step does to the keys and to the jobs *)

\* Keys are only added, revoked and touched.
KeysKept ==
  \A k \in Keys :
    /\ keys[k] # NoKey =>
         /\ keys'[k] # NoKey
         /\ keys'[k].tenant = keys[k].tenant /\ keys'[k].indexed = keys[k].indexed
         /\ keys[k].revoked => keys'[k].revoked
    /\ keys[k] = NoKey /\ k \in minted => keys'[k] = NoKey

\* The parts of a type-correct job.
LEMMA JobTyped ==
  ASSUME TypeOK, NEW h \in Handlers
  PROVE  /\ Minting(h) => job[h].tenant \in Tenants
         /\ \A stage : At(h, stage) =>
              job[h] \in Jobs /\ job[h].key \in Keys /\ job[h].stage = stage
BY DEF TypeOK, Jobs, Minting, At

LEMMA JobMade ==
  /\ \A t \in Tenants :
       [kind |-> "mint", tenant |-> t] \in Jobs /\ [kind |-> "mint", tenant |-> t] # NoJob
  /\ \A k \in Keys, stage \in Stages :
       /\ [kind |-> "auth", key |-> k, stage |-> stage] \in Jobs
       /\ [kind |-> "auth", key |-> k, stage |-> stage] # NoJob
<1>1. ASSUME NEW t \in Tenants PROVE [kind |-> "mint", tenant |-> t] \in Jobs
  BY DEF Jobs
<1>2. ASSUME NEW k \in Keys, NEW stage \in Stages
      PROVE  [kind |-> "auth", key |-> k, stage |-> stage] \in Jobs
  BY DEF Jobs
<1> QED
  BY <1>1, <1>2, KeysAssumption

LEMMA NewKeyTyped ==
  ASSUME NEW t \in Tenants
  PROVE  /\ NewKey(t) \in KeySet /\ NewKey(t) # NoKey
         /\ NewKey(t).tenant = t /\ ~NewKey(t).revoked
         /\ LegacyKey(t) \in KeySet /\ LegacyKey(t) # NoKey /\ LegacyKey(t).tenant = t
<1>1. NewKey(t) \in KeySet /\ NewKey(t).tenant = t /\ ~NewKey(t).revoked
  BY DEF NewKey, KeySet
<1>2. LegacyKey(t) \in KeySet /\ LegacyKey(t).tenant = t
  BY <1>1 DEF LegacyKey, KeySet
<1> QED
  BY <1>1, <1>2, KeysAssumption

\* An insertion gives a key that was never drawn before its row.
LEMMA Inserted ==
  ASSUME TypeOK, NEW h \in Handlers, NEW k \in Keys, NEW delivered \in BOOLEAN,
         InsertKey(h, k, delivered)
  PROVE  /\ job[h].tenant \in Tenants
         /\ keys'[k] \in KeySet /\ keys'[k] # NoKey /\ keys'[k].tenant = job[h].tenant
         /\ \A j \in Keys \ {k} : keys'[j] = keys[j]
         /\ keys' \in [Keys -> KeySet \cup {NoKey}]
         /\ keys[k] = NoKey
         /\ KeysKept
<1>1. job[h].tenant \in Tenants
  BY JobTyped DEF InsertKey
<1>2. keys' = [keys EXCEPT ![k] = NewKey(job[h].tenant)]
  BY DEF InsertKey
<1>3. keys[k] = NoKey /\ k \notin minted
  BY DEF InsertKey, TypeOK
<1> QED
  BY <1>1, <1>2, <1>3, NewKeyTyped DEF TypeOK, KeysKept

LEMMA Revoked ==
  ASSUME TypeOK, NEW k \in Keys, Revoke(k)
  PROVE  keys' \in [Keys -> KeySet \cup {NoKey}] /\ KeysKept
<1>1. keys[k] \in KeySet /\ keys' = [keys EXCEPT ![k] = [keys[k] EXCEPT !.revoked = TRUE]]
  BY DEF Revoke, Active, TypeOK
<1>2. /\ keys'[k] \in KeySet /\ keys'[k].revoked
      /\ keys'[k].tenant = keys[k].tenant /\ keys'[k].indexed = keys[k].indexed
  BY <1>1 DEF TypeOK, KeySet
<1>3. \A j \in Keys \ {k} : keys'[j] = keys[j]
  BY <1>1 DEF TypeOK
<1>4. keys' \in [Keys -> KeySet \cup {NoKey}]
  BY <1>1, <1>2 DEF TypeOK
<1> QED
  BY <1>1, <1>2, <1>3, <1>4, KeysAssumption DEF KeysKept

LEMMA Touched ==
  ASSUME TypeOK, NEW h \in Handlers, NEW stored \in BOOLEAN, Touch(h, stored)
  PROVE  /\ keys' \in [Keys -> KeySet \cup {NoKey}]
         /\ KeysKept
         /\ \A k \in Keys : Active(k)' <=> Active(k)
<1>1. job[h].key \in Keys
  BY JobTyped DEF Touch
<1>2. CASE keys' = keys
  BY <1>2 DEF TypeOK, KeysKept, Active
<1>3. CASE keys' # keys
  <2> DEFINE k == job[h].key
  <2>1. keys[k] \in KeySet /\ keys' = [keys EXCEPT ![k] = [keys[k] EXCEPT !.used = TRUE]]
    BY <1>1, <1>3 DEF Touch, TypeOK
  <2> HIDE DEF k
  <2>2. k \in Keys
    BY <1>1 DEF k
  <2>3. /\ keys'[k] \in KeySet /\ keys'[k].revoked = keys[k].revoked
        /\ keys'[k].tenant = keys[k].tenant /\ keys'[k].indexed = keys[k].indexed
    BY <2>1, <2>2 DEF TypeOK, KeySet
  <2>4. \A j \in Keys \ {k} : keys'[j] = keys[j]
    BY <2>1 DEF TypeOK
  <2>5. keys' \in [Keys -> KeySet \cup {NoKey}]
    BY <2>1, <2>2, <2>3 DEF TypeOK
  <2> QED
    BY <2>1, <2>2, <2>3, <2>4, <2>5, KeysAssumption DEF KeysKept, Active
<1> QED
  BY <1>2, <1>3

\* A step of the extractor to another stage.
LEMMA Staged ==
  ASSUME TypeOK, NEW h \in Handlers, NEW from, At(h, from), NEW to \in Stages,
         job' = [job EXCEPT ![h].stage = to]
  PROVE  /\ job' \in [Handlers -> Jobs \cup {NoJob}]
         /\ At(h, to)' /\ job'[h].key = job[h].key /\ ~Minting(h)
         /\ job'[h].kind = "auth" /\ job'[h].stage = to
         /\ \A g \in Handlers \ {h} : job'[g] = job[g]
<1>1. job[h].key \in Keys /\ job[h] = [kind |-> "auth", key |-> job[h].key, stage |-> from]
  BY DEF TypeOK, Jobs, At
<1>2. job' = [job EXCEPT ![h] = [job[h] EXCEPT !.stage = to]]
  OBVIOUS
<1>3. job'[h] = [kind |-> "auth", key |-> job[h].key, stage |-> to]
  BY <1>1, <1>2 DEF TypeOK
<1>4. job'[h] \in Jobs /\ job'[h] # NoJob
  BY <1>1, <1>3, JobMade
<1> QED
  BY <1>1, <1>2, <1>3, <1>4 DEF TypeOK, At, Minting

\* The steps of the extractor that look the key up.
Looks(h, from, to) ==
  /\ At(h, from)
  /\ GoTo(h, to)
  /\ from \in {"lookup", "scan"} /\ to \in {"scan", "found", "rejected"}
  /\ to = "scan" => store = "postgres" /\ (Active(job[h].key) => ~keys[job[h].key].indexed)
  /\ to = "found" => Active(job[h].key)
  /\ to = "rejected" /\ Active(job[h].key) => from = "scan" /\ keys[job[h].key].indexed

LEMMA LookUps ==
  ASSUME NEW h \in Handlers, ReadSnapshot(h) \/ LookupByPublicId(h) \/ ScanLegacy(h)
  PROVE  \E from, to \in Stages : Looks(h, from, to)
<1>1. ASSUME NEW from \in Stages, NEW to \in Stages, Looks(h, from, to)
      PROVE  \E x, y \in Stages : Looks(h, x, y)
  BY <1>1
<1>2. CASE ReadSnapshot(h)
  BY <1>2 DEF ReadSnapshot, Looks, Stages
<1>3. CASE LookupByPublicId(h)
  BY <1>3 DEF LookupByPublicId, Looks, Stages
<1>4. CASE ScanLegacy(h)
  BY <1>4 DEF ScanLegacy, Looks, Stages
<1> QED
  BY <1>2, <1>3, <1>4

\* A handler that ends: by itself, or broken off.
LEMMA Ended ==
  ASSUME TypeOK, NEW h \in Handlers, Finish(h) \/ BreakOff(h)
  PROVE  /\ job' \in [Handlers -> Jobs \cup {NoJob}]
         /\ job'[h] = NoJob /\ \A g \in Handlers \ {h} : job'[g] = job[g]
         /\ UNCHANGED <<store, tenants, keys, minted, shown>>
BY DEF TypeOK, Finish, BreakOff
-------------------------------------------------------------------------------
(* Types *)

\* A key is minted for a tenant that exists.
MintsKnown == \A h \in Handlers : Minting(h) => job[h].tenant \in tenants

\* The tables, the keys that were drawn or shown and the jobs keep their types,
\* and every key in the table belongs to a tenant in it.
THEOREM TypeInvariant == Spec => []TypeOK
<1>1. Init => TypeOK /\ MintsKnown
  <2> SUFFICES ASSUME Init PROVE TypeOK /\ MintsKnown
    OBVIOUS
  <2>1. \A h \in Handlers : job[h] = NoJob
    BY DEF Init
  <2>2. CASE tenants = {} /\ minted = {} /\ keys = [k \in Keys |-> NoKey]
    BY <2>1, <2>2 DEF Init, TypeOK, MintsKnown, Minting, At
  <2>3. ASSUME NEW t \in Tenants, NEW k \in Keys, tenants = {t}, minted = {k},
               NEW row \in {NewKey(t), LegacyKey(t)}, keys = Only(k, row)
        PROVE  TypeOK /\ MintsKnown
    <3>1. row \in KeySet /\ row # NoKey /\ row.tenant = t
      BY NewKeyTyped
    <3> QED
      BY <2>1, <2>3, <3>1 DEF Init, TypeOK, MintsKnown, Minting, At, Only
  <2> QED
    BY <2>2, <2>3 DEF Init
<1>2. TypeOK /\ MintsKnown /\ [Next]_vars => TypeOK' /\ MintsKnown'
  <2> SUFFICES ASSUME TypeOK, MintsKnown, [Next]_vars PROVE TypeOK' /\ MintsKnown'
    OBVIOUS
  <2>1. ASSUME NEW h \in Handlers, NEW t \in Tenants, CreateTenant(h, t) \/ StartMint(h, t)
        PROVE  TypeOK' /\ MintsKnown'
    <3>1. [kind |-> "mint", tenant |-> t] \in Jobs
      BY JobMade
    <3> QED
      BY <2>1, <3>1 DEF CreateTenant, StartMint, TypeOK, MintsKnown, Minting, At
  <2>2. ASSUME NEW h \in Handlers, NEW k \in Keys, NEW delivered \in BOOLEAN,
               InsertKey(h, k, delivered)
        PROVE  TypeOK' /\ MintsKnown'
    <3>1. job[h].tenant \in tenants
      BY <2>2 DEF InsertKey, MintsKnown
    <3>2. /\ UNCHANGED <<store, tenants>> /\ minted' = minted \cup {k}
          /\ shown' \subseteq minted' /\ stranded' \subseteq Tenants
          /\ job' = [job EXCEPT ![h] = NoJob]
      <4>1. stranded' \subseteq Tenants
        <5>1. stranded' \subseteq stranded \cup {job[h].tenant}
          BY <2>2, Zenon DEF InsertKey
        <5> QED
          BY <2>2, <5>1, Inserted DEF TypeOK
      <4>2. shown' \subseteq minted'
        BY <2>2 DEF InsertKey, TypeOK
      <4> QED
        BY <2>2, <4>1, <4>2 DEF InsertKey
    <3>3. \A j \in Keys : keys'[j] # NoKey => j \in minted' /\ keys'[j].tenant \in tenants
      BY <2>2, <3>1, <3>2, Inserted DEF TypeOK
    <3>4. keys' \in [Keys -> KeySet \cup {NoKey}]
      BY <2>2, Inserted
    <3> QED
      BY <3>2, <3>3, <3>4 DEF TypeOK, MintsKnown, Minting, At
  <2>3. ASSUME NEW h \in Handlers, NEW k \in Keys, Present(h, k)
        PROVE  TypeOK' /\ MintsKnown'
    <3>1. [kind |-> "auth", key |-> k, stage |-> "lookup"] \in Jobs
      BY JobMade DEF Stages
    <3> QED
      BY <2>3, <3>1 DEF Present, TypeOK, MintsKnown, Minting, At
  <2>4. ASSUME NEW h \in Handlers, NEW from \in Stages, NEW to \in Stages, Looks(h, from, to)
        PROVE  TypeOK' /\ MintsKnown'
    <3>1. /\ job' \in [Handlers -> Jobs \cup {NoJob}]
          /\ job'[h].kind = "auth" /\ job'[h].stage = to
          /\ \A g \in Handlers \ {h} : job'[g] = job[g]
      BY <2>4, Staged DEF Looks, GoTo
    <3> QED
      BY <2>4, <3>1 DEF Looks, GoTo, TypeOK, MintsKnown, Minting, At
  <2>5. ASSUME NEW h \in Handlers, NEW stored \in BOOLEAN, Touch(h, stored)
        PROVE  TypeOK' /\ MintsKnown'
    <3>1. /\ job' \in [Handlers -> Jobs \cup {NoJob}]
          /\ job'[h].kind = "auth" /\ job'[h].stage = "serving"
          /\ \A g \in Handlers \ {h} : job'[g] = job[g]
      BY <2>5, Staged DEF Touch, Stages
    <3>2. keys' \in [Keys -> KeySet \cup {NoKey}] /\ KeysKept
      BY <2>5, Touched
    <3>3. \A k \in Keys : keys'[k] # NoKey => k \in minted /\ keys'[k].tenant \in tenants
      <4>1. ASSUME NEW k \in Keys, keys[k] = NoKey PROVE keys'[k] = NoKey
        BY <2>5, <4>1 DEF Touch, TypeOK
      <4> QED
        BY <3>2, <4>1 DEF KeysKept, TypeOK
    <3> QED
      BY <2>5, <3>1, <3>2, <3>3 DEF Touch, TypeOK, MintsKnown, Minting, At
  <2>6. ASSUME NEW h \in Handlers, Finish(h) \/ BreakOff(h)
        PROVE  TypeOK' /\ MintsKnown'
    <3>1. stranded' \subseteq Tenants
      BY <2>6, JobTyped DEF Finish, BreakOff, Strand, TypeOK
    <3> QED
      BY <2>6, <3>1, Ended DEF TypeOK, MintsKnown, Minting, At
  <2>7. ASSUME NEW k \in Keys, Revoke(k) PROVE TypeOK' /\ MintsKnown'
    <3>1. UNCHANGED <<store, tenants, job, minted, shown, stranded>>
      BY <2>7 DEF Revoke
    <3>2. \A j \in Keys : keys[j] = NoKey => keys'[j] = NoKey
      BY <2>7 DEF Revoke, Active, TypeOK
    <3> QED
      BY <2>7, <3>1, <3>2, Revoked DEF TypeOK, MintsKnown, Minting, At, KeysKept
  <2>8. CASE Crash
    <3>1. \A h \in Handlers : job'[h] = NoJob
      BY <2>8 DEF Crash
    <3>2. CASE store = "memory"
      <4>1. PICK t \in Tenants, k \in Keys \ minted :
              /\ tenants' = {t} /\ keys' = Only(k, NewKey(t))
              /\ minted' = minted \cup {k} /\ shown' = shown \cup {k}
        BY <2>8, <3>2 DEF Crash
      <4> QED
        BY <2>8, <3>1, <3>2, <4>1, NewKeyTyped
           DEF Crash, TypeOK, MintsKnown, Minting, At, Only
    <3>3. CASE store # "memory"
      <4>1. stranded' \subseteq Tenants
        BY <2>8, <3>3, JobTyped DEF Crash, Strand, TypeOK
      <4> QED
        BY <2>8, <3>1, <3>3, <4>1 DEF Crash, TypeOK, MintsKnown, Minting, At
    <3> QED
      BY <3>2, <3>3
  <2>9. CASE UNCHANGED vars
    BY <2>9 DEF vars, TypeOK, MintsKnown, Minting, At
  <2> QED
    BY <2>1, <2>2, <2>3, <2>4, <2>5, <2>6, <2>7, <2>8, <2>9, LookUps DEF Next
<1> QED
  BY <1>1, <1>2, PTL DEF Spec

-------------------------------------------------------------------------------
(* Refusals *)

\* Where a request stands: its key was drawn; it is scanned for only if it has
\* no public id; it is refused for a cause.
LookedUp(h) ==
  /\ job[h] # NoJob /\ job[h].kind = "auth" => job[h].key \in minted
  /\ At(h, "scan") /\ Active(job[h].key) => ~keys[job[h].key].indexed
  /\ At(h, "rejected") =>
       ~Active(job[h].key) /\ (store = "postgres" => keys[job[h].key] # NoKey)

\* In a database no key is lost.
KeysInv ==
  /\ store = "postgres" => \A k \in minted : keys[k] # NoKey
  /\ \A h \in Handlers : LookedUp(h)

LEMMA SameKeys ==
  ASSUME keys' = keys
  PROVE  KeysKept
BY DEF KeysKept

\* What others do to the keys leaves a request where it stands.
LEMMA StaysLookedUp ==
  ASSUME TypeOK, KeysKept, store' = store, minted \subseteq minted',
         NEW h \in Handlers, LookedUp(h), job'[h] = job[h]
  PROVE  LookedUp(h)'
<1>1. \A k \in minted :
        /\ ~Active(k) => ~Active(k)'
        /\ Active(k) => keys'[k].indexed = keys[k].indexed
        /\ keys[k] # NoKey => keys'[k] # NoKey
  BY DEF KeysKept, Active, TypeOK
<1>2. \A stage : At(h, stage)' <=> At(h, stage)
  BY DEF At
<1>3. \A stage : At(h, stage) => job[h].key \in minted
  BY DEF LookedUp, At
<1> QED
  BY <1>1, <1>2, <1>3 DEF LookedUp

\* A step of one handler, if it stands well after it.
LEMMA HandlersLookedUp ==
  ASSUME TypeOK, KeysInv, KeysKept, store' = store, minted \subseteq minted',
         \A k \in minted' \ minted : keys'[k] # NoKey, minted \subseteq Keys,
         NEW h \in Handlers, LookedUp(h)', \A g \in Handlers \ {h} : job'[g] = job[g]
  PROVE  KeysInv'
<1>1. \A g \in Handlers : LookedUp(g)'
  BY StaysLookedUp DEF KeysInv
<1>2. store' = "postgres" => \A k \in minted' : keys'[k] # NoKey
  BY DEF KeysInv, KeysKept
<1> QED
  BY <1>1, <1>2 DEF KeysInv

\* A client is told that a key it was shown is invalid only if the key was
\* revoked, or lost in the restart of a store kept in memory.
THEOREM RejectionInvariant == Spec => []RejectedForCause
<1>1. Init => KeysInv
  <2> SUFFICES ASSUME Init PROVE KeysInv
    OBVIOUS
  <2>1. \A h \in Handlers : job[h] = NoJob
    BY DEF Init
  <2>2. \A k \in minted : keys[k] # NoKey
    BY NewKeyTyped DEF Init, Only
  <2> QED
    BY <2>1, <2>2 DEF KeysInv, LookedUp, At
<1>2. TypeOK /\ KeysInv /\ [Next]_vars => KeysInv'
  <2> SUFFICES ASSUME TypeOK, KeysInv, [Next]_vars PROVE KeysInv'
    OBVIOUS
  <2>0. minted \subseteq Keys
    BY DEF TypeOK
  <2>1. ASSUME NEW h \in Handlers, NEW t \in Tenants, CreateTenant(h, t) \/ StartMint(h, t)
        PROVE  KeysInv'
    <3>1. /\ UNCHANGED <<store, keys, minted>>
          /\ job' = [job EXCEPT ![h] = [kind |-> "mint", tenant |-> t]]
      BY <2>1 DEF CreateTenant, StartMint
    <3>2. LookedUp(h)' /\ \A g \in Handlers \ {h} : job'[g] = job[g]
      BY <3>1 DEF LookedUp, At, TypeOK
    <3> QED
      BY <2>0, <3>1, <3>2, SameKeys, HandlersLookedUp
  <2>2. ASSUME NEW h \in Handlers, NEW k \in Keys, NEW delivered \in BOOLEAN,
               InsertKey(h, k, delivered)
        PROVE  KeysInv'
    <3>1. /\ store' = store /\ minted' = minted \cup {k}
          /\ job' = [job EXCEPT ![h] = NoJob]
      BY <2>2 DEF InsertKey
    <3>2. LookedUp(h)' /\ \A g \in Handlers \ {h} : job'[g] = job[g]
      BY <3>1 DEF LookedUp, At, TypeOK
    <3>3. keys'[k] # NoKey /\ KeysKept
      BY <2>2, Inserted
    <3> QED
      BY <2>0, <3>1, <3>2, <3>3, HandlersLookedUp
  <2>3. ASSUME NEW h \in Handlers, NEW k \in Keys, Present(h, k) PROVE KeysInv'
    <3>1. /\ UNCHANGED <<store, keys, minted>> /\ k \in minted
          /\ job' = [job EXCEPT ![h] = [kind |-> "auth", key |-> k, stage |-> "lookup"]]
      BY <2>3 DEF Present, TypeOK
    <3>2. LookedUp(h)' /\ \A g \in Handlers \ {h} : job'[g] = job[g]
      BY <3>1 DEF LookedUp, At, TypeOK
    <3> QED
      BY <2>0, <3>1, <3>2, SameKeys, HandlersLookedUp
  <2>4. ASSUME NEW h \in Handlers, NEW from \in Stages, NEW to \in Stages, Looks(h, from, to)
        PROVE  KeysInv'
    <3>1. UNCHANGED <<store, keys, minted>> /\ KeysKept
      BY <2>4, SameKeys DEF Looks, GoTo
    <3>2. /\ job'[h].key = job[h].key /\ job'[h].stage = to
          /\ \A g \in Handlers \ {h} : job'[g] = job[g]
      BY <2>4, Staged DEF Looks, GoTo
    <3>3. job[h].key \in minted
      BY <2>4 DEF Looks, At, KeysInv, LookedUp
    <3>4. Active(job[h].key)' <=> Active(job[h].key)
      BY <3>1, <3>2 DEF Active
    <3>5. from = "scan" => (Active(job[h].key) => ~keys[job[h].key].indexed)
      BY <2>4 DEF Looks, KeysInv, LookedUp
    <3>6. store = "postgres" => keys[job[h].key] # NoKey
      BY <3>3 DEF KeysInv
    <3>7. LookedUp(h)'
      BY <2>4, <3>1, <3>2, <3>3, <3>5, <3>6 DEF LookedUp, Looks, At, Active
    <3> QED
      BY <2>0, <3>1, <3>2, <3>7, HandlersLookedUp
  <2>5. ASSUME NEW h \in Handlers, NEW stored \in BOOLEAN, Touch(h, stored) PROVE KeysInv'
    <3>1. UNCHANGED <<store, minted>> /\ KeysKept
      BY <2>5, Touched DEF Touch
    <3>2. /\ job'[h].key = job[h].key /\ job'[h].stage = "serving"
          /\ \A g \in Handlers \ {h} : job'[g] = job[g]
      BY <2>5, Staged DEF Touch, Stages
    <3>3. LookedUp(h)'
      BY <2>5, <3>1, <3>2 DEF LookedUp, Touch, At, KeysInv
    <3> QED
      BY <2>0, <3>1, <3>2, <3>3, HandlersLookedUp
  <2>6. ASSUME NEW h \in Handlers, Finish(h) \/ BreakOff(h) PROVE KeysInv'
    <3>1. LookedUp(h)'
      BY <2>6, Ended DEF LookedUp, At
    <3> QED
      BY <2>0, <2>6, <3>1, Ended, SameKeys, HandlersLookedUp
  <2>7. ASSUME NEW k \in Keys, Revoke(k) PROVE KeysInv'
    <3>1. UNCHANGED <<store, job, minted>> /\ KeysKept
      BY <2>7, Revoked DEF Revoke
    <3>2. \A g \in Handlers : LookedUp(g)'
      BY <3>1, StaysLookedUp DEF KeysInv
    <3> QED
      BY <2>0, <3>1, <3>2 DEF KeysInv, KeysKept
  <2>8. CASE Crash
    <3>1. \A h \in Handlers : job'[h] = NoJob
      BY <2>8 DEF Crash
    <3> QED
      BY <2>8, <3>1 DEF Crash, KeysInv, LookedUp, At
  <2>9. CASE UNCHANGED vars
    <3>1. \A g \in Handlers : LookedUp(g)'
      BY <2>9, SameKeys, StaysLookedUp DEF KeysInv, vars
    <3> QED
      BY <2>9, <3>1 DEF vars, KeysInv
  <2> QED
    BY <2>1, <2>2, <2>3, <2>4, <2>5, <2>6, <2>7, <2>8, <2>9, LookUps DEF Next
<1>3. KeysInv => RejectedForCause
  BY DEF KeysInv, LookedUp, RejectedForCause
<1> QED
  BY <1>1, <1>2, <1>3, TypeInvariant, PTL DEF Spec

-------------------------------------------------------------------------------
(* Revocation *)

\* Once a key is revoked, or lost with the store, no request is let in with it
\* that had not read it before.
THEOREM RevocationInvariant == Spec => RevocationDrains
<1>1. TypeOK /\ [Next]_vars =>
        [\A k \in Keys : ~Active(k) => Admits(k)' \subseteq Admits(k)]_vars
  <2> SUFFICES ASSUME TypeOK, Next, NEW k \in Keys, ~Active(k)
               PROVE  Admits(k)' \subseteq Admits(k)
    OBVIOUS
  <2> DEFINE Lets(g) == (At(g, "found") \/ At(g, "serving")) /\ job[g].key = k
  <2>0. ASSUME NEW h \in Handlers, \A g \in Handlers \ {h} : job'[g] = job[g],
               Lets(h)' => Lets(h)
        PROVE  Admits(k)' \subseteq Admits(k)
    BY <2>0 DEF Admits, At
  <2>1. ASSUME NEW h \in Handlers, NEW t \in Tenants, CreateTenant(h, t) \/ StartMint(h, t)
        PROVE  Admits(k)' \subseteq Admits(k)
    <3>1. job' = [job EXCEPT ![h] = [kind |-> "mint", tenant |-> t]]
      BY <2>1 DEF CreateTenant, StartMint
    <3> QED
      BY <2>0, <3>1 DEF TypeOK, At
  <2>2. ASSUME NEW h \in Handlers, NEW j \in Keys, NEW delivered \in BOOLEAN,
               InsertKey(h, j, delivered)
        PROVE  Admits(k)' \subseteq Admits(k)
    BY <2>0, <2>2 DEF InsertKey, TypeOK, At
  <2>3. ASSUME NEW h \in Handlers, NEW j \in Keys, Present(h, j)
        PROVE  Admits(k)' \subseteq Admits(k)
    BY <2>0, <2>3 DEF Present, TypeOK, At
  <2>4. ASSUME NEW h \in Handlers, NEW from \in Stages, NEW to \in Stages, Looks(h, from, to)
        PROVE  Admits(k)' \subseteq Admits(k)
    <3>1. /\ job'[h].key = job[h].key /\ job'[h].stage = to
          /\ \A g \in Handlers \ {h} : job'[g] = job[g]
      BY <2>4, Staged DEF Looks, GoTo
    <3>2. to = "found" => job[h].key # k
      BY <2>4 DEF Looks
    <3> QED
      BY <2>0, <2>4, <3>1, <3>2 DEF Looks, At
  <2>5. ASSUME NEW h \in Handlers, NEW stored \in BOOLEAN, Touch(h, stored)
        PROVE  Admits(k)' \subseteq Admits(k)
    <3>1. /\ job'[h].key = job[h].key
          /\ \A g \in Handlers \ {h} : job'[g] = job[g]
      BY <2>5, Staged DEF Touch, Stages
    <3> QED
      BY <2>0, <2>5, <3>1 DEF Touch
  <2>6. ASSUME NEW h \in Handlers, Finish(h) \/ BreakOff(h)
        PROVE  Admits(k)' \subseteq Admits(k)
    BY <2>0, <2>6, Ended DEF At
  <2>7. ASSUME NEW j \in Keys, Revoke(j) PROVE Admits(k)' \subseteq Admits(k)
    BY <2>7 DEF Revoke, Admits, At
  <2>8. CASE Crash
    BY <2>8 DEF Crash, Admits, At
  <2> QED
    BY <2>1, <2>2, <2>3, <2>4, <2>5, <2>6, <2>7, <2>8, LookUps DEF Next
<1> QED
  BY <1>1, TypeInvariant, PTL DEF Spec, RevocationDrains

-------------------------------------------------------------------------------
(* Tenants without a key *)

\* A tenant somebody can reach, or is about to be given its key.
Reachable(t) ==
  \/ Reached(t, shown)
  \/ \E h \in Handlers : Minting(h) /\ job[h].tenant = t

\* A key that was shown still reaches its tenant.
LEMMA StaysReached ==
  ASSUME TypeOK, KeysKept, shown \subseteq shown', NEW t, Reached(t, shown)
  PROVE  Reached(t, shown)'
<1>1. shown \subseteq Keys
  BY DEF TypeOK
<1> QED
  BY <1>1 DEF Reached, KeysKept

\* The same of a tenant, if no handler that mints a key for it ends.
LEMMA StaysReachable ==
  ASSUME TypeOK, KeysKept, shown \subseteq shown', NEW t, Reachable(t),
         \A h \in Handlers : Minting(h) /\ job[h].tenant = t => job'[h] = job[h]
  PROVE  Reachable(t)'
<1>1. CASE Reached(t, shown)
  BY <1>1, StaysReached DEF Reachable
<1>2. CASE \E h \in Handlers : Minting(h) /\ job[h].tenant = t
  BY <1>2 DEF Reachable, Minting
<1> QED
  BY <1>1, <1>2 DEF Reachable

\* A tenant nobody was shown a key of is one whose creation is under way, or
\* broke off between its two writes or before the answer.
THEOREM ReachableInvariant == Spec => []TenantsReachable
<1>1. Init => TenantsReachable
  <2> SUFFICES ASSUME Init PROVE TenantsReachable
    OBVIOUS
  <2>1. ASSUME NEW t \in Tenants, NEW k \in Keys, tenants = {t}, minted = {k},
               NEW row \in {NewKey(t), LegacyKey(t)}, keys = Only(k, row)
        PROVE  TenantsReachable
    BY <2>1, NewKeyTyped DEF Init, TenantsReachable, Reached, Only
  <2> QED
    BY <2>1 DEF Init, TenantsReachable
<1>2. TypeOK /\ TenantsReachable /\ [Next]_vars => TenantsReachable'
  <2> SUFFICES ASSUME TypeOK, TenantsReachable, [Next]_vars, NEW u \in tenants' \ stranded'
               PROVE  Reachable(u)'
    BY DEF TenantsReachable, Reachable
  <2>0. u \in tenants \ stranded => Reachable(u)
    BY DEF TenantsReachable, Reachable
  <2>1. ASSUME NEW h \in Handlers, NEW t \in Tenants, CreateTenant(h, t) \/ StartMint(h, t)
        PROVE  Reachable(u)'
    <3> DEFINE new == [kind |-> "mint", tenant |-> t]
    <3>1. /\ UNCHANGED <<keys, shown, stranded>> /\ tenants' \subseteq tenants \cup {t}
          /\ job[h] = NoJob /\ job' = [job EXCEPT ![h] = new]
      BY <2>1 DEF CreateTenant, StartMint
    <3>2. new # NoJob /\ new.kind = "mint" /\ new.tenant = t
      BY JobMade
    <3> HIDE DEF new
    <3>3. job'[h] = new
      BY <3>1 DEF TypeOK
    <3>4. CASE u = t
      BY <3>2, <3>3, <3>4 DEF Reachable, Minting
    <3>5. CASE u # t
      <4>1. Reachable(u)
        BY <2>0, <3>1, <3>5
      <4>2. \A g \in Handlers : Minting(g) => job'[g] = job[g]
        BY <3>1 DEF Minting, TypeOK
      <4> QED
        BY <3>1, <4>1, <4>2, SameKeys, StaysReachable
    <3> QED
      BY <3>4, <3>5
  <2>2. ASSUME NEW h \in Handlers, NEW k \in Keys, NEW delivered \in BOOLEAN,
               InsertKey(h, k, delivered)
        PROVE  Reachable(u)'
    <3>1. PICK t \in Tenants : t = job[h].tenant
      BY <2>2, Inserted
    <3>2. /\ shown' = IF delivered THEN shown \cup {k} ELSE shown
          /\ stranded' = IF delivered THEN stranded \ {t}
                         ELSE IF Reached(t, shown) THEN stranded ELSE stranded \cup {t}
          /\ tenants' = tenants
          /\ job' = [job EXCEPT ![h] = NoJob]
      BY <2>2, <3>1 DEF InsertKey
    <3>3. shown \subseteq shown' /\ KeysKept
      BY <2>2, <3>2, Inserted
    <3>4. CASE u = t /\ delivered
      BY <2>2, <3>1, <3>2, <3>4, Inserted DEF Reachable, Reached
    <3>5. CASE u = t /\ ~delivered
      <4>1. Reached(u, shown)
        BY <3>2, <3>5
      <4> QED
        BY <3>3, <4>1, StaysReached DEF Reachable
    <3>6. CASE u # t
      <4>1. Reachable(u)
        BY <2>0, <3>2, <3>6
      <4>2. \A g \in Handlers : Minting(g) /\ job[g].tenant = u => job'[g] = job[g]
        BY <3>1, <3>2, <3>6 DEF TypeOK
      <4> QED
        BY <3>3, <4>1, <4>2, StaysReachable
    <3> QED
      BY <3>4, <3>5, <3>6
  <2>3. ASSUME NEW h \in Handlers, ~Minting(h), KeysKept,
               UNCHANGED <<tenants, shown, stranded>>,
               \A g \in Handlers \ {h} : job'[g] = job[g]
        PROVE  Reachable(u)'
    BY <2>0, <2>3, StaysReachable
  <2>4. ASSUME NEW h \in Handlers, NEW k \in Keys, Present(h, k) PROVE Reachable(u)'
    BY <2>3, <2>4, SameKeys DEF Present, Minting, TypeOK
  <2>5. ASSUME NEW h \in Handlers, NEW from \in Stages, NEW to \in Stages, Looks(h, from, to)
        PROVE  Reachable(u)'
    BY <2>3, <2>5, SameKeys, Staged DEF Looks, GoTo
  <2>6. ASSUME NEW h \in Handlers, NEW stored \in BOOLEAN, Touch(h, stored)
        PROVE  Reachable(u)'
    <3>1. ~Minting(h) /\ \A g \in Handlers \ {h} : job'[g] = job[g]
      BY <2>6, Staged DEF Touch, Stages
    <3> QED
      BY <2>3, <2>6, <3>1, Touched DEF Touch
  <2>7. ASSUME NEW h \in Handlers, Finish(h) PROVE Reachable(u)'
    <3>1. ~Minting(h)
      BY <2>7 DEF Finish, At, Minting
    <3>2. KeysKept /\ UNCHANGED <<tenants, shown, stranded>>
      BY <2>7, SameKeys DEF Finish
    <3> QED
      BY <2>3, <2>7, <3>1, <3>2, Ended
  <2>8. ASSUME NEW quitting \in SUBSET Handlers, Strand(quitting),
               UNCHANGED <<tenants, keys, shown>>,
               \A g \in Handlers \ quitting : job'[g] = job[g]
        PROVE  Reachable(u)'
    <3>1. Reachable(u)
      BY <2>0, <2>8 DEF Strand
    <3>2. CASE Reached(u, shown)
      BY <2>8, <3>2, SameKeys, StaysReached DEF Reachable
    <3>3. CASE ~Reached(u, shown)
      <4>1. \A g \in Handlers : Minting(g) /\ job[g].tenant = u => g \notin quitting
        BY <2>8, <3>3 DEF Strand
      <4> QED
        BY <2>8, <3>1, <4>1, SameKeys, StaysReachable
    <3> QED
      BY <3>2, <3>3
  <2>9. ASSUME NEW h \in Handlers, BreakOff(h) PROVE Reachable(u)'
    <3>1. \A g \in Handlers \ {h} : job'[g] = job[g]
      BY <2>9, Ended
    <3> QED
      BY <2>8, <2>9, <3>1 DEF BreakOff
  <2>10. ASSUME NEW k \in Keys, Revoke(k) PROVE Reachable(u)'
    <3>1. UNCHANGED <<tenants, job, shown, stranded>> /\ KeysKept
      BY <2>10, Revoked DEF Revoke
    <3> QED
      BY <2>0, <3>1, StaysReachable
  <2>11. CASE Crash
    <3>1. CASE store = "memory"
      <4>1. PICK t \in Tenants, k \in Keys \ minted :
              /\ tenants' = {t} /\ keys' = Only(k, NewKey(t)) /\ shown' = shown \cup {k}
        BY <2>11, <3>1 DEF Crash
      <4> QED
        BY <4>1, NewKeyTyped DEF Reachable, Reached, Only
    <3>2. CASE store # "memory"
      BY <2>8, <2>11, <3>2 DEF Crash
    <3> QED
      BY <3>1, <3>2
  <2>12. CASE UNCHANGED vars
    BY <2>0, <2>12, SameKeys, StaysReachable DEF vars
  <2> QED
    BY <2>1, <2>2, <2>4, <2>5, <2>6, <2>7, <2>9, <2>10, <2>11, <2>12, LookUps DEF Next
<1> QED
  BY <1>1, <1>2, TypeInvariant, PTL DEF Spec
===============================================================================
