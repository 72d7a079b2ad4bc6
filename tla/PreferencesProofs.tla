--------------------------- MODULE PreferencesProofs ---------------------------
(***************************************************************************)
(* The safety properties of Preferences, for every set of tenants, combs,  *)
(* handlers and requests and under every fault.                            *)
(***************************************************************************)
EXTENDS Preferences, TLAPS

-------------------------------------------------------------------------------
(* Types *)

\* What a client may POST, the share raised for the free tier, is in use.
LEMMA NormalisedInUse ==
  ASSUME NEW r \in Requests, r.seconds >= 30, r.seconds <= 3600
  PROVE  Normalised(r) \in Settings
<1> DEFINE raised == [r EXCEPT !.share = 50]
<1>1. IsPreferences(r)
  BY PreferencesAssumption
<1>2. r.share \in Int
  BY <1>1 DEF IsPreferences, Shares
<1>3. CASE r.tier # "premium" /\ r.share < 50
  <2>1. /\ raised.share = 50 /\ raised.seconds = r.seconds /\ raised.comb = r.comb
        /\ DOMAIN raised = DOMAIN r
    BY <1>1 DEF IsPreferences
  <2> HIDE DEF raised
  <2>2. 50 \in Shares
    BY DEF Shares
  <2>3. IsPreferences(raised)
    BY <1>1, <2>1, <2>2 DEF IsPreferences
  <2>4. InUse(raised)
    BY <2>1, <2>3 DEF InUse
  <2>5. raised \in {[q EXCEPT !.share = 50] : q \in Requests}
    BY DEF raised
  <2>6. Normalised(r) = raised
    BY <1>3 DEF Normalised, raised
  <2> QED
    BY <2>4, <2>5, <2>6 DEF Settings
<1>4. CASE ~(r.tier # "premium" /\ r.share < 50)
  <2>1. Normalised(r) = r
    BY <1>4 DEF Normalised
  <2>2. InUse(r)
    BY <1>1, <1>2, <1>4 DEF InUse
  <2> QED
    BY <2>1, <2>2 DEF Settings
<1> QED
  BY <1>3, <1>4

LEMMA SettingsTyped ==
  /\ Default \in Settings
  /\ \A p \in Settings : p.share \in Shares /\ p.comb \in Combs \cup {None}
<1>1. Default \in Settings
  BY DEF Settings, InUse
<1>2. ASSUME NEW p \in Settings PROVE p.share \in Shares /\ p.comb \in Combs \cup {None}
  <2>1. CASE p = Default
    BY <2>1 DEF Default, Shares
  <2>2. CASE IsPreferences(p)
    BY <2>2 DEF IsPreferences
  <2> QED
    BY <2>1, <2>2 DEF Settings, InUse
<1> QED
  BY <1>1, <1>2

\* A handler at work has a step of its type.
LEMMA AtWork ==
  ASSUME TypeOK, NEW h \in Editors
  PROVE  /\ \A kinds : Doing(h, kinds) => edit[h] \in Steps
         /\ edit[h] # NoOp => edit[h] \in Steps
BY DEF TypeOK, Doing

\* What GoOn does to each handler.
LEMMA Moved ==
  ASSUME TypeOK, NEW h \in Editors, NEW new \in Steps \cup {NoOp}, NEW met,
         \A g \in Editors : g \in met => edit[g] # NoOp, GoOn(h, new, met)
  PROVE  /\ edit' \in [Editors -> Steps \cup {NoOp}]
         /\ edit'[h] = new
         /\ \A g \in Editors \ {h} :
              /\ g \notin met => edit'[g] = edit[g]
              /\ g \in met =>
                   /\ edit[g] \in Steps /\ edit'[g] \in Steps
                   /\ edit'[g].kind = edit[g].kind /\ edit'[g].tenant = edit[g].tenant
                   /\ edit'[g].prefs = edit[g].prefs /\ edit'[g].todo = edit[g].todo
                   /\ ~edit'[g].clean
         /\ \A g \in Editors \ {h} : \A kinds : Doing(g, kinds)' = Doing(g, kinds)
<1>1. edit'[h] = new
  BY DEF GoOn
<1>2. ASSUME NEW g \in Editors \ {h}, g \notin met PROVE edit'[g] = edit[g]
  BY <1>2 DEF GoOn
<1>3. ASSUME NEW g \in Editors \ {h}, g \in met
      PROVE  /\ edit[g] \in Steps /\ edit'[g] \in Steps
             /\ edit'[g].kind = edit[g].kind /\ edit'[g].tenant = edit[g].tenant
             /\ edit'[g].prefs = edit[g].prefs /\ edit'[g].todo = edit[g].todo
             /\ ~edit'[g].clean
  <2>1. edit[g] \in Steps
    BY <1>3 DEF TypeOK
  <2>2. edit'[g] = [edit[g] EXCEPT !.clean = FALSE]
    BY <1>3 DEF GoOn
  <2> QED
    BY <2>1, <2>2 DEF Steps
<1>4. \A g \in Editors : edit'[g] \in Steps \cup {NoOp}
  BY <1>1, <1>2, <1>3 DEF TypeOK
<1>5. edit' \in [Editors -> Steps \cup {NoOp}]
  <2>1. edit' = [g \in Editors |-> edit'[g]]
    BY DEF GoOn
  <2> QED
    BY <1>4, <2>1
<1>6. ASSUME NEW g \in Editors \ {h}, NEW kinds PROVE Doing(g, kinds)' = Doing(g, kinds)
  <2>1. CASE g \notin met
    BY <1>2, <2>1 DEF Doing
  <2>2. CASE g \in met
    BY <1>3, <2>2, PreferencesAssumption DEF Doing
  <2> QED
    BY <2>1, <2>2
<1> QED
  BY <1>1, <1>2, <1>3, <1>5, <1>6

\* What Spoil does to each handler.
LEMMA Spoilt ==
  ASSUME TypeOK, NEW met, \A g \in Editors : g \in met => edit[g] # NoOp, Spoil(met)
  PROVE  /\ edit' \in [Editors -> Steps \cup {NoOp}]
         /\ \A g \in Editors :
              /\ g \notin met => edit'[g] = edit[g]
              /\ g \in met => /\ ~edit'[g].clean
                              /\ edit'[g].tenant = edit[g].tenant
         /\ \A g \in Editors : \A kinds : Doing(g, kinds)' = Doing(g, kinds)
<1>1. ASSUME NEW g \in Editors, g \in met
      PROVE  /\ edit[g] \in Steps /\ edit'[g] \in Steps /\ ~edit'[g].clean
             /\ edit'[g].kind = edit[g].kind /\ edit'[g].tenant = edit[g].tenant
  <2>1. edit[g] \in Steps
    BY <1>1 DEF TypeOK
  <2>2. edit'[g] = [edit[g] EXCEPT !.clean = FALSE]
    BY <1>1 DEF Spoil
  <2> QED
    BY <2>1, <2>2 DEF Steps
<1>2. \A g \in Editors : g \notin met => edit'[g] = edit[g]
  BY DEF Spoil
<1>3. edit' \in [Editors -> Steps \cup {NoOp}]
  <2>1. \A g \in Editors : edit'[g] \in Steps \cup {NoOp}
    BY <1>1, <1>2 DEF TypeOK
  <2>2. edit' = [g \in Editors |-> edit'[g]]
    BY DEF Spoil
  <2> QED
    BY <2>1, <2>2
<1>4. ASSUME NEW g \in Editors, NEW kinds PROVE Doing(g, kinds)' = Doing(g, kinds)
  <2>1. CASE g \notin met
    BY <1>2, <2>1 DEF Doing
  <2>2. CASE g \in met
    BY <1>1, <2>2, PreferencesAssumption DEF Doing
  <2> QED
    BY <2>1, <2>2
<1> QED
  BY <1>1, <1>2, <1>3, <1>4

\* What a handler awaits, and what may come late, has its type.
LEMMA AwaitedTyped ==
  ASSUME TypeOK, NEW h \in Editors
  PROVE  /\ Doing(h, {"store"}) => UpdateOf(edit[h].tenant, edit[h].prefs) \in Sent
         /\ Doing(h, {"refresh"}) =>
              \A c \in NextOf(h) : c \in Combs /\ PatchOf(c, edit[h].prefs.share) \in Sent
         /\ Awaited(h) \subseteq Sent
         /\ \A m \in Sent : \A after \in Perhaps(m) : after \subseteq Sent
<1>1. ASSUME NEW kinds, Doing(h, kinds)
      PROVE  edit[h].tenant \in Tenants /\ edit[h].prefs \in Settings /\ edit[h].todo \subseteq Combs
  BY <1>1, AtWork DEF Steps
<1>2. ASSUME Doing(h, {"store"}) PROVE UpdateOf(edit[h].tenant, edit[h].prefs) \in Sent
  BY <1>1, <1>2 DEF UpdateOf, Sent
<1>3. ASSUME Doing(h, {"refresh"}), NEW c \in NextOf(h)
      PROVE  c \in Combs /\ PatchOf(c, edit[h].prefs.share) \in Sent
  <2>1. c \in Combs
    BY <1>1, <1>3 DEF NextOf
  <2>2. edit[h].prefs.share \in Shares
    BY <1>1, <1>3, SettingsTyped
  <2> QED
    BY <2>1, <2>2 DEF PatchOf, Sent
<1>4. Awaited(h) \subseteq Sent
  BY <1>2, <1>3 DEF Awaited
<1>5. \A m \in Sent : \A after \in Perhaps(m) : after \subseteq Sent
  BY DEF Perhaps, TypeOK
<1> QED
  BY <1>2, <1>3, <1>4, <1>5

\* What comes late has the fields of its kind.
LEMMA LateTyped ==
  ASSUME TypeOK, NEW m \in late
  PROVE  /\ m.to = "row" => m.tenant \in Tenants /\ m.prefs \in Settings
         /\ m.to = "comb" => m.comb \in Combs /\ m.share \in Shares
BY DEF TypeOK, Sent

LEMMA StepTyped ==
  ASSUME NEW kind \in {"store", "cache", "sync", "list", "refresh"}, NEW t \in Tenants,
         NEW p \in Settings, NEW todo \in SUBSET Combs, NEW clean \in BOOLEAN
  PROVE  /\ Step(kind, t, p, todo, clean) \in Steps
         /\ Step(kind, t, p, todo, clean) # NoOp
BY PreferencesAssumption DEF Step, Steps

LEMMA Met ==
  ASSUME NEW t
  PROVE  /\ \A g \in Editors : g \in Copying(t) => edit[g] # NoOp
         /\ \A g \in Editors : g \in Refreshing => edit[g] # NoOp
         /\ \A g \in Editors : g \in {} => edit[g] # NoOp
BY DEF Copying, Refreshing, Doing

\* A POST goes on with the row if there are rows, else with the copy.
LEMMA Started ==
  ASSUME NEW h \in Editors, NEW t \in Tenants, NEW r \in Requests, StartSet(h, t, r)
  PROVE  \E new \in Steps :
           /\ new.kind \in {"store", "cache"} /\ (new.kind = "store" <=> store = "postgres")
           /\ GoOn(h, new, {})
<1> DEFINE made(kind) == Step(kind, t, Normalised(r), {}, TRUE)
<1>1. Normalised(r) \in Settings
  BY NormalisedInUse DEF StartSet
<1>2. \A kind \in {"store", "cache"} : made(kind) \in Steps /\ made(kind).kind = kind
  BY <1>1 DEF Step, Steps
<1>3. PICK kind \in {"store", "cache"} :
        (kind = "store" <=> store = "postgres") /\ GoOn(h, made(kind), {})
  <2>1. CASE store = "postgres"
    BY <2>1 DEF StartSet, GoOn, Step
  <2>2. CASE store # "postgres"
    BY <2>2 DEF StartSet, GoOn, Step
  <2> QED
    BY <2>1, <2>2
<1> HIDE DEF made
<1> QED
  BY <1>2, <1>3

\* What is left to do once the combs are listed.
LEMMA Listed ==
  ASSUME TypeOK, NEW h \in Editors, NEW ok \in BOOLEAN, ListCombs(h, ok)
  PROVE  \E new \in Steps \cup {NoOp} :
           /\ new # NoOp =>
                /\ new.kind = "refresh"
                /\ new.clean => Refreshing = {} /\ new.todo = Combs
           /\ GoOn(h, new, Refreshing)
<1> DEFINE todo == (IF ok THEN Combs ELSE {}) \cup ({edit[h].prefs.comb} \ {None})
           step == Step("refresh", edit[h].tenant, edit[h].prefs, todo, ok /\ Refreshing = {})
           new == IF todo = {} THEN NoOp ELSE step
<1>1. edit[h] \in Steps
  BY AtWork DEF ListCombs
<1>2. edit[h].tenant \in Tenants /\ edit[h].prefs \in Settings
  BY <1>1 DEF Steps
<1>3. todo \subseteq Combs /\ (ok => todo = Combs)
  BY <1>2, SettingsTyped
<1>4. /\ step \in Steps /\ step.kind = "refresh"
      /\ step.clean => Refreshing = {} /\ step.todo = Combs
  BY <1>2, <1>3, StepTyped DEF Step
<1>5. GoOn(h, new, Refreshing)
  BY DEF ListCombs
<1>6. new \in Steps \cup {NoOp} /\ (new # NoOp => new = step)
  BY <1>4
<1> HIDE DEF new, step
<1> QED
  BY <1>4, <1>5, <1>6

\* Only with a database is a row written or read.
LEMMA MemoryOnly ==
  ASSUME TypeOK, store' = store, NEW h \in Editors,
         \A g \in Editors \ {h} :
           Doing(g, {"store", "sync"})' = Doing(g, {"store", "sync"}),
         store = "memory" => ~Doing(h, {"store", "sync"})'
  PROVE  store' = "memory" => ~\E g \in Editors : Doing(g, {"store", "sync"})'
BY DEF TypeOK

\* Rows, copies, shares and steps keep their types; what is stored or copied is
\* in use, so the free tier's minimum holds.
THEOREM TypeInvariant == Spec => []TypeOK
<1>1. Init => TypeOK
  BY SettingsTyped DEF Init, TypeOK, Doing
<1>2. TypeOK /\ [Next]_vars => TypeOK'
  <2> SUFFICES ASSUME TypeOK, [Next]_vars PROVE TypeOK'
    OBVIOUS
  <2>1. ASSUME NEW h \in Editors, NEW t \in Tenants, NEW r \in Requests, StartSet(h, t, r)
        PROVE  TypeOK'
    <3>1. PICK new \in Steps :
            /\ new.kind \in {"store", "cache"} /\ (new.kind = "store" <=> store = "postgres")
            /\ GoOn(h, new, {})
      BY <2>1, Started
    <3>2. UNCHANGED <<store, stored, cached, shown, late, torn, mixed>>
      BY <2>1 DEF StartSet
    <3>4. /\ edit' \in [Editors -> Steps \cup {NoOp}] /\ edit'[h] = new
          /\ \A g \in Editors \ {h} : \A kinds : Doing(g, kinds)' = Doing(g, kinds)
      BY <3>1, Met, Moved
    <3>5. store = "memory" => ~Doing(h, {"store", "sync"})'
      BY <3>1, <3>4 DEF Doing
    <3> QED
      BY <3>2, <3>4, <3>5, MemoryOnly DEF TypeOK
  <2>2. ASSUME NEW h \in Editors, NEW t \in Tenants, ReadRow(h, t) PROVE TypeOK'
    <3> DEFINE new == Step("sync", t, stored[t], {}, Copying(t) = {})
    <3>1. new \in Steps
      BY <2>2, StepTyped DEF TypeOK
    <3>2. GoOn(h, new, Copying(t)) /\ UNCHANGED <<store, stored, cached, shown, late, torn, mixed>>
      BY <2>2 DEF ReadRow
    <3> HIDE DEF new
    <3>3. edit' \in [Editors -> Steps \cup {NoOp}]
      BY <3>1, <3>2, Met, Moved
    <3> QED
      BY <2>2, <3>2, <3>3 DEF ReadRow, TypeOK
  <2>3. ASSUME NEW h \in Editors, NEW ok \in BOOLEAN, StoreRow(h, ok) PROVE TypeOK'
    <3> DEFINE t == edit[h].tenant
               new == Step("cache", t, edit[h].prefs, {}, ok /\ Copying(t) = {})
    <3>1. edit[h] \in Steps /\ Doing(h, {"store"})
      BY <2>3, AtWork DEF StoreRow
    <3>2. t \in Tenants /\ edit[h].prefs \in Settings
      BY <3>1 DEF Steps
    <3>3. new \in Steps
      BY <3>2, StepTyped
    <3>4. GoOn(h, new, Copying(t)) /\ UNCHANGED <<store, cached, shown, torn, mixed>>
      BY <2>3 DEF StoreRow
    <3>5. stored' \in [Tenants -> Settings]
      BY <2>3, <3>2 DEF StoreRow, TypeOK
    <3>6. store # "memory"
      BY <3>1 DEF TypeOK, Doing
    <3>8. late' \subseteq Sent
      <4>1. late' = late \/ late' \in Perhaps(UpdateOf(t, edit[h].prefs))
        BY <2>3 DEF StoreRow
      <4>2. UpdateOf(t, edit[h].prefs) \in Sent
        BY <3>1, AwaitedTyped
      <4> QED
        BY <4>1, <4>2, AwaitedTyped DEF TypeOK
    <3> HIDE DEF new, t
    <3>7. edit' \in [Editors -> Steps \cup {NoOp}]
      BY <3>3, <3>4, Met, Moved
    <3> QED
      BY <3>4, <3>5, <3>6, <3>7, <3>8 DEF TypeOK
  <2>4. ASSUME NEW h \in Editors, CacheSet(h) \/ SyncCache(h) PROVE TypeOK'
    <3>1. edit[h] \in Steps
      BY <2>4, AtWork DEF CacheSet, SyncCache
    <3>2. PICK new \in Steps \cup {NoOp} :
            /\ new \in {NoOp, [edit[h] EXCEPT !.kind = "list"]}
            /\ GoOn(h, new, {})
      BY <2>4, <3>1 DEF CacheSet, SyncCache, Steps
    <3>3. UNCHANGED <<store, stored, shown, late, mixed>> /\ Copy(h)
      BY <2>4 DEF CacheSet, SyncCache
    <3>4. cached' \in [Tenants -> Settings \cup {Absent}] /\ torn' \subseteq Tenants
      BY <3>1, <3>3 DEF Copy, TypeOK, Steps
    <3>5. /\ edit' \in [Editors -> Steps \cup {NoOp}] /\ edit'[h] = new
          /\ \A g \in Editors \ {h} : \A kinds : Doing(g, kinds)' = Doing(g, kinds)
      BY <3>2, Met, Moved
    <3>6. ~Doing(h, {"store", "sync"})'
      BY <3>1, <3>2, <3>5 DEF Doing, Steps
    <3> QED
      BY <3>3, <3>4, <3>5, <3>6, MemoryOnly DEF TypeOK
  <2>5. ASSUME NEW h \in Editors, NEW ok \in BOOLEAN, ListCombs(h, ok) PROVE TypeOK'
    <3>1. PICK new \in Steps \cup {NoOp} :
            (new # NoOp => new.kind = "refresh") /\ GoOn(h, new, Refreshing)
      BY <2>5, Listed
    <3>2. UNCHANGED <<store, stored, cached, shown, late, torn, mixed>>
      BY <2>5 DEF ListCombs
    <3>3. /\ edit' \in [Editors -> Steps \cup {NoOp}] /\ edit'[h] = new
          /\ \A g \in Editors \ {h} : \A kinds : Doing(g, kinds)' = Doing(g, kinds)
      BY <3>1, Met, Moved
    <3>4. ~Doing(h, {"store", "sync"})'
      BY <3>1, <3>3 DEF Doing
    <3> QED
      BY <3>2, <3>3, <3>4, MemoryOnly DEF TypeOK
  <2>6. ASSUME NEW h \in Editors, NEW ok \in BOOLEAN, NEW c \in Combs, RefreshComb(h, c, ok)
        PROVE  TypeOK'
    <3> DEFINE left == edit[h].todo \ {c}
               step == [edit[h] EXCEPT !.todo = left, !.clean = edit[h].clean /\ ok]
               new == IF left = {} THEN NoOp ELSE step
    <3>1. edit[h] \in Steps /\ edit[h].kind = "refresh"
      BY <2>6, AtWork DEF RefreshComb, Doing
    <3>2. step \in Steps /\ step.kind = "refresh" /\ edit[h].prefs.share \in Shares
      BY <3>1, SettingsTyped DEF Steps
    <3>3. GoOn(h, new, {}) /\ UNCHANGED <<store, stored, cached, torn>>
      BY <2>6 DEF RefreshComb
    <3>4. shown' \in [Combs -> Shares \cup {None}] /\ mixed' \in BOOLEAN
      BY <2>6, <3>2 DEF RefreshComb, TypeOK
    <3>8. late' \subseteq Sent
      <4>1. late' = late \/ late' \in Perhaps(PatchOf(c, edit[h].prefs.share))
        BY <2>6 DEF RefreshComb
      <4>2. PatchOf(c, edit[h].prefs.share) \in Sent
        BY <2>6, AwaitedTyped DEF RefreshComb
      <4> QED
        BY <4>1, <4>2, AwaitedTyped DEF TypeOK
    <3>5. new = NoOp \/ (new \in Steps /\ new.kind = "refresh")
      BY <3>2
    <3> HIDE DEF new
    <3>6. /\ edit' \in [Editors -> Steps \cup {NoOp}] /\ edit'[h] = new
          /\ \A g \in Editors \ {h} : \A kinds : Doing(g, kinds)' = Doing(g, kinds)
      BY <3>3, <3>5, Met, Moved
    <3>7. ~Doing(h, {"store", "sync"})'
      BY <3>5, <3>6 DEF Doing
    <3> QED
      BY <3>3, <3>4, <3>6, <3>7, <3>8, MemoryOnly DEF TypeOK
  <2>7. ASSUME NEW h \in Editors, BreakOff(h) PROVE TypeOK'
    <3>1. GoOn(h, NoOp, {}) /\ UNCHANGED <<store, stored, cached, shown>>
      BY <2>7 DEF BreakOff
    <3>2. torn' \subseteq Tenants /\ mixed' \in BOOLEAN
      BY <2>7, AtWork DEF BreakOff, TypeOK, Steps
    <3>5. late' \subseteq Sent
      <4>1. late' = late \/ \E m \in Awaited(h) : late' \in Perhaps(m)
        BY <2>7 DEF BreakOff
      <4> QED
        BY <4>1, AwaitedTyped DEF TypeOK
    <3>3. /\ edit' \in [Editors -> Steps \cup {NoOp}] /\ edit'[h] = NoOp
          /\ \A g \in Editors \ {h} : \A kinds : Doing(g, kinds)' = Doing(g, kinds)
      BY <3>1, Met, Moved
    <3>4. ~Doing(h, {"store", "sync"})'
      BY <3>3 DEF Doing
    <3> QED
      BY <3>1, <3>2, <3>3, <3>4, <3>5, MemoryOnly DEF TypeOK
  <2>8. CASE Crash
    <3>1. late' \subseteq Sent
      <4>1. PICK left \in [Editors -> UNION {Awaited(h) : h \in Editors} \cup {None}] :
              /\ \A h \in Editors : left[h] = None \/ left[h] \in Awaited(h)
              /\ late' = late \cup ({left[h] : h \in Editors} \ {None})
        BY <2>8 DEF Crash
      <4>2. \A h \in Editors : left[h] = None \/ left[h] \in Sent
        BY <4>1, AwaitedTyped
      <4> QED
        BY <4>1, <4>2 DEF TypeOK
    <3> QED
      BY <2>8, <3>1 DEF Crash, TypeOK, Doing
  <2>10. ASSUME NEW m \in late, LateUpdate(m) PROVE TypeOK'
    <3>1. edit' \in [Editors -> Steps \cup {NoOp}]
          /\ \A g \in Editors : \A kinds : Doing(g, kinds)' = Doing(g, kinds)
      BY <2>10, Met, Spoilt DEF LateUpdate
    <3>2. m.tenant \in Tenants /\ m.prefs \in Settings
      BY <2>10, LateTyped DEF LateUpdate
    <3>3. stored' \in [Tenants -> Settings] /\ late' \subseteq Sent /\ torn' \subseteq Tenants
      BY <2>10, <3>2 DEF LateUpdate, TypeOK
    <3> QED
      BY <2>10, <3>1, <3>3 DEF LateUpdate, TypeOK
  <2>11. ASSUME NEW m \in late, LateRefresh(m) PROVE TypeOK'
    <3>1. edit' \in [Editors -> Steps \cup {NoOp}]
          /\ \A g \in Editors : \A kinds : Doing(g, kinds)' = Doing(g, kinds)
      BY <2>11, Met, Spoilt DEF LateRefresh
    <3>2. m.comb \in Combs /\ m.share \in Shares
      BY <2>11, LateTyped DEF LateRefresh
    <3>3. shown' \in [Combs -> Shares \cup {None}] /\ late' \subseteq Sent
      BY <2>11, <3>2 DEF LateRefresh, TypeOK
    <3> QED
      BY <2>11, <3>1, <3>3 DEF LateRefresh, TypeOK
  <2>9. CASE UNCHANGED vars
    BY <2>9 DEF vars, TypeOK, Doing
  <2> QED
    BY <2>1, <2>2, <2>3, <2>4, <2>5, <2>6, <2>7, <2>8, <2>9, <2>10, <2>11
       DEF Next, Operation, Proceed
<1> QED
  BY <1>1, <1>2, PTL DEF Spec

-------------------------------------------------------------------------------
(* The copy and the row *)

\* A handler between the two that met no other has the row's value.
CleanHandlers ==
  store = "postgres" =>
    \A t \in Tenants, h \in Editors :
      h \in Copying(t) /\ edit[h].clean => edit[h].prefs = stored[t]

\* A copy that is behind the row is one that a POST is still to write, whereas
\* CopyFollowsRow allows a GET, which may break off and leave no trace.
Behind ==
  store = "postgres" =>
    \A t \in Tenants :
      \/ cached[t] \in {Absent, stored[t]}
      \/ t \in torn
      \/ \E h \in Editors : Doing(h, {"cache"}) /\ edit[h].tenant = t

CopyInv == CleanHandlers /\ Behind

\* A step of a handler that is not between row and copy, nor then is.
LEMMA CopyUntouched ==
  ASSUME CopyInv, NEW h \in Editors, UNCHANGED <<store, stored, cached, torn>>,
         ~Doing(h, {"cache", "sync"}), ~Doing(h, {"cache", "sync"})',
         \A g \in Editors \ {h} : Doing(g, {"cache", "sync"}) => edit'[g] = edit[g],
         \A g \in Editors \ {h} : \A kinds : Doing(g, kinds)' = Doing(g, kinds)
  PROVE  CopyInv'
<1>1. \A g \in Editors :
        Doing(g, {"cache", "sync"})' => g # h /\ edit'[g] = edit[g] /\ Doing(g, {"cache", "sync"})
  OBVIOUS
<1>2. \A g \in Editors : Doing(g, {"cache"}) => Doing(g, {"cache"})' /\ edit'[g] = edit[g]
  BY DEF Doing
<1>3. CleanHandlers'
  BY <1>1 DEF CopyInv, CleanHandlers, Copying
<1>4. Behind'
  BY <1>2 DEF CopyInv, Behind
<1> QED
  BY <1>3, <1>4 DEF CopyInv

\* A handler that writes the copy.
LEMMA CopyWritten ==
  ASSUME TypeOK, CopyInv, NEW h \in Editors, Doing(h, {"cache", "sync"}), Copy(h),
         UNCHANGED <<store, stored>>, ~Doing(h, {"cache", "sync"})',
         \A g \in Editors \ {h} : edit'[g] = edit[g]
  PROVE  CopyInv'
<1>1. PICK t \in Tenants : t = edit[h].tenant
  BY AtWork DEF Steps
<1>2. CleanHandlers'
  BY DEF CopyInv, CleanHandlers, Copying, Doing
<1>3. ASSUME store = "postgres"
      PROVE  /\ cached'[t] = stored[t] \/ t \in torn'
             /\ \A u \in Tenants \ {t} : cached'[u] = cached[u] /\ (u \in torn' <=> u \in torn)
  <2>1. edit[h].clean => edit[h].prefs = stored[t]
    BY <1>1, <1>3 DEF CopyInv, CleanHandlers, Copying
  <2>2. cached' = [cached EXCEPT ![t] = edit[h].prefs]
        /\ torn' = IF edit[h].clean THEN torn \ {t} ELSE torn \cup {t}
    BY <1>1 DEF Copy
  <2> QED
    BY <2>1, <2>2 DEF TypeOK
<1>4. \A g \in Editors \ {h} : Doing(g, {"cache"}) => Doing(g, {"cache"})' /\ edit'[g] = edit[g]
  BY DEF Doing
<1>5. Behind'
  BY <1>1, <1>3, <1>4 DEF CopyInv, Behind
<1> QED
  BY <1>2, <1>5 DEF CopyInv

\* A handler that writes or reads the row spoils what the others of the tenant
\* are doing; one that writes it without failing has its value.
LEMMA RowAccessed ==
  ASSUME TypeOK, CopyInv, NEW h \in Editors, NEW t \in Tenants, NEW new \in Steps,
         GoOn(h, new, Copying(t)), UNCHANGED <<store, cached, torn>>,
         ~Doing(h, {"cache", "sync"}), new.tenant = t,
         \A u \in Tenants \ {t} : stored'[u] = stored[u],
         stored'[t] = stored[t] \/ new.kind = "cache",
         new.clean => new.prefs = stored'[t]
  PROVE  CopyInv'
<1>1. /\ edit'[h] = new
      /\ \A g \in Editors \ {h} :
           /\ g \notin Copying(t) => edit'[g] = edit[g]
           /\ g \in Copying(t) => ~edit'[g].clean /\ edit'[g].tenant = edit[g].tenant
      /\ \A g \in Editors \ {h} : \A kinds : Doing(g, kinds)' = Doing(g, kinds)
  BY Met, Moved
<1>2. new # NoOp
  BY PreferencesAssumption
<1>3. CleanHandlers'
  <2> SUFFICES ASSUME store = "postgres", NEW u \in Tenants, NEW g \in Editors,
                      Doing(g, {"cache", "sync"})', edit'[g].tenant = u, edit'[g].clean
               PROVE  edit'[g].prefs = stored'[u]
    BY DEF CleanHandlers, Copying
  <2>1. CASE g = h
    BY <1>1, <2>1
  <2>2. CASE g # h
    <3>1. g \notin Copying(t) /\ edit'[g] = edit[g] /\ Doing(g, {"cache", "sync"})
      BY <1>1, <2>2
    <3>2. u # t
      BY <3>1 DEF Copying
    <3> QED
      BY <3>1, <3>2 DEF CopyInv, CleanHandlers, Copying
  <2> QED
    BY <2>1, <2>2
<1>4. Behind'
  <2> SUFFICES ASSUME store = "postgres", NEW u \in Tenants
               PROVE  \/ cached[u] \in {Absent, stored'[u]}
                      \/ u \in torn
                      \/ \E g \in Editors : Doing(g, {"cache"})' /\ edit'[g].tenant = u
    BY DEF Behind
  <2>1. CASE u = t /\ new.kind = "cache"
    <3>1. Doing(h, {"cache"})' /\ edit'[h].tenant = u
      BY <1>1, <1>2, <2>1 DEF Doing
    <3> QED
      BY <3>1
  <2>2. CASE stored'[u] = stored[u]
    <3>1. ASSUME NEW g \in Editors, Doing(g, {"cache"}), edit[g].tenant = u
          PROVE  Doing(g, {"cache"})' /\ edit'[g].tenant = u
      <4>1. g # h
        BY <3>1 DEF Doing
      <4> QED
        BY <1>1, <3>1, <4>1
    <3> QED
      BY <2>2, <3>1 DEF CopyInv, Behind
  <2> QED
    BY <2>1, <2>2
<1> QED
  BY <1>3, <1>4 DEF CopyInv

\* Once no handler of a tenant is between its row and its copy, the copy is the
\* row, or gone with a restart, or last written by handlers that overlapped,
\* failed or broke off.
THEOREM CopyInvariant == Spec => []CopyFollowsRow
<1>1. Init => CopyInv
  BY DEF Init, CopyInv, CleanHandlers, Behind, Copying, Doing
<1>2. TypeOK /\ CopyInv /\ [Next]_vars => CopyInv'
  <2> SUFFICES ASSUME TypeOK, CopyInv, [Next]_vars PROVE CopyInv'
    OBVIOUS
  <2>1. ASSUME NEW h \in Editors, NEW t \in Tenants, NEW r \in Requests, StartSet(h, t, r)
        PROVE  CopyInv'
    <3>1. UNCHANGED <<store, stored, cached, torn>> /\ edit[h] = NoOp
      BY <2>1 DEF StartSet
    <3>2. CASE store # "postgres"
      BY <3>1, <3>2 DEF CopyInv, CleanHandlers, Behind
    <3>3. CASE store = "postgres"
      <4>1. PICK new \in Steps : new.kind = "store" /\ GoOn(h, new, {})
        BY <2>1, <3>3, Started
      <4>2. /\ edit'[h] = new
            /\ \A g \in Editors \ {h} : edit'[g] = edit[g]
            /\ \A g \in Editors \ {h} : \A kinds : Doing(g, kinds)' = Doing(g, kinds)
        BY <4>1, Met, Moved
      <4>3. ~Doing(h, {"cache", "sync"}) /\ ~Doing(h, {"cache", "sync"})'
        BY <3>1, <4>1, <4>2 DEF Doing
      <4> QED
        BY <3>1, <4>2, <4>3, CopyUntouched
    <3> QED
      BY <3>2, <3>3
  <2>2. ASSUME NEW h \in Editors, NEW t \in Tenants, ReadRow(h, t) PROVE CopyInv'
    <3> DEFINE new == Step("sync", t, stored[t], {}, Copying(t) = {})
    <3>1. new \in Steps /\ new.tenant = t /\ new.prefs = stored[t]
      BY <2>2, StepTyped DEF TypeOK, Step
    <3>2. GoOn(h, new, Copying(t)) /\ UNCHANGED <<store, stored, cached, torn>>
          /\ ~Doing(h, {"cache", "sync"})
      BY <2>2 DEF ReadRow, Doing
    <3> HIDE DEF new
    <3> QED
      BY <3>1, <3>2, RowAccessed
  <2>3. ASSUME NEW h \in Editors, NEW ok \in BOOLEAN, StoreRow(h, ok) PROVE CopyInv'
    <3> DEFINE t == edit[h].tenant
               new == Step("cache", t, edit[h].prefs, {}, ok /\ Copying(t) = {})
    <3>1. edit[h] \in Steps /\ Doing(h, {"store"})
      BY <2>3, AtWork DEF StoreRow
    <3>2. t \in Tenants /\ edit[h].prefs \in Settings
      BY <3>1 DEF Steps
    <3>3. /\ new \in Steps /\ new.tenant = t /\ new.prefs = edit[h].prefs
          /\ new.kind = "cache" /\ (new.clean => ok)
      BY <3>2, StepTyped DEF Step
    <3>4. GoOn(h, new, Copying(t)) /\ UNCHANGED <<store, cached, torn>>
      BY <2>3 DEF StoreRow
    <3>5. stored' = IF ok THEN [stored EXCEPT ![t] = edit[h].prefs] ELSE stored
      BY <2>3 DEF StoreRow
    <3>6. /\ \A u \in Tenants \ {t} : stored'[u] = stored[u]
          /\ ok => stored'[t] = edit[h].prefs
      BY <3>2, <3>5 DEF TypeOK
    <3>7. ~Doing(h, {"cache", "sync"})
      BY <3>1 DEF Doing
    <3> HIDE DEF new, t
    <3> QED
      BY <3>2, <3>3, <3>4, <3>6, <3>7, RowAccessed
  <2>4. ASSUME NEW h \in Editors, CacheSet(h) \/ SyncCache(h) PROVE CopyInv'
    <3>1. Copy(h) /\ Doing(h, {"cache", "sync"}) /\ UNCHANGED <<store, stored>>
      BY <2>4 DEF CacheSet, SyncCache, Doing
    <3>2. /\ edit'[h] \in {NoOp, [edit[h] EXCEPT !.kind = "list"]}
          /\ \A g \in Editors \ {h} : edit'[g] = edit[g]
      BY <2>4 DEF CacheSet, SyncCache, GoOn
    <3>3. ~Doing(h, {"cache", "sync"})'
      BY <3>1, <3>2, AtWork DEF Doing, Steps
    <3> QED
      BY <3>1, <3>2, <3>3, CopyWritten
  <2>5. ASSUME NEW h \in Editors, NEW ok \in BOOLEAN, ListCombs(h, ok) PROVE CopyInv'
    <3>1. PICK new \in Steps \cup {NoOp} :
            /\ new # NoOp => new.kind = "refresh"
            /\ GoOn(h, new, Refreshing)
      BY <2>5, Listed
    <3>2. UNCHANGED <<store, stored, cached, torn>> /\ ~Doing(h, {"cache", "sync"})
      BY <2>5 DEF ListCombs, Doing
    <3>3. /\ edit'[h] = new
          /\ \A g \in Editors \ {h} : g \notin Refreshing => edit'[g] = edit[g]
          /\ \A g \in Editors \ {h} : \A kinds : Doing(g, kinds)' = Doing(g, kinds)
      BY <3>1, Met, Moved
    <3>4. ~Doing(h, {"cache", "sync"})'
      BY <3>1, <3>3 DEF Doing
    <3>5. \A g \in Editors \ {h} : Doing(g, {"cache", "sync"}) => edit'[g] = edit[g]
      BY <3>3 DEF Refreshing, Doing
    <3> QED
      BY <3>2, <3>3, <3>4, <3>5, CopyUntouched
  <2>6. ASSUME NEW h \in Editors, NEW ok \in BOOLEAN, NEW c \in Combs, RefreshComb(h, c, ok)
        PROVE  CopyInv'
    <3>1. /\ edit'[h] = NoOp \/ edit'[h].kind = edit[h].kind
          /\ \A g \in Editors \ {h} : edit'[g] = edit[g]
          /\ UNCHANGED <<store, stored, cached, torn>>
      BY <2>6, AtWork DEF RefreshComb, GoOn, Steps
    <3>2. ~Doing(h, {"cache", "sync"}) /\ ~Doing(h, {"cache", "sync"})'
      BY <2>6, <3>1 DEF RefreshComb, Doing
    <3>3. \A g \in Editors \ {h} : \A kinds : Doing(g, kinds)' = Doing(g, kinds)
      BY <3>1 DEF Doing
    <3> QED
      BY <3>1, <3>2, <3>3, CopyUntouched
  <2>7. ASSUME NEW h \in Editors, BreakOff(h) PROVE CopyInv'
    <3>1. /\ edit'[h] = NoOp
          /\ \A g \in Editors \ {h} : edit'[g] = edit[g]
          /\ UNCHANGED <<store, stored, cached>>
          /\ torn' = IF Doing(h, {"cache"}) THEN torn \cup {edit[h].tenant} ELSE torn
      BY <2>7 DEF BreakOff, GoOn
    <3>2. CleanHandlers'
      BY <3>1 DEF CopyInv, CleanHandlers, Copying, Doing
    <3>3. Behind'
      BY <3>1 DEF CopyInv, Behind, Doing
    <3> QED
      BY <3>2, <3>3 DEF CopyInv
  <2>8. CASE Crash
    BY <2>8 DEF Crash, CopyInv, CleanHandlers, Behind, Copying, Doing
  <2>10. ASSUME NEW m \in late, LateUpdate(m) PROVE CopyInv'
    <3> DEFINE t == m.tenant
    <3>1. /\ \A g \in Editors :
               /\ g \notin Copying(t) => edit'[g] = edit[g]
               /\ g \in Copying(t) => ~edit'[g].clean /\ edit'[g].tenant = edit[g].tenant
          /\ \A g \in Editors : \A kinds : Doing(g, kinds)' = Doing(g, kinds)
      BY <2>10, Met, Spoilt DEF LateUpdate
    <3>2. /\ UNCHANGED <<store, cached>> /\ torn' = torn \cup {t}
          /\ \A u \in Tenants \ {t} : stored'[u] = stored[u]
      BY <2>10 DEF LateUpdate, TypeOK
    <3> HIDE DEF t
    <3>3. CleanHandlers'
      <4> SUFFICES ASSUME store = "postgres", NEW u \in Tenants, NEW g \in Editors,
                          Doing(g, {"cache", "sync"})', edit'[g].tenant = u, edit'[g].clean
                   PROVE  edit'[g].prefs = stored'[u]
        BY <3>2 DEF CleanHandlers, Copying
      <4>1. g \notin Copying(t) /\ edit'[g] = edit[g] /\ Doing(g, {"cache", "sync"})
        BY <3>1
      <4>2. u # t
        BY <4>1 DEF Copying
      <4> QED
        BY <3>2, <4>1, <4>2 DEF CopyInv, CleanHandlers, Copying
    <3>4. Behind'
      <4>1. ASSUME NEW u \in Tenants \ {t}, NEW g \in Editors, Doing(g, {"cache"}),
                   edit[g].tenant = u
            PROVE  Doing(g, {"cache"})' /\ edit'[g].tenant = u
        BY <3>1, <4>1
      <4> QED
        BY <3>2, <4>1 DEF CopyInv, Behind
    <3> QED
      BY <3>3, <3>4 DEF CopyInv
  <2>11. ASSUME NEW m \in late, LateRefresh(m) PROVE CopyInv'
    <3>1. /\ \A g \in Editors : g \notin Refreshing => edit'[g] = edit[g]
          /\ \A g \in Editors : \A kinds : Doing(g, kinds)' = Doing(g, kinds)
      BY <2>11, Met, Spoilt DEF LateRefresh
    <3>2. \A g \in Editors : Doing(g, {"cache", "sync"}) => g \notin Refreshing
      BY DEF Refreshing, Doing
    <3>3. \A g \in Editors : Doing(g, {"cache"}) => Doing(g, {"cache", "sync"})
      BY DEF Doing
    <3>4. UNCHANGED <<store, stored, cached, torn>>
      BY <2>11 DEF LateRefresh
    <3>5. CleanHandlers'
      BY <3>1, <3>2, <3>4 DEF CopyInv, CleanHandlers, Copying
    <3>6. Behind'
      BY <3>1, <3>2, <3>3, <3>4 DEF CopyInv, Behind
    <3> QED
      BY <3>5, <3>6 DEF CopyInv
  <2>9. CASE UNCHANGED vars
    BY <2>9 DEF vars, CopyInv, CleanHandlers, Behind, Copying, Doing
  <2> QED
    BY <2>1, <2>2, <2>3, <2>4, <2>5, <2>6, <2>7, <2>8, <2>9, <2>10, <2>11
       DEF Next, Operation, Proceed
<1>3. CopyInv => CopyFollowsRow
  BY DEF CopyInv, Behind, CopyFollowsRow, Copying, Doing
<1> QED
  BY <1>1, <1>2, <1>3, TypeInvariant, PTL DEF Spec

-------------------------------------------------------------------------------
(* The combs *)

\* A handler that refreshes the combs, met no other and had no error is the
\* only one, and those it is done with have its share.
CleanRefresh ==
  \A h \in Refreshing :
    edit[h].clean =>
      /\ Refreshing = {h}
      /\ \A c \in Combs \ edit[h].todo : shown[c] = edit[h].prefs.share

CombsInv == CleanRefresh /\ CombsAgree

\* A step that has nothing to do with the combs.
LEMMA CombsUntouched ==
  ASSUME CombsInv, UNCHANGED <<shown, mixed>>,
         \A g \in Editors : Doing(g, {"refresh"})' <=> Doing(g, {"refresh"}),
         \A g \in Editors : Doing(g, {"refresh"}) => edit'[g] = edit[g]
  PROVE  CombsInv'
<1>1. Refreshing' = Refreshing /\ \A g \in Refreshing : edit'[g] = edit[g]
  BY DEF Refreshing
<1> QED
  BY <1>1 DEF CombsInv, CleanRefresh, CombsAgree

\* The same of the steps of one handler.
LEMMA OtherStep ==
  ASSUME TypeOK, CombsInv, NEW h \in Editors, NEW new \in Steps \cup {NoOp},
         NEW met, GoOn(h, new, met), UNCHANGED <<shown, mixed>>,
         \A g \in Editors : g \in met => Doing(g, {"cache", "sync"}),
         ~Doing(h, {"refresh"}), new # NoOp => new.kind # "refresh"
  PROVE  CombsInv'
<1>1. \A g \in Editors : g \in met => edit[g] # NoOp
  BY DEF Doing
<1>2. /\ edit'[h] = new
      /\ \A g \in Editors \ {h} : g \notin met => edit'[g] = edit[g]
      /\ \A g \in Editors \ {h} : \A kinds : Doing(g, kinds)' = Doing(g, kinds)
  BY <1>1, Moved
<1>3. ~Doing(h, {"refresh"})'
  BY <1>2 DEF Doing
<1>4. \A g \in Editors : Doing(g, {"refresh"}) => g # h /\ g \notin met
  BY DEF Doing
<1> QED
  BY <1>2, <1>3, <1>4, CombsUntouched

\* Once nobody refreshes them, all combs have the share of one POST, unless the
\* last refreshes overlapped, failed or broke off, or a PATCH given up before has
\* come since.
THEOREM CombsInvariant == Spec => []CombsAgree
<1>1. Init => CombsInv
  BY DEF Init, CombsInv, CleanRefresh, CombsAgree, Refreshing, Doing
<1>2. TypeOK /\ CombsInv /\ [Next]_vars => CombsInv'
  <2> SUFFICES ASSUME TypeOK, CombsInv, [Next]_vars PROVE CombsInv'
    OBVIOUS
  <2>0. /\ Refreshing \subseteq Editors
        /\ \A t : \A g \in Copying(t) : Doing(g, {"cache", "sync"})
    BY DEF Refreshing, Copying
  <2>1. ASSUME NEW h \in Editors, NEW t \in Tenants, NEW r \in Requests, StartSet(h, t, r)
        PROVE  CombsInv'
    <3>1. PICK new \in Steps : new.kind \in {"store", "cache"} /\ GoOn(h, new, {})
      BY <2>1, Started
    <3>2. UNCHANGED <<shown, mixed>> /\ ~Doing(h, {"refresh"})
      BY <2>1 DEF StartSet, Doing
    <3> QED
      BY <3>1, <3>2, OtherStep
  <2>2. ASSUME NEW h \in Editors, NEW t \in Tenants, ReadRow(h, t) PROVE CombsInv'
    <3> DEFINE new == Step("sync", t, stored[t], {}, Copying(t) = {})
    <3>1. new \in Steps /\ new.kind = "sync"
      BY <2>2, StepTyped DEF TypeOK, Step
    <3>2. GoOn(h, new, Copying(t)) /\ UNCHANGED <<shown, mixed>> /\ ~Doing(h, {"refresh"})
      BY <2>2 DEF ReadRow, Doing
    <3> HIDE DEF new
    <3> QED
      BY <2>0, <3>1, <3>2, OtherStep
  <2>3. ASSUME NEW h \in Editors, NEW ok \in BOOLEAN, StoreRow(h, ok) PROVE CombsInv'
    <3> DEFINE t == edit[h].tenant
               new == Step("cache", t, edit[h].prefs, {}, ok /\ Copying(t) = {})
    <3>1. edit[h] \in Steps /\ Doing(h, {"store"})
      BY <2>3, AtWork DEF StoreRow
    <3>2. new \in Steps /\ new.kind = "cache"
      BY <3>1, StepTyped DEF Steps, Step
    <3>3. GoOn(h, new, Copying(t)) /\ UNCHANGED <<shown, mixed>> /\ ~Doing(h, {"refresh"})
      BY <2>3, <3>1 DEF StoreRow, Doing
    <3> HIDE DEF new, t
    <3> QED
      BY <2>0, <3>2, <3>3, OtherStep
  <2>4. ASSUME NEW h \in Editors, CacheSet(h) \/ SyncCache(h) PROVE CombsInv'
    <3>1. edit[h] \in Steps
      BY <2>4, AtWork DEF CacheSet, SyncCache
    <3>2. PICK new \in Steps \cup {NoOp} :
            /\ new # NoOp => new.kind = "list"
            /\ GoOn(h, new, {})
      BY <2>4, <3>1 DEF CacheSet, SyncCache, Steps
    <3>3. UNCHANGED <<shown, mixed>> /\ ~Doing(h, {"refresh"})
      BY <2>4 DEF CacheSet, SyncCache, Doing
    <3> QED
      BY <3>2, <3>3, OtherStep
  <2>5. ASSUME NEW h \in Editors, NEW ok \in BOOLEAN, ListCombs(h, ok) PROVE CombsInv'
    <3>1. PICK new \in Steps \cup {NoOp} :
            /\ new # NoOp =>
                 /\ new.kind = "refresh"
                 /\ new.clean => Refreshing = {} /\ new.todo = Combs
            /\ GoOn(h, new, Refreshing)
      BY <2>5, Listed
    <3>2. UNCHANGED <<shown, mixed>> /\ h \notin Refreshing
      BY <2>5 DEF ListCombs, Refreshing, Doing
    <3>3. /\ edit'[h] = new
          /\ \A g \in Editors \ {h} : g \in Refreshing => ~edit'[g].clean
          /\ \A g \in Editors \ {h} : \A kinds : Doing(g, kinds)' = Doing(g, kinds)
      BY <3>1, Met, Moved
    <3>4. Refreshing' = Refreshing \cup (IF new = NoOp THEN {} ELSE {h})
      BY <3>1, <3>2, <3>3 DEF Refreshing, Doing
    <3>5. CleanRefresh'
      BY <2>0, <3>1, <3>2, <3>3, <3>4 DEF CleanRefresh
    <3>6. CombsAgree'
      BY <3>2, <3>4 DEF CombsInv, CombsAgree
    <3> QED
      BY <3>5, <3>6 DEF CombsInv
  <2>6. ASSUME NEW h \in Editors, NEW ok \in BOOLEAN, NEW c \in Combs, RefreshComb(h, c, ok)
        PROVE  CombsInv'
    <3> DEFINE left == edit[h].todo \ {c}
    <3>1. edit[h] \in Steps /\ h \in Refreshing /\ edit[h].kind = "refresh"
      BY <2>6, AtWork DEF RefreshComb, Refreshing, Doing
    <3>2. \A g \in Editors \ {h} : edit'[g] = edit[g]
      BY <2>6 DEF RefreshComb, GoOn
    <3>3. /\ left = {} => edit'[h] = NoOp
          /\ left # {} =>
               /\ edit'[h] \in Steps /\ edit'[h].kind = "refresh"
               /\ edit'[h].todo = left /\ edit'[h].prefs = edit[h].prefs
               /\ edit'[h].clean => edit[h].clean /\ ok
      BY <2>6, <3>1 DEF RefreshComb, GoOn, Steps
    <3>4. Refreshing' = IF left = {} THEN Refreshing \ {h} ELSE Refreshing
      BY <3>1, <3>2, <3>3, PreferencesAssumption DEF Refreshing, Doing
    <3>5. ASSUME edit[h].clean, ok
          PROVE  /\ Refreshing = {h}
                 /\ \A d \in Combs \ left : shown'[d] = edit[h].prefs.share
      <4>1. shown' = [shown EXCEPT ![c] = edit[h].prefs.share]
        BY <2>6, <3>5 DEF RefreshComb
      <4> QED
        BY <3>1, <3>5, <4>1 DEF CombsInv, CleanRefresh, TypeOK
    <3>6. \A g \in Refreshing \ {h} : ~edit[g].clean
      BY <3>1 DEF CombsInv, CleanRefresh
    <3>7. CleanRefresh'
      <4> SUFFICES ASSUME NEW g \in Refreshing', edit'[g].clean
                   PROVE  /\ Refreshing' = {g}
                          /\ \A d \in Combs \ edit'[g].todo : shown'[d] = edit'[g].prefs.share
        BY DEF CleanRefresh
      <4>1. g = h
        BY <2>0, <3>2, <3>4, <3>6
      <4>2. left # {} /\ Refreshing' = Refreshing
        BY <3>4, <4>1
      <4>3. edit[h].clean /\ ok
        BY <3>3, <4>1, <4>2
      <4> QED
        BY <3>3, <3>5, <4>1, <4>2, <4>3
    <3>8. CombsAgree'
      <4>1. CASE left = {}
        <5>1. ~mixed' => edit[h].clean /\ ok
          BY <2>6, <4>1 DEF RefreshComb
        <5> QED
          BY <3>5, <4>1, <5>1 DEF CombsAgree
      <4>2. CASE left # {}
        BY <3>1, <3>4, <4>2 DEF CombsAgree
      <4> QED
        BY <4>1, <4>2
    <3> QED
      BY <3>7, <3>8 DEF CombsInv
  <2>7. ASSUME NEW h \in Editors, BreakOff(h) PROVE CombsInv'
    <3>1. /\ edit'[h] = NoOp
          /\ \A g \in Editors \ {h} : edit'[g] = edit[g]
          /\ shown' = shown /\ mixed' = (mixed \/ h \in Refreshing)
      BY <2>7 DEF BreakOff, GoOn
    <3>2. Refreshing' = Refreshing \ {h}
      BY <3>1 DEF Refreshing, Doing
    <3>3. CleanRefresh'
      BY <2>0, <3>1, <3>2 DEF CombsInv, CleanRefresh
    <3>4. CombsAgree'
      BY <3>1, <3>2 DEF CombsInv, CombsAgree
    <3> QED
      BY <3>3, <3>4 DEF CombsInv
  <2>8. CASE Crash
    <3>1. Refreshing' = {} /\ shown' = shown /\ mixed' = (mixed \/ Refreshing # {})
      BY <2>8 DEF Crash, Refreshing, Doing
    <3> QED
      BY <3>1 DEF CombsInv, CleanRefresh, CombsAgree
  <2>9. CASE UNCHANGED vars
    BY <2>9 DEF vars, CombsInv, CleanRefresh, CombsAgree, Refreshing, Doing
  <2>10. ASSUME NEW m \in late, LateUpdate(m) PROVE CombsInv'
    <3>1. /\ \A g \in Editors : g \notin Copying(m.tenant) => edit'[g] = edit[g]
          /\ \A g \in Editors : \A kinds : Doing(g, kinds)' = Doing(g, kinds)
      BY <2>10, Met, Spoilt DEF LateUpdate
    <3>2. UNCHANGED <<shown, mixed>>
      BY <2>10 DEF LateUpdate
    <3>3. \A g \in Editors : Doing(g, {"refresh"}) => g \notin Copying(m.tenant)
      BY DEF Copying, Doing
    <3> QED
      BY <3>1, <3>2, <3>3, CombsUntouched
  <2>11. ASSUME NEW m \in late, LateRefresh(m) PROVE CombsInv'
    <3>1. /\ \A g \in Editors : g \in Refreshing => ~edit'[g].clean
          /\ \A g \in Editors : \A kinds : Doing(g, kinds)' = Doing(g, kinds)
      BY <2>11, Met, Spoilt DEF LateRefresh
    <3>2. Refreshing' = Refreshing
      BY <3>1 DEF Refreshing
    <3>3. CleanRefresh'
      BY <2>0, <3>1, <3>2 DEF CleanRefresh
    <3>4. CombsAgree'
      BY <2>11 DEF LateRefresh, CombsAgree
    <3> QED
      BY <3>3, <3>4 DEF CombsInv
  <2> QED
    BY <2>1, <2>2, <2>3, <2>4, <2>5, <2>6, <2>7, <2>8, <2>9, <2>10, <2>11
       DEF Next, Operation, Proceed
<1>3. CombsInv => CombsAgree
  BY DEF CombsInv
<1> QED
  BY <1>1, <1>2, <1>3, TypeInvariant, PTL DEF Spec
===============================================================================
