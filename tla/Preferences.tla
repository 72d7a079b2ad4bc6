----------------------------- MODULE Preferences ------------------------------
(***************************************************************************)
(* The preferences of the tenants (routes/me.rs, tenant/mod.rs): a row in  *)
(* the database if there is one, and a copy in memory, which is all that a *)
(* dispatch looks at.                                                      *)
(*                                                                         *)
(* POST /v1/me/preferences writes the row, then the copy, then asks the    *)
(* honeycomb for its combs and tells them, one after the other, of the new *)
(* share.  GET reads the row and writes it to the copy.  No lock is held   *)
(* from one of these steps to the next, and a request to the database or   *)
(* the honeycomb may be carried out after the handler stopped waiting.     *)
(***************************************************************************)
EXTENDS Integers, FiniteSets

CONSTANTS
  Tenants,
  Editors,        \* handlers of POST and GET at one time
  Combs,          \* the combs that are online
  Requests,       \* the preferences a client may POST
  Stores,         \* the stores an operator may choose
  Faults,         \* a subset of {"error", "disconnect", "crash"}
  MaxLate,        \* bound: requests given up that may still be carried out
  Absent, NoOp, None

\* pool_share_pct is a u8.
Shares == 0 .. 255

IsPreferences(p) ==
  /\ DOMAIN p = {"tier", "share", "seconds", "floor", "queen", "comb"}
  /\ p.share \in Shares
  /\ p.seconds \in Nat
  /\ p.comb \in Combs \cup {None}

Default ==
  [tier |-> "free", share |-> 0, seconds |-> 300, floor |-> "private",
   queen |-> None, comb |-> None]

\* Preferences a row or a copy may have.
InUse(p) ==
  \/ p = Default
  \/ /\ IsPreferences(p)
     /\ p.seconds >= 30 /\ p.seconds <= 3600
     /\ p.tier # "premium" => p.share >= 50

Settings ==
  {p \in {Default} \cup Requests \cup {[r EXCEPT !.share = 50] : r \in Requests} : InUse(p)}

Steps ==
  [kind : {"store", "cache", "sync", "list", "refresh"}, tenant : Tenants,
   prefs : Settings, todo : SUBSET Combs, clean : BOOLEAN]

\* An UPDATE of a row, and a PATCH that tells a comb of a share.
UpdateOf(t, p) == [to |-> "row", tenant |-> t, prefs |-> p]
PatchOf(c, n) == [to |-> "comb", comb |-> c, share |-> n]

Sent ==
  [to : {"row"}, tenant : Tenants, prefs : Settings]
    \cup [to : {"comb"}, comb : Combs, share : Shares]

ASSUME PreferencesAssumption ==
  /\ Stores \subseteq {"memory", "postgres"}
  /\ Faults \subseteq {"error", "disconnect", "crash"}
  /\ MaxLate \in Nat
  /\ \A r \in Requests : IsPreferences(r)
  /\ Absent \notin Settings /\ NoOp \notin Steps

VARIABLES
  store,     \* the store in use
  stored,    \* tenants.preferences: a row's value for each tenant
  cached,    \* the copies in memory, or Absent
  shown,     \* the share each comb was last told, or None (external)
  edit,      \* what each handler has still to do, or NoOp
  late,      \* what nobody waits for any more, and may still be carried out
             \* (external)
  torn,      \* history: tenants whose row and copy were last written by
             \* handlers that overlapped, failed or broke off
  mixed      \* history: the same of the combs (TRUE before the first refresh)

vars == <<store, stored, cached, shown, edit, late, torn, mixed>>

\* Fault seeded: the free tier's minimum is not enforced.
Unclamped(r) == r

Normalised(r) ==
  IF r.tier # "premium" /\ r.share < 50 THEN [r EXCEPT !.share = 50] ELSE r

Doing(h, kinds) == edit[h] # NoOp /\ edit[h].kind \in kinds

\* Handlers of t that accessed the row and have not written the copy.
Copying(t) == {h \in Editors : Doing(h, {"cache", "sync"}) /\ edit[h].tenant = t}
Refreshing == {h \in Editors : Doing(h, {"refresh"})}

\* clean (history): so far none of the steps failed or met another handler's.
Step(kind, t, p, todo, clean) ==
  [kind |-> kind, tenant |-> t, prefs |-> p, todo |-> todo, clean |-> clean]

\* h goes on with op, and spoils what the handlers in met are doing.
GoOn(h, op, met) ==
  edit' = [g \in Editors |->
             IF g = h THEN op
             ELSE IF g \in met THEN [edit[g] EXCEPT !.clean = FALSE] ELSE edit[g]]

\* late once a handler gave up m: m is carried out after all, or never.
Perhaps(m) == IF Cardinality(late) < MaxLate THEN {late, late \cup {m}} ELSE {late}

TypeOK ==
  /\ store \in Stores
  /\ stored \in [Tenants -> Settings]
  /\ cached \in [Tenants -> Settings \cup {Absent}]
  /\ shown \in [Combs -> Shares \cup {None}]
  /\ edit \in [Editors -> Steps \cup {NoOp}]
  /\ late \subseteq Sent
  /\ store = "memory" => ~\E h \in Editors : Doing(h, {"store", "sync"})
  /\ torn \subseteq Tenants
  /\ mixed \in BOOLEAN

Init ==
  /\ store \in Stores
  /\ stored = [t \in Tenants |-> Default]
  /\ cached = [t \in Tenants |-> Absent]
  /\ shown = [c \in Combs |-> None]
  /\ edit = [h \in Editors |-> NoOp]
  /\ late = {}
  /\ torn = {}
  /\ mixed = TRUE

-------------------------------------------------------------------------------
(* POST /v1/me/preferences *)

\* 400 unless max_execution_seconds is in its range.
StartSet(h, t, r) ==
  /\ edit[h] = NoOp
  /\ r.seconds >= 30 /\ r.seconds <= 3600
  /\ LET next == IF store = "postgres" THEN "store" ELSE "cache" IN
     GoOn(h, Step(next, t, Normalised(r), {}, TRUE), {})
  /\ UNCHANGED <<store, stored, cached, shown, late, torn, mixed>>

\* An UPDATE that fails is ignored; it may have been sent.
StoreRow(h, ok) ==
  LET t == edit[h].tenant IN
  /\ Doing(h, {"store"})
  /\ ok \/ "error" \in Faults
  /\ stored' = IF ok THEN [stored EXCEPT ![t] = edit[h].prefs] ELSE stored
  /\ late' \in IF ok THEN {late} ELSE Perhaps(UpdateOf(t, edit[h].prefs))
  /\ GoOn(h, Step("cache", t, edit[h].prefs, {}, ok /\ Copying(t) = {}), Copying(t))
  /\ UNCHANGED <<store, cached, shown, torn, mixed>>

Copy(h) ==
  LET t == edit[h].tenant IN
  /\ cached' = [cached EXCEPT ![t] = edit[h].prefs]
  /\ torn' = IF edit[h].clean THEN torn \ {t} ELSE torn \cup {t}

\* Fault seeded: the copy is not written.
CacheForgotten(h) ==
  /\ Doing(h, {"cache"})
  /\ torn' = torn \ {edit[h].tenant}
  /\ GoOn(h, [edit[h] EXCEPT !.kind = "list"], {})
  /\ UNCHANGED <<store, stored, cached, shown, late, mixed>>

CacheSet(h) ==
  /\ Doing(h, {"cache"})
  /\ Copy(h)
  /\ GoOn(h, [edit[h] EXCEPT !.kind = "list"], {})
  /\ UNCHANGED <<store, stored, shown, late, mixed>>

\* Fault seeded: the queen's comb is taken to know its settings already.
ListOthers(h, answered) ==
  LET p == edit[h].prefs
      todo == (IF answered THEN Combs ELSE {}) \ {p.comb} IN
  /\ Doing(h, {"list"})
  /\ answered \/ "error" \in Faults
  /\ GoOn(h, IF todo = {} THEN NoOp
             ELSE Step("refresh", edit[h].tenant, p, todo, answered /\ Refreshing = {}),
          Refreshing)
  /\ UNCHANGED <<store, stored, cached, shown, late, torn, mixed>>

\* GET /api/nodes: the queen's comb, if there is one, and all that are online.
ListCombs(h, answered) ==
  LET p == edit[h].prefs
      todo == (IF answered THEN Combs ELSE {}) \cup ({p.comb} \ {None}) IN
  /\ Doing(h, {"list"})
  /\ answered \/ "error" \in Faults
  /\ GoOn(h, IF todo = {} THEN NoOp
             ELSE Step("refresh", edit[h].tenant, p, todo, answered /\ Refreshing = {}),
          Refreshing)
  /\ UNCHANGED <<store, stored, cached, shown, late, torn, mixed>>

\* The combs h may tell next: the queen's first.
NextOf(h) ==
  IF edit[h].prefs.comb \in edit[h].todo THEN {edit[h].prefs.comb} ELSE edit[h].todo

\* PATCH /api/nodes/:id/refresh_cells.  One that is not answered within 5 s is
\* passed over, and may yet come to the comb.
RefreshComb(h, c, ok) ==
  LET left == edit[h].todo \ {c}
      clean == edit[h].clean /\ ok IN
  /\ Doing(h, {"refresh"})
  /\ c \in NextOf(h)
  /\ ok \/ "error" \in Faults
  /\ late' \in IF ok THEN {late} ELSE Perhaps(PatchOf(c, edit[h].prefs.share))
  /\ shown' = IF ok THEN [shown EXCEPT ![c] = edit[h].prefs.share] ELSE shown
  /\ GoOn(h, IF left = {} THEN NoOp
             ELSE [edit[h] EXCEPT !.todo = left, !.clean = clean], {})
  /\ mixed' = IF left = {} THEN ~clean ELSE mixed
  /\ UNCHANGED <<store, stored, cached, torn>>

-------------------------------------------------------------------------------
(* GET /v1/me/preferences; one that cannot read the row changes nothing *)

\* Fault seeded: a copy that is there is taken for the row.
ReadCopyFirst(h, t) ==
  /\ store = "postgres"
  /\ edit[h] = NoOp
  /\ GoOn(h, Step("sync", t, IF cached[t] = Absent THEN stored[t] ELSE cached[t],
                  {}, Copying(t) = {}), Copying(t))
  /\ UNCHANGED <<store, stored, cached, shown, late, torn, mixed>>

ReadRow(h, t) ==
  /\ store = "postgres"
  /\ edit[h] = NoOp
  /\ GoOn(h, Step("sync", t, stored[t], {}, Copying(t) = {}), Copying(t))
  /\ UNCHANGED <<store, stored, cached, shown, late, torn, mixed>>

SyncCache(h) ==
  /\ Doing(h, {"sync"})
  /\ Copy(h)
  /\ GoOn(h, NoOp, {})
  /\ UNCHANGED <<store, stored, shown, late, mixed>>

-------------------------------------------------------------------------------
(* Failures *)

\* What h may be waiting for.
Awaited(h) ==
  IF Doing(h, {"store"}) THEN {UpdateOf(edit[h].tenant, edit[h].prefs)}
  ELSE IF Doing(h, {"refresh"}) THEN {PatchOf(c, edit[h].prefs.share) : c \in NextOf(h)}
  ELSE {}

\* The client is gone, and the handler with it.
BreakOff(h) ==
  /\ "disconnect" \in Faults
  /\ edit[h] # NoOp
  /\ late' \in {late} \cup UNION {Perhaps(m) : m \in Awaited(h)}
  /\ torn' = IF Doing(h, {"cache"}) THEN torn \cup {edit[h].tenant} ELSE torn
  /\ mixed' = (mixed \/ h \in Refreshing)
  /\ GoOn(h, NoOp, {})
  /\ UNCHANGED <<store, stored, cached, shown>>

\* Each handler may leave one request.
Crash ==
  /\ "crash" \in Faults
  /\ \E left \in [Editors -> UNION {Awaited(h) : h \in Editors} \cup {None}] :
       /\ \A h \in Editors : left[h] \in Awaited(h) \cup {None}
       /\ late' = late \cup ({left[h] : h \in Editors} \ {None})
       /\ late' = late \/ Cardinality(late') <= MaxLate
  /\ cached' = [t \in Tenants |-> Absent]
  /\ edit' = [h \in Editors |-> NoOp]
  /\ torn' = {}
  /\ mixed' = (mixed \/ Refreshing # {})
  /\ UNCHANGED <<store, stored, shown>>

Spoil(met) ==
  edit' = [g \in Editors |->
             IF g \in met THEN [edit[g] EXCEPT !.clean = FALSE] ELSE edit[g]]

\* An UPDATE or a PATCH nobody waits for is carried out.
LateUpdate(m) ==
  /\ m \in late /\ m.to = "row"
  /\ stored' = [stored EXCEPT ![m.tenant] = m.prefs]
  /\ late' = late \ {m}
  /\ torn' = torn \cup {m.tenant}
  /\ Spoil(Copying(m.tenant))
  /\ UNCHANGED <<store, cached, shown, mixed>>

LateRefresh(m) ==
  /\ m \in late /\ m.to = "comb"
  /\ shown' = [shown EXCEPT ![m.comb] = m.share]
  /\ late' = late \ {m}
  /\ mixed' = TRUE
  /\ Spoil(Refreshing)
  /\ UNCHANGED <<store, stored, cached, torn>>

Proceed(h) ==
  \/ CacheSet(h) \/ SyncCache(h)
  \/ \E ok \in BOOLEAN :
       StoreRow(h, ok) \/ ListCombs(h, ok) \/ \E c \in Combs : RefreshComb(h, c, ok)

Operation ==
  \/ \E h \in Editors :
       \/ \E t \in Tenants : ReadRow(h, t) \/ \E r \in Requests : StartSet(h, t, r)
       \/ Proceed(h)
       \/ BreakOff(h)
  \/ \E m \in late : LateUpdate(m) \/ LateRefresh(m)

Next == Operation \/ Crash

Spec == Init /\ [][Next]_vars

\* The honeycomb is awaited for 5 s at most; the database is assumed to answer
\* or fail.
Fairness == \A h \in Editors : WF_vars(Proceed(h))

FairSpec == Spec /\ Fairness
-------------------------------------------------------------------------------
(* Properties *)

(***************************************************************************)
(* The copy a dispatch looks at is the row, once no handler of the tenant  *)
(* is between the two: except after a restart, which leaves none, and      *)
(* after handlers that overlapped, failed to write the row or broke off,   *)
(* or an UPDATE that came late, until a handler none of this happens to    *)
(* (me.rs: "Persist to DB", "Also update in-memory cache", "Sync to        *)
(* in-memory cache").                                                      *)
(***************************************************************************)
CopyFollowsRow ==
  store = "postgres" =>
    \A t \in Tenants :
      cached[t] \in {Absent, stored[t]} \/ t \in torn \/ Copying(t) # {}

(***************************************************************************)
(* Once nobody refreshes them, all combs have the share of one POST,       *)
(* unless the last refreshes overlapped, failed or broke off, or a PATCH   *)
(* given up before has come since (me.rs: "Refresh cells on all online     *)
(* combs when preferences change").                                        *)
(***************************************************************************)
CombsAgree ==
  ~mixed /\ Refreshing = {} => \A c, d \in Combs : shown[c] = shown[d]

(***************************************************************************)
(* Reading repairs: if a tenant's preferences are no longer set but now    *)
(* and then read, its copy is at last the row or gone with a restart,      *)
(* whatever the handlers that set them did to one another.                 *)
(***************************************************************************)
Setting(t) ==
  \E h \in Editors : Doing(h, {"store", "cache"}) /\ edit[h].tenant = t

Read(t) ==
  \E h \in Editors : edit[h] # NoOp /\ edit[h].tenant = t /\ SyncCache(h)

ReadsRepair ==
  \A t \in Tenants :
    <>[]~Setting(t) /\ []<><<Read(t)>>_vars => <>[](cached[t] \in {Absent, stored[t]})
===============================================================================
