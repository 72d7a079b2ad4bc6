------------------------------ MODULE Schedules -------------------------------
(***************************************************************************)
(* Scheduled tasks: the rows of the schedules table, the handlers that     *)
(* create, patch and delete them (routes/schedules.rs), and the background *)
(* runner of the gateway that polls for due rows and fires them            *)
(* (bin/tenant_gateway.rs, schedule_runner).                               *)
(*                                                                         *)
(* Every statement is a transaction of its own: a PATCH reads the row and  *)
(* later writes the merged one back, and the runner works through the rows *)
(* it selected, so each may write over what the other did in between.      *)
(*                                                                         *)
(* There are two clocks.  A schedule is due by the database's NOW(), which *)
(* is clock here; its next run is computed by the gateway, from a clock of *)
(* its own.  A reading of that clock, with the time the statement that     *)
(* stores the result takes, is at most MaxBehind ticks behind NOW() and at *)
(* most MaxAhead ahead: the model's assumption on the deployment, since    *)
(* the code makes none.                                                    *)
(*                                                                         *)
(* A cron expression is the set of ticks it names; one that names a year   *)
(* runs out.  An element of Ids is a row's uuid; it is used again once     *)
(* nothing refers to the deleted row.                                      *)
(***************************************************************************)
EXTENDS Integers, FiniteSets, FiniteSetsExt

CONSTANTS
  Ids,
  Crons,          \* the cron expressions clients use, as sets of ticks
  Tasks,          \* what a schedule holds: a "prompt", or an "empty" one
  Editors,        \* PATCH handlers at work at one time
  Changes,        \* the patches clients send: [cron, enabled, task], Keep if unset
  Keep, NoRow, Nobody,
  SelectLimit,    \* 50 in the code
  Faults,         \* a subset of {"db_error", "crash"}
  MaxBehind,      \* the gateway's clock is behind the database's by no more
  MaxAhead,       \* and ahead of it by no more
  MaxTime         \* bound: the last tick

ASSUME SchedulesAssumption ==
  /\ \A c \in Crons : c \subseteq Nat
  /\ Tasks \subseteq {"prompt", "empty"}
  /\ \A change \in Changes :
       /\ change.cron \in Crons \cup {Keep} /\ change.enabled \in BOOLEAN \cup {Keep}
       /\ change.task \in Tasks \cup {Keep}
  /\ Nobody \notin Ids
  /\ SelectLimit \in Nat \ {0}
  /\ Faults \subseteq {"db_error", "crash"}
  /\ MaxBehind \in Nat /\ MaxAhead \in Nat
  /\ MaxTime \in Nat

VARIABLES
  clock,     \* the database's NOW()
  rows,      \* the table: a row for each id, or NoRow
  polling,   \* the runner has woken up and its SELECT is under way
  due,       \* the rows the runner selected and has not come to yet
             \*   (stale: history, the row was written since)
  firing,    \* the schedule it is about to fire, or Nobody
  patch,     \* the row each PATCH handler read and merged (stale: as in due)
  since,     \* history: when each schedule was last claimed, or NULL
  torn       \* history: the schedules with an update lost or overwritten

vars == <<clock, rows, polling, due, firing, patch, since, torn>>

NULL == -1
RowSet == [cron : Crons, enabled : BOOLEAN, next : Nat \cup {NULL}, task : Tasks]
NoPatch == [id |-> Nobody, row |-> NoRow, stale |-> FALSE]

\* What the gateway's clock may say.
Readings == clock - MaxBehind .. clock + MaxAhead

\* Fault seeded: the current tick counts as upcoming.
NextRunFromNow(cron, now) ==
  LET later == {x \in cron : x >= now}
  IN IF later = {} THEN NULL ELSE Min(later)

\* Schedule::upcoming(Utc).next(): strictly after now, NULL if there is none.
NextRun(cron, now) ==
  LET later == {x \in cron : x > now}
  IN IF later = {} THEN NULL ELSE Min(later)

\* Fault seeded: a disabled schedule is selected too.
IsDueDisabled(i) ==
  /\ rows[i] # NoRow
  /\ rows[i].next = NULL \/ rows[i].next <= clock

IsDue(i) ==
  /\ rows[i] # NoRow /\ rows[i].enabled
  /\ rows[i].next = NULL \/ rows[i].next <= clock

TypeOK ==
  /\ clock \in 0 .. MaxTime
  /\ rows \in [Ids -> RowSet \cup {NoRow}]
  /\ polling \in BOOLEAN
  /\ due \subseteq [id : Ids, row : RowSet, stale : BOOLEAN]
  /\ firing \in Ids \cup {Nobody}
  /\ patch \in [Editors -> [id : Ids, row : RowSet, stale : BOOLEAN] \cup {NoPatch}]
  /\ since \in [Ids -> 0 .. MaxTime \cup {NULL}]
  /\ torn \subseteq Ids

Init ==
  /\ clock = 0
  /\ rows = [i \in Ids |-> NoRow]
  /\ polling = FALSE
  /\ due = {}
  /\ firing = Nobody
  /\ patch = [e \in Editors |-> NoPatch]
  /\ since = [i \in Ids |-> NULL]
  /\ torn = {}

-------------------------------------------------------------------------------
(* The handlers *)

CreateSchedule(i, cron, task, now) ==
  /\ rows[i] = NoRow
  /\ firing # i
  /\ \A s \in due : s.id # i
  /\ \A e \in Editors : patch[e].id # i
  /\ rows' = [rows EXCEPT ![i] =
       [cron |-> cron, enabled |-> TRUE, next |-> NextRun(cron, now), task |-> task]]
  /\ since' = [since EXCEPT ![i] = NULL]
  /\ torn' = torn \ {i}
  /\ UNCHANGED <<clock, polling, due, firing, patch>>

DeleteSchedule(i) ==
  /\ rows[i] # NoRow
  /\ rows' = [rows EXCEPT ![i] = NoRow]
  /\ UNCHANGED <<clock, polling, due, firing, patch, since, torn>>

\* Fault seeded: a field the client leaves out is written all the same.
MergedUnset(row, change, now) ==
  LET cron == IF change.cron = Keep THEN row.cron ELSE change.cron
  IN [row EXCEPT !.cron = cron, !.enabled = change.enabled]

\* The row a PATCH merges from the one it read: next_run_at is computed anew
\* only if the expression changes or the schedule is enabled again.
Merged(row, change, now) ==
  LET cron == IF change.cron = Keep THEN row.cron ELSE change.cron
      enabled == IF change.enabled = Keep THEN row.enabled ELSE change.enabled
      task == IF change.task = Keep THEN row.task ELSE change.task
  IN [cron |-> cron, enabled |-> enabled, task |-> task,
      next |-> IF cron # row.cron \/ (enabled /\ ~row.enabled)
               THEN NextRun(cron, now) ELSE row.next]

PatchReads(e, i, change, now) ==
  /\ patch[e] = NoPatch
  /\ rows[i] # NoRow
  /\ patch' = [patch EXCEPT ![e] =
       [id |-> i, row |-> Merged(rows[i], change, now), stale |-> FALSE]]
  /\ UNCHANGED <<clock, rows, polling, due, firing, since, torn>>

\* Copies of row i are out of date from now on (history only).
Outdated(i, copy) == [copy EXCEPT !.stale = @ \/ copy.id = i]
OutdatedPatches(i) == [e \in Editors |-> Outdated(i, patch[e])]

\* UPDATE .. WHERE id: nothing to write to if the row is gone (404).
PatchWrites(e) ==
  LET i == patch[e].id IN
  /\ patch[e] # NoPatch
  /\ rows' = [rows EXCEPT ![i] = IF @ = NoRow THEN NoRow ELSE patch[e].row]
  /\ torn' = IF patch[e].stale THEN torn \cup {i} ELSE torn
  /\ patch' = [OutdatedPatches(i) EXCEPT ![e] = NoPatch]
  /\ due' = {Outdated(i, s) : s \in due}
  /\ UNCHANGED <<clock, polling, firing, since>>

\* An invalid expression, a database error, or a client gone.
PatchFails(e) ==
  /\ patch[e] # NoPatch
  /\ patch' = [patch EXCEPT ![e] = NoPatch]
  /\ UNCHANGED <<clock, rows, polling, due, firing, since, torn>>

-------------------------------------------------------------------------------
(* The runner *)

Sleeping == due = {} /\ firing = Nobody

\* The sleep of 30 s is over.
Wake ==
  /\ Sleeping /\ ~polling
  /\ polling' = TRUE
  /\ UNCHANGED <<clock, rows, due, firing, patch, since, torn>>

Ready == {i \in Ids : IsDue(i)}
CopiesOf(I) == {[id |-> i, row |-> rows[i], stale |-> FALSE] : i \in I}

\* SELECT .. LIMIT, without an order: any of the due rows, as many as fit.
Poll ==
  /\ polling /\ polling' = FALSE
  /\ \E chosen \in SUBSET Ready :
       /\ \/ Cardinality(chosen) = SelectLimit
          \/ Cardinality(chosen) < SelectLimit /\ chosen = Ready
       /\ due' = CopiesOf(chosen)
  /\ UNCHANGED <<clock, rows, firing, patch, since, torn>>

\* A SELECT that fails is taken for one that found nothing.
PollFails ==
  /\ "db_error" \in Faults
  /\ polling /\ polling' = FALSE
  /\ UNCHANGED <<clock, rows, due, firing, patch, since, torn>>

\* Advance the schedule, then fire it, unless its prompt is empty.  The next
\* run is that of the expression selected; an UPDATE that fails is ignored.
Claim(s, stored, now) ==
  /\ s \in due /\ firing = Nobody
  /\ stored \/ "db_error" \in Faults
  /\ due' = due \ {s}
  /\ rows' = IF stored /\ rows[s.id] # NoRow
             THEN [rows EXCEPT ![s.id].next = NextRun(s.row.cron, now)]
             ELSE rows
  /\ firing' = IF s.row.task = "prompt" THEN s.id ELSE Nobody
  /\ since' = [since EXCEPT ![s.id] = clock]
  /\ torn' = IF s.stale \/ ~stored THEN torn \cup {s.id} ELSE torn
  /\ patch' = OutdatedPatches(s.id)
  /\ UNCHANGED <<clock, polling>>

\* Fault seeded: the runner waits for the run, which may never end.
FireWaits == firing # Nobody /\ UNCHANGED vars

\* The provider is looked up and the run spawned: the runner does not wait.
Fire ==
  /\ firing # Nobody
  /\ firing' = Nobody
  /\ UNCHANGED <<clock, rows, polling, due, patch, since, torn>>

\* The process restarts: the batch and the handlers at work are gone, except
\* those whose UPDATE is with the database.
Crash ==
  /\ "crash" \in Faults
  /\ polling' = FALSE
  /\ due' = {}
  /\ firing' = Nobody
  /\ \E sent \in SUBSET Editors :
       patch' = [e \in Editors |-> IF e \in sent THEN patch[e] ELSE NoPatch]
  /\ UNCHANGED <<clock, rows, since, torn>>

Tick ==
  /\ clock < MaxTime
  /\ clock' = clock + 1
  /\ UNCHANGED <<rows, polling, due, firing, patch, since, torn>>

Claims(s) == \E stored \in BOOLEAN, now \in Readings : Claim(s, stored, now)
Runner == Wake \/ Poll \/ PollFails \/ (\E s \in due : Claims(s)) \/ Fire

Next ==
  \/ \E i \in Ids, cron \in Crons, task \in Tasks, now \in Readings :
       CreateSchedule(i, cron, task, now)
  \/ \E i \in Ids : DeleteSchedule(i)
  \/ \E e \in Editors, i \in Ids, change \in Changes, now \in Readings :
       PatchReads(e, i, change, now)
  \/ \E e \in Editors : PatchWrites(e) \/ PatchFails(e)
  \/ Runner \/ Crash \/ Tick

Spec == Init /\ [][Next]_vars

(* The runner is a task of its own that never returns; its database calls   *)
(* end, well or not.  Clients owe nothing, but a PATCH under way ends.      *)
FairSpec ==
  /\ Spec
  /\ WF_vars(Runner)
  /\ \A e \in Editors : WF_vars(PatchWrites(e) \/ PatchFails(e))

-------------------------------------------------------------------------------
(* Properties *)

Live(i) == rows[i] # NoRow /\ rows[i].enabled
Occurs(cron, after, until) == \E x \in cron : after < x /\ x <= until
Claimed(i) == since[i] # NULL

(***************************************************************************)
(* A schedule fires at most once for each time its expression names: every *)
(* claim but the first follows such a time since the last claim, where     *)
(* since is as the gateway's clock has it.  With one that is behind, a     *)
(* time may be claimed again within MaxBehind ticks; with one that is not, *)
(* never.  It holds whatever the patches, deletions, database errors and   *)
(* restarts, of every schedule whose row lost no update so far and whose   *)
(* expression has not run out.                                             *)
(***************************************************************************)
ClaimsFollowCron ==
  [][\A s \in due :
       Claims(s) /\ Claimed(s.id) /\ s.id \notin torn /\ s.row.next # NULL
         => Occurs(s.row.cron, since[s.id] - MaxBehind, clock)]_vars

(***************************************************************************)
(* A schedule that is disabled or deleted for good comes to rest: what the *)
(* runner had selected of it is used up and nothing is selected again.     *)
(***************************************************************************)
Selected(i) == \E s \in due : s.id = i
AtRest(i) == firing # i /\ ~Selected(i)

DisabledComesToRest == \A i \in Ids : <>[]~Live(i) => <>[]AtRest(i)

(***************************************************************************)
(* A due schedule is selected or ceases to be due, unless polls that fail, *)
(* that a restart takes away, or that find more than a batch recur for     *)
(* ever: no schedule is lost from the table's sight, whatever its          *)
(* expression, and whatever patches, claims and failed UPDATEs made of it. *)
(***************************************************************************)
PollMisses ==
  \/ PollFails /\ Ready # {}
  \/ Crash /\ polling
  \/ Poll /\ Cardinality(Ready) > SelectLimit

DueIsSelected ==
  <>[][~PollMisses]_vars => \A i \in Ids : IsDue(i) ~> (Selected(i) \/ ~IsDue(i))

(***************************************************************************)
(* tenant_gateway.rs: the schedule is advanced immediately to avoid double *)
(* fire.  So no schedule is claimed twice for one time of its expression.  *)
(***************************************************************************)
NoDoubleFire ==
  [][\A s \in due :
       Claims(s) /\ Claimed(s.id) => Occurs(s.row.cron, since[s.id], clock)]_vars
===============================================================================
