--------------------------- MODULE SchedulesProofs ----------------------------
(***************************************************************************)
(* The safety properties of Schedules, for every set of schedules,         *)
(* expressions, patches and handlers, every batch size and every distance  *)
(* between the clocks of the gateway and the database.                     *)
(***************************************************************************)
EXTENDS Schedules, WellFoundedInduction, TLAPS

-------------------------------------------------------------------------------
(* Times *)

\* A set of ticks has a first one.
LEMMA FirstTick ==
  ASSUME NEW S, S \subseteq Nat, S # {}
  PROVE  Min(S) \in S /\ \A y \in S : Min(S) <= y
<1> DEFINE Less == {pair \in Nat \X Nat : pair[1] < pair[2]}
<1>1. IsWellFoundedOn(Less, Nat)
  BY NatLessThanWellFounded DEF OpToRel
<1>2. PICK x \in S : \A y \in S : <<y, x>> \notin Less
  BY <1>1, WFMin
<1>3. ASSUME NEW y \in S PROVE x <= y
  <2>1. x \in Nat /\ y \in Nat /\ <<y, x>> \notin Less
    BY <1>2
  <2>2. <<y, x>>[1] = y /\ <<y, x>>[2] = x /\ <<y, x>> \in Nat \X Nat
    BY <2>1
  <2>3. ~(y < x)
    BY <2>1, <2>2
  <2> QED
    BY <2>1, <2>3
<1> QED
  BY <1>3 DEF Min

\* The next run is a time of the expression, and after now, or there is none.
LEMMA NextRunTime ==
  ASSUME NEW cron \in Crons, NEW n \in Int
  PROVE  /\ NextRun(cron, n) \in Nat \cup {NULL}
         /\ NextRun(cron, n) # NULL => NextRun(cron, n) \in cron /\ n < NextRun(cron, n)
<1> DEFINE later == {x \in cron : x > n}
<1>1. later \subseteq Nat
  BY SchedulesAssumption
<1>2. CASE later = {}
  BY <1>2 DEF NextRun
<1>3. CASE later # {}
  <2>1. NextRun(cron, n) = Min(later)
    BY <1>3 DEF NextRun
  <2>2. Min(later) \in later
    BY <1>1, <1>3, FirstTick
  <2> QED
    BY <1>1, <2>1, <2>2
<1> QED
  BY <1>2, <1>3

-------------------------------------------------------------------------------
(* Rows and copies of rows *)

Copies == [id : Ids, row : RowSet, stale : BOOLEAN]

\* What the gateway's clock says is a time.
LEMMA ReadingTyped ==
  ASSUME TypeOK, NEW now \in Readings
  PROVE  now \in Int /\ clock \in Nat /\ clock - MaxBehind <= now
BY SchedulesAssumption DEF TypeOK, Readings

\* A patch keeps the time of the next run, or computes it anew.
LEMMA MergedRow ==
  ASSUME NEW row \in RowSet, NEW change \in Changes, NEW now \in Int
  PROVE  /\ Merged(row, change, now) \in RowSet
         /\ \/ /\ Merged(row, change, now).cron = row.cron
               /\ Merged(row, change, now).next = row.next
            \/ Merged(row, change, now).next = NextRun(Merged(row, change, now).cron, now)
<1> DEFINE cron == IF change.cron = Keep THEN row.cron ELSE change.cron
           enabled == IF change.enabled = Keep THEN row.enabled ELSE change.enabled
           anew == cron # row.cron \/ (enabled /\ ~row.enabled)
           task == IF change.task = Keep THEN row.task ELSE change.task
           next == IF anew THEN NextRun(cron, now) ELSE row.next
<1>1. cron \in Crons
  BY SchedulesAssumption DEF RowSet
<1>2. enabled \in BOOLEAN /\ task \in Tasks
  BY SchedulesAssumption DEF RowSet
<1>3. next \in Nat \cup {NULL}
  BY <1>1, NextRunTime DEF RowSet
<1>4. Merged(row, change, now)
        = [cron |-> cron, enabled |-> enabled, task |-> task, next |-> next]
  BY DEF Merged
<1>5. (cron = row.cron /\ next = row.next) \/ next = NextRun(cron, now)
  OBVIOUS
<1> HIDE DEF cron, enabled, task, next
<1> QED
  BY <1>1, <1>2, <1>3, <1>4, <1>5 DEF RowSet

LEMMA OutdatedCopy ==
  ASSUME NEW i \in Ids
  PROVE  /\ \A copy \in Copies :
              /\ Outdated(i, copy) \in Copies
              /\ Outdated(i, copy).id = copy.id /\ Outdated(i, copy).row = copy.row
              /\ ~Outdated(i, copy).stale <=> ~copy.stale /\ copy.id # i
         /\ Outdated(i, NoPatch) = NoPatch
<1>1. ASSUME NEW copy \in Copies
      PROVE  /\ Outdated(i, copy) \in Copies
             /\ Outdated(i, copy).id = copy.id /\ Outdated(i, copy).row = copy.row
             /\ ~Outdated(i, copy).stale <=> ~copy.stale /\ copy.id # i
  BY DEF Outdated, Copies
<1>2. Outdated(i, NoPatch) = NoPatch
  <2> DEFINE stale == NoPatch.stale \/ NoPatch.id = i
  <2>1. stale = FALSE
    BY SchedulesAssumption DEF NoPatch
  <2>2. Outdated(i, NoPatch) = [NoPatch EXCEPT !.stale = stale]
    BY DEF Outdated
  <2> HIDE DEF stale
  <2> QED
    BY <2>1, <2>2 DEF NoPatch
<1> QED
  BY <1>1, <1>2

\* A handler's patch after a write to row i.
LEMMA OutdatedPatch ==
  ASSUME TypeOK, NEW i \in Ids, NEW e \in Editors
  PROVE  /\ OutdatedPatches(i)[e] \in Copies \cup {NoPatch}
         /\ patch[e] # NoPatch =>
              /\ patch[e] \in Copies
              /\ OutdatedPatches(i)[e].id = patch[e].id
              /\ OutdatedPatches(i)[e].row = patch[e].row
              /\ ~OutdatedPatches(i)[e].stale <=> ~patch[e].stale /\ patch[e].id # i
         /\ patch[e] = NoPatch => OutdatedPatches(i)[e] = NoPatch
<1>1. OutdatedPatches(i)[e] = Outdated(i, patch[e])
  BY DEF OutdatedPatches
<1>2. patch[e] \in Copies \cup {NoPatch}
  BY DEF TypeOK, Copies
<1> QED
  BY <1>1, <1>2, OutdatedCopy

\* A write of a row that is there, or to none.
LEMMA WrittenRow ==
  ASSUME TypeOK, NEW i \in Ids, NEW row \in RowSet, NEW new \in {row, NoRow},
         rows' = [rows EXCEPT ![i] = new]
  PROVE  /\ rows' \in [Ids -> RowSet \cup {NoRow}]
         /\ rows'[i] = new /\ \A j \in Ids \ {i} : rows'[j] = rows[j]
BY DEF TypeOK

\* What a claim does to the row.
LEMMA ClaimedRow ==
  ASSUME TypeOK, NEW s \in due, NEW stored \in BOOLEAN, NEW now \in Int,
         Claim(s, stored, now)
  PROVE  /\ s \in Copies
         /\ rows' \in [Ids -> RowSet \cup {NoRow}]
         /\ \A j \in Ids \ {s.id} : rows'[j] = rows[j]
         /\ \/ rows' = rows /\ (~stored \/ rows[s.id] = NoRow)
            \/ /\ stored /\ rows[s.id] # NoRow
               /\ rows'[s.id].cron = rows[s.id].cron
               /\ rows'[s.id].next = NextRun(s.row.cron, now)
<1>1. s \in Copies /\ s.id \in Ids /\ s.row.cron \in Crons
  BY DEF TypeOK, Copies, RowSet
<1>2. NextRun(s.row.cron, now) \in Nat \cup {NULL}
  BY <1>1, NextRunTime
<1>3. CASE stored /\ rows[s.id] # NoRow
  <2> DEFINE next == NextRun(s.row.cron, now)
             i == s.id
             new == [rows[i] EXCEPT !.next = next]
  <2>1. rows' = [rows EXCEPT ![i] = new]
    BY <1>3 DEF Claim
  <2>2. i \in Ids /\ rows[i] \in RowSet /\ next \in Nat \cup {NULL}
    BY <1>1, <1>2, <1>3 DEF TypeOK
  <2> HIDE DEF next, i
  <2>3. new \in RowSet /\ new.cron = rows[i].cron /\ new.next = next
    BY <2>2 DEF RowSet
  <2> HIDE DEF new
  <2>4. /\ rows' \in [Ids -> RowSet \cup {NoRow}]
        /\ rows'[i] = new /\ \A j \in Ids \ {i} : rows'[j] = rows[j]
    BY <2>1, <2>2, <2>3, WrittenRow
  <2> QED
    BY <1>1, <1>3, <2>2, <2>3, <2>4 DEF next, i
<1>4. CASE ~(stored /\ rows[s.id] # NoRow)
  <2>1. rows' = rows
    BY <1>4 DEF Claim
  <2> QED
    BY <1>1, <1>4, <2>1 DEF TypeOK
<1> QED
  BY <1>3, <1>4

\* The row a creation inserts.
LEMMA CreatedRow ==
  ASSUME TypeOK, NEW i \in Ids, NEW cron \in Crons, NEW task \in Tasks,
         NEW now \in Int, CreateSchedule(i, cron, task, now)
  PROVE  /\ rows' \in [Ids -> RowSet \cup {NoRow}]
         /\ rows'[i].cron = cron /\ rows'[i].next = NextRun(cron, now)
         /\ \A j \in Ids \ {i} : rows'[j] = rows[j]
<1> DEFINE next == NextRun(cron, now)
           new == [cron |-> cron, enabled |-> TRUE, next |-> next, task |-> task]
<1>1. next \in Nat \cup {NULL}
  BY NextRunTime
<1>2. rows' = [rows EXCEPT ![i] = new]
  BY DEF CreateSchedule
<1> HIDE DEF next
<1>3. new \in RowSet /\ new.cron = cron /\ new.next = next
  BY <1>1 DEF RowSet
<1> HIDE DEF new
<1> QED
  BY <1>2, <1>3, WrittenRow DEF next

\* What the runner selects.
LEMMA PolledCopy ==
  ASSUME TypeOK, Poll
  PROVE  \A s \in due' :
           /\ s \in Copies /\ IsDue(s.id) /\ s.row = rows[s.id]
           /\ \A r \in due' : r.id = s.id => r = s
<1> DEFINE CopyOf(i) == [id |-> i, row |-> rows[i], stale |-> FALSE]
<1>1. \A s \in due' : \E i \in Ids : IsDue(i) /\ s = CopyOf(i)
  BY DEF Poll, Ready, CopiesOf
<1>2. \A i \in Ids : IsDue(i) => rows[i] \in RowSet
  BY DEF TypeOK, IsDue
<1>3. \A i \in Ids : CopyOf(i).id = i /\ CopyOf(i).row = rows[i]
  OBVIOUS
<1>4. \A i \in Ids : rows[i] \in RowSet => CopyOf(i) \in Copies
  BY DEF Copies
<1> HIDE DEF CopyOf
<1> QED
  BY <1>1, <1>2, <1>3, <1>4

\* The table, the runner's batch and the patches under way keep their types.
THEOREM TypeInvariant == Spec => []TypeOK
<1>1. Init => TypeOK
  <2> SUFFICES ASSUME Init PROVE TypeOK
    OBVIOUS
  <2>1. clock \in 0 .. MaxTime
    BY SchedulesAssumption DEF Init
  <2> QED
    BY <2>1 DEF Init, TypeOK
<1>2. TypeOK /\ [Next]_vars => TypeOK'
  <2> SUFFICES ASSUME TypeOK, [Next]_vars PROVE TypeOK'
    OBVIOUS
  <2>1. ASSUME NEW i \in Ids, NEW cron \in Crons, NEW task \in Tasks,
               NEW now \in Readings, CreateSchedule(i, cron, task, now)
        PROVE  TypeOK'
    BY <2>1, ReadingTyped, CreatedRow DEF CreateSchedule, TypeOK
  <2>2. ASSUME NEW i \in Ids, DeleteSchedule(i) PROVE TypeOK'
    BY <2>2 DEF DeleteSchedule, TypeOK
  <2>3. ASSUME NEW e \in Editors, NEW i \in Ids, NEW change \in Changes,
               NEW now \in Readings, PatchReads(e, i, change, now)
        PROVE  TypeOK'
    <3> DEFINE row == Merged(rows[i], change, now)
               copy == [id |-> i, row |-> row, stale |-> FALSE]
    <3>1. row \in RowSet
      BY <2>3, ReadingTyped, MergedRow DEF PatchReads, TypeOK
    <3>2. patch' = [patch EXCEPT ![e] = copy]
      BY <2>3 DEF PatchReads
    <3> HIDE DEF row
    <3>3. copy \in [id : Ids, row : RowSet, stale : BOOLEAN]
      BY <3>1
    <3> HIDE DEF copy
    <3> QED
      BY <2>3, <3>2, <3>3 DEF PatchReads, TypeOK
  <2>4. ASSUME NEW e \in Editors, PatchWrites(e) PROVE TypeOK'
    <3> DEFINE i == patch[e].id
               new == IF rows[i] = NoRow THEN NoRow ELSE patch[e].row
    <3>1. patch[e] \in Copies
      BY <2>4 DEF PatchWrites, TypeOK, Copies
    <3>2. i \in Ids /\ patch[e].row \in RowSet
      BY <3>1 DEF Copies
    <3>3. rows' \in [Ids -> RowSet \cup {NoRow}]
      BY <2>4, <3>2, WrittenRow DEF PatchWrites
    <3>4. due' \subseteq Copies
      BY <2>4, <3>2, OutdatedCopy DEF PatchWrites, TypeOK, Copies
    <3>5. patch' \in [Editors -> Copies \cup {NoPatch}]
      <4>1. patch' = [OutdatedPatches(i) EXCEPT ![e] = NoPatch]
        BY <2>4 DEF PatchWrites
      <4>2. OutdatedPatches(i) \in [Editors -> Copies \cup {NoPatch}]
        <5>1. \A f \in Editors : OutdatedPatches(i)[f] \in Copies \cup {NoPatch}
          BY <3>2, OutdatedPatch
        <5> QED
          BY <5>1 DEF OutdatedPatches
      <4> QED
        BY <4>1, <4>2
    <3>6. torn' \subseteq Ids
      BY <2>4, <3>2 DEF PatchWrites, TypeOK
    <3> QED
      BY <2>4, <3>3, <3>4, <3>5, <3>6 DEF PatchWrites, TypeOK, Copies
  <2>5. ASSUME NEW e \in Editors, PatchFails(e) PROVE TypeOK'
    BY <2>5 DEF PatchFails, TypeOK
  <2>6. CASE Poll
    BY <2>6, PolledCopy DEF Poll, TypeOK, Copies
  <2>7. ASSUME NEW s \in due, NEW stored \in BOOLEAN, NEW now \in Readings,
               Claim(s, stored, now)
        PROVE  TypeOK'
    <3>1. s.id \in Ids /\ rows' \in [Ids -> RowSet \cup {NoRow}]
      BY <2>7, ReadingTyped, ClaimedRow DEF Copies
    <3>2. patch' \in [Editors -> Copies \cup {NoPatch}]
      <4>1. \A f \in Editors : OutdatedPatches(s.id)[f] \in Copies \cup {NoPatch}
        BY <3>1, OutdatedPatch
      <4> QED
        BY <2>7, <4>1 DEF Claim, OutdatedPatches
    <3>3. torn' \subseteq Ids
      BY <2>7, <3>1 DEF Claim, TypeOK
    <3>4. /\ firing' \in Ids \cup {Nobody} /\ due' \subseteq due
          /\ clock' = clock /\ polling' = polling
      BY <2>7, <3>1 DEF Claim
    <3>5. since' \in [Ids -> 0 .. MaxTime \cup {NULL}]
      BY <2>7, <3>1 DEF Claim, TypeOK
    <3> QED
      BY <3>1, <3>2, <3>3, <3>4, <3>5 DEF TypeOK, Copies
  <2>8. CASE Wake \/ PollFails \/ Fire \/ Crash \/ Tick
    <3>1. CASE Wake \/ PollFails \/ Fire
      BY <2>8, <3>1 DEF Wake, PollFails, Fire, TypeOK
    <3>2. CASE Crash
      BY <3>2 DEF Crash, TypeOK
    <3>3. CASE Tick
      <4>1. clock' \in 0 .. MaxTime
        BY <3>3, SchedulesAssumption DEF Tick, TypeOK
      <4> QED
        BY <3>3, <4>1 DEF Tick, TypeOK
    <3> QED
      BY <2>8, <3>1, <3>2, <3>3
  <2>9. CASE UNCHANGED vars
    BY <2>9 DEF vars, TypeOK
  <2> QED
    BY <2>1, <2>2, <2>3, <2>4, <2>5, <2>6, <2>7, <2>8, <2>9 DEF Next, Runner, Claims
<1> QED
  BY <1>1, <1>2, PTL DEF Spec

-------------------------------------------------------------------------------
(* One claim for each time the expression names *)

\* The row waits for a time of its expression after its last claim, where
\* after is as the gateway's clock has it, or its expression has run out.
UpToDate(row, last) ==
  row.next # NULL => row.next \in row.cron /\ last - MaxBehind < row.next

(* Every copy of a row that no write has overtaken is up to date, be it in *)
(* the table, in a handler or in the runner's batch, unless the schedule   *)
(* lost an update.  The runner holds one copy of a row and, while it does, *)
(* knows the expression the claim computes the next run from.              *)
SinceIsPast == \A i \in Ids : since[i] <= clock

RowsUpToDate ==
  \A i \in Ids : i \notin torn /\ rows[i] # NoRow => UpToDate(rows[i], since[i])

PatchUpToDate(e) ==
  patch[e] # NoPatch /\ ~patch[e].stale /\ patch[e].id \notin torn
    => UpToDate(patch[e].row, since[patch[e].id])

BatchUpToDate ==
  \A s \in due : s.id \notin torn =>
    UpToDate(s.row, since[s.id]) /\ s.row.next <= clock

BatchKnowsCron ==
  \A s \in due : ~s.stale /\ rows[s.id] # NoRow => rows[s.id].cron = s.row.cron

BatchHoldsRowOnce == \A r \in due, s \in due : r.id = s.id => r = s

BatchInv == BatchUpToDate /\ BatchKnowsCron /\ BatchHoldsRowOnce

RunsInv ==
  /\ SinceIsPast
  /\ RowsUpToDate
  /\ \A e \in Editors : PatchUpToDate(e)
  /\ BatchInv

\* A next run computed now is up to date whenever the last claim was.
LEMMA NextRunUpToDate ==
  ASSUME TypeOK, NEW cron \in Crons, NEW now \in Readings, NextRun(cron, now) # NULL
  PROVE  /\ NextRun(cron, now) \in cron
         /\ \A last \in Int : last <= clock => last - MaxBehind < NextRun(cron, now)
<1>1. now \in Int /\ clock \in Nat /\ clock - MaxBehind <= now /\ MaxBehind \in Nat
  BY ReadingTyped, SchedulesAssumption
<1>2. NextRun(cron, now) \in cron /\ now < NextRun(cron, now)
  BY <1>1, NextRunTime
<1>3. NextRun(cron, now) \in Int
  BY <1>2, SchedulesAssumption
<1> QED
  BY <1>1, <1>2, <1>3

\* A new schedule.
LEMMA CreateKeepsRuns ==
  ASSUME TypeOK, RunsInv, NEW i \in Ids, NEW cron \in Crons,
         NEW task \in Tasks, NEW now \in Readings, CreateSchedule(i, cron, task, now)
  PROVE  RunsInv'
<1>1. /\ since'[i] = NULL /\ NULL \in Int /\ NULL <= clock /\ now \in Int
      /\ \A j \in Ids \ {i} : since'[j] = since[j] /\ (j \notin torn' <=> j \notin torn)
      /\ UNCHANGED <<clock, due, patch>>
  BY ReadingTyped DEF CreateSchedule, TypeOK, NULL
<1>2. SinceIsPast'
  BY <1>1 DEF RunsInv, SinceIsPast
<1>3. RowsUpToDate'
  <2>1. UpToDate(rows'[i], since'[i])
    BY <1>1, CreatedRow, NextRunUpToDate DEF UpToDate
  <2>2. \A j \in Ids \ {i} : rows'[j] = rows[j]
    BY <1>1, CreatedRow
  <2> QED
    BY <1>1, <2>1, <2>2 DEF RunsInv, RowsUpToDate
<1>4. ASSUME NEW e \in Editors PROVE PatchUpToDate(e)'
  <2>1. patch[e] # NoPatch => patch[e].id \in Ids \ {i}
    BY DEF CreateSchedule, TypeOK
  <2> QED
    BY <1>1, <2>1 DEF RunsInv, PatchUpToDate
<1>5. BatchInv'
  <2>1. \A s \in due : s.id \in Ids \ {i} /\ rows'[s.id] = rows[s.id]
    BY <1>1, CreatedRow DEF CreateSchedule, TypeOK
  <2> QED
    BY <1>1, <2>1 DEF RunsInv, BatchInv, BatchUpToDate, BatchKnowsCron,
                      BatchHoldsRowOnce
<1> QED
  BY <1>2, <1>3, <1>4, <1>5 DEF RunsInv

\* A PATCH reads a row: what it merges is up to date if the row was.
LEMMA PatchReadsKeepsRuns ==
  ASSUME TypeOK, RunsInv, NEW e \in Editors, NEW i \in Ids,
         NEW change \in Changes, NEW now \in Readings, PatchReads(e, i, change, now)
  PROVE  RunsInv'
<1> DEFINE row == Merged(rows[i], change, now)
           copy == [id |-> i, row |-> row, stale |-> FALSE]
<1>1. /\ patch' = [patch EXCEPT ![e] = copy] /\ rows[i] \in RowSet
      /\ UNCHANGED <<clock, rows, due, since, torn>>
  BY DEF PatchReads, TypeOK
<1>2. since[i] \in Int /\ since[i] <= clock
  BY DEF TypeOK, RunsInv, SinceIsPast, NULL
<1>3. i \notin torn => UpToDate(row, since[i])
  <2>1. /\ row.cron \in Crons
        /\ \/ row.cron = rows[i].cron /\ row.next = rows[i].next
           \/ row.next = NextRun(row.cron, now)
    BY <1>1, ReadingTyped, MergedRow DEF RowSet, TypeOK
  <2>2. i \notin torn => UpToDate(rows[i], since[i])
    BY DEF RunsInv, RowsUpToDate, PatchReads
  <2> HIDE DEF row
  <2> QED
    BY <1>2, <2>1, <2>2, NextRunUpToDate DEF UpToDate
<1> HIDE DEF row
<1>4. copy.id = i /\ copy.row = row
  OBVIOUS
<1> HIDE DEF copy
<1>5. ASSUME NEW f \in Editors PROVE PatchUpToDate(f)'
  <2>1. patch'[f] = IF f = e THEN copy ELSE patch[f]
    BY <1>1 DEF TypeOK
  <2>2. CASE f = e
    BY <1>1, <1>3, <1>4, <2>1, <2>2 DEF PatchUpToDate
  <2>3. CASE f # e
    BY <1>1, <2>1, <2>3 DEF RunsInv, PatchUpToDate
  <2> QED
    BY <2>2, <2>3
<1> QED
  BY <1>1, <1>5 DEF RunsInv, SinceIsPast, RowsUpToDate, BatchInv, BatchUpToDate,
                    BatchKnowsCron, BatchHoldsRowOnce

\* A PATCH writes: the row is up to date unless the copy was overtaken, and
\* the other copies of the row are from now on.
LEMMA PatchWritesKeepsRuns ==
  ASSUME TypeOK, RunsInv, NEW e \in Editors, PatchWrites(e)
  PROVE  RunsInv'
<1> DEFINE i == patch[e].id
           new == IF rows[i] = NoRow THEN NoRow ELSE patch[e].row
<1>1. patch[e] \in Copies /\ i \in Ids /\ patch[e].row \in RowSet
  BY DEF PatchWrites, TypeOK, Copies
<1>2. /\ rows'[i] = new /\ \A j \in Ids \ {i} : rows'[j] = rows[j]
  BY <1>1, WrittenRow DEF PatchWrites
<1>3. /\ torn \subseteq torn' /\ (patch[e].stale => i \in torn')
      /\ UNCHANGED <<clock, since>>
  BY DEF PatchWrites
<1>4. SinceIsPast'
  BY <1>3 DEF RunsInv, SinceIsPast
<1>5. RowsUpToDate'
  <2>1. i \notin torn' /\ new # NoRow => UpToDate(new, since[i])
    BY <1>3 DEF RunsInv, PatchUpToDate, PatchWrites
  <2> HIDE DEF i, new
  <2> QED
    BY <1>2, <1>3, <2>1 DEF RunsInv, RowsUpToDate
<1>6. ASSUME NEW f \in Editors PROVE PatchUpToDate(f)'
  <2>1. patch'[f] = IF f = e THEN NoPatch ELSE OutdatedPatches(i)[f]
    BY DEF PatchWrites, OutdatedPatches
  <2>2. patch'[f] # NoPatch =>
          /\ patch[f] # NoPatch
          /\ patch'[f].id = patch[f].id /\ patch'[f].row = patch[f].row
          /\ ~patch'[f].stale => ~patch[f].stale
    BY <1>1, <2>1, OutdatedPatch
  <2> QED
    BY <1>3, <2>2 DEF RunsInv, PatchUpToDate
<1>7. BatchInv'
  <2>1. due' = {Outdated(i, s) : s \in due}
    BY DEF PatchWrites
  <2>2. \A s \in due : /\ s.id \in Ids /\ Outdated(i, s).id = s.id /\ Outdated(i, s).row = s.row
                       /\ ~Outdated(i, s).stale => ~s.stale /\ s.id # i
    BY <1>1, OutdatedCopy DEF TypeOK, Copies
  <2> HIDE DEF i, new
  <2>3. BatchUpToDate'
    BY <1>3, <2>1, <2>2 DEF RunsInv, BatchInv, BatchUpToDate
  <2>4. BatchKnowsCron'
    BY <1>2, <2>1, <2>2 DEF RunsInv, BatchInv, BatchKnowsCron
  <2>5. BatchHoldsRowOnce'
    BY <2>1, <2>2 DEF RunsInv, BatchInv, BatchHoldsRowOnce
  <2> QED
    BY <2>3, <2>4, <2>5 DEF BatchInv
<1> QED
  BY <1>4, <1>5, <1>6, <1>7 DEF RunsInv

\* The runner selects due rows.
LEMMA PollKeepsRuns ==
  ASSUME TypeOK, RunsInv, Poll
  PROVE  RunsInv'
<1>1. UNCHANGED <<clock, rows, patch, since, torn>>
  BY DEF Poll
<1>2. ASSUME NEW s \in due', s.id \notin torn
      PROVE  UpToDate(s.row, since[s.id]) /\ s.row.next <= clock
  <2>1. s.id \in Ids /\ s.row = rows[s.id] /\ s.row \in RowSet /\ IsDue(s.id)
    BY PolledCopy DEF Copies
  <2>2. UpToDate(s.row, since[s.id])
    BY <1>2, <2>1 DEF RunsInv, RowsUpToDate, IsDue
  <2>3. NULL <= clock
    BY DEF TypeOK, NULL
  <2> QED
    BY <2>1, <2>2, <2>3 DEF IsDue
<1>3. BatchUpToDate'
  BY <1>1, <1>2 DEF BatchUpToDate
<1>4. BatchKnowsCron' /\ BatchHoldsRowOnce'
  BY <1>1, PolledCopy DEF BatchKnowsCron, BatchHoldsRowOnce
<1> QED
  BY <1>1, <1>3, <1>4 DEF RunsInv, SinceIsPast, RowsUpToDate, PatchUpToDate, BatchInv

\* The runner claims a row: unless its copy was overtaken or the UPDATE failed,
\* the row waits for the next time of its own expression.
LEMMA ClaimKeepsRuns ==
  ASSUME TypeOK, RunsInv, NEW s \in due, NEW stored \in BOOLEAN,
         NEW now \in Readings, Claim(s, stored, now)
  PROVE  RunsInv'
<1> DEFINE i == s.id
<1>1. s \in Copies /\ i \in Ids /\ s.row.cron \in Crons
  BY ReadingTyped, ClaimedRow DEF Copies, RowSet
<1>2. /\ since'[i] = clock /\ clock \in Int /\ clock' = clock
      /\ \A j \in Ids \ {i} : since'[j] = since[j]
      /\ torn \subseteq torn' /\ due' = due \ {s}
      /\ (i \notin torn' => ~s.stale /\ stored)
  BY <1>1 DEF Claim, TypeOK
<1>3. \A j \in Ids \ {i} : rows'[j] = rows[j]
  BY ReadingTyped, ClaimedRow
<1>4. SinceIsPast'
  BY <1>2 DEF RunsInv, SinceIsPast
<1>5. RowsUpToDate'
  <2>1. ASSUME i \notin torn', rows'[i] # NoRow PROVE UpToDate(rows'[i], since'[i])
    <3>1. /\ rows'[i].cron = rows[i].cron /\ rows[i] # NoRow
          /\ rows'[i].next = NextRun(s.row.cron, now)
      BY <1>1, <1>2, <2>1, ReadingTyped, ClaimedRow
    <3>2. rows[i].cron = s.row.cron
      BY <1>2, <2>1, <3>1 DEF RunsInv, BatchInv, BatchKnowsCron
    <3> QED
      BY <1>1, <1>2, <3>1, <3>2, NextRunUpToDate DEF UpToDate
  <2> HIDE DEF i
  <2> QED
    BY <1>2, <1>3, <2>1 DEF RunsInv, RowsUpToDate
<1>6. ASSUME NEW e \in Editors PROVE PatchUpToDate(e)'
  <2>1. patch'[e] = OutdatedPatches(i)[e]
    BY DEF Claim
  <2>2. patch'[e] # NoPatch =>
          /\ patch[e] # NoPatch /\ patch[e].id \in Ids
          /\ patch'[e].id = patch[e].id /\ patch'[e].row = patch[e].row
          /\ ~patch'[e].stale => ~patch[e].stale /\ patch[e].id # i
    BY <1>1, <2>1, OutdatedPatch DEF Copies
  <2> QED
    BY <1>2, <2>2 DEF RunsInv, PatchUpToDate
<1>7. BatchInv'
  <2>1. \A r \in due' : r \in due /\ r.id \in Ids \ {i} /\ rows'[r.id] = rows[r.id]
    BY <1>2, <1>3 DEF RunsInv, BatchInv, BatchHoldsRowOnce, TypeOK
  <2> HIDE DEF i
  <2> QED
    BY <1>2, <2>1 DEF RunsInv, BatchInv, BatchUpToDate, BatchKnowsCron, BatchHoldsRowOnce
<1> QED
  BY <1>4, <1>5, <1>6, <1>7 DEF RunsInv

\* The rest only forgets copies and rows, or lets time pass.
LEMMA OthersKeepRuns ==
  ASSUME TypeOK, RunsInv,
         \/ \E i \in Ids : DeleteSchedule(i)
         \/ \E e \in Editors : PatchFails(e)
         \/ Wake \/ PollFails \/ Fire \/ Crash \/ Tick \/ UNCHANGED vars
  PROVE  RunsInv'
<1>1. ASSUME NEW i \in Ids, DeleteSchedule(i) PROVE RunsInv'
  <2>1. /\ \A j \in Ids : rows'[j] = rows[j] \/ rows'[j] = NoRow
        /\ UNCHANGED <<clock, due, patch, since, torn>>
    BY <1>1 DEF DeleteSchedule, TypeOK
  <2>2. \A s \in due : s.id \in Ids
    BY DEF TypeOK
  <2> QED
    BY <2>1, <2>2 DEF RunsInv, SinceIsPast, RowsUpToDate, PatchUpToDate, BatchInv,
                      BatchUpToDate, BatchKnowsCron, BatchHoldsRowOnce
<1>2. ASSUME NEW e \in Editors, PatchFails(e) PROVE RunsInv'
  <2>1. \A f \in Editors : PatchUpToDate(f)'
    BY <1>2 DEF PatchFails, RunsInv, PatchUpToDate, TypeOK
  <2> QED
    BY <1>2, <2>1 DEF PatchFails, RunsInv, SinceIsPast, RowsUpToDate, BatchInv,
                      BatchUpToDate, BatchKnowsCron, BatchHoldsRowOnce
<1>3. CASE Wake \/ PollFails \/ Fire \/ UNCHANGED vars
  BY <1>3 DEF Wake, PollFails, Fire, vars, RunsInv, SinceIsPast, RowsUpToDate, PatchUpToDate,
              BatchInv, BatchUpToDate, BatchKnowsCron, BatchHoldsRowOnce
<1>4. CASE Crash
  <2>1. \A e \in Editors : PatchUpToDate(e)'
    <3>1. UNCHANGED <<since, torn>> /\ \A e \in Editors : patch'[e] \in {patch[e], NoPatch}
      BY <1>4 DEF Crash
    <3> QED
      BY <3>1 DEF RunsInv, PatchUpToDate
  <2> QED
    BY <1>4, <2>1 DEF Crash, RunsInv, SinceIsPast, RowsUpToDate, BatchInv,
                      BatchUpToDate, BatchKnowsCron, BatchHoldsRowOnce
<1>5. CASE Tick
  <2>1. clock \in Int /\ clock' = clock + 1 /\ UNCHANGED <<rows, due, patch, since, torn>>
    BY <1>5 DEF Tick, TypeOK
  <2>2. SinceIsPast'
    BY <2>1 DEF RunsInv, SinceIsPast, TypeOK, NULL
  <2>3. BatchUpToDate'
    <3>1. \A s \in due : s.row.next \in Int
      BY DEF TypeOK, RowSet, NULL
    <3> QED
      BY <2>1, <3>1 DEF RunsInv, BatchInv, BatchUpToDate
  <2> QED
    BY <2>1, <2>2, <2>3 DEF RunsInv, RowsUpToDate, PatchUpToDate, BatchInv,
                            BatchKnowsCron, BatchHoldsRowOnce
<1> QED
  BY <1>1, <1>2, <1>3, <1>4, <1>5

\* The copies that no write has overtaken stay up to date.
LEMMA RunsInvariant == Spec => []RunsInv
<1>1. Init => RunsInv
  BY SchedulesAssumption
     DEF Init, RunsInv, SinceIsPast, RowsUpToDate, PatchUpToDate, BatchInv,
         BatchUpToDate, BatchKnowsCron, BatchHoldsRowOnce, NULL
<1>2. TypeOK /\ RunsInv /\ [Next]_vars => RunsInv'
  BY CreateKeepsRuns, PatchReadsKeepsRuns, PatchWritesKeepsRuns, PollKeepsRuns,
     ClaimKeepsRuns, OthersKeepRuns DEF Next, Runner, Claims
<1> QED
  BY <1>1, <1>2, TypeInvariant, PTL DEF Spec

(***************************************************************************)
(* A schedule fires at most once for each time its expression names, while *)
(* its row lost no update and its expression has not run out: every claim  *)
(* follows such a time since the last, as the gateway's clock has it, for  *)
(* every bound on the distance of the clocks and whatever the patches,     *)
(* deletions, database errors and restarts.                                *)
(***************************************************************************)
THEOREM ClaimsInvariant == Spec => ClaimsFollowCron
<1> DEFINE Follows ==
      \A s \in due :
        Claims(s) /\ Claimed(s.id) /\ s.id \notin torn /\ s.row.next # NULL
          => Occurs(s.row.cron, since[s.id] - MaxBehind, clock)
<1>1. RunsInv => Follows
  <2> SUFFICES ASSUME RunsInv, NEW s \in due, s.id \notin torn, s.row.next # NULL
               PROVE  Occurs(s.row.cron, since[s.id] - MaxBehind, clock)
    OBVIOUS
  <2> QED
    BY DEF RunsInv, BatchInv, BatchUpToDate, UpToDate, Occurs
<1> QED
  BY <1>1, RunsInvariant, PTL DEF ClaimsFollowCron
===============================================================================
