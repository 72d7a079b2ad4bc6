---------------------------- MODULE DispatchProofs -----------------------------
(***************************************************************************)
(* Proofs about the provider registry and the choice of a provider, for    *)
(* every set of tenants, providers, handlers, dispatchers and master keys. *)
(***************************************************************************)
EXTENDS Dispatch, FiniteSetTheorems, TLAPS

-------------------------------------------------------------------------------
(* What a statement does to the rows of each tenant *)

OwnerOf(i) == IF rows[i] = NoRow THEN None ELSE rows[i].tenant

\* A step that leaves the table alone leaves what is read off it.
LEMMA SameRows ==
  ASSUME rows' = rows
  PROVE  /\ \A u : RowsOf(u)' = RowsOf(u) /\ DefaultsOf(u)' = DefaultsOf(u)
         /\ \A i : OwnerOf(i)' = OwnerOf(i)
BY DEF RowsOf, DefaultsOf, OwnerOf

LEMMA RowTyped ==
  ASSUME NEW t \in Tenants, NEW d \in BOOLEAN
  PROVE  Row(t, d) \in RowSet /\ Row(t, d) # NoRow
BY ProvidersAssumption DEF Row, RowSet

\* An insertion adds one row to one tenant.
LEMMA InsertedRow ==
  ASSUME TypeOK, NEW row \in RowSet, NEW i \in Ids,
         rows[i] = NoRow, rows' = [rows EXCEPT ![i] = row]
  PROVE  /\ row.tenant \in Tenants
         /\ \A u \in Tenants \ {row.tenant} : DefaultsOf(u)' = DefaultsOf(u)
         /\ DefaultsOf(row.tenant)'
              = DefaultsOf(row.tenant) \cup (IF row.is_default THEN {i} ELSE {})
         /\ \A j \in Ids : OwnerOf(j)' = IF j = i THEN row.tenant ELSE OwnerOf(j)
         /\ rows' \in [Ids -> RowSet \cup {NoRow}]
<1>1. rows'[i] = row /\ \A j \in Ids \ {i} : rows'[j] = rows[j]
  BY DEF TypeOK
<1>2. row # NoRow /\ row.tenant \in Tenants
  BY ProvidersAssumption DEF RowSet
<1> QED
  BY <1>1, <1>2 DEF TypeOK, DefaultsOf, RowsOf, OwnerOf

\* The ordinary insertion, and the insertion of a default, the second
\* statement of its registration.
LEMMA InsertedOrdinary ==
  ASSUME TypeOK, NEW t \in Tenants, NEW i \in Ids,
         rows[i] = NoRow, rows' = [rows EXCEPT ![i] = Row(t, FALSE)]
  PROVE  /\ \A u \in Tenants : DefaultsOf(u)' = DefaultsOf(u)
         /\ \A j \in Ids : OwnerOf(j)' = IF j = i THEN t ELSE OwnerOf(j)
         /\ rows' \in [Ids -> RowSet \cup {NoRow}]
<1> DEFINE row == Row(t, FALSE)
<1>1. row \in RowSet /\ row.tenant = t /\ ~row.is_default
  BY RowTyped DEF Row
<1>2. rows' = [rows EXCEPT ![i] = row]
  OBVIOUS
<1> HIDE DEF row
<1>3. /\ \A u \in Tenants \ {t} : DefaultsOf(u)' = DefaultsOf(u)
      /\ DefaultsOf(t)' = DefaultsOf(t) \cup {}
      /\ \A j \in Ids : OwnerOf(j)' = IF j = i THEN t ELSE OwnerOf(j)
      /\ rows' \in [Ids -> RowSet \cup {NoRow}]
  BY <1>1, <1>2, InsertedRow
<1> QED
  BY <1>3

LEMMA InsertedDefault ==
  ASSUME TypeOK, NEW h \in Handlers, NEW i \in Ids, InsertDefault(h, i)
  PROVE  \E t \in Tenants :
           /\ t = op[h].tenant
           /\ \A u \in Tenants \ {t} : DefaultsOf(u)' = DefaultsOf(u)
           /\ DefaultsOf(t) = {} /\ DefaultsOf(t)' = {i}
           /\ \A j \in Ids : OwnerOf(j)' = IF j = i THEN t ELSE OwnerOf(j)
           /\ rows' \in [Ids -> RowSet \cup {NoRow}]
<1> DEFINE row == Row(op[h].tenant, TRUE)
<1>0. PICK t \in Tenants : t = op[h].tenant
  BY DEF InsertDefault, Inserting, TypeOK, Ops
<1>1. DefaultsOf(t) = {} /\ rows[i] = NoRow
  BY <1>0 DEF InsertDefault, Fresh
<1>2. row \in RowSet /\ row.tenant = t /\ row.is_default
  BY <1>0, RowTyped DEF Row
<1>3. rows' = [rows EXCEPT ![i] = row]
  BY DEF InsertDefault
<1> HIDE DEF row
<1>4. /\ \A u \in Tenants \ {t} : DefaultsOf(u)' = DefaultsOf(u)
      /\ DefaultsOf(t)' = {i}
      /\ \A j \in Ids : OwnerOf(j)' = IF j = i THEN t ELSE OwnerOf(j)
      /\ rows' \in [Ids -> RowSet \cup {NoRow}]
  BY <1>1, <1>2, <1>3, InsertedRow
<1> QED
  BY <1>0, <1>1, <1>4

\* Clearing takes the default of one tenant, and no row.
LEMMA ClearedRows ==
  ASSUME TypeOK, NEW t \in Tenants, rows' = Cleared(t)
  PROVE  /\ \A u \in Tenants \ {t} : DefaultsOf(u)' = DefaultsOf(u)
         /\ DefaultsOf(t)' = {}
         /\ \A j \in Ids : OwnerOf(j)' = OwnerOf(j)
         /\ rows' \in [Ids -> RowSet \cup {NoRow}]
<1>1. ASSUME NEW j \in RowsOf(t)
      PROVE  /\ rows'[j] = [rows[j] EXCEPT !.is_default = FALSE]
             /\ rows'[j] \in RowSet /\ rows'[j] # NoRow
             /\ rows'[j].tenant = t /\ ~rows'[j].is_default
  BY ProvidersAssumption DEF RowsOf, RowSet, Cleared, TypeOK
<1>2. \A j \in Ids : j \notin RowsOf(t) => rows'[j] = rows[j]
  BY DEF Cleared
<1>3. rows' \in [Ids -> RowSet \cup {NoRow}]
  <2>1. \A j \in Ids : rows'[j] \in RowSet \cup {NoRow}
    BY <1>1, <1>2 DEF TypeOK
  <2>2. rows' = [j \in Ids |-> rows'[j]]
    BY DEF Cleared
  <2> QED
    BY <2>1, <2>2
<1> QED
  BY <1>1, <1>2, <1>3 DEF DefaultsOf, RowsOf, OwnerOf

\* A deletion takes one row, if it is the tenant's.
LEMMA DeletedRow ==
  ASSUME TypeOK, NEW t \in Tenants, NEW i \in Ids, rows' = Without(t, i)
  PROVE  /\ \A u \in Tenants \ {t} : DefaultsOf(u)' = DefaultsOf(u)
         /\ DefaultsOf(t)' = DefaultsOf(t) \ {i}
         /\ \A j \in Ids :
              OwnerOf(j)' = IF j = i /\ i \in RowsOf(t) THEN None ELSE OwnerOf(j)
         /\ rows' \in [Ids -> RowSet \cup {NoRow}]
<1>1. rows'[i] = (IF i \in RowsOf(t) THEN NoRow ELSE rows[i])
      /\ \A j \in Ids \ {i} : rows'[j] = rows[j]
  BY DEF Without, TypeOK
<1>2. rows' \in [Ids -> RowSet \cup {NoRow}]
  BY DEF Without, TypeOK
<1> QED
  BY <1>1, <1>2 DEF DefaultsOf, RowsOf, OwnerOf

\* The in-memory store clears, if asked to, and inserts at once.
LEMMA StoredRow ==
  ASSUME TypeOK, NEW t \in Tenants, NEW i \in Ids, NEW d \in BOOLEAN, StoreInMemory(t, i, d)
  PROVE  /\ \A u \in Tenants \ {t} : DefaultsOf(u)' = DefaultsOf(u)
         /\ DefaultsOf(t)' = IF d THEN {i} ELSE DefaultsOf(t)
         /\ \A j \in Ids : OwnerOf(j)' = IF j = i THEN t ELSE OwnerOf(j)
         /\ rows' \in [Ids -> RowSet \cup {NoRow}]
<1>1. rows[i] = NoRow
  BY DEF StoreInMemory, Fresh
<1>2. CASE ~d
  BY <1>1, <1>2, InsertedOrdinary DEF StoreInMemory
<1>3. CASE d
  <2>1. rows' = [Cleared(t) EXCEPT ![i] = Row(t, TRUE)]
    BY <1>3 DEF StoreInMemory
  <2>2. Row(t, TRUE) \in RowSet /\ Row(t, TRUE) # NoRow
    BY RowTyped
  <2>3. rows'[i] = Row(t, TRUE) /\ \A j \in Ids \ {i} : rows'[j] = Cleared(t)[j]
    BY <2>1 DEF Cleared
  <2>4. ASSUME NEW j \in RowsOf(t)
        PROVE  /\ j # i
               /\ rows'[j] \in RowSet /\ rows'[j] # NoRow
               /\ rows'[j].tenant = t /\ ~rows'[j].is_default
    <3>1. j # i /\ j \in Ids /\ rows[j] \in RowSet
      BY <1>1 DEF RowsOf, TypeOK
    <3>2. rows'[j] = [rows[j] EXCEPT !.is_default = FALSE]
      BY <2>3, <3>1 DEF Cleared
    <3> QED
      BY <3>1, <3>2, ProvidersAssumption DEF RowsOf, RowSet
  <2>5. \A j \in Ids \ {i} : j \notin RowsOf(t) => rows'[j] = rows[j]
    BY <2>3 DEF Cleared
  <2>6. rows' \in [Ids -> RowSet \cup {NoRow}]
    <3>1. \A j \in Ids : rows'[j] \in RowSet \cup {NoRow}
      BY <2>2, <2>3, <2>4, <2>5 DEF TypeOK
    <3>2. rows' = [j \in Ids |-> rows'[j]]
      BY <2>1 DEF Cleared
    <3> QED
      BY <3>1, <3>2
  <2> QED
    BY <1>1, <1>3, <2>2, <2>3, <2>4, <2>5, <2>6 DEF DefaultsOf, RowsOf, OwnerOf, Row
<1> QED
  BY <1>2, <1>3
-------------------------------------------------------------------------------
(* Types *)

\* A statement under way has the fields of its kind.
LEMMA OpTyped ==
  ASSUME TypeOK, NEW h \in Handlers
  PROVE  /\ Inserting(h) => op[h].tenant \in Tenants
         /\ Deleting(h) => op[h].tenant \in Tenants /\ op[h].id \in Ids
BY DEF TypeOK, Ops, Inserting, Deleting

\* A handler that did not move has the same to do.
LEMMA SameOp ==
  ASSUME NEW h \in Handlers, op'[h] = op[h]
  PROVE  Inserting(h)' = Inserting(h) /\ Deleting(h)' = Deleting(h)
BY DEF Inserting, Deleting

\* The variables of the registry have their types, and nothing is inserted in
\* two steps in memory.
LEMMA ProvidersTyped == Spec => []TypeOK
<1>1. Init => TypeOK
  BY DEF Init, TypeOK, Inserting
<1>2. TypeOK /\ [Next]_vars => TypeOK'
  <2> SUFFICES ASSUME TypeOK, [Next]_vars PROVE TypeOK'
    OBVIOUS
  <2>1. ASSUME NEW t \in Tenants, NEW i \in Ids, NEW d \in BOOLEAN, StoreInMemory(t, i, d)
        PROVE  TypeOK'
    BY <2>1, StoredRow DEF TypeOK, StoreInMemory, Inserting
  <2>2. ASSUME NEW t \in Tenants, NEW i \in Ids, InsertOrdinary(t, i) PROVE TypeOK'
    BY <2>2, InsertedOrdinary DEF TypeOK, InsertOrdinary, Fresh, Inserting
  <2>3. ASSUME NEW t \in Tenants, NEW i \in Ids, AdminDelete(t, i) PROVE TypeOK'
    BY <2>3, DeletedRow DEF TypeOK, AdminDelete, Deletes, Inserting
  <2>4. ASSUME NEW h \in Handlers, NEW t \in Tenants, ClearDefault(h, t) PROVE TypeOK'
    <3>1. [kind |-> "insert", tenant |-> t] \in Ops
      BY DEF Ops
    <3> QED
      BY <2>4, <3>1, ClearedRows DEF TypeOK, ClearDefault
  <2>5. ASSUME NEW h \in Handlers, NEW t \in Tenants, NEW i \in Ids, CheckOwner(h, t, i)
        PROVE  TypeOK'
    <3>1. [kind |-> "delete", tenant |-> t, id |-> i] \in Ops
      BY DEF Ops
    <3> QED
      BY <2>5, <3>1 DEF TypeOK, CheckOwner, Inserting
  <2>6. ASSUME NEW h \in Handlers, NEW i \in Ids, InsertDefault(h, i) PROVE TypeOK'
    <3>1. op[h].tenant \in Tenants /\ rows' \in [Ids -> RowSet \cup {NoRow}]
      BY <2>6, InsertedDefault
    <3> QED
      BY <2>6, <3>1 DEF TypeOK, InsertDefault, Inserting
  <2>7. ASSUME NEW h \in Handlers, DeleteOwn(h) PROVE TypeOK'
    BY <2>7, DeletedRow, OpTyped DEF TypeOK, DeleteOwn, Deletes, Inserting
  <2>8. ASSUME NEW h \in Handlers, InsertConflicts(h) \/ BreakOff(h) PROVE TypeOK'
    BY <2>8 DEF TypeOK, InsertConflicts, BreakOff, Abandon, Inserting
  <2>9. CASE Crash
    BY <2>9 DEF TypeOK, Crash, Abandon, Inserting
  <2>10. CASE UNCHANGED vars
    BY <2>10 DEF TypeOK, vars, Inserting
  <2> QED
    BY <2>1, <2>2, <2>3, <2>4, <2>5, <2>6, <2>7, <2>8, <2>9, <2>10 DEF Next, Operation, OperationOf
<1> QED
  BY <1>1, <1>2, PTL DEF Spec
-------------------------------------------------------------------------------
(* Defaults *)

\* At most one default to a tenant, in either store.
OneDefault == \A t \in Tenants : \A i, j \in DefaultsOf(t) : i = j

\* OneDefault is inductive, given the types: the in-memory store clears under
\* its lock, and the unique index refuses a second default.
LEMMA OneDefaultInvariant == Spec => []OneDefault
<1>1. Init => OneDefault
  BY DEF Init, OneDefault, DefaultsOf, RowsOf
<1>2. TypeOK /\ OneDefault /\ [Next]_vars => OneDefault'
  <2> SUFFICES ASSUME TypeOK, OneDefault, [Next]_vars, NEW u \in Tenants
               PROVE  \A i, j \in DefaultsOf(u)' : i = j
    BY DEF OneDefault
  <2> USE DEF OneDefault
  <2>1. ASSUME NEW t \in Tenants, NEW i \in Ids, NEW d \in BOOLEAN, StoreInMemory(t, i, d)
        PROVE  \A x, y \in DefaultsOf(u)' : x = y
    BY <2>1, StoredRow
  <2>2. ASSUME NEW t \in Tenants, NEW i \in Ids, InsertOrdinary(t, i)
        PROVE  \A x, y \in DefaultsOf(u)' : x = y
    BY <2>2, InsertedOrdinary DEF InsertOrdinary, Fresh
  <2>3. ASSUME NEW t \in Tenants, NEW i \in Ids, Deletes(t, i)
        PROVE  \A x, y \in DefaultsOf(u)' : x = y
    BY <2>3, DeletedRow DEF Deletes
  <2>4. ASSUME NEW h \in Handlers, NEW t \in Tenants, ClearDefault(h, t)
        PROVE  \A x, y \in DefaultsOf(u)' : x = y
    BY <2>4, ClearedRows DEF ClearDefault
  <2>5. ASSUME NEW h \in Handlers, NEW i \in Ids, InsertDefault(h, i)
        PROVE  \A x, y \in DefaultsOf(u)' : x = y
    BY <2>5, InsertedDefault
  <2>6. CASE rows' = rows
    BY <2>6, SameRows
  <2>7. CASE Crash /\ rows' # rows
    BY <2>7 DEF Crash, DefaultsOf, RowsOf
  <2>8. ASSUME NEW h \in Handlers, DeleteOwn(h)
        PROVE  \A x, y \in DefaultsOf(u)' : x = y
    BY <2>3, <2>8, OpTyped DEF DeleteOwn
  <2>9. ASSUME NEW h \in Handlers,
               \/ InsertConflicts(h) \/ BreakOff(h)
               \/ \E t \in Tenants, i \in Ids : CheckOwner(h, t, i)
        PROVE  rows' = rows
    BY <2>9 DEF CheckOwner, InsertConflicts, BreakOff
  <2> QED
    BY <2>1, <2>2, <2>3, <2>4, <2>5, <2>6, <2>7, <2>8, <2>9
       DEF Next, Operation, OperationOf, AdminDelete, vars
<1> QED
  BY <1>1, <1>2, ProvidersTyped, PTL DEF Spec

\* KeepsADefault is inductive, given the types.
LEMMA DefaultKept == Spec => []KeepsADefault
<1>1. Init => KeepsADefault
  BY DEF Init, KeepsADefault
<1>2. TypeOK /\ KeepsADefault /\ [Next]_vars => KeepsADefault'
  <2> SUFFICES ASSUME TypeOK, KeepsADefault, [Next]_vars, NEW u \in granted'
               PROVE  DefaultsOf(u)' # {} \/ BetweenDefaults(u)'
    BY DEF KeepsADefault
  <2> DEFINE Kept == DefaultsOf(u)' # {} \/ BetweenDefaults(u)'
  <2>0. u \in granted => u \in Tenants /\ (DefaultsOf(u) # {} \/ BetweenDefaults(u))
    BY DEF KeepsADefault, TypeOK
  <2>1. op' = op => BetweenDefaults(u)' = BetweenDefaults(u)
    BY DEF BetweenDefaults, Inserting
  <2>2. ASSUME NEW h \in Handlers, BetweenDefaults(u), op' = [op EXCEPT ![h] = op'[h]],
               ~(Inserting(h) /\ op[h].tenant = u)
        PROVE  BetweenDefaults(u)'
    BY <2>2 DEF BetweenDefaults, Inserting, TypeOK
  <2>3. ASSUME NEW t \in Tenants, NEW i \in Ids, NEW d \in BOOLEAN, StoreInMemory(t, i, d)
        PROVE  Kept
    <3>1. op' = op /\ (u # t => u \in granted)
      BY <2>3 DEF StoreInMemory
    <3> QED
      BY <2>0, <2>1, <2>3, <3>1, StoredRow DEF StoreInMemory
  <2>4. ASSUME NEW t \in Tenants, NEW i \in Ids, InsertOrdinary(t, i) PROVE Kept
    BY <2>0, <2>1, <2>4, InsertedOrdinary DEF InsertOrdinary, Fresh
  <2>5. ASSUME NEW t \in Tenants, NEW i \in Ids, Deletes(t, i)
        PROVE  u \in granted /\ (DefaultsOf(u) # {} => DefaultsOf(u)' # {})
    BY <2>0, <2>5, DeletedRow DEF Deletes
  <2>6. ASSUME NEW h \in Handlers, NEW t \in Tenants, ClearDefault(h, t) PROVE Kept
    <3>1. [kind |-> "insert", tenant |-> t] \in Ops
      BY DEF Ops
    <3>2. op'[h] = [kind |-> "insert", tenant |-> t] /\ op'[h] # NoOp
      BY <2>6, <3>1, ProvidersAssumption DEF ClearDefault, TypeOK
    <3>3. u = t => BetweenDefaults(u)'
      BY <3>2 DEF BetweenDefaults, Inserting
    <3>4. BetweenDefaults(u) => BetweenDefaults(u)'
      BY <2>2, <2>6, <3>2 DEF ClearDefault, Inserting
    <3>5. u # t /\ u \in Tenants => DefaultsOf(u)' = DefaultsOf(u)
      BY <2>6, ClearedRows DEF ClearDefault
    <3> QED
      BY <2>0, <2>6, <3>3, <3>4, <3>5 DEF ClearDefault
  <2>7. ASSUME NEW h \in Handlers, NEW i \in Ids, InsertDefault(h, i) PROVE Kept
    <3>1. u = op[h].tenant => DefaultsOf(u)' # {}
      BY <2>7, InsertedDefault
    <3>2. ASSUME u # op[h].tenant PROVE Kept
      <4>1. u \in granted
        BY <2>7, <3>2 DEF InsertDefault
      <4>2. DefaultsOf(u)' = DefaultsOf(u)
        BY <2>0, <2>7, <3>2, <4>1, InsertedDefault
      <4>3. op' = [op EXCEPT ![h] = op'[h]]
        BY <2>7 DEF InsertDefault, TypeOK
      <4> QED
        BY <2>0, <2>2, <3>2, <4>1, <4>2, <4>3
    <3> QED
      BY <3>1, <3>2
  <2>8. ASSUME NEW h \in Handlers, InsertConflicts(h) PROVE Kept
    <3>1. u = op[h].tenant => DefaultsOf(u)' # {}
      BY <2>8, SameRows DEF InsertConflicts
    <3>2. op' = [op EXCEPT ![h] = op'[h]]
      BY <2>8 DEF InsertConflicts, TypeOK
    <3> QED
      BY <2>0, <2>2, <2>8, <3>1, <3>2, SameRows DEF InsertConflicts
  <2>9. ASSUME NEW h \in Handlers, NEW t \in Tenants, NEW i \in Ids,
               CheckOwner(h, t, i) PROVE Kept
    <3>1. op' = [op EXCEPT ![h] = op'[h]] /\ ~Inserting(h)
      BY <2>9 DEF CheckOwner, TypeOK, Inserting
    <3> QED
      BY <2>0, <2>2, <2>9, <3>1, SameRows DEF CheckOwner
  <2>10. ASSUME NEW h \in Handlers, DeleteOwn(h) PROVE Kept
    <3>1. op' = [op EXCEPT ![h] = op'[h]] /\ ~Inserting(h)
      BY <2>10 DEF DeleteOwn, TypeOK, Inserting, Deleting
    <3> QED
      BY <2>0, <2>2, <2>5, <2>10, <3>1, OpTyped DEF DeleteOwn
  <2>11. ASSUME NEW t \in Tenants, NEW i \in Ids, AdminDelete(t, i) PROVE Kept
    BY <2>0, <2>1, <2>5, <2>11 DEF AdminDelete
  <2>12. ASSUME NEW quitting \in SUBSET Handlers, Abandon(quitting), rows' = rows,
                op' = [h \in Handlers |-> IF h \in quitting THEN NoOp ELSE op[h]]
         PROVE  Kept
    <3>1. u \in granted /\ DefaultsOf(u)' = DefaultsOf(u)
      BY <2>12, SameRows DEF Abandon
    <3>2. ASSUME DefaultsOf(u) = {} PROVE BetweenDefaults(u)'
      <4>1. PICK h \in Handlers : Inserting(h) /\ op[h].tenant = u
        BY <2>0, <3>1, <3>2 DEF BetweenDefaults
      <4>2. h \notin quitting
        BY <2>12, <3>2, <4>1 DEF Abandon
      <4> QED
        BY <2>12, <4>1, <4>2 DEF BetweenDefaults, Inserting
    <3> QED
      BY <3>1, <3>2
  <2>13. ASSUME NEW h \in Handlers, BreakOff(h) PROVE Kept
    <3>1. op' = [g \in Handlers |-> IF g \in {h} THEN NoOp ELSE op[g]]
      BY <2>13 DEF BreakOff, TypeOK
    <3> QED
      BY <2>12, <2>13, <3>1 DEF BreakOff
  <2>14. CASE Crash
    <3>1. op' = [g \in Handlers |-> IF g \in Handlers THEN NoOp ELSE op[g]]
      BY <2>14 DEF Crash
    <3> QED
      BY <2>12, <2>14, <3>1 DEF Crash
  <2>15. CASE UNCHANGED vars
    BY <2>0, <2>1, <2>15, SameRows DEF vars
  <2> QED
    BY <2>3, <2>4, <2>6, <2>7, <2>8, <2>9, <2>10, <2>11, <2>13, <2>14, <2>15
       DEF Next, Operation, OperationOf
<1> QED
  BY <1>1, <1>2, ProvidersTyped, PTL DEF Spec
-------------------------------------------------------------------------------
(* The registry *)

\* What the mapping shows as a tenant's default.
LEMMA ShownDefault ==
  ASSUME NEW t
  PROVE  /\ DefaultsOf(t) = {} => DefaultOf(t) = None
         /\ \A i : DefaultsOf(t) = {i} => DefaultOf(t) = i
         /\ DefaultsOf(t)' = {} => DefaultOf(t)' = None
         /\ \A i : DefaultsOf(t)' = {i} => DefaultOf(t)' = i
         /\ DefaultsOf(t)' = DefaultsOf(t) => DefaultOf(t)' = DefaultOf(t)
<1> DEFINE TheOne(D) ==
      CASE D = {} -> None
        [] Cardinality(D) = 1 -> CHOOSE i \in D : TRUE
        [] OTHER -> D
<1>1. \A i : {i} # {} /\ Cardinality({i}) = 1 /\ (CHOOSE j \in {i} : TRUE) = i
  BY FS_Singleton
<1>2. TheOne({}) = None /\ \A i : TheOne({i}) = i
  <2>1. TheOne({}) = None
    BY FS_EmptySet
  <2>2. ASSUME NEW i PROVE TheOne({i}) = i
    BY <1>1
  <2> QED
    BY <2>1, <2>2
<1>3. DefaultOf(t) = TheOne(DefaultsOf(t)) /\ DefaultOf(t)' = TheOne(DefaultsOf(t)')
  BY DEF DefaultOf
<1> HIDE DEF TheOne
<1> QED
  BY <1>2, <1>3

LEMMA NoneOrOne ==
  ASSUME OneDefault, NEW t \in Tenants
  PROVE  DefaultsOf(t) = {} \/ \E i \in Ids : DefaultsOf(t) = {i}
<1>1. DefaultsOf(t) \subseteq Ids
  BY DEF DefaultsOf, RowsOf
<1>2. ASSUME NEW i \in DefaultsOf(t) PROVE DefaultsOf(t) = {i}
  BY <1>2 DEF OneDefault
<1> QED
  BY <1>1, <1>2

\* A row's tenant shows as its owner.
LEMMA ShownOwner ==
  ASSUME TypeOK, NEW i \in Ids
  PROVE  /\ OwnerOf(i) = None <=> rows[i] = NoRow
         /\ \A t \in Tenants : i \in RowsOf(t) <=> OwnerOf(i) = t
BY ProvidersAssumption DEF TypeOK, RowSet, OwnerOf, RowsOf

\* A new row shows as a registration, with or without a new default.
LEMMA Registers ==
  ASSUME TypeOK, NEW t \in Tenants, NEW i \in Ids, rows[i] = NoRow,
         \A j \in Ids : OwnerOf(j)' = IF j = i THEN t ELSE OwnerOf(j),
         \A u \in Tenants \ {t} : DefaultsOf(u)' = DefaultsOf(u),
         DefaultsOf(t)' \in {DefaultsOf(t), {i}}
  PROVE  Registry!Next
<1>1. \A u \in Tenants \ {t} : DefaultOf(u)' = DefaultOf(u)
  BY ShownDefault
<1>2. DefaultOf(t)' = DefaultOf(t) \/ DefaultOf(t)' = i
  BY ShownDefault
<1>3. OwnerOf(i) = None
  BY ShownOwner
<1>4. [u \in Tenants |-> DefaultOf(u)]'
        \in {[u \in Tenants |-> DefaultOf(u)],
             [[u \in Tenants |-> DefaultOf(u)] EXCEPT ![t] = i]}
  BY <1>1, <1>2
<1>5. Registry!Register(t, i)
  BY <1>3, <1>4 DEF Registry!Register, OwnerOf
<1> QED
  BY <1>5 DEF Registry!Next

\* A deletion shows as the removal of the tenant's own provider, or not at all.
LEMMA Removes ==
  ASSUME TypeOK, OneDefault, NEW t \in Tenants, NEW i \in Ids, rows' = Without(t, i)
  PROVE  Registry!Next \/ UNCHANGED Registry!vars
<1>0. /\ \A u \in Tenants \ {t} : DefaultsOf(u)' = DefaultsOf(u)
      /\ DefaultsOf(t)' = DefaultsOf(t) \ {i}
      /\ \A j \in Ids :
           OwnerOf(j)' = IF j = i /\ i \in RowsOf(t) THEN None ELSE OwnerOf(j)
  BY DeletedRow
<1>1. CASE i \in RowsOf(t)
  <2>1. OwnerOf(i) = t /\ \A u \in Tenants \ {t} : DefaultOf(u)' = DefaultOf(u)
    BY <1>0, <1>1, ShownOwner, ShownDefault
  <2>2. DefaultOf(t)' = IF DefaultOf(t) = i THEN None ELSE DefaultOf(t)
    <3>2. CASE DefaultsOf(t) = {}
      <4>1. DefaultsOf(t)' = {} /\ None # i
        BY <1>0, <3>2, ProvidersAssumption
      <4> QED
        BY <3>2, <4>1, ShownDefault
    <3>3. ASSUME NEW j \in Ids, DefaultsOf(t) = {j} PROVE <2>2
      <4>1. DefaultOf(t) = j
        BY <3>3, ShownDefault
      <4>2. CASE j = i
        <5>1. DefaultsOf(t)' = {}
          BY <1>0, <3>3, <4>2
        <5> QED
          BY <4>1, <4>2, <5>1, ShownDefault
      <4>3. CASE j # i
        <5>1. DefaultsOf(t)' = DefaultsOf(t)
          BY <1>0, <3>3, <4>3
        <5> QED
          BY <4>1, <4>3, <5>1, ShownDefault
      <4> QED
        BY <4>2, <4>3
    <3> QED
      BY <3>2, <3>3, NoneOrOne
  <2>3. Registry!Remove(t, i)
    BY <1>0, <1>1, <2>1, <2>2 DEF Registry!Remove, OwnerOf
  <2> QED
    BY <2>3 DEF Registry!Next
<1>2. CASE i \notin RowsOf(t)
  <2>1. rows' = rows
    BY <1>2 DEF Without, TypeOK
  <2> QED
    BY <2>1 DEF Registry!vars, DefaultOf, DefaultsOf, RowsOf
<1> QED
  BY <1>1, <1>2

\* Both stores implement the registry.
LEMMA StoresImplement == Spec => ImplementsRegistry
<1>1. Init => Registry!Init
  <2> SUFFICES ASSUME Init PROVE Registry!Init
    OBVIOUS
  <2>1. \A t \in Tenants : DefaultsOf(t) = {}
    BY DEF Init, DefaultsOf, RowsOf
  <2> QED
    BY <2>1, ShownDefault DEF Init, Registry!Init
<1>2. TypeOK /\ OneDefault /\ [Next]_vars => [Registry!Next]_(Registry!vars)
  <2> SUFFICES ASSUME TypeOK, OneDefault, [Next]_vars
               PROVE  Registry!Next \/ UNCHANGED Registry!vars
    OBVIOUS
  <2>1. ASSUME NEW t \in Tenants, NEW i \in Ids, NEW d \in BOOLEAN, StoreInMemory(t, i, d)
        PROVE  Registry!Next
    <3>1. rows[i] = NoRow
      BY <2>1 DEF StoreInMemory, Fresh
    <3>2. /\ \A u \in Tenants \ {t} : DefaultsOf(u)' = DefaultsOf(u)
          /\ DefaultsOf(t)' \in {DefaultsOf(t), {i}}
          /\ \A j \in Ids : OwnerOf(j)' = IF j = i THEN t ELSE OwnerOf(j)
      BY <2>1, StoredRow
    <3> QED
      BY <3>1, <3>2, Registers
  <2>2. ASSUME NEW t \in Tenants, NEW i \in Ids, InsertOrdinary(t, i) PROVE Registry!Next
    <3>1. rows[i] = NoRow
      BY <2>2 DEF InsertOrdinary, Fresh
    <3>2. rows' = [rows EXCEPT ![i] = Row(t, FALSE)]
      BY <2>2 DEF InsertOrdinary
    <3>3. /\ \A u \in Tenants : DefaultsOf(u)' = DefaultsOf(u)
          /\ \A j \in Ids : OwnerOf(j)' = IF j = i THEN t ELSE OwnerOf(j)
      BY <3>1, <3>2, InsertedOrdinary
    <3> QED
      BY <3>1, <3>3, Registers
  <2>3. ASSUME NEW h \in Handlers, NEW t \in Tenants, ClearDefault(h, t) PROVE Registry!Next
    <3>1. \A u \in Tenants \ {t} : DefaultOf(u)' = DefaultOf(u)
      BY <2>3, ClearedRows, ShownDefault DEF ClearDefault
    <3>2. DefaultOf(t)' = None
      BY <2>3, ClearedRows, ShownDefault DEF ClearDefault
    <3>3. \A j \in Ids : OwnerOf(j)' = OwnerOf(j)
      BY <2>3, ClearedRows DEF ClearDefault
    <3>4. Registry!Demote(t)
      BY <3>1, <3>2, <3>3 DEF Registry!Demote, OwnerOf
    <3> QED
      BY <3>4 DEF Registry!Next
  <2>4. ASSUME NEW h \in Handlers, NEW i \in Ids, InsertDefault(h, i) PROVE Registry!Next
    <3>1. rows[i] = NoRow
      BY <2>4 DEF InsertDefault, Fresh
    <3> QED
      BY <2>4, <3>1, InsertedDefault, Registers
  <2>5. ASSUME NEW t \in Tenants, NEW i \in Ids, AdminDelete(t, i)
        PROVE  Registry!Next \/ UNCHANGED Registry!vars
    BY <2>5, Removes DEF AdminDelete, Deletes
  <2>6. ASSUME NEW h \in Handlers, DeleteOwn(h)
        PROVE  Registry!Next \/ UNCHANGED Registry!vars
    BY <2>6, Removes, OpTyped DEF DeleteOwn, Deletes
  <2>7. CASE rows' = rows
    BY <2>7 DEF Registry!vars, DefaultOf, DefaultsOf, RowsOf
  <2>8. ASSUME NEW h \in Handlers,
               \/ InsertConflicts(h) \/ BreakOff(h)
               \/ \E t \in Tenants, i \in Ids : CheckOwner(h, t, i)
        PROVE  rows' = rows
    BY <2>8 DEF CheckOwner, InsertConflicts, BreakOff
  <2>9. CASE Crash /\ rows' # rows
    <3>1. rows' = [i \in Ids |-> NoRow]
      BY <2>9 DEF Crash
    <3>2. \A t \in Tenants : DefaultsOf(t)' = {}
      BY <3>1 DEF DefaultsOf, RowsOf
    <3>3. Registry!Restart
      BY <3>1, <3>2, ShownDefault DEF Registry!Restart
    <3> QED
      BY <3>3 DEF Registry!Next
  <2> QED
    BY <2>1, <2>2, <2>3, <2>4, <2>5, <2>6, <2>7, <2>8, <2>9 DEF Next, Operation, OperationOf, vars
<1> QED
  BY <1>1, <1>2, ProvidersTyped, OneDefaultInvariant, PTL
     DEF Spec, ImplementsRegistry, Registry!Spec

\* A statement made for one tenant touches its own rows only: clearing and
\* deleting compare tenants, and an insertion takes an id nobody has.
LEMMA OwnTouched ==
  ASSUME TypeOK, NEW t \in Tenants, NEW i \in Ids, OperationOf(t), rows'[i] # rows[i]
  PROVE  IsAndStays(i, t)
<1>1. ASSUME NEW j \in Ids, NEW d \in BOOLEAN, rows[j] = NoRow,
             rows' = [rows EXCEPT ![j] = Row(t, d)]
      PROVE  IsAndStays(i, t)
  <2>1. i = j /\ rows'[i] = Row(t, d)
    BY <1>1 DEF TypeOK
  <2> QED
    BY <1>1, <2>1 DEF IsAndStays, Row
<1>2. ASSUME rows'[i] = Cleared(t)[i] PROVE IsAndStays(i, t)
  <2>1. i \in RowsOf(t) /\ rows'[i] = [rows[i] EXCEPT !.is_default = FALSE]
    BY <1>2 DEF Cleared
  <2>2. rows'[i].tenant = rows[i].tenant
    BY <2>1 DEF TypeOK, RowsOf, RowSet
  <2> QED
    BY <2>1, <2>2 DEF IsAndStays, RowsOf
<1>3. ASSUME NEW j \in Ids, rows' = Without(t, j) PROVE IsAndStays(i, t)
  <2>1. i = j /\ i \in RowsOf(t) /\ rows'[i] = NoRow
    BY <1>3 DEF Without, TypeOK
  <2> QED
    BY <2>1 DEF IsAndStays, RowsOf
<1>4. ASSUME NEW j \in Ids, NEW d \in BOOLEAN, StoreInMemory(t, j, d) PROVE IsAndStays(i, t)
  <2>1. rows[j] = NoRow
    BY <1>4 DEF StoreInMemory, Fresh
  <2>2. CASE ~d
    BY <1>1, <1>4, <2>1, <2>2 DEF StoreInMemory
  <2>3. CASE d /\ i = j
    <3>1. rows' = [Cleared(t) EXCEPT ![j] = Row(t, d)]
      BY <1>4, <2>3 DEF StoreInMemory
    <3>2. rows'[i] = Row(t, d)
      BY <2>3, <3>1 DEF Cleared
    <3> QED
      BY <2>1, <2>3, <3>2 DEF IsAndStays, Row
  <2>4. CASE d /\ i # j
    <3>1. rows' = [Cleared(t) EXCEPT ![j] = Row(t, d)]
      BY <1>4, <2>4 DEF StoreInMemory
    <3> QED
      BY <1>2, <2>4, <3>1 DEF Cleared
  <2> QED
    BY <2>2, <2>3, <2>4
<1>5. ASSUME NEW j \in Ids, InsertOrdinary(t, j) PROVE IsAndStays(i, t)
  BY <1>1, <1>5 DEF InsertOrdinary, Fresh
<1>6. ASSUME NEW h \in Handlers, NEW j \in Ids, op[h].tenant = t, InsertDefault(h, j)
      PROVE  IsAndStays(i, t)
  BY <1>1, <1>6 DEF InsertDefault, Fresh
<1>7. ASSUME NEW h \in Handlers, op[h].tenant = t, DeleteOwn(h) PROVE IsAndStays(i, t)
  BY <1>3, <1>7, OpTyped DEF DeleteOwn, Deletes
<1> QED
  BY <1>2, <1>3, <1>4, <1>5, <1>6, <1>7
     DEF OperationOf, AdminDelete, Deletes, ClearDefault, CheckOwner, InsertConflicts, BreakOff

-------------------------------------------------------------------------------
(* The composition *)

\* What the composition does to the registry, the registry does.
LEMMA ProvidersInIt == DispatchSpec => Spec
<1>1. DispatchInit => Init
  BY DEF DispatchInit
<1>2. [DispatchNext]_allVars => [Next]_vars
  <2> SUFFICES ASSUME [DispatchNext]_allVars PROVE [Next]_vars
    OBVIOUS
  <2>1. ASSUME NEW d \in Dispatchers, Prepares(d) PROVE UNCHANGED vars
    BY <2>1 DEF Prepares, PickRun, ReadFloor, StartChat, ReadQueen, LookUp, LookUpFails,
                Send, Prepare
  <2> QED
    BY <2>1 DEF DispatchNext, ProvidersMove, PreferencesMove, Restart, allVars, Next
<1> QED
  BY <1>1, <1>2, PTL DEF DispatchSpec, Spec

\* The preferences again, with what PreferencesProofs proves of them.
PrefsProofs == INSTANCE PreferencesProofs WITH
  Tenants <- Customers, Faults <- Faults \ {"error"}, MaxLate <- 0

LEMMA SamePreferences ==
  /\ PrefsProofs!Init <=> Prefs!Init
  /\ PrefsProofs!Next <=> Prefs!Next
  /\ PrefsProofs!TypeOK <=> Prefs!TypeOK
  /\ Absent \notin PrefsProofs!Settings /\ NoOp \notin PrefsProofs!Steps
  /\ \A r \in Requests : PrefsProofs!IsPreferences(r)
<1>1. PrefsProofs!Init <=> Prefs!Init
  BY DEF Prefs!Init, PrefsProofs!Init, Prefs!Default, PrefsProofs!Default,
         Prefs!Settings, PrefsProofs!Settings, Prefs!InUse,
         PrefsProofs!InUse, Prefs!IsPreferences,
         PrefsProofs!IsPreferences, Prefs!Shares, PrefsProofs!Shares
<1>2. PrefsProofs!Next <=> Prefs!Next
  BY DEF Prefs!Next, PrefsProofs!Next, Prefs!Operation, PrefsProofs!Operation,
         Prefs!Proceed, PrefsProofs!Proceed, Prefs!StartSet,
         PrefsProofs!StartSet, Prefs!StoreRow, PrefsProofs!StoreRow,
         Prefs!Copy, PrefsProofs!Copy, Prefs!CacheSet,
         PrefsProofs!CacheSet, Prefs!ListCombs, PrefsProofs!ListCombs,
         Prefs!RefreshComb, PrefsProofs!RefreshComb, Prefs!NextOf, PrefsProofs!NextOf,
         Prefs!UpdateOf, PrefsProofs!UpdateOf, Prefs!PatchOf, PrefsProofs!PatchOf,
         Prefs!Perhaps, PrefsProofs!Perhaps, Prefs!Awaited, PrefsProofs!Awaited,
         Prefs!LateUpdate, PrefsProofs!LateUpdate, Prefs!LateRefresh,
         PrefsProofs!LateRefresh, Prefs!Spoil, PrefsProofs!Spoil, Prefs!ReadRow,
         PrefsProofs!ReadRow, Prefs!SyncCache, PrefsProofs!SyncCache,
         Prefs!BreakOff, PrefsProofs!BreakOff, Prefs!Crash,
         PrefsProofs!Crash, Prefs!Normalised, PrefsProofs!Normalised,
         Prefs!Doing, PrefsProofs!Doing, Prefs!Copying,
         PrefsProofs!Copying, Prefs!Refreshing, PrefsProofs!Refreshing,
         Prefs!Step, PrefsProofs!Step, Prefs!GoOn, PrefsProofs!GoOn,
         Prefs!Cardinality, PrefsProofs!Cardinality,
         Prefs!IsFiniteSet, PrefsProofs!IsFiniteSet
<1>4. PrefsProofs!TypeOK <=> Prefs!TypeOK
  BY DEF Prefs!TypeOK, PrefsProofs!TypeOK, Prefs!Settings, PrefsProofs!Settings,
         Prefs!InUse, PrefsProofs!InUse, Prefs!Default,
         PrefsProofs!Default, Prefs!IsPreferences,
         PrefsProofs!IsPreferences, Prefs!Shares, PrefsProofs!Shares, Prefs!Steps, PrefsProofs!Steps,
         Prefs!Sent, PrefsProofs!Sent, Prefs!Doing, PrefsProofs!Doing
<1>5. Absent \notin PrefsProofs!Settings
  BY DispatchAssumption
     DEF Prefs!Settings, PrefsProofs!Settings, Prefs!InUse, PrefsProofs!InUse,
         Prefs!Default, PrefsProofs!Default, Prefs!IsPreferences,
         PrefsProofs!IsPreferences, Prefs!Shares, PrefsProofs!Shares
<1>6. NoOp \notin PrefsProofs!Steps
  BY DispatchAssumption
     DEF Prefs!Steps, PrefsProofs!Steps, Prefs!Settings, PrefsProofs!Settings,
         Prefs!InUse, PrefsProofs!InUse, Prefs!Default,
         PrefsProofs!Default, Prefs!IsPreferences,
         PrefsProofs!IsPreferences, Prefs!Shares, PrefsProofs!Shares
<1>7. \A r \in Requests : PrefsProofs!IsPreferences(r)
  BY DispatchAssumption DEF PrefsProofs!IsPreferences, Prefs!IsPreferences,
                             PrefsProofs!Shares, Prefs!Shares
<1> QED
  BY <1>1, <1>2, <1>4, <1>5, <1>6, <1>7

\* What the composition does to the preferences, they do.
LEMMA PreferencesInIt == DispatchSpec => Prefs!Spec
<1>1. DispatchInit => Prefs!Init
  BY DEF DispatchInit
<1>2. [DispatchNext]_allVars => [Prefs!Next]_(Prefs!vars)
  <2> SUFFICES ASSUME [DispatchNext]_allVars PROVE Prefs!Next \/ UNCHANGED Prefs!vars
    OBVIOUS
  <2>1. ASSUME NEW d \in Dispatchers, Prepares(d) PROVE UNCHANGED <<vars, prefs>>
    BY <2>1 DEF Prepares, PickRun, ReadFloor, StartChat, ReadQueen, LookUp, LookUpFails,
                Send, Prepare
  <2>2. Operation => store' = store
    BY DEF Operation, OperationOf, StoreInMemory, InsertOrdinary, AdminDelete, ClearDefault, CheckOwner,
           InsertDefault, InsertConflicts, DeleteOwn, BreakOff
  <2>3. ProvidersMove => UNCHANGED Prefs!vars
    BY <2>2 DEF ProvidersMove, prefs, Prefs!vars
  <2>4. PreferencesMove \/ Restart => Prefs!Next
    BY DEF PreferencesMove, Restart, Prefs!Next
  <2>5. UNCHANGED <<vars, prefs>> => UNCHANGED Prefs!vars
    BY DEF vars, prefs, Prefs!vars
  <2>6. UNCHANGED allVars => UNCHANGED <<vars, prefs>>
    BY DEF allVars
  <2> QED
    BY <2>1, <2>3, <2>4, <2>5, <2>6 DEF DispatchNext
<1> QED
  BY <1>1, <1>2, PTL DEF DispatchSpec, Prefs!Spec

\* The preferences keep their types in the composition.
LEMMA PreferencesTyped == Prefs!Spec => []Prefs!TypeOK
<1>1. PrefsProofs!Spec => []PrefsProofs!TypeOK
  BY PrefsProofs!TypeInvariant, SamePreferences, ProvidersAssumption
<1>2. Prefs!Init => PrefsProofs!Init
  BY SamePreferences
<1>3. [Prefs!Next]_(Prefs!vars) => [PrefsProofs!Next]_(PrefsProofs!vars)
  BY SamePreferences DEF Prefs!vars, PrefsProofs!vars
<1>4. PrefsProofs!TypeOK => Prefs!TypeOK
  BY SamePreferences
<1> QED
  BY <1>1, <1>2, <1>3, <1>4, PTL DEF Prefs!Spec, PrefsProofs!Spec

-------------------------------------------------------------------------------
(* The tasks *)

\* A floor or a provider is one that is asked for, or the default one.
LEMMA CopyTyped ==
  ASSUME Prefs!TypeOK, NEW t \in Customers
  PROVE  /\ CopyOf(t).floor \in {r.floor : r \in Requests \cup {Prefs!Default}}
         /\ CopyOf(t).queen \in Ids \cup {None}
<1>1. ASSUME NEW p \in Prefs!Settings
      PROVE  /\ p.floor \in {r.floor : r \in Requests \cup {Prefs!Default}}
             /\ p.queen \in Ids \cup {None}
  <2>1. PICK r \in Requests \cup {Prefs!Default} :
          p.floor = r.floor /\ p.queen = r.queen
    <3>1. ASSUME NEW r \in Requests
          PROVE  [r EXCEPT !.share = 50].floor = r.floor
                 /\ [r EXCEPT !.share = 50].queen = r.queen
      BY DispatchAssumption DEF Prefs!IsPreferences
    <3> QED
      BY <3>1 DEF Prefs!Settings
  <2>2. r.queen \in Ids \cup {None}
    BY DispatchAssumption DEF Prefs!Default
  <2> QED
    BY <2>1, <2>2
<1>2. CopyOf(t) \in Prefs!Settings
  <2>1. Prefs!Default \in Prefs!Settings
    BY DEF Prefs!Settings, Prefs!InUse
  <2> QED
    BY <2>1 DEF CopyOf, Prefs!TypeOK
<1> QED
  BY <1>1, <1>2

\* What a task gets is one of the providers it found, whose key decodes.
LEMMA ResolvedOne ==
  ASSUME NEW t, NEW named
  PROVE  /\ Found(t, named) \subseteq Ids /\ Found(t, named) \subseteq RowsOf(t)
         /\ \/ Resolved(t, named) \in Found(t, named)
            \/ Resolved(t, named) = None /\ \A i \in Found(t, named) : ~Decodes(i)
<1>1. Found(t, named) \subseteq RowsOf(t) /\ RowsOf(t) \subseteq Ids
  BY DEF Found, DefaultsOf, RowsOf
<1>2. CASE {i \in Found(t, named) : Decodes(i)} = {}
  BY <1>1, <1>2 DEF Resolved
<1>3. CASE {i \in Found(t, named) : Decodes(i)} # {}
  BY <1>1, <1>3 DEF Resolved
<1> QED
  BY <1>2, <1>3, <1>1

LEMMA TaskTyped ==
  ASSUME NEW kind \in {"call", "chat"}, NEW t \in Customers,
         NEW next \in {"prefer", "lookup", "send"},
         NEW floor \in {r.floor : r \in Requests \cup {Prefs!Default}},
         NEW named \in Ids \cup {None}
  PROVE  /\ Task(kind, t, next, floor, named) \in Tasks
         /\ Task(kind, t, next, floor, named).queen = None
BY DEF Task, Tasks

\* A dispatcher's step leaves it with a task of its type, whose provider the
\* tenant has or the task had before.
LEMMA Prepared ==
  ASSUME WellTyped, NEW d \in Dispatchers, Prepares(d)
  PROVE  \E new \in Tasks \cup {NoOp} :
           /\ task' = [task EXCEPT ![d] = new]
           /\ UNCHANGED <<vars, prefs, secret, sealed>>
           /\ \/ new = NoOp
              \/ new.queen = None
              \/ new.queen \in RowsOf(new.tenant)
              \/ task[d] # NoOp /\ new.queen = task[d].queen /\ new.tenant = task[d].tenant
<1> DEFINE Goes(new) ==
      /\ task' = [task EXCEPT ![d] = new]
      /\ UNCHANGED <<vars, prefs, secret, sealed>>
<1>0. Prefs!Default.floor = "private" /\ Prefs!TypeOK
  BY DEF Prefs!Default, WellTyped
<1>1. ASSUME NEW t \in Customers, NEW named \in Ids \cup {None}, StartChat(d, t, named)
      PROVE  \E new \in Tasks : Goes(new) /\ new.queen = None
  <2> DEFINE new == Task("chat", t, "lookup", Prefs!Default.floor, named)
  <2>1. new \in Tasks /\ new.queen = None
    BY TaskTyped
  <2>2. Goes(new)
    BY <1>1 DEF StartChat, Prepare
  <2> QED
    BY <2>1, <2>2
<1>2. ASSUME NEW t \in Customers, PickRun(d, t)
      PROVE  \E new \in Tasks : Goes(new) /\ new.queen = None
  <2> DEFINE new == Task("call", t, "lookup", "private", CopyOf(t).queen)
  <2>1. new \in Tasks /\ new.queen = None
    BY <1>0, TaskTyped, CopyTyped
  <2>2. Goes(new)
    BY <1>2 DEF PickRun, Prepare
  <2> QED
    BY <2>1, <2>2
<1>3. ASSUME NEW t \in Customers, NEW brought \in BOOLEAN, ReadFloor(d, t, brought)
      PROVE  \E new \in Tasks : Goes(new) /\ new.queen = None
  <2> DEFINE made(next) == Task("call", t, next, CopyOf(t).floor, None)
  <2>1. \A next \in {"prefer", "send"} : made(next) \in Tasks /\ made(next).queen = None
    BY <1>0, TaskTyped, CopyTyped
  <2>2. PICK next \in {"prefer", "send"} : Goes(made(next))
    <3>1. CASE brought
      BY <1>3, <3>1 DEF ReadFloor, Prepare
    <3>2. CASE ~brought
      BY <1>3, <3>2 DEF ReadFloor, Prepare
    <3> QED
      BY <3>1, <3>2
  <2> QED
    BY <2>1, <2>2
<1>4. task[d] # NoOp => task[d] \in Tasks
  BY DEF WellTyped
<1>5. CASE ReadQueen(d)
  <2> DEFINE new == [task[d] EXCEPT !.next = "lookup", !.named = CopyOf(task[d].tenant).queen]
  <2>1. task[d] \in Tasks /\ CopyOf(task[d].tenant).queen \in Ids \cup {None}
    BY <1>0, <1>4, <1>5, CopyTyped DEF ReadQueen, Is, Tasks
  <2>2. new \in Tasks /\ new.queen = task[d].queen /\ new.tenant = task[d].tenant
    BY <2>1 DEF Tasks
  <2>3. Goes(new)
    BY <1>5 DEF ReadQueen, Prepare
  <2>4. task[d] # NoOp
    BY <1>5 DEF ReadQueen, Is
  <2> HIDE DEF new
  <2> QED
    BY <2>2, <2>3, <2>4
<1>6. CASE LookUp(d)
  <2> DEFINE queen == Resolved(task[d].tenant, task[d].named)
             with == LookedUp(d, queen)
  <2>1. task[d] \in Tasks
    BY <1>4, <1>6 DEF LookUp, Is
  <2>2. queen \in Ids \cup {None} /\ (queen = None \/ queen \in RowsOf(task[d].tenant))
    BY ResolvedOne
  <2>3. with \in Tasks /\ with.queen = queen /\ with.tenant = task[d].tenant
    BY <2>1, <2>2 DEF Tasks, LookedUp
  <2>4. Goes(NoOp) \/ Goes(with)
    BY <1>6 DEF LookUp, Prepare
  <2> HIDE DEF with, queen
  <2> QED
    BY <2>2, <2>3, <2>4
<1>7. CASE LookUpFails(d)
  <2> DEFINE with == LookedUp(d, None)
  <2>1. task[d] \in Tasks /\ task[d] # NoOp
    BY <1>4, <1>7 DEF LookUpFails, Is
  <2>2. with \in Tasks /\ with.queen = None
    BY <2>1 DEF Tasks, LookedUp
  <2>3. Goes(NoOp) \/ Goes(with)
    BY <1>7 DEF LookUpFails, Prepare
  <2> HIDE DEF with
  <2> QED
    BY <2>1, <2>2, <2>3
<1>8. CASE Send(d)
  BY <1>8 DEF Send, Prepare
<1> QED
  BY <1>1, <1>2, <1>3, <1>5, <1>6, <1>7, <1>8 DEF Prepares

\* The rows, the copies, the keys and the tasks keep their types.
THEOREM TypesInvariant == DispatchSpec => []WellTyped
<1> DEFINE Tasked == /\ secret \in Secrets
                     /\ sealed \in [Ids -> Secrets \cup {None}]
                     /\ task \in [Dispatchers -> Tasks \cup {NoOp}]
<1>1. DispatchInit => Tasked
  BY DEF DispatchInit
<1>2. TypeOK /\ Prefs!TypeOK /\ Tasked /\ [DispatchNext]_allVars => Tasked'
  <2> SUFFICES ASSUME TypeOK, Prefs!TypeOK, Tasked, [DispatchNext]_allVars PROVE Tasked'
    OBVIOUS
  <2>1. Encode => sealed' \in [Ids -> Secrets \cup {None}]
    BY DEF Encode
  <2>2. ASSUME NEW d \in Dispatchers, Prepares(d) PROVE Tasked'
    BY <2>2, Prepared DEF WellTyped
  <2>3. CASE ProvidersMove
    BY <2>1, <2>3 DEF ProvidersMove
  <2>4. CASE PreferencesMove
    BY <2>4 DEF PreferencesMove
  <2>5. CASE Restart
    BY <2>1, <2>5 DEF Restart
  <2>6. CASE UNCHANGED allVars
    BY <2>6 DEF allVars
  <2> QED
    BY <2>2, <2>3, <2>4, <2>5, <2>6 DEF DispatchNext
<1>3. TypeOK /\ Prefs!TypeOK /\ Tasked => WellTyped
  BY DEF WellTyped
<1> QED
  BY <1>1, <1>2, <1>3, ProvidersInIt, ProvidersTyped, PreferencesInIt, PreferencesTyped, PTL
     DEF DispatchSpec

\* A tenant that was given a default provider keeps one, over any registrations
\* at once, in the composition as in the registry alone.
THEOREM DefaultInvariant == DispatchSpec => []KeepsADefault
BY ProvidersInIt, DefaultKept, PTL

\* Both stores implement the registry: a provider stays with its tenant, which
\* has at most one default, one of its own.
THEOREM RegistryImplemented == DispatchSpec => ImplementsRegistry
BY ProvidersInIt, StoresImplement, PTL

\* No operation of one tenant, or for it, changes a row of another.
THEOREM OwnOnly == DispatchSpec => TouchesOwnOnly
<1>1. TypeOK /\ [Next]_vars =>
        [\A t \in Tenants, i \in Ids :
           rows'[i] # rows[i] /\ OperationOf(t) => IsAndStays(i, t)]_vars
  BY OwnTouched
<1> QED
  BY <1>1, ProvidersInIt, ProvidersTyped, PTL DEF Spec, TouchesOwnOnly

\* A row does not change hands.
LEMMA OwnersStay ==
  ASSUME TypeOK, Operation, NEW j \in Ids
  PROVE  OwnerOf(j)' = OwnerOf(j) \/ OwnerOf(j)' = None \/ rows[j] = NoRow
<1>1. ASSUME NEW t \in Tenants, NEW i \in Ids, NEW d \in BOOLEAN, StoreInMemory(t, i, d)
      PROVE  OwnerOf(j)' = OwnerOf(j) \/ rows[j] = NoRow
  BY <1>1, StoredRow DEF StoreInMemory, Fresh
<1>2. ASSUME NEW t \in Tenants, NEW i \in Ids, InsertOrdinary(t, i)
      PROVE  OwnerOf(j)' = OwnerOf(j) \/ rows[j] = NoRow
  BY <1>2, InsertedOrdinary DEF InsertOrdinary, Fresh
<1>3. ASSUME NEW t \in Tenants, NEW i \in Ids, Deletes(t, i)
      PROVE  OwnerOf(j)' = OwnerOf(j) \/ OwnerOf(j)' = None
  BY <1>3, DeletedRow DEF Deletes
<1>4. ASSUME NEW h \in Handlers, NEW t \in Tenants, ClearDefault(h, t)
      PROVE  OwnerOf(j)' = OwnerOf(j)
  BY <1>4, ClearedRows DEF ClearDefault
<1>5. ASSUME NEW h \in Handlers, NEW i \in Ids, InsertDefault(h, i)
      PROVE  OwnerOf(j)' = OwnerOf(j) \/ rows[j] = NoRow
  BY <1>5, InsertedDefault DEF InsertDefault, Fresh
<1>6. ASSUME NEW h \in Handlers, DeleteOwn(h)
      PROVE  OwnerOf(j)' = OwnerOf(j) \/ OwnerOf(j)' = None
  BY <1>3, <1>6, OpTyped DEF DeleteOwn
<1>7. ASSUME NEW h \in Handlers,
             \/ InsertConflicts(h) \/ BreakOff(h)
             \/ \E t \in Tenants, i \in Ids : CheckOwner(h, t, i)
      PROVE  OwnerOf(j)' = OwnerOf(j)
  <2>1. rows' = rows
    BY <1>7 DEF CheckOwner, InsertConflicts, BreakOff
  <2> QED
    BY <2>1, SameRows
<1> QED
  BY <1>1, <1>2, <1>3, <1>4, <1>5, <1>6, <1>7 DEF Operation, OperationOf, AdminDelete

\* Whatever id the client, or its preferences, name, a task is sent with a
\* provider of its own tenant, or one deleted since it was looked up.
THEOREM QueenInvariant == DispatchSpec => []QueenIsOwn
<1>1. DispatchInit => QueenIsOwn
  BY DEF DispatchInit, QueenIsOwn
<1>2. WellTyped /\ WellTyped' /\ QueenIsOwn /\ [DispatchNext]_allVars => QueenIsOwn'
  <2> SUFFICES ASSUME WellTyped, WellTyped', QueenIsOwn, [DispatchNext]_allVars,
                      NEW d \in Dispatchers, NEW i \in Ids, NEW t \in Customers,
                      task'[d] # NoOp, task'[d].queen = i, task'[d].tenant = t
               PROVE  rows'[i] = NoRow \/ rows'[i].tenant = t
    <3>1. ASSUME WellTyped', NEW d \in Dispatchers, task'[d] # NoOp, task'[d].queen # None
          PROVE  task'[d].queen \in Ids /\ task'[d].tenant \in Customers
      BY <3>1 DEF WellTyped, Tasks
    <3> QED
      BY <3>1 DEF QueenIsOwn, RowsOf
  <2>1. ASSUME task[d] # NoOp, task[d].queen = i, task[d].tenant = t
        PROVE  rows[i] = NoRow \/ rows[i].tenant = t
    BY <2>1, ProvidersAssumption DEF QueenIsOwn, RowsOf
  <2>2. ASSUME rows' = rows, task'[d] = task[d]
        PROVE  rows'[i] = NoRow \/ rows'[i].tenant = t
    BY <2>1, <2>2
  <2>3. CASE ProvidersMove
    <3>1. task'[d] = task[d]
      BY <2>3 DEF ProvidersMove
    <3>2. CASE rows[i] = NoRow
      <4>1. i \in Drawn
        BY <3>1, ProvidersAssumption DEF Drawn
      <4> QED
        BY <2>3, <3>2, <4>1 DEF ProvidersMove
    <3>3. CASE rows[i] # NoRow
      <4>1. OwnerOf(i) = t
        BY <2>1, <3>1, <3>3 DEF OwnerOf
      <4>2. OwnerOf(i)' = t \/ OwnerOf(i)' = None
        BY <2>3, <3>3, <4>1, OwnersStay DEF ProvidersMove, WellTyped
      <4>3. OwnerOf(i)' = None => rows'[i] = NoRow
        BY ProvidersAssumption DEF WellTyped, TypeOK, RowSet, OwnerOf
      <4> QED
        BY <4>2, <4>3 DEF OwnerOf
    <3> QED
      BY <3>2, <3>3
  <2>4. CASE PreferencesMove
    BY <2>2, <2>4 DEF PreferencesMove, vars
  <2>5. CASE Restart
    BY <2>5 DEF Restart
  <2>6. ASSUME NEW e \in Dispatchers, Prepares(e)
        PROVE  rows'[i] = NoRow \/ rows'[i].tenant = t
    <3>1. PICK new \in Tasks \cup {NoOp} :
            /\ task' = [task EXCEPT ![e] = new]
            /\ UNCHANGED <<vars, prefs, secret, sealed>>
            /\ \/ new = NoOp
               \/ new.queen = None
               \/ new.queen \in RowsOf(new.tenant)
               \/ task[e] # NoOp /\ new.queen = task[e].queen /\ new.tenant = task[e].tenant
      BY <2>6, Prepared
    <3>2. rows' = rows
      BY <3>1 DEF vars
    <3>3. CASE d = e
      <4>1. task'[d] = new
        BY <3>1, <3>3 DEF WellTyped
      <4>2. i # None
        BY ProvidersAssumption
      <4> QED
        BY <2>1, <3>1, <3>2, <3>3, <4>1, <4>2 DEF RowsOf
    <3>4. CASE d # e
      BY <2>2, <3>1, <3>2, <3>4 DEF WellTyped
    <3> QED
      BY <3>3, <3>4
  <2>7. CASE UNCHANGED allVars
    BY <2>2, <2>7 DEF allVars, vars
  <2> QED
    BY <2>3, <2>4, <2>5, <2>6, <2>7 DEF DispatchNext
<1> QED
  BY <1>1, <1>2, TypesInvariant, PTL DEF DispatchSpec

\* A look-up the store answers finds nothing only for a cause.
THEOREM MissingInvariant == DispatchSpec => QueenMissingForCause
<1>1. WellTyped /\ KeepsADefault /\ [DispatchNext]_allVars =>
        [\A d \in Dispatchers :
           LookUp(d) /\ (task'[d] = NoOp \/ task'[d].queen = None)
             => MissingForCause(task[d].kind, task[d].tenant, task[d].named)]_allVars
  <2> SUFFICES ASSUME WellTyped, KeepsADefault, NEW d \in Dispatchers, LookUp(d),
                      task'[d] = NoOp \/ task'[d].queen = None
               PROVE  MissingForCause(task[d].kind, task[d].tenant, task[d].named)
    OBVIOUS
  <2> DEFINE t == task[d].tenant
             named == task[d].named
             with == LookedUp(d, Resolved(t, named))
  <2>1. task[d] \in Tasks
    BY DEF LookUp, Is, WellTyped
  <2>2. Resolved(t, named) \in Ids \cup {None}
    BY ResolvedOne
  <2>3. with \in Tasks /\ with # NoOp /\ with.queen = Resolved(t, named)
    BY <2>1, <2>2, DispatchAssumption DEF Tasks, LookedUp
  <2> DEFINE queen == Resolved(t, named)
  <2>4. task'[d] = with \/ queen = None \/ (task[d].kind = "chat" /\ queen \in Unsupported)
    BY DEF LookUp, Prepare, WellTyped
  <2>5. queen = None \/ (task[d].kind = "chat" /\ queen \in Unsupported)
    BY <2>3, <2>4
  <2>6. \/ \A i \in Found(t, named) : Unusable(i, task[d].kind)
        \/ queen \in Found(t, named) /\ Unusable(queen, task[d].kind)
    <3>1. CASE queen = None
      BY <3>1, ResolvedOne, ProvidersAssumption DEF Decodes, EncryptedElsewhere, Unusable
    <3>2. CASE queen # None
      BY <2>5, <3>2, ResolvedOne DEF Unusable
    <3> QED
      BY <3>1, <3>2
  <2> HIDE DEF queen
  <2>7. CASE named # None
    BY <2>6, <2>7 DEF Found, MissingForCause
  <2>8. CASE named = None
    BY <2>6, <2>8 DEF Found, MissingForCause, KeepsADefault
  <2> QED
    BY <2>7, <2>8
<1> QED
  BY <1>1, TypesInvariant, DefaultInvariant, PTL DEF DispatchSpec, QueenMissingForCause
===============================================================================
