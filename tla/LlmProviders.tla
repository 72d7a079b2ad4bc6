----------------------------- MODULE LlmProviders -----------------------------
(***************************************************************************)
(* The LLM providers of the tenants: the handlers that register and delete *)
(* them (routes/me.rs, routes/admin.rs), over the store chosen at start-up *)
(* (tenant/in_memory.rs under one lock, tenant/pg.rs with a statement at a *)
(* time).                                                                  *)
(*                                                                         *)
(* In Postgres the registration of a default is two transactions: the old  *)
(* default is cleared, then the new row inserted, which a partial unique   *)
(* index refuses if the tenant has got a default again in between.         *)
(*                                                                         *)
(* An element of Ids is a row's uuid; it is drawn again once nothing       *)
(* refers to the deleted row.                                              *)
(***************************************************************************)
EXTENDS FiniteSets

CONSTANTS
  Tenants, Ids,
  Handlers,       \* handlers with a second statement to make, at one time
  Stores,         \* the stores an operator may choose
  Faults,         \* a subset of {"error", "crash"}
  NoRow, NoOp, None

RowSet == [tenant : Tenants, is_default : BOOLEAN]
Ops == [kind : {"insert"}, tenant : Tenants]
         \cup [kind : {"delete"}, tenant : Tenants, id : Ids]

ASSUME ProvidersAssumption ==
  /\ Stores \subseteq {"memory", "postgres"}
  /\ Faults \subseteq {"error", "crash"}
  /\ NoRow \notin RowSet /\ NoOp \notin Ops
  /\ None \notin Tenants \cup Ids

VARIABLES
  store,     \* the store in use
  rows,      \* the providers: a row for each id, or NoRow
  op,        \* the statement each handler has still to make, or NoOp
  granted    \* history: tenants given a default that nothing took away since

vars == <<store, rows, op, granted>>

RowsOf(t) == {i \in Ids : rows[i] # NoRow /\ rows[i].tenant = t}
DefaultsOf(t) == {i \in RowsOf(t) : rows[i].is_default}

Inserting(h) == op[h] # NoOp /\ op[h].kind = "insert"
Deleting(h) == op[h] # NoOp /\ op[h].kind = "delete"

\* An id nobody has drawn.
Fresh(i) ==
  /\ rows[i] = NoRow
  /\ ~\E h \in Handlers : Deleting(h) /\ op[h].id = i

TypeOK ==
  /\ store \in Stores
  /\ rows \in [Ids -> RowSet \cup {NoRow}]
  /\ op \in [Handlers -> Ops \cup {NoOp}]
  /\ store = "memory" => ~\E h \in Handlers : Inserting(h)
  /\ granted \subseteq Tenants

Init ==
  /\ store \in Stores
  /\ rows = [i \in Ids |-> NoRow]
  /\ op = [h \in Handlers |-> NoOp]
  /\ granted = {}

-------------------------------------------------------------------------------
(* Statements on the table *)

Cleared(t) ==
  [i \in Ids |-> IF i \in RowsOf(t) THEN [rows[i] EXCEPT !.is_default = FALSE] ELSE rows[i]]

Row(t, d) == [tenant |-> t, is_default |-> d]

\* Fault seeded: the provider is deleted by its id alone.
WithoutOfAny(t, i) == [rows EXCEPT ![i] = NoRow]

\* The rows with provider i deleted, if it is t's.
Without(t, i) == [rows EXCEPT ![i] = IF i \in RowsOf(t) THEN NoRow ELSE @]

-------------------------------------------------------------------------------
(* Registration *)

\* The in-memory store: under the lock, in one go.
StoreInMemory(t, i, d) ==
  /\ store = "memory"
  /\ Fresh(i)
  /\ rows' = [IF d THEN Cleared(t) ELSE rows EXCEPT ![i] = Row(t, d)]
  /\ granted' = IF d THEN granted \cup {t} ELSE granted
  /\ UNCHANGED <<store, op>>

InsertOrdinary(t, i) ==
  /\ store = "postgres"
  /\ Fresh(i)
  /\ rows' = [rows EXCEPT ![i] = Row(t, FALSE)]
  /\ UNCHANGED <<store, op, granted>>

\* Fault seeded: the in-memory store lets its lock go after clearing.
ClearDefaultUnlocked(h, t) ==
  /\ op[h] = NoOp
  /\ rows' = Cleared(t)
  /\ op' = [op EXCEPT ![h] = [kind |-> "insert", tenant |-> t]]
  /\ UNCHANGED <<store, granted>>

ClearDefault(h, t) ==
  /\ store = "postgres"
  /\ op[h] = NoOp
  /\ rows' = Cleared(t)
  /\ op' = [op EXCEPT ![h] = [kind |-> "insert", tenant |-> t]]
  /\ UNCHANGED <<store, granted>>

\* Fault seeded: the row is inserted without the mark.
InsertUnmarked(h, i) ==
  /\ Inserting(h)
  /\ Fresh(i)
  /\ DefaultsOf(op[h].tenant) = {}
  /\ rows' = [rows EXCEPT ![i] = Row(op[h].tenant, FALSE)]
  /\ granted' = granted \cup {op[h].tenant}
  /\ op' = [op EXCEPT ![h] = NoOp]
  /\ UNCHANGED store

\* Fault seeded: nothing refuses a second default.
InsertSecond(h, i) ==
  /\ Inserting(h)
  /\ Fresh(i)
  /\ rows' = [rows EXCEPT ![i] = Row(op[h].tenant, TRUE)]
  /\ granted' = granted \cup {op[h].tenant}
  /\ op' = [op EXCEPT ![h] = NoOp]
  /\ UNCHANGED store

InsertDefault(h, i) ==
  /\ Inserting(h)
  /\ Fresh(i)
  /\ DefaultsOf(op[h].tenant) = {}
  /\ rows' = [rows EXCEPT ![i] = Row(op[h].tenant, TRUE)]
  /\ granted' = granted \cup {op[h].tenant}
  /\ op' = [op EXCEPT ![h] = NoOp]
  /\ UNCHANGED store

\* idx_llm_providers_default refuses a second default: 500.
InsertConflicts(h) ==
  /\ Inserting(h)
  /\ DefaultsOf(op[h].tenant) # {}
  /\ op' = [op EXCEPT ![h] = NoOp]
  /\ UNCHANGED <<store, rows, granted>>

-------------------------------------------------------------------------------
(* Deletion *)

Deletes(t, i) ==
  /\ rows' = Without(t, i)
  /\ granted' = IF i \in DefaultsOf(t) THEN granted \ {t} ELSE granted

\* The tenant's own handler looks the provider up first: 404 if it is not there.
CheckOwner(h, t, i) ==
  /\ op[h] = NoOp
  /\ i \in RowsOf(t)
  /\ op' = [op EXCEPT ![h] = [kind |-> "delete", tenant |-> t, id |-> i]]
  /\ UNCHANGED <<store, rows, granted>>

DeleteOwn(h) ==
  /\ Deleting(h)
  /\ Deletes(op[h].tenant, op[h].id)
  /\ op' = [op EXCEPT ![h] = NoOp]
  /\ UNCHANGED store

\* The administrator's handler does not; it names a tenant too.
AdminDelete(t, i) ==
  /\ Deletes(t, i)
  /\ UNCHANGED <<store, op>>

-------------------------------------------------------------------------------
(* Failures *)

Abandon(quitting) ==
  LET left == {op[h].tenant : h \in {g \in quitting : Inserting(g)}}
  IN granted' = {t \in granted : t \in left => DefaultsOf(t) # {}}

\* The second statement fails, or the client is gone before it.
BreakOff(h) ==
  /\ "error" \in Faults
  /\ op[h] # NoOp
  /\ Abandon({h})
  /\ op' = [op EXCEPT ![h] = NoOp]
  /\ UNCHANGED <<store, rows>>

Crash ==
  /\ "crash" \in Faults
  /\ op' = [h \in Handlers |-> NoOp]
  /\ \/ /\ store = "memory"
        /\ rows' = [i \in Ids |-> NoRow]
        /\ granted' = {}
     \/ /\ store = "postgres"
        /\ rows' = rows
        /\ Abandon(Handlers)
  /\ UNCHANGED store

\* What is done by a tenant, or for it by an administrator.
OperationOf(t) ==
  \/ \E i \in Ids :
       \/ \E d \in BOOLEAN : StoreInMemory(t, i, d)
       \/ InsertOrdinary(t, i)
       \/ AdminDelete(t, i)
  \/ \E h \in Handlers :
       \/ ClearDefault(h, t)
       \/ \E i \in Ids : CheckOwner(h, t, i)
       \/ /\ op[h] # NoOp /\ op[h].tenant = t
          /\ \/ \E i \in Ids : InsertDefault(h, i)
             \/ InsertConflicts(h) \/ DeleteOwn(h) \/ BreakOff(h)

Operation == \E t \in Tenants : OperationOf(t)

Next == Operation \/ Crash

Spec == Init /\ [][Next]_vars
-------------------------------------------------------------------------------
(* Properties *)

(***************************************************************************)
(* A tenant that was given a default keeps one, over any registrations at  *)
(* once: it is without one only if it deleted it, if a registration broke  *)
(* off between its two statements, or while one is between them.  In       *)
(* particular a registration the unique index refuses costs nothing.       *)
(***************************************************************************)
BetweenDefaults(t) ==
  \E h \in Handlers : Inserting(h) /\ op[h].tenant = t

KeepsADefault ==
  \A t \in granted : DefaultsOf(t) # {} \/ BetweenDefaults(t)

(***************************************************************************)
(* Both stores implement the registry: a provider stays with the tenant    *)
(* that registered it, which has at most one default, one of its own (the  *)
(* migration: "at most one default provider per tenant").                  *)
(***************************************************************************)
DefaultOf(t) ==
  LET defaults == DefaultsOf(t) IN
  CASE defaults = {} -> None
    [] Cardinality(defaults) = 1 -> CHOOSE i \in defaults : TRUE
    [] OTHER -> defaults

Registry == INSTANCE ProviderRegistry WITH
  owner <- [i \in Ids |-> IF rows[i] = NoRow THEN None ELSE rows[i].tenant],
  default <- [t \in Tenants |-> DefaultOf(t)]

ImplementsRegistry == Registry!Spec

(***************************************************************************)
(* No operation of one tenant, or for it, changes a row of another: it     *)
(* neither clears the default of another nor deletes or takes over its     *)
(* provider, whatever ids it names and in whatever order the statements of *)
(* several handlers come.                                                  *)
(***************************************************************************)
IsAndStays(i, t) ==
  /\ rows[i] = NoRow \/ rows[i].tenant = t
  /\ rows'[i] = NoRow \/ rows'[i].tenant = t

TouchesOwnOnly ==
  [][rows' # rows =>
       \A t \in Tenants, i \in Ids :
         rows'[i] # rows[i] /\ OperationOf(t) => IsAndStays(i, t)]_vars
===============================================================================
