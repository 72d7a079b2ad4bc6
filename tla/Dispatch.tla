------------------------------- MODULE Dispatch -------------------------------
(***************************************************************************)
(* The LLM provider and the privacy floor a task is sent with.  Composed   *)
(* of the provider registry, the preferences, the key vault and the three  *)
(* places that choose a provider: tools_call (routes/mcp.rs), orchestrate  *)
(* (routes/orchestrate.rs) and the schedule runner                         *)
(* (bin/tenant_gateway.rs).                                                *)
(*                                                                         *)
(* A choice is made in steps, while providers and preferences change: the  *)
(* copy of the preferences is read under its lock, by tools_call twice,    *)
(* and the provider it names, or the tenant's default, is then looked up.  *)
(***************************************************************************)
EXTENDS LlmProviders

CONSTANTS
  Customers,      \* the tenants that have tasks and preferences
  Editors, Combs, Requests, Absent,    \* as in Preferences
  Dispatchers,    \* tasks being prepared at one time
  Secrets,        \* values of TENANT_LLM_SECRET_KEY, None if it is not set
  Unsupported     \* providers whose type is neither "anthropic" nor "openai"

VARIABLES
  stored, cached, shown, edit, late, torn, mixed,    \* as in Preferences
  secret,    \* the master key of this process
  sealed,    \* what each provider's API key was encoded with
  task       \* the task each dispatcher prepares, or NoOp

prefs == <<stored, cached, shown, edit, late, torn, mixed>>
allVars == <<vars, prefs, secret, sealed, task>>

Prefs == INSTANCE Preferences WITH
  Tenants <- Customers, Faults <- Faults \ {"error"}, MaxLate <- 0

\* A "chat" is a request to orchestrate; calls and runs are alike once their
\* provider is to be looked up.  named is kept until then.
Tasks ==
  [kind : {"call", "chat"}, tenant : Customers, next : {"prefer", "lookup", "send"},
   floor : {r.floor : r \in Requests \cup {Prefs!Default}},
   named : Ids \cup {None}, queen : Ids \cup {None}]

ASSUME DispatchAssumption ==
  /\ Customers \subseteq Tenants /\ Unsupported \subseteq Ids
  /\ \A r \in Requests : Prefs!IsPreferences(r) /\ r.queen \in Ids \cup {None}
  /\ Absent \notin Prefs!Settings /\ NoOp \notin Prefs!Steps \cup Tasks

-------------------------------------------------------------------------------
(* The vault *)

\* Fault seeded: whatever is stored is decrypted with the master key.
DecodesEncrypted(i) == sealed[i] = secret /\ secret # None

\* raw: keys need no master key, enc: keys the one they were encrypted with.
Decodes(i) == sealed[i] \in {None, secret}

\* The API keys of new rows are encoded under the master key of this process.
Encode ==
  sealed' = [i \in Ids |-> IF rows'[i] = NoRow THEN None
                           ELSE IF rows[i] = NoRow THEN secret
                           ELSE sealed[i]]

-------------------------------------------------------------------------------
(* Choosing *)

CopyOf(t) == IF cached[t] = Absent THEN Prefs!Default ELSE cached[t]

\* Fault seeded: the provider is found by its id alone.
FoundForAny(t, named) ==
  IF named # None THEN {named} \ {i \in Ids : rows[i] = NoRow} ELSE DefaultsOf(t)

\* get_llm_provider, get_default_llm_provider
Found(t, named) == IF named # None THEN {named} \cap RowsOf(t) ELSE DefaultsOf(t)

\* The provider a task gets; None if there is none or its key does not decode.
Resolved(t, named) ==
  LET usable == {i \in Found(t, named) : Decodes(i)}
  IN IF usable = {} THEN None ELSE CHOOSE i \in usable : TRUE

Task(kind, t, next, floor, named) ==
  [kind |-> kind, tenant |-> t, next |-> next, floor |-> floor,
   named |-> named, queen |-> None]

Is(d, next) == task[d] # NoOp /\ task[d].next = next

Prepare(d, new) ==
  /\ task' = [task EXCEPT ![d] = new]
  /\ UNCHANGED <<vars, prefs, secret, sealed>>

\* tools_call takes the floor, and asks for a provider unless the client
\* brought its own; a tool of orchestrate's goes without one.  The default
\* "Private" stands for the floor of the tenant, which neither store has: it
\* is "private", as it is in lower case.
ReadFloor(d, t, brought) ==
  /\ task[d] = NoOp
  /\ Prepare(d, Task("call", t, IF brought THEN "send" ELSE "prefer",
                     CopyOf(t).floor, None))

\* The copy is read again.
ReadQueen(d) ==
  /\ Is(d, "prefer")
  /\ Prepare(d, [task[d] EXCEPT !.next = "lookup", !.named = CopyOf(task[d].tenant).queen])

\* The runner, which there is only with a database, sets its own floor.
PickRun(d, t) ==
  /\ store = "postgres"
  /\ task[d] = NoOp
  /\ Prepare(d, Task("call", t, "lookup", "private", CopyOf(t).queen))

\* orchestrate: the request names a provider, or none.
StartChat(d, t, named) ==
  /\ task[d] = NoOp
  /\ Prepare(d, Task("chat", t, "lookup", Prefs!Default.floor, named))

LookedUp(d, queen) ==
  [task[d] EXCEPT !.next = "send", !.named = None, !.queen = queen]

\* A chat is refused without a provider, or with one of an unsupported type;
\* other tasks are sent without one, and take any other type for "openai".
LookUp(d) ==
  LET queen == Resolved(task[d].tenant, task[d].named) IN
  /\ Is(d, "lookup")
  /\ Prepare(d, IF task[d].kind = "chat" /\ queen \in Unsupported \cup {None} THEN NoOp
                ELSE LookedUp(d, queen))

LookUpFails(d) ==
  /\ "error" \in Faults
  /\ Is(d, "lookup")
  /\ Prepare(d, IF task[d].kind = "chat" THEN NoOp ELSE LookedUp(d, None))

Send(d) ==
  /\ Is(d, "send")
  /\ Prepare(d, NoOp)

-------------------------------------------------------------------------------
(* The composition *)

\* A uuid is not drawn again while a task refers to it.
Drawn == {task[d].queen : d \in {e \in Dispatchers : task[e] # NoOp}} \ {None}

ProvidersMove ==
  /\ Operation
  /\ \A i \in Drawn : rows[i] = NoRow => rows'[i] = NoRow
  /\ Encode
  /\ UNCHANGED <<prefs, secret, task>>

PreferencesMove ==
  /\ Prefs!Operation
  /\ UNCHANGED <<vars, secret, sealed, task>>

\* A restart, perhaps with another master key.
Restart ==
  /\ Crash
  /\ Prefs!Crash
  /\ secret' \in Secrets
  /\ task' = [d \in Dispatchers |-> NoOp]
  /\ Encode

Prepares(d) ==
  \/ \E t \in Customers :
       \/ PickRun(d, t)
       \/ \E brought \in BOOLEAN : ReadFloor(d, t, brought)
       \/ \E named \in Ids \cup {None} : StartChat(d, t, named)
  \/ ReadQueen(d) \/ LookUp(d) \/ LookUpFails(d) \/ Send(d)

DispatchInit ==
  /\ Init
  /\ Prefs!Init
  /\ secret \in Secrets
  /\ sealed = [i \in Ids |-> None]
  /\ task = [d \in Dispatchers |-> NoOp]

DispatchNext ==
  \/ ProvidersMove \/ PreferencesMove \/ Restart
  \/ \E d \in Dispatchers : Prepares(d)

DispatchSpec == DispatchInit /\ [][DispatchNext]_allVars
-------------------------------------------------------------------------------
(* Properties *)

\* The type invariant of the composition.
WellTyped ==
  /\ TypeOK
  /\ Prefs!TypeOK
  /\ secret \in Secrets
  /\ sealed \in [Ids -> Secrets \cup {None}]
  /\ task \in [Dispatchers -> Tasks \cup {NoOp}]

(***************************************************************************)
(* Whatever id the client, or its preferences, name, a task is sent with a *)
(* provider of its own tenant, or one deleted since it was looked up.      *)
(***************************************************************************)
QueenIsOwn ==
  \A d \in Dispatchers :
    task[d] # NoOp /\ task[d].queen # None =>
      rows[task[d].queen] = NoRow \/ task[d].queen \in RowsOf(task[d].tenant)

(***************************************************************************)
(* A look-up the store answers leaves a task without a provider only for a *)
(* cause: one was named that the tenant does not have, or nobody gave the  *)
(* tenant a default, or a registration is between its two statements, or   *)
(* the API key was encrypted under another master key, or the type of the  *)
(* provider is one that orchestrate does not support.                      *)
(***************************************************************************)
EncryptedElsewhere(i) == sealed[i] # None /\ sealed[i] # secret

Unusable(i, kind) == EncryptedElsewhere(i) \/ (kind = "chat" /\ i \in Unsupported)

MissingForCause(kind, t, named) ==
  IF named # None THEN named \notin RowsOf(t) \/ Unusable(named, kind)
  ELSE \/ t \notin granted
       \/ BetweenDefaults(t)
       \/ \E i \in DefaultsOf(t) : Unusable(i, kind)

QueenMissingForCause ==
  [][\A d \in Dispatchers :
       LookUp(d) /\ (task'[d] = NoOp \/ task'[d].queen = None)
         => MissingForCause(task[d].kind, task[d].tenant, task[d].named)]_allVars

(***************************************************************************)
(* A call is sent with the privacy floor its tenant set: the one in the    *)
(* database, once the handlers that set it have returned without meeting   *)
(* another (me.rs: "Persist to DB so preferences survive gateway           *)
(* restarts").                                                             *)
(***************************************************************************)
DispatchUsesStored ==
  [][\A d \in Dispatchers, t \in Customers, brought \in BOOLEAN :
       ReadFloor(d, t, brought) /\ store = "postgres" /\ t \notin torn /\ Prefs!Copying(t) = {}
         => task'[d].floor = stored[t].floor]_allVars
===============================================================================
