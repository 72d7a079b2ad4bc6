-------------------------------- MODULE Chats ---------------------------------
(***************************************************************************)
(* Chat history (routes/chats.rs): the tables chat_sessions and            *)
(* chat_messages, and the handlers that create, rename, delete and read    *)
(* sessions and append messages to them.                                   *)
(*                                                                         *)
(* Every statement is a transaction of its own.  Appending is three: the   *)
(* session is looked up, the message inserted, the session's updated_at    *)
(* bumped.  Reading a session is two.  NOW() is the time a statement       *)
(* starts; two updates of one session row wait for one another, so the     *)
(* time an update writes may be old when it is written.                    *)
(*                                                                         *)
(* The database's own part (external): a message needs its session, and    *)
(* the deletion of a session takes its messages along.                     *)
(*                                                                         *)
(* An element of Sessions or Messages is a row's uuid; it is drawn again   *)
(* once nothing refers to the deleted row.                                 *)
(***************************************************************************)
EXTENDS Integers, FiniteSets

CONSTANTS
  Tenants, Sessions, Messages,
  Handlers,       \* handlers between two of their statements, at one time
  Faults,         \* a subset of {"error", "disconnect"}
  NoRow, NoOp,
  MaxStall,       \* bound: the most ticks an update waits for the row
  MaxTime         \* bound: the last tick

SessionRows == [tenant : Tenants, updated : 0 .. MaxTime]
MessageRows == [session : Sessions, created : 0 .. MaxTime, author : Tenants]

\* "insert": the session was found.  "bump": the message m is in.  "update":
\* an UPDATE of the session, started at the time now; for = {m} if it is m's
\* bump.  "read": the session was read when it had the messages known.
Ops ==
  [kind : {"insert"}, session : Sessions, tenant : Tenants]
    \cup [kind : {"bump"}, session : Sessions, for : SUBSET Messages]
    \cup [kind : {"update"}, session : Sessions, for : SUBSET Messages, now : 0 .. MaxTime]
    \cup [kind : {"read"}, session : Sessions, known : SUBSET Messages]

ASSUME ChatsAssumption ==
  /\ Faults \subseteq {"error", "disconnect"}
  /\ MaxStall \in Nat
  /\ MaxTime \in Nat
  /\ NoRow \notin SessionRows \cup MessageRows
  /\ NoOp \notin Ops

VARIABLES
  clock,
  sessions,   \* chat_sessions: a row for each id, or NoRow
  messages,   \* chat_messages (author: history, the tenant that posted it)
  op,         \* what each handler has still to do, or NoOp
  unbumped    \* history: messages whose bump was given up

vars == <<clock, sessions, messages, op, unbumped>>

Doing(h, kind) == op[h] # NoOp /\ op[h].kind = kind
Bumping(h) == IF Doing(h, "bump") \/ Doing(h, "update") THEN op[h].for ELSE {}
Knowing(h) == IF Doing(h, "read") THEN op[h].known ELSE {}

Owns(t, s) == sessions[s] # NoRow /\ sessions[s].tenant = t
MessagesOf(s) == {m \in Messages : messages[m] # NoRow /\ messages[m].session = s}

FreshSession(s) ==
  sessions[s] = NoRow /\ ~\E h \in Handlers : op[h] # NoOp /\ op[h].session = s
FreshMessage(m) ==
  messages[m] = NoRow /\ ~\E h \in Handlers : m \in Bumping(h) \cup Knowing(h)

TypeOK ==
  /\ clock \in 0 .. MaxTime
  /\ sessions \in [Sessions -> SessionRows \cup {NoRow}]
  /\ messages \in [Messages -> MessageRows \cup {NoRow}]
  /\ op \in [Handlers -> Ops \cup {NoOp}]
  /\ \A h \in Handlers : Doing(h, "update") => clock - op[h].now \in 0 .. MaxStall
  /\ unbumped \subseteq {m \in Messages : messages[m] # NoRow}

Init ==
  /\ clock = 0
  /\ sessions = [s \in Sessions |-> NoRow]
  /\ messages = [m \in Messages |-> NoRow]
  /\ op = [h \in Handlers |-> NoOp]
  /\ unbumped = {}

-------------------------------------------------------------------------------
(* Sessions *)

CreateSession(t, s) ==
  /\ FreshSession(s)
  /\ sessions' = [sessions EXCEPT ![s] = [tenant |-> t, updated |-> clock]]
  /\ UNCHANGED <<clock, messages, op, unbumped>>

\* UPDATE .. SET title, updated_at = NOW(): the statement starts.
UpdateSession(h, t, s) ==
  /\ op[h] = NoOp
  /\ Owns(t, s)
  /\ op' = [op EXCEPT ![h] = [kind |-> "update", session |-> s, for |-> {}, now |-> clock]]
  /\ UNCHANGED <<clock, sessions, messages, unbumped>>

\* Fault seeded: no cascade, the messages are deleted one by one.
DeleteStepwise(t, s) ==
  /\ Owns(t, s)
  /\ \E m \in MessagesOf(s) :
       /\ messages' = [messages EXCEPT ![m] = NoRow]
       /\ unbumped' = unbumped \ {m}
  /\ UNCHANGED <<clock, sessions, op>>

\* DELETE .. WHERE id AND tenant_id, and the cascade.
DeleteSession(t, s) ==
  /\ Owns(t, s)
  /\ sessions' = [sessions EXCEPT ![s] = NoRow]
  /\ messages' = [m \in Messages |-> IF m \in MessagesOf(s) THEN NoRow ELSE messages[m]]
  /\ unbumped' = unbumped \ MessagesOf(s)
  /\ UNCHANGED <<clock, op>>

-------------------------------------------------------------------------------
(* POST /v1/me/chats/:id/messages *)

\* Fault seeded: the session is looked up by its id alone.
CheckSessionOfAny(h, t, s) ==
  /\ op[h] = NoOp
  /\ sessions[s] # NoRow
  /\ op' = [op EXCEPT ![h] = [kind |-> "insert", session |-> s, tenant |-> t]]
  /\ UNCHANGED <<clock, sessions, messages, unbumped>>

\* SELECT .. WHERE id AND tenant_id: 404 unless it is there.
CheckSession(h, t, s) ==
  /\ op[h] = NoOp
  /\ Owns(t, s)
  /\ op' = [op EXCEPT ![h] = [kind |-> "insert", session |-> s, tenant |-> t]]
  /\ UNCHANGED <<clock, sessions, messages, unbumped>>

InsertMessage(h, m) ==
  LET s == op[h].session IN
  /\ Doing(h, "insert")
  /\ sessions[s] # NoRow
  /\ FreshMessage(m)
  /\ messages' = [messages EXCEPT ![m] =
       [session |-> s, created |-> clock, author |-> op[h].tenant]]
  /\ op' = [op EXCEPT ![h] = [kind |-> "bump", session |-> s, for |-> {m}]]
  /\ UNCHANGED <<clock, sessions, unbumped>>

\* The session was deleted since the check, and the foreign key refuses: 500.
InsertRefused(h) ==
  /\ Doing(h, "insert")
  /\ sessions[op[h].session] = NoRow
  /\ op' = [op EXCEPT ![h] = NoOp]
  /\ UNCHANGED <<clock, sessions, messages, unbumped>>

\* Fault seeded: the bump writes the time of the session's last update.
StartBumpStale(h) ==
  /\ Doing(h, "bump")
  /\ sessions[op[h].session] # NoRow
  /\ op' = [op EXCEPT ![h] =
       [kind |-> "update", session |-> @.session, for |-> @.for,
        now |-> sessions[@.session].updated]]
  /\ UNCHANGED <<clock, sessions, messages, unbumped>>

\* Fault seeded: the bump is left out.
SkipBump(h) ==
  /\ Doing(h, "bump")
  /\ op' = [op EXCEPT ![h] = NoOp]
  /\ UNCHANGED <<clock, sessions, messages, unbumped>>

StartBump(h) ==
  /\ Doing(h, "bump")
  /\ op' = [op EXCEPT ![h] =
       [kind |-> "update", session |-> @.session, for |-> @.for, now |-> clock]]
  /\ UNCHANGED <<clock, sessions, messages, unbumped>>

\* An UPDATE gets the row and commits; it finds nothing if the row is gone.
CommitUpdate(h) ==
  LET s == op[h].session IN
  /\ Doing(h, "update")
  /\ sessions' = IF sessions[s] = NoRow THEN sessions
                 ELSE [sessions EXCEPT ![s].updated = op[h].now]
  /\ op' = [op EXCEPT ![h] = NoOp]
  /\ UNCHANGED <<clock, messages, unbumped>>

-------------------------------------------------------------------------------
(* GET /v1/me/chats/:id *)

ReadSession(h, t, s) ==
  /\ op[h] = NoOp
  /\ Owns(t, s)
  /\ op' = [op EXCEPT ![h] = [kind |-> "read", session |-> s, known |-> MessagesOf(s)]]
  /\ UNCHANGED <<clock, sessions, messages, unbumped>>

\* The second query, and the answer.
ReadMessages(h) ==
  /\ Doing(h, "read")
  /\ op' = [op EXCEPT ![h] = NoOp]
  /\ UNCHANGED <<clock, sessions, messages, unbumped>>

-------------------------------------------------------------------------------
(* Failures, and time *)

\* A statement fails, or the client is gone before it.  The failure of a bump
\* is ignored and the message answered all the same.
BreakOff(h) ==
  /\ Faults # {}
  /\ op[h] # NoOp
  /\ unbumped' = unbumped \cup {m \in Bumping(h) : messages[m] # NoRow}
  /\ op' = [op EXCEPT ![h] = NoOp]
  /\ UNCHANGED <<clock, sessions, messages>>

Tick ==
  /\ clock < MaxTime
  /\ \A h \in Handlers : Doing(h, "update") => clock - op[h].now < MaxStall
  /\ clock' = clock + 1
  /\ UNCHANGED <<sessions, messages, op, unbumped>>

Next ==
  \/ \E t \in Tenants, s \in Sessions :
       \/ CreateSession(t, s) \/ DeleteSession(t, s)
       \/ \E h \in Handlers :
            UpdateSession(h, t, s) \/ CheckSession(h, t, s) \/ ReadSession(h, t, s)
  \/ \E h \in Handlers :
       \/ \E m \in Messages : InsertMessage(h, m)
       \/ InsertRefused(h) \/ StartBump(h) \/ CommitUpdate(h)
       \/ ReadMessages(h) \/ BreakOff(h)
  \/ Tick

Spec == Init /\ [][Next]_vars
-------------------------------------------------------------------------------
(* Properties *)

(***************************************************************************)
(* A message is in a session that exists and belongs to the tenant that    *)
(* posted it, although the insert repeats neither check (chats.rs: "scoped *)
(* to the authenticated tenant").                                          *)
(***************************************************************************)
InOwnSession ==
  \A m \in Messages : messages[m] # NoRow =>
    Owns(messages[m].author, messages[m].session)

(***************************************************************************)
(* The list of sessions is ordered by updated_at.  A session is never      *)
(* dated before one of its messages by more than the time an update waits  *)
(* for the row: no bump that was overtaken by a newer one moves it back    *)
(* further.  Excepted are messages whose bump is under way or was given up.*)
(***************************************************************************)
Bumped(m) ==
  /\ messages[m] # NoRow /\ m \notin unbumped
  /\ ~\E h \in Handlers : m \in Bumping(h)

DatedByMessages ==
  \A m \in Messages : Bumped(m) =>
    messages[m].created - sessions[messages[m].session].updated <= MaxStall

(***************************************************************************)
(* The two queries of a read do not tear a session: the answer holds every *)
(* message that was there when the session was read, or the session has    *)
(* been deleted since and the answer holds none.                           *)
(***************************************************************************)
ReadsWholeSession ==
  [][\A h \in Handlers : ReadMessages(h) =>
       LET s == op[h].session IN
       \/ op[h].known \subseteq MessagesOf(s)
       \/ sessions[s] = NoRow /\ MessagesOf(s) = {}]_vars
-------------------------------------------------------------------------------
(* The inductive strengthening the proofs use (ChatsProofs): what a handler *)
(* found before its last step is still so, or the session is gone.          *)
OpInv ==
  \A h \in Handlers :
    /\ Doing(h, "insert") /\ sessions[op[h].session] # NoRow
         => Owns(op[h].tenant, op[h].session)
    /\ Doing(h, "read") /\ sessions[op[h].session] # NoRow
         => op[h].known \subseteq MessagesOf(op[h].session)
    /\ \A m \in Bumping(h) : messages[m] # NoRow => messages[m].session = op[h].session

\* No message is dated after the present.
PastInv == \A m \in Messages : messages[m] # NoRow => messages[m].created <= clock
===============================================================================
