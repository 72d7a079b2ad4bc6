------------------------------ MODULE Settlement ------------------------------
(***************************************************************************)
(* What billing promises of each call, whatever the timeouts, restarts and *)
(* reordered posts between the gateway and the ledger: an exempt call      *)
(* moves no credit, any other takes at most one, which is given back at    *)
(* most once and only to a call that failed.  The abstract specification   *)
(* ToolsCall implements.                                                   *)
(***************************************************************************)
EXTENDS Integers

CONSTANTS Tenants, Calls

VARIABLES
  verdict,    \* of each call: none before it is made, open until it is decided
  holder,     \* the tenant it is made for
  taken,      \* the calls whose credit has been taken
  given,      \* and those it has been given back to
  balance     \* the credits of each tenant

vars == <<verdict, holder, taken, given, balance>>

Init ==
  /\ verdict = [c \in Calls |-> "none"]
  /\ holder \in [Calls -> Tenants]
  /\ taken = {}
  /\ given = {}
  /\ balance \in [Tenants -> Int]

Begin(c, t, v) ==
  /\ verdict[c] = "none"
  /\ v \in {"open", "exempt"}
  /\ verdict' = [verdict EXCEPT ![c] = v]
  /\ holder' = [holder EXCEPT ![c] = t]
  /\ UNCHANGED <<taken, given, balance>>

Refuse(c) ==
  /\ verdict[c] = "open" /\ c \notin taken
  /\ verdict' = [verdict EXCEPT ![c] = "exempt"]
  /\ UNCHANGED <<holder, taken, given, balance>>

Decide(c, v) ==
  /\ verdict[c] = "open"
  /\ v \in {"succeeded", "failed"}
  /\ verdict' = [verdict EXCEPT ![c] = v]
  /\ UNCHANGED <<holder, taken, given, balance>>

\* The calls in gone are never answered.
Drop(gone) ==
  /\ \A c \in gone : verdict[c] = "open"
  /\ verdict' = [c \in Calls |-> IF c \in gone THEN "dropped" ELSE verdict[c]]
  /\ UNCHANGED <<holder, taken, given, balance>>

Take(c) ==
  /\ verdict[c] \notin {"none", "exempt"} /\ c \notin taken
  /\ taken' = taken \cup {c}
  /\ balance' = [balance EXCEPT ![holder[c]] = @ - 1]
  /\ UNCHANGED <<verdict, holder, given>>

Give(c) ==
  /\ verdict[c] = "failed" /\ c \notin given
  /\ given' = given \cup {c}
  /\ balance' = [balance EXCEPT ![holder[c]] = @ + 1]
  /\ UNCHANGED <<verdict, holder, taken>>

TopUp(t) ==
  /\ balance' = [balance EXCEPT ![t] = @ + 1]
  /\ UNCHANGED <<verdict, holder, taken, given>>

\* c stands for another call from now on.
Renew(c) ==
  /\ verdict[c] \notin {"none", "open"}
  /\ verdict' = [verdict EXCEPT ![c] = "none"]
  /\ taken' = taken \ {c}
  /\ given' = given \ {c}
  /\ UNCHANGED <<holder, balance>>

Next ==
  \/ \E c \in Calls :
       \/ \E t \in Tenants, v \in {"open", "exempt"} : Begin(c, t, v)
       \/ \E v \in {"succeeded", "failed"} : Decide(c, v)
       \/ Refuse(c) \/ Take(c) \/ Give(c) \/ Renew(c)
  \/ \E gone \in SUBSET Calls : Drop(gone)
  \/ \E t \in Tenants : TopUp(t)

Spec == Init /\ [][Next]_vars
===============================================================================
