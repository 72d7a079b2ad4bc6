------------------------------ MODULE ToolsCall -------------------------------
(***************************************************************************)
(* POST /v1/tools/call (routes/mcp.rs, tools_call): the handlers running   *)
(* at one time, the kill switch they consult, and the Honey Ledger they    *)
(* bill over HTTP (ledger.rs).                                             *)
(*                                                                         *)
(* A handler is admitted, asks the ledger for the balance, posts a debit,  *)
(* dispatches to the fabric, and posts a refund if the dispatch did not    *)
(* succeed.  Each ledger post is a message in flight until the ledger      *)
(* applies it; the handler goes on when it is answered or when its client  *)
(* gives up, so a debit and a refund of one call may both be in flight,    *)
(* and may be applied in either order.                                     *)
(*                                                                         *)
(* An element of Calls is a slot for one handler and the correlation id    *)
(* it draws.  A slot is used again, as a new handler with a new id, once   *)
(* the old one has ended and left nothing in flight, so Cardinality(Calls) *)
(* bounds how many handlers are alive, or have posts in flight, at a time. *)
(***************************************************************************)
EXTENDS KillSwitch, Integers, FiniteSets

CONSTANTS
  Calls,      \* handler slots
  Bodies,     \* request bodies a client can post
  Billable,   \* the bodies that name run_subagent (the others: a free tool)
  Faults,     \* what may go wrong, see FaultKinds
  MaxDebt,    \* bound: a tenant whose balance is outside -MaxDebt..MaxFunds
  MaxFunds    \*   starts no new call (exploration only, not in the code)

FaultKinds ==
  {"balance_error",  \* the ledger does not answer the balance request
   "slow",           \* a post is answered after the 5 s timeout, or never
   "lose",           \* a post never reaches the ledger, or it rejects it
   "disconnect",     \* the client goes away and the handler is dropped
   "crash"}          \* the gateway process dies and is started again

ASSUME CallsAssumption == IsFiniteSet(Calls) /\ Calls # {}
ASSUME BillableAssumption == Billable \subseteq Bodies
ASSUME FaultsAssumption == Faults \subseteq FaultKinds
ASSUME BoundsAssumption == MaxDebt \in Nat /\ MaxFunds \in Nat

VARIABLES
  pc,         \* where each handler is
  req,        \* the request it serves
  result,     \* what the fabric answered it
  net,        \* ledger posts in flight
  applied,    \* ledger posts applied, by operation and correlation id
  balance,    \* the ledger's balance of each tenant
  lost,       \* history: ledger posts that never reached it
  blind,      \* history: tenants whose gate was opened without a balance
  metered     \* the gateway was started with LEDGER_URL

ledger == <<net, applied, balance, lost>>
vars == <<suspended, pc, req, result, ledger, blind, metered>>

Requests == [tenant : Tenants, body : Bodies]
Posts == {"debit", "refund"} \X Calls

Working == {"gate", "cleared", "debiting", "dispatched", "refunding", "asking"}
Ended == {"answered", "refused", "dropped"}

Owner(c) == req[c].tenant
IsBillable(c) == req[c].body \in Billable
Pending(c) == {m \in net : m[2] = c}
Sent(op, c) == <<op, c>> \in net \cup applied

TypeOK ==
  /\ KillSwitchTypeOK
  /\ pc \in [Calls -> {"idle"} \cup Working \cup Ended]
  /\ req \in [Calls -> Requests]
  /\ result \in [Calls -> {"none", "succeeded", "failed"}]
  /\ net \subseteq Posts
  /\ applied \subseteq Posts
  /\ balance \in [Tenants -> Int]
  /\ lost \subseteq Posts
  /\ blind \subseteq Tenants
  /\ metered \in BOOLEAN

Init ==
  /\ KillSwitchInit
  /\ pc = [c \in Calls |-> "idle"]
  /\ req \in {[c \in Calls |-> r] : r \in Requests}
  /\ result = [c \in Calls |-> "none"]
  /\ net = {}
  /\ applied = {}
  /\ balance \in [Tenants -> 0 .. MaxFunds]
  /\ lost = {}
  /\ blind = {}
  /\ metered \in BOOLEAN

-------------------------------------------------------------------------------
(* Admission: scope and arguments are valid, only the kill switch decides. *)

Explored(t) == -MaxDebt <= balance[t] /\ balance[t] <= MaxFunds

\* Fault seeded: the kill switch is not consulted.
AdmitUnchecked(c, r) ==
  /\ pc[c] = "idle"
  /\ Explored(r.tenant)
  /\ pc' = [pc EXCEPT ![c] = IF r.body \in Billable THEN "gate" ELSE "asking"]
  /\ req' = [req EXCEPT ![c] = r]
  /\ UNCHANGED <<suspended, result, ledger, blind, metered>>

Admit(c, r) ==
  /\ pc[c] = "idle"
  /\ r.tenant \notin suspended
  /\ Explored(r.tenant)
  /\ pc' = [pc EXCEPT ![c] = IF r.body \in Billable THEN "gate" ELSE "asking"]
  /\ req' = [req EXCEPT ![c] = r]
  /\ UNCHANGED <<suspended, result, ledger, blind, metered>>

RejectSuspended(c, r) ==
  /\ pc[c] = "idle"
  /\ r.tenant \in suspended
  /\ pc' = [pc EXCEPT ![c] = "refused"]
  /\ req' = [req EXCEPT ![c] = r]
  /\ UNCHANGED <<suspended, result, ledger, blind, metered>>

\* describe_cluster and estimate_cost are answered without any billing.
FreeToolAnswers(c) ==
  /\ pc[c] = "asking"
  /\ pc' = [pc EXCEPT ![c] = "answered"]
  /\ UNCHANGED <<suspended, req, result, ledger, blind, metered>>

-------------------------------------------------------------------------------
(* run_subagent: the balance gate, the debit, the dispatch, the refund.    *)

\* LedgerClient::balance returns Err: no answer in time, a rejection, or a
\* body without a balance.
BalanceFails == "balance_error" \in Faults

\* Without a ledger a call is dispatched at once.
SkipLedger(c) ==
  /\ pc[c] = "gate"
  /\ ~metered
  /\ pc' = [pc EXCEPT ![c] = "dispatched"]
  /\ UNCHANGED <<suspended, req, result, ledger, blind, metered>>

\* Fault seeded: a balance of zero opens the gate.
GateOpensAtZero(c) ==
  /\ pc[c] = "gate" /\ metered
  /\ balance[Owner(c)] >= 0 \/ BalanceFails
  /\ pc' = [pc EXCEPT ![c] = "cleared"]
  /\ blind' = IF balance[Owner(c)] >= 0 THEN blind ELSE blind \cup {Owner(c)}
  /\ UNCHANGED <<suspended, req, result, ledger, metered>>

\* The ledger reads a positive balance, or the gate learns nothing and the
\* handler continues.
GateOpens(c) ==
  /\ pc[c] = "gate" /\ metered
  /\ balance[Owner(c)] > 0 \/ BalanceFails
  /\ pc' = [pc EXCEPT ![c] = "cleared"]
  /\ blind' = IF balance[Owner(c)] > 0 THEN blind ELSE blind \cup {Owner(c)}
  /\ UNCHANGED <<suspended, req, result, ledger, metered>>

GateRefuses(c) ==
  /\ pc[c] = "gate" /\ metered
  /\ balance[Owner(c)] <= 0
  /\ pc' = [pc EXCEPT ![c] = "refused"]
  /\ UNCHANGED <<suspended, req, result, ledger, blind, metered>>

SendDebit(c) ==
  /\ pc[c] = "cleared"
  /\ net' = net \cup {<<"debit", c>>}
  /\ pc' = [pc EXCEPT ![c] = "debiting"]
  /\ UNCHANGED <<suspended, req, result, applied, balance, lost, blind, metered>>

\* LedgerClient::post returns Ok only if the ledger applied the event, and
\* Err if the event was lost or rejected, or the timeout struck first.
PostAnswered(op, c) == <<op, c>> \in applied
\* Fault seeded: a client that waits for ever.
PostNeverFails(op, c) == FALSE
PostFailed(op, c) == "slow" \in Faults \/ ~Sent(op, c)

\* A failed debit is logged and the call dispatched all the same.
DebitReturns(c) ==
  /\ pc[c] = "debiting"
  /\ PostAnswered("debit", c) \/ PostFailed("debit", c)
  /\ pc' = [pc EXCEPT ![c] = "dispatched"]
  /\ UNCHANGED <<suspended, req, result, ledger, blind, metered>>

\* Fault seeded: a success is taken for a failure and refunded.
UpstreamSucceedsRefunded(c) ==
  /\ pc[c] = "dispatched"
  /\ result' = [result EXCEPT ![c] = "succeeded"]
  /\ net' = net \cup {<<"refund", c>>}
  /\ pc' = [pc EXCEPT ![c] = "refunding"]
  /\ UNCHANGED <<suspended, req, applied, balance, lost, blind, metered>>

UpstreamSucceeds(c) ==
  /\ pc[c] = "dispatched"
  /\ result' = [result EXCEPT ![c] = "succeeded"]
  /\ pc' = [pc EXCEPT ![c] = "answered"]
  /\ UNCHANGED <<suspended, req, ledger, blind, metered>>

\* Fault seeded: an error is returned before the refund is posted.
UpstreamFailsUnrefunded(c) ==
  /\ pc[c] = "dispatched" /\ metered
  /\ result' = [result EXCEPT ![c] = "failed"]
  /\ pc' = [pc EXCEPT ![c] = "answered"]
  /\ UNCHANGED <<suspended, req, ledger, blind, metered>>

\* An error, or a status that is neither "succeeded" nor "completed".
UpstreamFails(c) ==
  /\ pc[c] = "dispatched" /\ metered
  /\ result' = [result EXCEPT ![c] = "failed"]
  /\ net' = net \cup {<<"refund", c>>}
  /\ pc' = [pc EXCEPT ![c] = "refunding"]
  /\ UNCHANGED <<suspended, req, applied, balance, lost, blind, metered>>

UnbilledFails(c) ==
  /\ pc[c] = "dispatched" /\ ~metered
  /\ result' = [result EXCEPT ![c] = "failed"]
  /\ pc' = [pc EXCEPT ![c] = "answered"]
  /\ UNCHANGED <<suspended, req, ledger, blind, metered>>

RefundReturns(c) ==
  /\ pc[c] = "refunding"
  /\ PostAnswered("refund", c) \/ PostFailed("refund", c)
  /\ pc' = [pc EXCEPT ![c] = "answered"]
  /\ UNCHANGED <<suspended, req, result, ledger, blind, metered>>

-------------------------------------------------------------------------------
(* The ledger service and the network to it.                               *)

\* Fault seeded: the idempotency key is made of the tenant, not the call.
ApplyDebitByTenant(c) ==
  /\ <<"debit", c>> \in net
  /\ net' = net \ {<<"debit", c>>}
  /\ applied' = applied \cup {<<"debit", Owner(c)>>}
  /\ balance' = [balance EXCEPT ![Owner(c)] = @ - 1]
  /\ UNCHANGED <<suspended, pc, req, result, lost, blind, metered>>

\* Fault seeded: a post delivered again is applied again.
ApplyDebitAgain(c) ==
  /\ <<"debit", c>> \in net
  /\ applied' = applied \cup {<<"debit", c>>}
  /\ balance' = [balance EXCEPT ![Owner(c)] = @ - 1]
  /\ UNCHANGED <<suspended, pc, req, result, net, lost, blind, metered>>

ApplyDebit(c) ==
  /\ <<"debit", c>> \in net
  /\ net' = net \ {<<"debit", c>>}
  /\ applied' = applied \cup {<<"debit", c>>}
  /\ balance' = [balance EXCEPT ![Owner(c)] = @ - 1]
  /\ UNCHANGED <<suspended, pc, req, result, lost, blind, metered>>

ApplyRefund(c) ==
  /\ <<"refund", c>> \in net
  /\ net' = net \ {<<"refund", c>>}
  /\ applied' = applied \cup {<<"refund", c>>}
  /\ balance' = [balance EXCEPT ![Owner(c)] = @ + 1]
  /\ UNCHANGED <<suspended, pc, req, result, lost, blind, metered>>

LosePost(m) ==
  /\ "lose" \in Faults
  /\ m \in net
  /\ net' = net \ {m}
  /\ lost' = lost \cup {m}
  /\ UNCHANGED <<suspended, pc, req, result, applied, balance, blind, metered>>

TopUp(t) ==
  /\ balance[t] < MaxFunds
  /\ balance' = [balance EXCEPT ![t] = @ + 1]
  /\ UNCHANGED <<suspended, pc, req, result, net, applied, lost, blind, metered>>

-------------------------------------------------------------------------------
(* Dropped handlers, restarts, and the administrator.                      *)

\* The server drops the handler's future at its await; what it had in flight
\* may have left or not.
Disconnect(c) ==
  /\ "disconnect" \in Faults
  /\ pc[c] \in Working
  /\ pc' = [pc EXCEPT ![c] = "dropped"]
  /\ \E left \in SUBSET Pending(c) : net' = (net \ Pending(c)) \cup left
  /\ UNCHANGED <<suspended, req, result, applied, balance, lost, blind, metered>>

Crash ==
  /\ "crash" \in Faults
  /\ pc' = [c \in Calls |-> IF pc[c] \in Working THEN "dropped" ELSE pc[c]]
  /\ \E left \in SUBSET net :
       /\ \A m \in net : pc[m[2]] \notin Working => m \in left
       /\ net' = left
  /\ ForgetSuspensions
  /\ UNCHANGED <<req, result, applied, balance, lost, blind, metered>>

\* The slot stands for a new handler from now on.
Release(c) ==
  /\ pc[c] \in Ended
  /\ Pending(c) = {}
  /\ pc' = [pc EXCEPT ![c] = "idle"]
  /\ result' = [result EXCEPT ![c] = "none"]
  /\ applied' = {m \in applied : m[2] # c}
  /\ lost' = {m \in lost : m[2] # c}
  /\ UNCHANGED <<suspended, req, net, balance, blind, metered>>

Administer(t) ==
  /\ SuspendTenant(t) \/ ResumeTenant(t)
  /\ UNCHANGED <<pc, req, result, ledger, blind, metered>>

Handler(c) ==
  \/ FreeToolAnswers(c)
  \/ SkipLedger(c)
  \/ GateOpens(c)
  \/ GateRefuses(c)
  \/ SendDebit(c)
  \/ DebitReturns(c)
  \/ UpstreamSucceeds(c)
  \/ UpstreamFails(c)
  \/ UnbilledFails(c)
  \/ RefundReturns(c)

Ledger(c) == ApplyDebit(c) \/ ApplyRefund(c)

Next ==
  \/ \E c \in Calls, r \in Requests : Admit(c, r) \/ RejectSuspended(c, r)
  \/ \E c \in Calls : Handler(c) \/ Ledger(c) \/ Disconnect(c) \/ Release(c)
  \/ \E m \in Posts : LosePost(m)
  \/ \E t \in Tenants : TopUp(t) \/ Administer(t)
  \/ Crash

Spec == Init /\ [][Next]_vars

(* A handler waits only for answers that come, or time out: every ledger    *)
(* post and balance request has the client's 5 s limit, and the fabric is   *)
(* given timeout_seconds.  The ledger itself is fair to what reaches it.    *)
Fairness == \A c \in Calls : WF_vars(Handler(c)) /\ WF_vars(Ledger(c))

FairSpec == Spec /\ Fairness
-------------------------------------------------------------------------------
(* Properties *)

(***************************************************************************)
(* Billing follows the answer.  Once a run_subagent call has been answered *)
(* and its posts have reached the ledger, the ledger has taken its debit,  *)
(* and has given the credit back exactly if the fabric did not succeed,    *)
(* however timeouts reorder the two (mcp.rs: debit before dispatch, refund *)
(* on failure).                                                            *)
(***************************************************************************)
Settled(c) ==
  /\ pc[c] = "answered" /\ IsBillable(c) /\ metered
  /\ Pending(c) = {} /\ \A m \in lost : m[2] # c

BilledAsAnswered ==
  \A c \in Calls : Settled(c) =>
    /\ <<"debit", c>> \in applied
    /\ <<"refund", c>> \in applied <=> result[c] = "failed"

(***************************************************************************)
(* A call the kill switch or the balance gate turned away, and one of a    *)
(* free tool or of a gateway without a ledger, never reaches the ledger;   *)
(* and no call that succeeded is ever refunded.  Both hold under every     *)
(* fault.                                                                  *)
(***************************************************************************)
NoStrayPosts ==
  \A c \in Calls :
    /\ pc[c] = "refused" \/ ~IsBillable(c) \/ ~metered => ~Sent("debit", c)
    /\ Sent("refund", c) => result[c] = "failed"

(***************************************************************************)
(* The balance gate is a check before the act: calls that read the same    *)
(* credit are all let through.  The overdraft this allows is bounded by    *)
(* the handlers alive at once, less the one the credit was there for, for  *)
(* a tenant whose balance requests the ledger has answered.                *)
(***************************************************************************)
OverdraftBound ==
  \A t \in Tenants \ blind : balance[t] >= 1 - Cardinality(Calls)

(***************************************************************************)
(* While a tenant stays suspended, the calls that can still work for it or *)
(* take a credit from it are those admitted before: their set only         *)
(* shrinks, whatever the other tenants, the ledger and the faults do.      *)
(***************************************************************************)
Exposed(t) == {c \in Calls :
  Owner(c) = t /\ (pc[c] \in Working \/ <<"debit", c>> \in net)}

SuspensionDrains ==
  [][\A t \in Tenants :
       t \in suspended /\ t \in suspended' => Exposed(t)' \subseteq Exposed(t)]_vars

(***************************************************************************)
(* Every admitted call ends: no fault of the ledger keeps a handler        *)
(* waiting for ever.                                                       *)
(***************************************************************************)
EveryCallEnds == \A c \in Calls : pc[c] \in Working ~> pc[c] \notin Working

(***************************************************************************)
(* A tenant suspended for good comes to rest: after some time none of its  *)
(* calls works and none of its credits is moved.                           *)
(***************************************************************************)
AtRest(t) == \A c \in Calls :
  Owner(c) = t => pc[c] \notin Working /\ Pending(c) = {}

SuspensionQuiesces ==
  \A t \in Tenants : <>[](t \in suspended) => <>[]AtRest(t)

(***************************************************************************)
(* mcp.rs says of the idempotency keys that duplicate POSTs (CDN retries,  *)
(* network blips) do not double-charge: of two calls that serve the same   *)
(* POST, at most one is charged.                                           *)
(***************************************************************************)
DuplicatePostChargedOnce ==
  \A c, d \in Calls :
    /\ c # d /\ req[c] = req[d]
    /\ <<"debit", c>> \in applied /\ <<"debit", d>> \in applied
    => <<"refund", c>> \in applied \/ <<"refund", d>> \in applied

(***************************************************************************)
(* The handlers and the ledger together implement the settlement: a call   *)
(* is charged at most once and only if it was let through, it is paid back *)
(* at most once and only if it failed, and nothing else moves the balance. *)
(***************************************************************************)
Exempt(c) == pc[c] = "refused" \/ ~IsBillable(c) \/ ~metered

VerdictOf(c) ==
  IF pc[c] = "idle" THEN "none"
  ELSE IF Exempt(c) THEN "exempt"
  ELSE IF result[c] # "none" THEN result[c]
  ELSE IF pc[c] = "dropped" THEN "dropped" ELSE "open"

Billing == INSTANCE Settlement WITH
  verdict <- [c \in Calls |-> VerdictOf(c)],
  holder <- [c \in Calls |-> Owner(c)],
  taken <- {c \in Calls : <<"debit", c>> \in applied},
  given <- {c \in Calls : <<"refund", c>> \in applied}

ImplementsSettlement == Billing!Spec
-------------------------------------------------------------------------------
(* The inductive strengthenings the proofs use (ToolsCallProofs). *)

\* Under every fault: a post exists only past the step that sends it.
PostsInv ==
  \A c \in Calls :
    /\ pc[c] \in {"gate", "cleared", "debiting", "dispatched", "refunding"}
         => IsBillable(c)
    /\ pc[c] = "asking" => ~IsBillable(c)
    /\ pc[c] \in {"cleared", "debiting", "refunding"} => metered
    /\ pc[c] \in {"idle", "gate", "cleared", "asking", "refused"} \/ ~IsBillable(c)
         \/ ~metered => ~Sent("debit", c)
    /\ pc[c] \notin {"refunding", "answered", "dropped"} => result[c] = "none"
    /\ result[c] # "none" => IsBillable(c)
    /\ Sent("refund", c) => result[c] = "failed" /\ metered

\* No post is applied and still in flight.
InFlightInv == net \cap applied = {}

\* The debit of a call past the gate is somewhere until the slot is released,
\* and so is the refund of one that failed.
Posted(op, c) == <<op, c>> \in net \cup applied \cup lost

BillingInv ==
  \A c \in Calls :
    /\ pc[c] \in {"debiting", "dispatched", "refunding"} /\ metered
         => Posted("debit", c)
    /\ pc[c] = "answered" /\ IsBillable(c) /\ metered
         => Posted("debit", c) /\ result[c] # "none"
    /\ pc[c] = "refunding" => result[c] = "failed"
    /\ pc[c] \in {"refunding", "answered"} /\ result[c] = "failed" /\ metered
         => Posted("refund", c)

\* The calls let through against t's balance whose debit is not in it yet.
Committed(t) == {c \in Calls :
  Owner(c) = t /\ (pc[c] = "cleared" \/ <<"debit", c>> \in net)}

OverdraftInv ==
  \A t \in Tenants \ blind :
    balance[t] - Cardinality(Committed(t)) >= 1 - Cardinality(Calls)
===============================================================================
