--------------------------- MODULE ToolsCallProofs ----------------------------
(***************************************************************************)
(* Proofs about ToolsCall, for every set of tenants, slots and bodies and  *)
(* under every fault: its safety properties, and that it implements        *)
(* Settlement.                                                             *)
(***************************************************************************)
EXTENDS ToolsCall, FiniteSetTheorems, TLAPS

PCs == {"idle"} \cup Working \cup Ended

-------------------------------------------------------------------------------
(* Typing *)

\* The variables have their types in every reachable state.
LEMMA TypeInvariant == Spec => []TypeOK
<1>1. Init => TypeOK
  BY BoundsAssumption
     DEF Init, TypeOK, KillSwitchInit, KillSwitchTypeOK, Requests, Posts
<1>2. TypeOK /\ [Next]_vars => TypeOK'
  <2> SUFFICES ASSUME TypeOK, [Next]_vars PROVE TypeOK'
    OBVIOUS
  <2> USE DEF TypeOK, KillSwitchTypeOK, Posts, Requests, Working, Ended, Pending, ledger
  <2>1. ASSUME NEW c \in Calls, NEW r \in Requests,
               Admit(c, r) \/ RejectSuspended(c, r)
        PROVE  TypeOK'
    <3>1. /\ req' = [req EXCEPT ![c] = r] /\ req' \in [Calls -> Requests]
          /\ UNCHANGED <<suspended, result, ledger, blind, metered>>
      BY <2>1 DEF Admit, RejectSuspended
    <3>2. pc' \in [Calls -> {"idle"} \cup Working \cup Ended]
      BY <2>1 DEF Admit, RejectSuspended
    <3> QED
      BY <3>1, <3>2
  <2>2. ASSUME NEW c \in Calls, Handler(c) PROVE TypeOK'
    <3>1. CASE GateOpens(c)
      BY <3>1 DEF GateOpens, Owner
    <3>2. CASE \/ FreeToolAnswers(c) \/ SkipLedger(c) \/ GateRefuses(c)
               \/ DebitReturns(c) \/ RefundReturns(c)
      BY <3>2 DEF FreeToolAnswers, SkipLedger, GateRefuses, DebitReturns, RefundReturns
    <3>3. CASE SendDebit(c) \/ UpstreamSucceeds(c) \/ UpstreamFails(c) \/ UnbilledFails(c)
      BY <3>3 DEF SendDebit, UpstreamSucceeds, UpstreamFails, UnbilledFails
    <3> QED
      BY <2>2, <3>1, <3>2, <3>3 DEF Handler
  <2>3. ASSUME NEW c \in Calls, Ledger(c) PROVE TypeOK'
    BY <2>3 DEF Ledger, ApplyDebit, ApplyRefund
  <2>4. ASSUME NEW c \in Calls, Disconnect(c) PROVE TypeOK'
    BY <2>4 DEF Disconnect
  <2>5. ASSUME NEW c \in Calls, Release(c) PROVE TypeOK'
    BY <2>5 DEF Release
  <2>6. ASSUME NEW m \in Posts, LosePost(m) PROVE TypeOK'
    BY <2>6 DEF LosePost
  <2>7. ASSUME NEW t \in Tenants, TopUp(t) PROVE TypeOK'
    BY <2>7 DEF TopUp
  <2>8. ASSUME NEW t \in Tenants, Administer(t) PROVE TypeOK'
    BY <2>8 DEF Administer, SuspendTenant, ResumeTenant
  <2>9. CASE Crash
    BY <2>9 DEF Crash, ForgetSuspensions
  <2>10. CASE UNCHANGED vars
    BY <2>10 DEF vars
  <2> QED
    BY <2>1, <2>2, <2>3, <2>4, <2>5, <2>6, <2>7, <2>8, <2>9, <2>10 DEF Next
<1> QED
  BY <1>1, <1>2, PTL DEF Spec
-------------------------------------------------------------------------------
(* Which posts exist *)

\* PostsInv is inductive, given the types.
LEMMA PostsInvariant == Spec => []PostsInv
<1>1. Init => PostsInv
  BY DEF Init, PostsInv, Sent
<1>2. TypeOK /\ PostsInv /\ [Next]_vars => PostsInv'
  <2> SUFFICES ASSUME TypeOK, PostsInv, [Next]_vars PROVE PostsInv'
    OBVIOUS
  <2> USE DEF TypeOK, PostsInv, Posts, Requests, Sent, IsBillable, ledger
  <2>1. ASSUME NEW c \in Calls, NEW r \in Requests,
               Admit(c, r) \/ RejectSuspended(c, r)
        PROVE  PostsInv'
    <3>1. pc[c] = "idle" /\ ~Sent("debit", c) /\ result[c] = "none"
      BY <2>1 DEF Admit, RejectSuspended
    <3>2. CASE Admit(c, r)
      <4>1. UNCHANGED <<result, net, applied, metered>>
        BY <3>2 DEF Admit
      <4>2. \A d \in Calls : d # c => pc'[d] = pc[d] /\ req'[d] = req[d]
        BY <3>2 DEF Admit
      <4>3. /\ req'[c] = r
            /\ pc'[c] = IF r.body \in Billable THEN "gate" ELSE "asking"
        BY <3>2 DEF Admit
      <4>4. ~Sent("refund", c)
        BY <3>1
      <4> QED
        BY <3>1, <4>1, <4>2, <4>3, <4>4
    <3>3. CASE RejectSuspended(c, r)
      <4>1. UNCHANGED <<result, net, applied, metered>>
        BY <3>3 DEF RejectSuspended
      <4>2. \A d \in Calls : d # c => pc'[d] = pc[d] /\ req'[d] = req[d]
        BY <3>3 DEF RejectSuspended
      <4>3. req'[c] = r /\ pc'[c] = "refused"
        BY <3>3 DEF RejectSuspended
      <4>4. ~Sent("refund", c)
        BY <3>1
      <4> QED
        BY <3>1, <4>1, <4>2, <4>3, <4>4
    <3> QED
      BY <2>1, <3>2, <3>3
  <2>2. ASSUME NEW c \in Calls, Handler(c) PROVE PostsInv'
    <3>1. CASE FreeToolAnswers(c) \/ SkipLedger(c)
      BY <3>1 DEF FreeToolAnswers, SkipLedger
    <3>2. CASE GateOpens(c) \/ GateRefuses(c)
      BY <3>2 DEF GateOpens, GateRefuses
    <3>3. CASE SendDebit(c)
      BY <3>3 DEF SendDebit
    <3>4. CASE DebitReturns(c) \/ RefundReturns(c)
      BY <3>4 DEF DebitReturns, RefundReturns
    <3>5. CASE UpstreamSucceeds(c)
      BY <3>5 DEF UpstreamSucceeds
    <3>6. CASE UpstreamFails(c)
      BY <3>6 DEF UpstreamFails
    <3>7. CASE UnbilledFails(c)
      BY <3>7 DEF UnbilledFails
    <3> QED
      BY <2>2, <3>1, <3>2, <3>3, <3>4, <3>5, <3>6, <3>7 DEF Handler
  <2>3. ASSUME NEW c \in Calls, Ledger(c) PROVE PostsInv'
    BY <2>3 DEF Ledger, ApplyDebit, ApplyRefund
  <2>4. ASSUME NEW c \in Calls, Disconnect(c) PROVE PostsInv'
    BY <2>4 DEF Disconnect, Pending, Working
  <2>5. ASSUME NEW c \in Calls, Release(c) PROVE PostsInv'
    <3>1. ~Sent("debit", c)' /\ ~Sent("refund", c)'
      BY <2>5 DEF Release, Pending
    <3>2. ASSUME NEW d \in Calls, d # c, NEW op \in {"debit", "refund"}
          PROVE  Sent(op, d)' <=> Sent(op, d)
      BY <2>5, <3>2 DEF Release
    <3> QED
      BY <2>5, <3>1, <3>2 DEF Release, Ended
  <2>6. ASSUME NEW m \in Posts, LosePost(m) PROVE PostsInv'
    BY <2>6 DEF LosePost
  <2>7. ASSUME NEW t \in Tenants, TopUp(t) \/ Administer(t) PROVE PostsInv'
    BY <2>7 DEF TopUp, Administer
  <2>8. CASE Crash
    BY <2>8 DEF Crash, Working
  <2>9. CASE UNCHANGED vars
    BY <2>9 DEF vars
  <2> QED
    BY <2>1, <2>2, <2>3, <2>4, <2>5, <2>6, <2>7, <2>8, <2>9 DEF Next
<1> QED
  BY <1>1, <1>2, TypeInvariant, PTL DEF Spec

\* Calls turned away never reach the ledger, successes are never refunded.
THEOREM StrayPostsTheorem == Spec => []NoStrayPosts
<1>1. PostsInv => NoStrayPosts
  BY DEF PostsInv, NoStrayPosts
<1> QED
  BY <1>1, PostsInvariant, PTL

-------------------------------------------------------------------------------
(* Billing follows the answer *)

\* What a call owes the ledger is in flight, applied, or known lost.
LEMMA BillingInvariant == Spec => []BillingInv
<1>1. Init => BillingInv
  BY DEF Init, BillingInv
<1>2. TypeOK /\ PostsInv /\ BillingInv /\ [Next]_vars => BillingInv'
  <2> SUFFICES ASSUME TypeOK, PostsInv, BillingInv, [Next]_vars PROVE BillingInv'
    OBVIOUS
  <2> USE DEF TypeOK, PostsInv, BillingInv, Posts, Requests, Sent, Posted, IsBillable, ledger
  <2>1. ASSUME NEW c \in Calls, NEW r \in Requests,
               Admit(c, r) \/ RejectSuspended(c, r)
        PROVE  BillingInv'
    <3>1. CASE Admit(c, r)
      BY <3>1 DEF Admit
    <3>2. CASE RejectSuspended(c, r)
      BY <3>2 DEF RejectSuspended
    <3> QED
      BY <2>1, <3>1, <3>2
  <2>2. ASSUME NEW c \in Calls, Handler(c) PROVE BillingInv'
    <3>1. CASE FreeToolAnswers(c) \/ SkipLedger(c)
      BY <3>1 DEF FreeToolAnswers, SkipLedger
    <3>2. CASE GateOpens(c) \/ GateRefuses(c)
      BY <3>2 DEF GateOpens, GateRefuses
    <3>3. CASE SendDebit(c)
      BY <3>3 DEF SendDebit
    <3>4. CASE DebitReturns(c) \/ RefundReturns(c)
      BY <3>4 DEF DebitReturns, RefundReturns
    <3>5. CASE UpstreamSucceeds(c)
      BY <3>5 DEF UpstreamSucceeds
    <3>6. CASE UpstreamFails(c) \/ UnbilledFails(c)
      BY <3>6 DEF UpstreamFails, UnbilledFails
    <3> QED
      BY <2>2, <3>1, <3>2, <3>3, <3>4, <3>5, <3>6 DEF Handler
  <2>3. ASSUME NEW c \in Calls, Ledger(c) PROVE BillingInv'
    BY <2>3 DEF Ledger, ApplyDebit, ApplyRefund
  <2>4. ASSUME NEW c \in Calls, Disconnect(c) PROVE BillingInv'
    BY <2>4 DEF Disconnect, Pending, Working
  <2>5. ASSUME NEW c \in Calls, Release(c) PROVE BillingInv'
    <3>1. ASSUME NEW d \in Calls, d # c, NEW op \in {"debit", "refund"}
          PROVE  Posted(op, d)' <=> Posted(op, d)
      BY <2>5, <3>1 DEF Release
    <3>2. pc'[c] = "idle" /\ \A d \in Calls : d # c => pc'[d] = pc[d]
      BY <2>5 DEF Release
    <3> QED
      BY <2>5, <3>1, <3>2 DEF Release
  <2>6. ASSUME NEW m \in Posts, LosePost(m) PROVE BillingInv'
    BY <2>6 DEF LosePost
  <2>7. ASSUME NEW t \in Tenants, TopUp(t) \/ Administer(t) PROVE BillingInv'
    BY <2>7 DEF TopUp, Administer
  <2>8. CASE Crash
    <3>1. ASSUME NEW c \in Calls, pc[c] \notin Working,
                 NEW op \in {"debit", "refund"}, Posted(op, c)
          PROVE  Posted(op, c)'
      BY <2>8, <3>1 DEF Crash
    <3>2. ASSUME NEW c \in Calls
          PROVE  \/ pc[c] \notin Working /\ pc'[c] = pc[c]
                 \/ pc'[c] = "dropped"
      BY <2>8 DEF Crash
    <3>3. UNCHANGED <<req, result, metered>>
      BY <2>8 DEF Crash
    <3> QED
      BY <3>1, <3>2, <3>3 DEF Working
  <2>9. CASE UNCHANGED vars
    BY <2>9 DEF vars
  <2> QED
    BY <2>1, <2>2, <2>3, <2>4, <2>5, <2>6, <2>7, <2>8, <2>9 DEF Next
<1> QED
  BY <1>1, <1>2, TypeInvariant, PostsInvariant, PTL DEF Spec

\* Every answered call whose posts have landed is billed as it was answered.
THEOREM BillingTheorem == Spec => []BilledAsAnswered
<1>1. TypeOK /\ PostsInv /\ BillingInv => BilledAsAnswered
  BY DEF TypeOK, PostsInv, BillingInv, BilledAsAnswered, Settled, Sent, Posted, Pending
<1> QED
  BY <1>1, TypeInvariant, PostsInvariant, BillingInvariant, PTL
-------------------------------------------------------------------------------
(* The overdraft *)

\* The commitments of a tenant are finitely many, and at most all the slots.
LEMMA CommittedFinite ==
  ASSUME NEW t
  PROVE  /\ IsFiniteSet(Committed(t))
         /\ Cardinality(Committed(t)) \in Nat
         /\ Cardinality(Committed(t)) <= Cardinality(Calls)
<1>1. Committed(t) \subseteq Calls
  BY DEF Committed
<1> QED
  BY <1>1, CallsAssumption, FS_Subset, FS_CardinalityType

\* A step that takes nothing from t and commits nothing more against it
\* keeps the invariant for t.
LEMMA NoNewCommitment ==
  ASSUME NEW t \in Tenants \ blind, TypeOK, TypeOK', OverdraftInv,
         balance'[t] >= balance[t], Committed(t)' \subseteq Committed(t)
  PROVE  balance'[t] - Cardinality(Committed(t)') >= 1 - Cardinality(Calls)
<1>1. /\ Cardinality(Committed(t)') \in Nat
      /\ Cardinality(Committed(t)') <= Cardinality(Committed(t))
  BY CommittedFinite, FS_Subset, FS_CardinalityType
<1>2. Cardinality(Committed(t)) \in Nat /\ Cardinality(Calls) \in Nat
  BY CommittedFinite, CallsAssumption, FS_CardinalityType
<1>3. balance[t] \in Int /\ balance'[t] \in Int
  BY DEF TypeOK
<1>4. balance[t] - Cardinality(Committed(t)) >= 1 - Cardinality(Calls)
  BY DEF OverdraftInv
<1> QED
  BY <1>1, <1>2, <1>3, <1>4

\* OverdraftInv is inductive for the tenants whose gate never opened blind.
LEMMA OverdraftInvariant == Spec => []OverdraftInv
<1>1. Init => OverdraftInv
  <2> SUFFICES ASSUME Init, NEW t \in Tenants \ blind
               PROVE  balance[t] - Cardinality(Committed(t)) >= 1 - Cardinality(Calls)
    BY DEF OverdraftInv
  <2>1. Committed(t) = {} /\ Cardinality(Committed(t)) = 0
    BY FS_EmptySet DEF Init, Committed
  <2>2. balance[t] \in Int /\ balance[t] >= 0
    BY BoundsAssumption DEF Init
  <2>3. Cardinality(Calls) \in Nat /\ Cardinality(Calls) # 0
    BY CallsAssumption, FS_CardinalityType, FS_EmptySet
  <2> QED
    BY <2>1, <2>2, <2>3
<1>2. TypeOK /\ TypeOK' /\ PostsInv /\ OverdraftInv /\ [Next]_vars => OverdraftInv'
  <2> SUFFICES ASSUME TypeOK, TypeOK', PostsInv, OverdraftInv, [Next]_vars,
                      NEW t \in Tenants, t \notin blind'
               PROVE  balance'[t] - Cardinality(Committed(t)') >= 1 - Cardinality(Calls)
    BY DEF OverdraftInv
  <2> DEFINE Kept == balance'[t] >= balance[t] /\ Committed(t)' \subseteq Committed(t)
  <2> USE DEF ledger
  <2>0. t \in Tenants \ blind
    BY DEF Next, vars, Handler, Ledger, Admit, RejectSuspended, FreeToolAnswers,
           SkipLedger, GateOpens, GateRefuses, SendDebit, DebitReturns, UpstreamSucceeds,
           UpstreamFails, UnbilledFails, RefundReturns, ApplyDebit, ApplyRefund, Disconnect,
           Release, LosePost, TopUp, Administer, Crash
  <2>1. Cardinality(Calls) \in Nat
    BY CallsAssumption, FS_CardinalityType
  <2>2. balance[t] \in Int /\ balance'[t] \in Int
    BY DEF TypeOK
  <2>3. SUFFICES ASSUME ~Kept
                 PROVE  balance'[t] - Cardinality(Committed(t)') >= 1 - Cardinality(Calls)
    BY <2>0, NoNewCommitment
  <2>4. ASSUME NEW c \in Calls, GateOpens(c)
        PROVE  balance'[t] - Cardinality(Committed(t)') >= 1 - Cardinality(Calls)
    <3>1. Owner(c) # t => Kept
      BY <2>2, <2>4 DEF GateOpens, Committed, Owner, TypeOK
    <3>2. balance'[t] >= 1
      BY <2>2, <2>3, <2>4, <3>1 DEF GateOpens
    <3>3. /\ Cardinality(Committed(t)') \in Nat
          /\ Cardinality(Committed(t)') <= Cardinality(Calls)
      <4>1. Committed(t)' \subseteq Calls
        BY DEF Committed
      <4> QED
        BY <4>1, CallsAssumption, FS_Subset, FS_CardinalityType
    <3> QED
      BY <2>1, <2>2, <3>2, <3>3
  <2>5. ASSUME NEW c \in Calls, ApplyDebit(c)
        PROVE  balance'[t] - Cardinality(Committed(t)') >= 1 - Cardinality(Calls)
    <3>1. Owner(c) # t => Kept
      BY <2>2, <2>5 DEF ApplyDebit, Committed, Owner, TypeOK
    <3>2. Owner(c) = t
      BY <2>3, <3>1
    <3>3. balance'[t] = balance[t] - 1
      BY <2>5, <3>2 DEF ApplyDebit, TypeOK
    <3>4. pc[c] # "cleared"
      BY <2>5 DEF ApplyDebit, PostsInv, Sent
    <3>5. c \in Committed(t) /\ Committed(t)' = Committed(t) \ {c}
      BY <2>5, <3>2, <3>4 DEF ApplyDebit, Committed, Owner
    <3>6. Cardinality(Committed(t)') = Cardinality(Committed(t)) - 1
      BY <3>5, CommittedFinite, FS_RemoveElement
    <3>7. balance[t] - Cardinality(Committed(t)) >= 1 - Cardinality(Calls)
      BY <2>0 DEF OverdraftInv
    <3>8. Cardinality(Committed(t)) \in Nat
      BY CommittedFinite
    <3> QED
      BY <2>1, <2>2, <3>3, <3>6, <3>7, <3>8
  <2>6. ASSUME NEW c \in Calls, NEW r \in Requests,
               Admit(c, r) \/ RejectSuspended(c, r)
        PROVE  Kept
    <3>1. /\ pc[c] = "idle" /\ <<"debit", c>> \notin net
          /\ pc'[c] # "cleared" /\ <<"debit", c>> \notin net'
      BY <2>6 DEF Admit, RejectSuspended, PostsInv, Sent, TypeOK
    <3>2. \A d \in Calls : d # c => Owner(d)' = Owner(d) /\ pc'[d] = pc[d]
      BY <2>6 DEF Admit, RejectSuspended, Owner, TypeOK
    <3>3. balance' = balance /\ net' = net
      BY <2>6 DEF Admit, RejectSuspended
    <3> QED
      BY <2>2, <3>1, <3>2, <3>3 DEF Committed
  <2>7. ASSUME NEW c \in Calls,
               \/ FreeToolAnswers(c) \/ SkipLedger(c) \/ GateRefuses(c)
               \/ DebitReturns(c) \/ UpstreamSucceeds(c) \/ UpstreamFails(c)
               \/ UnbilledFails(c) \/ RefundReturns(c)
        PROVE  Kept
    BY <2>2, <2>7
       DEF FreeToolAnswers, SkipLedger, GateRefuses, DebitReturns, UpstreamSucceeds,
           UpstreamFails, UnbilledFails, RefundReturns, Committed, Owner, TypeOK
  <2>8. ASSUME NEW c \in Calls, SendDebit(c) PROVE Kept
    BY <2>2, <2>8 DEF SendDebit, Committed, Owner, TypeOK
  <2>9. ASSUME NEW c \in Calls, ApplyRefund(c) PROVE Kept
    BY <2>2, <2>9 DEF ApplyRefund, Committed, Owner, TypeOK
  <2>10. ASSUME NEW c \in Calls, Disconnect(c) \/ Release(c) PROVE Kept
    BY <2>2, <2>10 DEF Disconnect, Release, Pending, Committed, Owner, TypeOK
  <2>11. ASSUME NEW m \in Posts, LosePost(m) PROVE Kept
    BY <2>2, <2>11 DEF LosePost, Committed, Owner
  <2>12. ASSUME NEW u \in Tenants, TopUp(u) \/ Administer(u) PROVE Kept
    BY <2>2, <2>12 DEF TopUp, Administer, Committed, Owner, TypeOK
  <2>13. CASE Crash
    <3>1. Kept
      BY <2>2, <2>13 DEF Crash, Committed, Owner, TypeOK, Working
    <3> QED
      BY <2>3, <3>1
  <2>14. CASE UNCHANGED vars
    <3>1. Kept
      BY <2>2, <2>14 DEF vars, Committed, Owner
    <3> QED
      BY <2>3, <3>1
  <2> QED
    BY <2>3, <2>4, <2>5, <2>6, <2>7, <2>8, <2>9, <2>10, <2>11, <2>12, <2>13, <2>14
       DEF Next, Handler, Ledger
<1> QED
  BY <1>1, <1>2, TypeInvariant, PostsInvariant, PTL DEF Spec

\* No tenant goes further into debt than one credit for each other handler.
THEOREM OverdraftTheorem == Spec => []OverdraftBound
<1>1. TypeOK /\ OverdraftInv => OverdraftBound
  <2> SUFFICES ASSUME TypeOK, OverdraftInv, NEW t \in Tenants \ blind
               PROVE  balance[t] >= 1 - Cardinality(Calls)
    BY DEF OverdraftBound
  <2>1. balance[t] \in Int /\ Cardinality(Calls) \in Nat
    BY CallsAssumption, FS_CardinalityType DEF TypeOK
  <2> QED
    BY <2>1, CommittedFinite DEF OverdraftInv
<1> QED
  BY <1>1, TypeInvariant, OverdraftInvariant, PTL

-------------------------------------------------------------------------------
(* Suspension *)

\* While a tenant stays suspended, no call joins those that work for it or
\* can still take a credit from it.
THEOREM SuspensionTheorem == Spec => SuspensionDrains
<1>1. TypeOK /\ PostsInv /\ [Next]_vars
        => [\A t \in Tenants :
              t \in suspended /\ t \in suspended' => Exposed(t)' \subseteq Exposed(t)]_vars
  <2> SUFFICES ASSUME TypeOK, PostsInv, Next,
                      NEW t \in Tenants, t \in suspended, t \in suspended'
               PROVE  Exposed(t)' \subseteq Exposed(t)
    OBVIOUS
  <2> USE DEF Exposed, Owner, Working, TypeOK, ledger
  <2>1. ASSUME NEW c \in Calls, NEW r \in Requests,
               Admit(c, r) \/ RejectSuspended(c, r)
        PROVE  Exposed(t)' \subseteq Exposed(t)
    <3>1. pc[c] = "idle" /\ <<"debit", c>> \notin net
      BY <2>1 DEF Admit, RejectSuspended, PostsInv, Sent
    <3>2. CASE Admit(c, r)
      BY <3>1, <3>2 DEF Admit
    <3>3. CASE RejectSuspended(c, r)
      BY <3>1, <3>3 DEF RejectSuspended
    <3> QED
      BY <2>1, <3>2, <3>3
  <2>2. ASSUME NEW c \in Calls, Handler(c) PROVE Exposed(t)' \subseteq Exposed(t)
    BY <2>2 DEF Handler, FreeToolAnswers, SkipLedger, GateOpens, GateRefuses, SendDebit,
                DebitReturns, UpstreamSucceeds, UpstreamFails, UnbilledFails, RefundReturns
  <2>3. ASSUME NEW c \in Calls, Ledger(c) \/ Disconnect(c) \/ Release(c)
        PROVE  Exposed(t)' \subseteq Exposed(t)
    BY <2>3 DEF Ledger, ApplyDebit, ApplyRefund, Disconnect, Release, Pending, Ended
  <2>4. ASSUME NEW m \in Posts, LosePost(m) PROVE Exposed(t)' \subseteq Exposed(t)
    BY <2>4 DEF LosePost
  <2>5. ASSUME NEW u \in Tenants, TopUp(u) \/ Administer(u)
        PROVE  Exposed(t)' \subseteq Exposed(t)
    BY <2>5 DEF TopUp, Administer
  <2>6. CASE Crash
    BY <2>6 DEF Crash, ForgetSuspensions
  <2> QED
    BY <2>1, <2>2, <2>3, <2>4, <2>5, <2>6 DEF Next
<1> QED
  BY <1>1, TypeInvariant, PostsInvariant, PTL DEF Spec, SuspensionDrains

-------------------------------------------------------------------------------
(* No post is applied and still in flight *)

\* InFlightInv is inductive, given which posts exist.
LEMMA InFlightInvariant == Spec => []InFlightInv
<1>1. Init => InFlightInv
  BY DEF Init, InFlightInv
<1>2. TypeOK /\ PostsInv /\ InFlightInv /\ [Next]_vars => InFlightInv'
  <2> SUFFICES ASSUME TypeOK, PostsInv, InFlightInv, [Next]_vars PROVE InFlightInv'
    OBVIOUS
  <2> USE DEF InFlightInv, ledger
  <2>1. ASSUME NEW c \in Calls, NEW r \in Requests, Admit(c, r) \/ RejectSuspended(c, r)
        PROVE  InFlightInv'
    BY <2>1 DEF Admit, RejectSuspended
  <2>2. ASSUME NEW c \in Calls, Handler(c) PROVE InFlightInv'
    <3>1. CASE SendDebit(c)
      BY <3>1 DEF SendDebit, PostsInv, Sent
    <3>2. CASE UpstreamFails(c)
      BY <3>2 DEF UpstreamFails, PostsInv, Sent
    <3>3. ~SendDebit(c) /\ ~UpstreamFails(c) => UNCHANGED <<net, applied>>
      BY <2>2 DEF Handler, FreeToolAnswers, SkipLedger, GateOpens, GateRefuses,
                  DebitReturns, UpstreamSucceeds, UnbilledFails, RefundReturns
    <3> QED
      BY <3>1, <3>2, <3>3
  <2>3. ASSUME NEW c \in Calls, Ledger(c) PROVE InFlightInv'
    BY <2>3 DEF Ledger, ApplyDebit, ApplyRefund
  <2>4. ASSUME NEW c \in Calls, Disconnect(c) \/ Release(c) PROVE InFlightInv'
    BY <2>4 DEF Disconnect, Release, Pending
  <2>5. ASSUME NEW m \in Posts, LosePost(m) PROVE InFlightInv'
    BY <2>5 DEF LosePost
  <2>6. ASSUME NEW t \in Tenants, TopUp(t) \/ Administer(t) PROVE InFlightInv'
    BY <2>6 DEF TopUp, Administer
  <2>7. CASE Crash
    BY <2>7 DEF Crash
  <2>8. CASE UNCHANGED vars
    BY <2>8 DEF vars
  <2> QED
    BY <2>1, <2>2, <2>3, <2>4, <2>5, <2>6, <2>7, <2>8 DEF Next
<1> QED
  BY <1>1, <1>2, TypeInvariant, PostsInvariant, PTL DEF Spec
-------------------------------------------------------------------------------
(* The mapping *)

\* What the mapping shows of a call depends on the call alone.
LEMMA SameCall ==
  ASSUME NEW c \in Calls, pc'[c] = pc[c], req'[c] = req[c],
         result'[c] = result[c], metered' = metered
  PROVE  VerdictOf(c)' = VerdictOf(c) /\ Owner(c)' = Owner(c)
BY DEF VerdictOf, Exempt, IsBillable, Owner

\* A step that shows nothing is a stutter.
LEMMA Hidden ==
  ASSUME UNCHANGED <<balance, applied>>,
         \A c \in Calls : VerdictOf(c)' = VerdictOf(c) /\ Owner(c)' = Owner(c)
  PROVE  UNCHANGED Billing!vars
BY DEF Billing!vars

\* A step that shows as a new verdict of c alone.
LEMMA Judged ==
  ASSUME NEW c \in Calls, UNCHANGED <<balance, applied>>,
         \A d \in Calls \ {c} : VerdictOf(d)' = VerdictOf(d),
         \A d \in Calls : Owner(d)' = Owner(d)
  PROVE  /\ [d \in Calls |-> VerdictOf(d)]'
              = [[d \in Calls |-> VerdictOf(d)] EXCEPT ![c] = VerdictOf(c)']
         /\ [d \in Calls |-> Owner(d)]' = [d \in Calls |-> Owner(d)]
OBVIOUS
-------------------------------------------------------------------------------
(* The steps *)

\* What is known of a reachable state.
Known == TypeOK /\ PostsInv /\ BillingInv /\ InFlightInv

\* A call is made, to be decided or exempt from the start.
LEMMA AdmissionBegins ==
  ASSUME Known, NEW c \in Calls, NEW r \in Requests, Admit(c, r) \/ RejectSuspended(c, r)
  PROVE  Billing!Next
<1> USE DEF Known, TypeOK, Requests, ledger
<1>1. \A d \in Calls : d # c => pc'[d] = pc[d] /\ req'[d] = req[d]
  BY DEF Admit, RejectSuspended
<1>2. UNCHANGED <<result, net, applied, balance, metered>>
  BY DEF Admit, RejectSuspended
<1>3. \A d \in Calls : d # c => VerdictOf(d)' = VerdictOf(d) /\ Owner(d)' = Owner(d)
  BY <1>1, <1>2, SameCall
<1>4. /\ VerdictOf(c) = "none" /\ Owner(c)' = r.tenant
      /\ result[c] = "none"
  BY DEF Admit, RejectSuspended, VerdictOf, Owner, PostsInv
<1>5. VerdictOf(c)' \in {"open", "exempt"}
  BY <1>2, <1>4 DEF Admit, RejectSuspended, VerdictOf, Exempt
<1>6. r.tenant \in Tenants
  OBVIOUS
<1>7. Billing!Begin(c, r.tenant, VerdictOf(c)')
  BY <1>2, <1>3, <1>4, <1>5 DEF Billing!Begin
<1> QED
  BY <1>5, <1>6, <1>7 DEF Billing!Next

\* A handler's step decides its call, or shows nothing.
LEMMA HandlerDecides ==
  ASSUME Known, NEW c \in Calls, Handler(c)
  PROVE  Billing!Next \/ UNCHANGED Billing!vars
<1> USE DEF Known, TypeOK, ledger
<1>1. /\ UNCHANGED <<req, applied, balance, metered>>
      /\ \A d \in Calls : d # c => pc'[d] = pc[d] /\ result'[d] = result[d]
  BY DEF Handler, FreeToolAnswers, SkipLedger, GateOpens, GateRefuses, SendDebit,
         DebitReturns, UpstreamSucceeds, UpstreamFails, UnbilledFails, RefundReturns
<1>2. \A d \in Calls : d # c => VerdictOf(d)' = VerdictOf(d)
  BY <1>1, SameCall
<1>3. \A d \in Calls : Owner(d)' = Owner(d)
  BY <1>1 DEF Owner
<1>4. CASE VerdictOf(c)' = VerdictOf(c)
  BY <1>1, <1>2, <1>3, <1>4, Hidden
<1>5. CASE GateRefuses(c)
  <2>1. VerdictOf(c) = "open" /\ <<"debit", c>> \notin applied
    BY <1>5 DEF GateRefuses, VerdictOf, Exempt, PostsInv, Sent
  <2>2. VerdictOf(c)' = "exempt"
    BY <1>5 DEF GateRefuses, VerdictOf, Exempt
  <2>3. Billing!Refuse(c)
    BY <1>1, <1>2, <1>3, <2>1, <2>2, Judged DEF Billing!Refuse
  <2> QED
    BY <2>3 DEF Billing!Next
<1>6. CASE (UpstreamSucceeds(c) /\ metered) \/ UpstreamFails(c)
  <2>1. VerdictOf(c) = "open"
    BY <1>6 DEF UpstreamSucceeds, UpstreamFails, VerdictOf, Exempt, PostsInv
  <2>2. VerdictOf(c)' \in {"succeeded", "failed"}
    BY <1>1, <1>6 DEF UpstreamSucceeds, UpstreamFails, VerdictOf, Exempt, IsBillable, PostsInv
  <2>3. Billing!Decide(c, VerdictOf(c)')
    BY <1>1, <1>2, <1>3, <2>1, <2>2, Judged DEF Billing!Decide
  <2> QED
    BY <2>2, <2>3 DEF Billing!Next
<1>7. CASE \/ FreeToolAnswers(c) \/ SkipLedger(c) \/ GateOpens(c) \/ SendDebit(c)
           \/ DebitReturns(c) \/ RefundReturns(c)
  <2>1. VerdictOf(c)' = VerdictOf(c)
    BY <1>1, <1>7 DEF FreeToolAnswers, SkipLedger, GateOpens, SendDebit, DebitReturns,
           RefundReturns, VerdictOf, Exempt, IsBillable, PostsInv, BillingInv
  <2> QED
    BY <1>4, <2>1
<1>8. CASE (UpstreamSucceeds(c) /\ ~metered) \/ UnbilledFails(c)
  <2>1. VerdictOf(c)' = VerdictOf(c)
    BY <1>1, <1>8 DEF UpstreamSucceeds, UnbilledFails, VerdictOf, Exempt
  <2> QED
    BY <1>4, <2>1
<1> QED
  BY <1>5, <1>6, <1>7, <1>8 DEF Handler

\* The ledger takes and gives as the settlement allows.
LEMMA LedgerMoves ==
  ASSUME Known, NEW c \in Calls, Ledger(c)
  PROVE  Billing!Next
<1> USE DEF Known, TypeOK, Posts
<1>1. UNCHANGED <<pc, req, result, metered>>
  BY DEF Ledger, ApplyDebit, ApplyRefund
<1>2. \A d \in Calls : VerdictOf(d)' = VerdictOf(d) /\ Owner(d)' = Owner(d)
  BY <1>1, SameCall
<1>3. CASE ApplyDebit(c)
  <2>1. VerdictOf(c) \notin {"none", "exempt"}
    BY <1>3 DEF ApplyDebit, VerdictOf, Exempt, PostsInv, Sent
  <2>2. <<"debit", c>> \notin applied
    BY <1>3 DEF ApplyDebit, InFlightInv
  <2>3. applied' = applied \cup {<<"debit", c>>}
    BY <1>3 DEF ApplyDebit
  <2>4. Billing!Take(c)
    <3>1. /\ {d \in Calls : <<"debit", d>> \in applied'}
               = {d \in Calls : <<"debit", d>> \in applied} \cup {c}
          /\ {d \in Calls : <<"refund", d>> \in applied'}
               = {d \in Calls : <<"refund", d>> \in applied}
      BY <2>3
    <3> QED
      BY <1>2, <1>3, <2>1, <2>2, <3>1 DEF ApplyDebit, Billing!Take
  <2> QED
    BY <2>4 DEF Billing!Next
<1>4. CASE ApplyRefund(c)
  <2>1. VerdictOf(c) = "failed"
    BY <1>4 DEF ApplyRefund, VerdictOf, Exempt, PostsInv, Sent
  <2>2. <<"refund", c>> \notin applied
    BY <1>4 DEF ApplyRefund, InFlightInv
  <2>3. applied' = applied \cup {<<"refund", c>>}
    BY <1>4 DEF ApplyRefund
  <2>4. Billing!Give(c)
    <3>1. /\ {d \in Calls : <<"refund", d>> \in applied'}
               = {d \in Calls : <<"refund", d>> \in applied} \cup {c}
          /\ {d \in Calls : <<"debit", d>> \in applied'}
               = {d \in Calls : <<"debit", d>> \in applied}
      BY <2>3
    <3> QED
      BY <1>2, <1>4, <2>1, <2>2, <3>1 DEF ApplyRefund, Billing!Give
  <2> QED
    BY <2>4 DEF Billing!Next
<1> QED
  BY <1>3, <1>4 DEF Ledger

\* A disconnect or a restart drops calls that were still open.
LEMMA DroppedCalls ==
  ASSUME Known, UNCHANGED <<req, result, applied, balance, metered>>,
         \A c \in Calls :
           pc'[c] = pc[c] \/ (pc[c] \in Working /\ pc'[c] = "dropped")
  PROVE  Billing!Next
<1> USE DEF Known
<1> DEFINE gone == {c \in Calls : VerdictOf(c) = "open" /\ pc'[c] = "dropped"}
<1>1. ASSUME NEW c \in gone PROVE VerdictOf(c)' = "dropped"
  <2>1. pc'[c] = "dropped" /\ VerdictOf(c) = "open"
    OBVIOUS
  <2>2. ~Exempt(c) /\ result[c] = "none"
    BY <2>1 DEF VerdictOf, TypeOK
  <2>3. ~Exempt(c)' /\ result'[c] = "none"
    BY <2>1, <2>2 DEF Exempt, IsBillable
  <2> QED
    BY <2>1, <2>3 DEF VerdictOf
<1>2. ASSUME NEW c \in Calls \ gone PROVE VerdictOf(c)' = VerdictOf(c)
  BY DEF VerdictOf, Exempt, IsBillable, Working
<1>3. \A c \in Calls : Owner(c)' = Owner(c)
  BY DEF Owner
<1>4. Billing!Drop(gone)
  BY <1>1, <1>2, <1>3 DEF Billing!Drop
<1>5. gone \in SUBSET Calls
  OBVIOUS
<1> QED
  BY <1>4, <1>5 DEF Billing!Next

\* A slot that is used again stands for a new call.
LEMMA ReleaseRenews ==
  ASSUME Known, NEW c \in Calls, Release(c)
  PROVE  Billing!Next
<1> USE DEF Known, TypeOK, Posts
<1>1. UNCHANGED <<req, balance, metered>>
  BY DEF Release
<1>2. \A d \in Calls : d # c => pc'[d] = pc[d] /\ result'[d] = result[d]
  BY DEF Release
<1>3. \A d \in Calls : d # c => VerdictOf(d)' = VerdictOf(d)
  BY <1>1, <1>2, SameCall
<1>4. \A d \in Calls : Owner(d)' = Owner(d)
  BY <1>1 DEF Owner
<1>5. VerdictOf(c) \notin {"none", "open"}
  BY DEF Release, Ended, VerdictOf, Exempt, BillingInv
<1>6. VerdictOf(c)' = "none"
  BY DEF Release, VerdictOf
<1>7. \A d \in Calls, op \in {"debit", "refund"} :
        <<op, d>> \in applied' <=> d # c /\ <<op, d>> \in applied
  BY DEF Release
<1>8. Billing!Renew(c)
  BY <1>1, <1>3, <1>4, <1>5, <1>6, <1>7 DEF Billing!Renew
<1> QED
  BY <1>8 DEF Billing!Next

\* Billing by the gateway and the ledger settles every call at most once and
\* as it was answered.
THEOREM SettlementTheorem == Spec => ImplementsSettlement
<1>1. Init => Billing!Init
  BY BoundsAssumption DEF Init, Billing!Init, VerdictOf, Owner, Requests
<1>2. Known /\ [Next]_vars => [Billing!Next]_(Billing!vars)
  <2> SUFFICES ASSUME Known, [Next]_vars PROVE Billing!Next \/ UNCHANGED Billing!vars
    OBVIOUS
  <2>1. ASSUME NEW c \in Calls, NEW r \in Requests, Admit(c, r) \/ RejectSuspended(c, r)
        PROVE  Billing!Next
    BY <2>1, AdmissionBegins
  <2>2. ASSUME NEW c \in Calls, Handler(c) \/ Ledger(c) \/ Release(c)
        PROVE  Billing!Next \/ UNCHANGED Billing!vars
    BY <2>2, HandlerDecides, LedgerMoves, ReleaseRenews
  <2>3. ASSUME NEW c \in Calls, Disconnect(c) PROVE Billing!Next
    BY <2>3, DroppedCalls DEF Disconnect, Known, TypeOK
  <2>4. CASE Crash
    BY <2>4, DroppedCalls DEF Crash, Known, TypeOK
  <2>5. ASSUME NEW m \in Posts, LosePost(m) PROVE UNCHANGED Billing!vars
    BY <2>5, SameCall, Hidden DEF LosePost
  <2>6. ASSUME NEW t \in Tenants, TopUp(t) PROVE Billing!Next
    <3>1. \A c \in Calls : VerdictOf(c)' = VerdictOf(c) /\ Owner(c)' = Owner(c)
      BY <2>6, SameCall DEF TopUp
    <3>2. Billing!TopUp(t)
      BY <2>6, <3>1 DEF TopUp, Billing!TopUp
    <3> QED
      BY <3>2 DEF Billing!Next
  <2>7. ASSUME NEW t \in Tenants, Administer(t) PROVE UNCHANGED Billing!vars
    BY <2>7, SameCall, Hidden DEF Administer, ledger
  <2>8. CASE UNCHANGED vars
    BY <2>8, SameCall, Hidden DEF vars, ledger
  <2> QED
    BY <2>1, <2>2, <2>3, <2>4, <2>5, <2>6, <2>7, <2>8 DEF Next
<1> QED
  BY <1>1, <1>2, TypeInvariant, PostsInvariant, BillingInvariant, InFlightInvariant, PTL
     DEF Spec, Known, ImplementsSettlement, Billing!Spec
===============================================================================
