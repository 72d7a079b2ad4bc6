----------------------------- MODULE Orchestrate ------------------------------
(***************************************************************************)
(* POST /v1/orchestrate (routes/orchestrate.rs): the bounded tool loop of  *)
(* one request, while an administrator may flip the kill switch.           *)
(*                                                                         *)
(* The model is asked for a turn; a turn that asks for tools is recorded   *)
(* in the transcript, each tool is dispatched in order and its result, or  *)
(* its error, appended, and the model is asked again, up to a cap.  The    *)
(* model provider and the fabric are outside: they answer anything.        *)
(***************************************************************************)
EXTENDS KillSwitch, Integers, FiniteSets, SequencesExt

CONSTANTS
  Tenant,                  \* the tenant that sends the request
  DEFAULT_MAX_ITERATIONS,  \* 10 in the code
  HARD_MAX_ITERATIONS,     \* 50 in the code
  RequestedCaps, NoCap,    \* max_iterations a client sends; NoCap if none
  Named,                   \* the tool names the model may ask for
  MaxCalls                 \* bound: the tools it asks for in one turn

ASSUME TenantAssumption == Tenant \in Tenants
ASSUME CapsAssumption ==
  /\ DEFAULT_MAX_ITERATIONS \in 1 .. HARD_MAX_ITERATIONS
  /\ HARD_MAX_ITERATIONS \in Nat \ {0}
  /\ RequestedCaps \ {NoCap} \subseteq Nat
ASSUME MaxCallsAssumption == MaxCalls \in Nat

AllTools == {"describe_cluster", "run_subagent", "estimate_cost"}

VARIABLES
  phase,       \* what the handler waits for
  req,         \* the request
  iteration,
  messages,    \* the transcript after the client's own messages
  calls,       \* the calls of the current turn not yet dispatched
  dispatched,  \* the trace of the current turn
  trace,
  stop_reason  \* of the answer; "error" if the request fails

loop == <<phase, req, iteration, messages, calls, dispatched, trace, stop_reason>>
vars == <<suspended, loop>>

Phases == {"waiting", "resolving", "asking", "turn", "running", "ended"}

\* Fault seeded: the client's cap has no maximum.
UnclampedCap(cap) ==
  IF cap = NoCap THEN DEFAULT_MAX_ITERATIONS
  ELSE IF cap < 1 THEN 1
  ELSE cap

EffectiveCap(cap) ==
  IF cap = NoCap THEN DEFAULT_MAX_ITERATIONS
  ELSE IF cap < 1 THEN 1
  ELSE IF cap > HARD_MAX_ITERATIONS THEN HARD_MAX_ITERATIONS
  ELSE cap

MaxIterations == EffectiveCap(req.cap)

\* A turn of the model: the tools it asks for, with the ids it draws.
Turns == UNION {[1 .. n -> Named] : n \in 0 .. MaxCalls}
WithIds(names) == [i \in DOMAIN names |-> [id |-> i, name |-> names[i]]]

Init ==
  /\ KillSwitchInit
  /\ phase = "waiting"
  /\ req \in [cap : RequestedCaps]
  /\ iteration = 0
  /\ messages = <<>>
  /\ calls = <<>>
  /\ dispatched = <<>>
  /\ trace = <<>>
  /\ stop_reason = "none"

Receive ==
  /\ phase = "waiting"
  /\ phase' = "resolving"
  /\ UNCHANGED <<suspended, req, iteration, messages, calls, dispatched, trace, stop_reason>>

\* The provider is unknown, its key cannot be read, its type is not
\* supported, or the factory refuses it.
ResolveFails ==
  /\ phase = "resolving"
  /\ phase' = "ended"
  /\ stop_reason' = "error"
  /\ UNCHANGED <<suspended, req, iteration, messages, calls, dispatched, trace>>

ResolveSucceeds ==
  /\ phase = "resolving"
  /\ phase' = "asking"
  /\ iteration' = 1
  /\ UNCHANGED <<suspended, req, messages, calls, dispatched, trace, stop_reason>>

ChatFails ==
  /\ phase = "asking"
  /\ phase' = "ended"
  /\ stop_reason' = "error"
  /\ UNCHANGED <<suspended, req, iteration, messages, calls, dispatched, trace>>

ChatFinal ==
  /\ phase = "asking"
  /\ phase' = "ended"
  /\ trace' = Append(trace, [kind |-> "final_turn", iteration |-> iteration])
  /\ stop_reason' = "end_turn"
  /\ UNCHANGED <<suspended, req, iteration, messages, calls, dispatched>>

\* Fault seeded: the turn's trace keeps what the last turn dispatched.
ChatToolsUnreset(names) ==
  /\ phase = "asking"
  /\ phase' = "turn"
  /\ messages' = Append(messages,
       [role |-> "assistant", ids |-> [i \in DOMAIN names |-> i]])
  /\ calls' = WithIds(names)
  /\ UNCHANGED <<suspended, req, iteration, dispatched, trace, stop_reason>>

ChatTools(names) ==
  /\ phase = "asking"
  /\ phase' = "turn"
  /\ messages' = Append(messages,
       [role |-> "assistant", ids |-> [i \in DOMAIN names |-> i]])
  /\ calls' = WithIds(names)
  /\ dispatched' = <<>>
  /\ UNCHANGED <<suspended, req, iteration, trace, stop_reason>>

\* dispatch_tool: any tool of the catalogue.  The list the client sent only
\* filters what the model is shown (filter_tools).
Submit ==
  /\ phase = "turn" /\ calls # <<>>
  /\ Head(calls).name \in AllTools
  /\ phase' = "running"
  /\ UNCHANGED <<suspended, req, iteration, messages, calls, dispatched, trace, stop_reason>>

\* The result of the call at the head, or its error, goes to the model.
Answered(ok) ==
  /\ messages' = Append(messages, [role |-> "tool", id |-> Head(calls).id, ok |-> ok])
  /\ dispatched' = Append(dispatched,
       [id |-> Head(calls).id, name |-> Head(calls).name, ok |-> ok])
  /\ calls' = Tail(calls)
  /\ phase' = "turn"
  /\ UNCHANGED <<suspended, req, iteration, trace, stop_reason>>

\* Fault seeded: a call that cannot be dispatched is skipped.
FailsSilently ==
  /\ phase = "turn" /\ calls # <<>>
  /\ calls' = Tail(calls)
  /\ UNCHANGED <<suspended, phase, req, iteration, messages, dispatched, trace, stop_reason>>

\* Arguments that do not parse, or a tool nobody knows.
FailsLocally == phase = "turn" /\ calls # <<>> /\ Answered(FALSE)

ToolReturns(ok) == phase = "running" /\ Answered(ok)

\* Fault seeded: one iteration too many.
NextIterationOffByOne ==
  /\ phase = "turn" /\ calls = <<>>
  /\ iteration <= MaxIterations
  /\ trace' = Append(trace,
       [kind |-> "tool_turn", iteration |-> iteration, tools |-> dispatched])
  /\ iteration' = iteration + 1
  /\ phase' = "asking"
  /\ UNCHANGED <<suspended, req, messages, calls, dispatched, stop_reason>>

NextIteration ==
  /\ phase = "turn" /\ calls = <<>>
  /\ iteration < MaxIterations
  /\ trace' = Append(trace,
       [kind |-> "tool_turn", iteration |-> iteration, tools |-> dispatched])
  /\ iteration' = iteration + 1
  /\ phase' = "asking"
  /\ UNCHANGED <<suspended, req, messages, calls, dispatched, stop_reason>>

OutOfIterations ==
  /\ phase = "turn" /\ calls = <<>>
  /\ iteration >= MaxIterations
  /\ trace' = Append(trace,
       [kind |-> "tool_turn", iteration |-> iteration, tools |-> dispatched])
  /\ stop_reason' = "max_iterations"
  /\ phase' = "ended"
  /\ UNCHANGED <<suspended, req, iteration, messages, calls, dispatched>>

Loop ==
  \/ Receive \/ ResolveFails \/ ResolveSucceeds
  \/ ChatFails \/ ChatFinal \/ \E names \in Turns : ChatTools(names)
  \/ Submit \/ FailsLocally \/ \E ok \in BOOLEAN : ToolReturns(ok)
  \/ NextIteration \/ OutOfIterations

Administer ==
  /\ \E t \in Tenants : SuspendTenant(t) \/ ResumeTenant(t)
  /\ UNCHANGED loop

Next == Loop \/ Administer

(* The providers and the fabric answer, or their clients time out.          *)
Spec == Init /\ [][Next]_vars /\ WF_vars(Loop)
-------------------------------------------------------------------------------
(* Properties *)

\* Where the transcript has the turns of the model, the results of tools, and
\* the turn a message belongs to.
Role(p) == messages[p].role
TurnPositions == {p \in DOMAIN messages : Role(p) = "assistant"}
ResultPositions == {p \in DOMAIN messages : Role(p) = "tool"}
TurnStart(p) == SelectLastInSubSeq(messages, 1, p, LAMBDA m : m.role = "assistant")
TurnNumber(p) == Cardinality({q \in TurnPositions : q <= p})

TypeOK ==
  /\ KillSwitchTypeOK
  /\ phase \in Phases
  /\ req \in [cap : RequestedCaps]
  /\ iteration \in 0 .. HARD_MAX_ITERATIONS
  /\ Len(calls) <= MaxCalls /\ Len(dispatched) <= MaxCalls
  /\ stop_reason \in {"none", "error", "end_turn", "max_iterations"}

(***************************************************************************)
(* The transcript can be replayed to the provider ("matches Anthropic's    *)
(* transcript replay rules"), and the provider is not asked for more turns *)
(* than the hard cap: the loop implements ToolProtocol.  What is owed is   *)
(* read off the transcript itself: the ids of its last assistant turn less *)
(* the results after it, which must answer them in order.                  *)
(***************************************************************************)
Owed ==
  LET last == TurnStart(Len(messages))
      ids == messages[last].ids
      given == [i \in 1 .. Len(messages) - last |-> messages[last + i].id]
  IN IF last = 0 THEN <<>>
     ELSE IF IsPrefix(given, ids) THEN SubSeq(ids, Len(given) + 1, Len(ids))
     ELSE <<"garbled">>

Replay == INSTANCE ToolProtocol WITH
  MaxTurns <- HARD_MAX_ITERATIONS,
  owed <- Owed,
  turns <- Cardinality(TurnPositions),
  open <- phase # "ended"

ImplementsToolProtocol == Replay!Spec

(***************************************************************************)
(* The trace the client gets tells what the model was told: what it says   *)
(* of the turns traced so far, and of the current one, are the results in  *)
(* the transcript, each in its turn and at its place.                      *)
(***************************************************************************)
Told ==
  {<<TurnNumber(p), p - TurnStart(p), messages[p].id, messages[p].ok>> :
     p \in ResultPositions}

Outcomes(turn, tools) == {<<turn, k, tools[k].id, tools[k].ok>> : k \in DOMAIN tools}
ToolTurns == {i \in DOMAIN trace : trace[i].kind = "tool_turn"}
TracedTurns == UNION {Outcomes(i, trace[i].tools) : i \in ToolTurns}
Traced ==
  TracedTurns
  \cup (IF phase \in {"turn", "running"} THEN Outcomes(iteration, dispatched) ELSE {})

TraceTellsTranscript == Traced = Told

(***************************************************************************)
(* The stop reason is the true one: "max_iterations" is said exactly when  *)
(* the client's cap, clamped, was spent on turns that all asked for tools, *)
(* "end_turn" exactly when the model had its last word, within the cap,    *)
(* and a request that ends in neither way is answered with an error.       *)
(***************************************************************************)
CapSpent ==
  Len(trace) = MaxIterations /\ \A i \in DOMAIN trace : trace[i].kind = "tool_turn"

HadLastWord == \E i \in DOMAIN trace : trace[i].kind = "final_turn"

StopReasonIsTrue ==
  /\ Len(trace) <= MaxIterations
  /\ \A i \in DOMAIN trace : trace[i].iteration = i
  /\ \A i \in DOMAIN trace : trace[i].kind = "final_turn" => i = Len(trace)
  /\ stop_reason = "max_iterations" <=> CapSpent
  /\ stop_reason = "end_turn" <=> HadLastWord
  /\ stop_reason = "none" <=> phase # "ended"

(***************************************************************************)
(* lib.rs: all tool calls from a suspended tenant return 402.  So no tool  *)
(* is submitted to the fabric for a tenant under suspension.               *)
(***************************************************************************)
KillSwitchStopsTools ==
  [][phase = "turn" /\ phase' = "running" => Tenant \notin suspended]_vars
===============================================================================
