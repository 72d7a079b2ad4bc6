-------------------------- MODULE OrchestrateProofs ---------------------------
(***************************************************************************)
(* The loop of /v1/orchestrate stays within its cap and says truly why it  *)
(* stopped; the transcript it builds can be replayed to the provider, and  *)
(* the trace tells what is in it: for every cap, every list of tools and   *)
(* every answer of the provider and the fabric.                            *)
(***************************************************************************)
EXTENDS Orchestrate, FiniteSetTheorems, SequenceTheorems, TLAPS

\* The cap of a request is at least one turn and at most the hard cap.
LEMMA CapClamped ==
  ASSUME NEW cap \in RequestedCaps
  PROVE  EffectiveCap(cap) \in 1 .. HARD_MAX_ITERATIONS
BY CapsAssumption DEF EffectiveCap

\* A turn asks for at most MaxCalls tools.
LEMMA TurnTyped ==
  ASSUME NEW names \in Turns
  PROVE  /\ WithIds(names) \in Seq([id : Nat, name : Named])
         /\ Len(WithIds(names)) <= MaxCalls
<1>1. PICK n \in 0 .. MaxCalls : names \in [1 .. n -> Named]
  BY DEF Turns
<1> DEFINE Call == [id : Nat, name : Named]
           ids == WithIds(names)
<1>2. ids \in [1 .. n -> Call]
  BY <1>1, MaxCallsAssumption DEF WithIds
<1>3. n \in Nat /\ n <= MaxCalls
  BY MaxCallsAssumption
<1> HIDE DEF Call, ids
<1>4. ids \in Seq(Call) /\ Len(ids) = n
  BY <1>2, <1>3
<1> QED
  BY <1>3, <1>4 DEF Call, ids

-------------------------------------------------------------------------------
(* Iterations, the trace and the stop reason *)

Call == [id : Nat, name : Named]
Done == [id : Nat, name : Named, ok : BOOLEAN]
Entries == [kind : {"final_turn"}, iteration : Nat]
             \cup [kind : {"tool_turn"}, iteration : Nat, tools : Seq(Done)]

(* The calls of a turn are either waiting or dispatched. *)
CallsTyped ==
  /\ calls \in Seq(Call) /\ dispatched \in Seq(Done)
  /\ Len(calls) + Len(dispatched) <= MaxCalls
  /\ phase = "running" => calls # <<>>

(* Every turn that asked for tools is traced once, at its number, before   *)
(* the next is asked for, and nothing else is until the request ends.      *)
TraceCounts ==
  /\ trace \in Seq(Entries) /\ iteration \in Nat /\ iteration <= MaxIterations
  /\ \A i \in DOMAIN trace : trace[i].iteration = i
  /\ phase \in {"waiting", "resolving"} => trace = <<>>
  /\ phase \in {"asking", "turn", "running"} => iteration = Len(trace) + 1
  /\ phase # "ended" =>
       /\ stop_reason = "none"
       /\ \A i \in DOMAIN trace : trace[i].kind = "tool_turn"

LoopInv ==
  /\ KillSwitchTypeOK
  /\ phase \in Phases
  /\ req \in [cap : RequestedCaps]
  /\ stop_reason \in {"none", "error", "end_turn", "max_iterations"}
  /\ CallsTyped
  /\ TraceCounts
  /\ StopReasonIsTrue

\* The trace with one more entry.
LEMMA Traces ==
  ASSUME TraceCounts, NEW entry \in Entries, NEW longer, longer = Append(trace, entry)
  PROVE  /\ longer \in Seq(Entries) /\ Len(longer) = Len(trace) + 1
         /\ DOMAIN longer = 1 .. Len(trace) + 1 /\ DOMAIN trace = 1 .. Len(trace)
         /\ longer[Len(trace) + 1] = entry
         /\ \A i \in DOMAIN trace : longer[i] = trace[i]
BY AppendProperties DEF TraceCounts

\* The answer to the call at the head: one less waits, one more is dispatched.
LEMMA AnsweredKeeps ==
  ASSUME LoopInv, NEW ok \in BOOLEAN, calls # <<>>, Answered(ok),
         phase \in {"turn", "running"}
  PROVE  LoopInv'
<1> DEFINE done == [id |-> Head(calls).id, name |-> Head(calls).name, ok |-> ok]
<1>1. /\ calls' = Tail(calls) /\ dispatched' = Append(dispatched, done) /\ phase' = "turn"
      /\ UNCHANGED <<suspended, req, iteration, trace, stop_reason>>
  BY DEF Answered
<1>2. CallsTyped'
  <2>1. Head(calls) \in Call
    BY DEF LoopInv, CallsTyped
  <2>2. done \in Done
    BY <2>1 DEF Call, Done
  <2> HIDE DEF done
  <2> QED
    BY <1>1, <2>2 DEF LoopInv, CallsTyped
<1>3. TraceCounts' /\ StopReasonIsTrue'
  BY <1>1 DEF LoopInv, TraceCounts, StopReasonIsTrue, CapSpent, HadLastWord, MaxIterations
<1> QED
  BY <1>1, <1>2, <1>3 DEF LoopInv, Phases, KillSwitchTypeOK

\* A turn that asks for tools.
LEMMA ChatToolsKeeps ==
  ASSUME LoopInv, NEW names \in Turns, ChatTools(names)
  PROVE  LoopInv'
<1>1. /\ calls' = WithIds(names) /\ dispatched' = <<>>
      /\ phase = "asking" /\ phase' = "turn"
      /\ UNCHANGED <<suspended, req, iteration, trace, stop_reason>>
  BY DEF ChatTools
<1>2. CallsTyped'
  <2>1. WithIds(names) \in Seq(Call) /\ Len(WithIds(names)) <= MaxCalls
    BY TurnTyped DEF Call
  <2>2. <<>> \in Seq(Done) /\ Len(<<>>) = 0 /\ Len(WithIds(names)) \in Nat
    BY <2>1
  <2> QED
    BY <1>1, <2>1, <2>2 DEF CallsTyped
<1>3. TraceCounts' /\ StopReasonIsTrue'
  BY <1>1 DEF LoopInv, TraceCounts, StopReasonIsTrue, CapSpent, HadLastWord, MaxIterations
<1> QED
  BY <1>1, <1>2, <1>3 DEF LoopInv, Phases, KillSwitchTypeOK

\* The end of a turn that asked for tools: it is traced, and there is another,
\* or the cap is reached.
LEMMA TurnEndKeeps ==
  ASSUME LoopInv, NextIteration \/ OutOfIterations
  PROVE  LoopInv'
<1> DEFINE entry == [kind |-> "tool_turn", iteration |-> iteration, tools |-> dispatched]
<1>1. /\ trace' = Append(trace, entry) /\ phase = "turn"
      /\ UNCHANGED <<suspended, req, calls, dispatched>>
  BY DEF NextIteration, OutOfIterations
<1>2. entry \in Entries /\ entry.iteration = iteration /\ entry.kind = "tool_turn"
  BY DEF LoopInv, CallsTyped, TraceCounts, Entries
<1> HIDE DEF entry
<1>3. /\ trace' \in Seq(Entries) /\ Len(trace') = Len(trace) + 1 /\ Len(trace) \in Nat
      /\ \A i \in DOMAIN trace' : trace'[i].iteration = i /\ trace'[i].kind = "tool_turn"
      /\ iteration = Len(trace) + 1 /\ iteration <= MaxIterations
      /\ MaxIterations' = MaxIterations /\ MaxIterations \in Nat
  <2>1. \A i \in DOMAIN trace : trace[i].iteration = i /\ trace[i].kind = "tool_turn"
    BY <1>1 DEF LoopInv, TraceCounts
  <2>2. MaxIterations \in Nat
    BY CapClamped, CapsAssumption DEF LoopInv, MaxIterations
  <2> QED
    BY <1>1, <1>2, <2>1, <2>2, Traces DEF LoopInv, TraceCounts, MaxIterations
<1>4. CallsTyped'
  BY <1>1 DEF LoopInv, CallsTyped, NextIteration, OutOfIterations
<1>5. CASE NextIteration
  <2>1. /\ iteration' = iteration + 1 /\ phase' = "asking" /\ iteration < MaxIterations
        /\ stop_reason' = stop_reason
    BY <1>5 DEF NextIteration
  <2>2. stop_reason = "none"
    BY <1>1 DEF LoopInv, TraceCounts
  <2>3. TraceCounts'
    BY <1>3, <2>1, <2>2 DEF TraceCounts
  <2>4. StopReasonIsTrue'
    BY <1>3, <2>1, <2>2 DEF StopReasonIsTrue, CapSpent, HadLastWord
  <2> QED
    BY <1>1, <1>4, <2>1, <2>3, <2>4 DEF LoopInv, Phases, KillSwitchTypeOK
<1>6. CASE OutOfIterations
  <2>1. /\ iteration' = iteration /\ phase' = "ended" /\ iteration >= MaxIterations
        /\ stop_reason' = "max_iterations"
    BY <1>6 DEF OutOfIterations
  <2>2. TraceCounts'
    BY <1>3, <2>1 DEF TraceCounts
  <2>3. StopReasonIsTrue'
    BY <1>3, <2>1 DEF StopReasonIsTrue, CapSpent, HadLastWord
  <2> QED
    BY <1>1, <1>4, <2>1, <2>2, <2>3 DEF LoopInv, Phases, KillSwitchTypeOK
<1> QED
  BY <1>5, <1>6

\* The last word of the model.
LEMMA FinalKeeps ==
  ASSUME LoopInv, ChatFinal
  PROVE  LoopInv'
<1> DEFINE entry == [kind |-> "final_turn", iteration |-> iteration]
<1>1. /\ trace' = Append(trace, entry) /\ phase = "asking" /\ phase' = "ended"
      /\ stop_reason' = "end_turn" /\ UNCHANGED <<suspended, req, iteration, calls, dispatched>>
  BY DEF ChatFinal
<1>2. entry \in Entries /\ entry.iteration = iteration /\ entry.kind = "final_turn"
  BY DEF LoopInv, TraceCounts, Entries
<1> HIDE DEF entry
<1>3. /\ trace' \in Seq(Entries) /\ Len(trace') = Len(trace) + 1 /\ Len(trace) \in Nat
      /\ DOMAIN trace' = 1 .. Len(trace')
      /\ \A i \in DOMAIN trace' :
           trace'[i].iteration = i /\ (trace'[i].kind = "final_turn" <=> i = Len(trace'))
      /\ iteration = Len(trace) + 1 /\ iteration <= MaxIterations /\ iteration \in Nat
      /\ MaxIterations' = MaxIterations /\ MaxIterations \in Nat
  <2>1. \A i \in DOMAIN trace : trace[i].iteration = i /\ trace[i].kind = "tool_turn"
    BY <1>1 DEF LoopInv, TraceCounts
  <2>2. MaxIterations \in Nat
    BY CapClamped, CapsAssumption DEF LoopInv, MaxIterations
  <2> QED
    BY <1>1, <1>2, <2>1, <2>2, Traces DEF LoopInv, TraceCounts, MaxIterations
<1>4. CallsTyped'
  BY <1>1 DEF LoopInv, CallsTyped
<1>5. TraceCounts'
  BY <1>1, <1>3 DEF TraceCounts
<1>6. StopReasonIsTrue'
  BY <1>1, <1>3 DEF StopReasonIsTrue, CapSpent, HadLastWord
<1> QED
  BY <1>1, <1>4, <1>5, <1>6 DEF LoopInv, Phases, KillSwitchTypeOK

\* The rest of the handler, and the administrator.
LEMMA OthersKeep ==
  ASSUME LoopInv,
         \/ Receive \/ ResolveFails \/ ResolveSucceeds \/ ChatFails \/ Submit
         \/ Administer \/ UNCHANGED vars
  PROVE  LoopInv'
<1>1. CASE Receive \/ ResolveFails \/ ChatFails \/ Submit
  <2>1. /\ UNCHANGED <<suspended, req, iteration, calls, dispatched, trace>>
        /\ phase' \in Phases /\ stop_reason \in {"none", "error"}
        /\ stop_reason' \in {"none", "error"}
        /\ phase' # "ended" <=> stop_reason' = "none"
        /\ phase' = "running" => calls # <<>>
    BY <1>1 DEF Receive, ResolveFails, ChatFails, Submit, Phases, LoopInv, TraceCounts
  <2>2. CallsTyped'
    BY <2>1 DEF LoopInv, CallsTyped
  <2>3. /\ phase # "ended"
        /\ phase' \in {"waiting", "resolving"} => phase \in {"waiting", "resolving"}
        /\ phase' \in {"asking", "turn", "running"} => phase \in {"asking", "turn", "running"}
    BY <1>1 DEF Receive, ResolveFails, ChatFails, Submit
  <2>4. TraceCounts'
    BY <2>1, <2>3 DEF LoopInv, TraceCounts, MaxIterations
  <2>5. StopReasonIsTrue'
    BY <2>1, <2>3 DEF LoopInv, TraceCounts, StopReasonIsTrue, CapSpent, HadLastWord, MaxIterations
  <2> QED
    BY <2>1, <2>2, <2>4, <2>5 DEF LoopInv, KillSwitchTypeOK
<1>2. CASE ResolveSucceeds
  <2>1. /\ UNCHANGED <<suspended, req, calls, dispatched, trace, stop_reason>>
        /\ phase = "resolving" /\ phase' = "asking" /\ iteration' = 1
    BY <1>2 DEF ResolveSucceeds
  <2>2. trace = <<>> /\ stop_reason = "none" /\ 1 <= MaxIterations
    BY <2>1, CapClamped, CapsAssumption DEF LoopInv, TraceCounts, MaxIterations
  <2>3. TraceCounts' /\ StopReasonIsTrue'
    BY <2>1, <2>2 DEF LoopInv, TraceCounts, StopReasonIsTrue, CapSpent, HadLastWord, MaxIterations
  <2> QED
    BY <2>1, <2>3 DEF LoopInv, CallsTyped, Phases, KillSwitchTypeOK
<1>3. CASE Administer \/ UNCHANGED vars
  <2>1. UNCHANGED loop /\ KillSwitchTypeOK'
    BY <1>3 DEF Administer, SuspendTenant, ResumeTenant, KillSwitchTypeOK, vars, LoopInv
  <2>2. CallsTyped' /\ TraceCounts' /\ StopReasonIsTrue'
    BY <2>1 DEF loop, LoopInv, CallsTyped, TraceCounts, StopReasonIsTrue, CapSpent, HadLastWord, MaxIterations
  <2> QED
    BY <2>1, <2>2 DEF loop, LoopInv
<1> QED
  BY <1>1, <1>2, <1>3

\* LoopInv is inductive.
LEMMA LoopInvariant == Spec => []LoopInv
<1>1. Init => LoopInv
  <2> SUFFICES ASSUME Init PROVE LoopInv
    OBVIOUS
  <2>1. CallsTyped
    BY MaxCallsAssumption DEF Init, CallsTyped
  <2>2. EffectiveCap(req.cap) \in Nat \ {0}
    BY CapClamped, CapsAssumption DEF Init
  <2>3. TraceCounts /\ StopReasonIsTrue
    BY <2>2 DEF Init, TraceCounts, StopReasonIsTrue, CapSpent, HadLastWord, MaxIterations
  <2> QED
    BY <2>1, <2>3 DEF Init, LoopInv, Phases, KillSwitchInit, KillSwitchTypeOK
<1>2. LoopInv /\ [Next]_vars => LoopInv'
  <2>1. LoopInv /\ FailsLocally => LoopInv'
    BY AnsweredKeeps DEF FailsLocally
  <2>2. \A ok \in BOOLEAN : LoopInv /\ ToolReturns(ok) => LoopInv'
    BY AnsweredKeeps DEF ToolReturns, LoopInv, CallsTyped
  <2> QED
    BY <2>1, <2>2, ChatToolsKeeps, TurnEndKeeps, FinalKeeps, OthersKeep DEF Next, Loop
<1> QED
  BY <1>1, <1>2, PTL DEF Spec

\* The loop keeps its types, its bound on calls and the hard cap on iterations.
THEOREM TypeInvariant == Spec => []TypeOK
<1>1. LoopInv => TypeOK
  <2> SUFFICES ASSUME LoopInv PROVE TypeOK
    OBVIOUS
  <2>1. Len(calls) \in Nat /\ Len(dispatched) \in Nat
    BY DEF LoopInv, CallsTyped
  <2>2. MaxIterations \in 1 .. HARD_MAX_ITERATIONS
    BY CapClamped DEF LoopInv, MaxIterations
  <2> QED
    BY <2>1, <2>2, CapsAssumption, MaxCallsAssumption
       DEF LoopInv, CallsTyped, TraceCounts, TypeOK
<1> QED
  BY <1>1, LoopInvariant, PTL

(***************************************************************************)
(* The stop reason is the true one: "max_iterations" is said exactly when  *)
(* the client's cap, clamped, was spent on turns that all asked for tools, *)
(* "end_turn" exactly when the model had its last word, within the cap,    *)
(* and a request that ends in neither way is answered with an error.       *)
(***************************************************************************)
THEOREM StopReasonInvariant == Spec => []StopReasonIsTrue
<1>1. LoopInv => StopReasonIsTrue
  BY DEF LoopInv
<1> QED
  BY <1>1, LoopInvariant, PTL
-------------------------------------------------------------------------------
(* The transcript *)

Message == [role : {"assistant"}, ids : Seq(Nat)]
             \cup [role : {"tool"}, id : Nat, ok : BOOLEAN]

\* The turns are finitely many, and the last one up to p is one of them.
LEMMA TurnsFinite ==
  ASSUME messages \in Seq(Message), NEW T \in SUBSET TurnPositions
  PROVE  IsFiniteSet(T) /\ Cardinality(T) \in Nat
<1>1. DOMAIN messages = 1 .. Len(messages) /\ Len(messages) \in Nat
  OBVIOUS
<1>2. IsFiniteSet(1 .. Len(messages)) /\ T \subseteq 1 .. Len(messages)
  BY <1>1, FS_Interval DEF TurnPositions
<1> QED
  BY <1>2, FS_Subset, FS_CardinalityType

\* The transcript grows by a message: what was there keeps its turn and place.
LEMMA Grows ==
  ASSUME messages \in Seq(Message), NEW m \in Message, messages' = Append(messages, m),
         NEW n \in Nat, n = Len(messages) + 1
  PROVE  /\ messages' \in Seq(Message) /\ Len(messages') = n /\ messages'[n] = m
         /\ DOMAIN messages = 1 .. n - 1 /\ DOMAIN messages' = 1 .. n
         /\ \A p \in DOMAIN messages : messages'[p] = messages[p]
         /\ TurnPositions' = TurnPositions \cup (IF m.role = "assistant" THEN {n} ELSE {})
         /\ ResultPositions' = ResultPositions \cup (IF m.role = "tool" THEN {n} ELSE {})
         /\ \A p \in DOMAIN messages :
              TurnStart(p)' = TurnStart(p) /\ TurnNumber(p)' = TurnNumber(p)
<1>1. /\ messages' \in Seq(Message) /\ Len(messages') = n /\ messages'[n] = m
      /\ Len(messages) \in Nat
      /\ DOMAIN messages = 1 .. n - 1 /\ DOMAIN messages' = 1 .. n
      /\ \A p \in DOMAIN messages : messages'[p] = messages[p]
  BY AppendProperties
<1>2. /\ TurnPositions' = TurnPositions \cup (IF m.role = "assistant" THEN {n} ELSE {})
      /\ ResultPositions' = ResultPositions \cup (IF m.role = "tool" THEN {n} ELSE {})
  BY <1>1 DEF TurnPositions, ResultPositions, Role
<1>3. ASSUME NEW p \in DOMAIN messages
      PROVE  TurnStart(p)' = TurnStart(p) /\ TurnNumber(p)' = TurnNumber(p)
  <2>1. p \in Nat /\ p <= Len(messages) /\ p <= n - 1 /\ p <= Len(messages')
    BY <1>1
  <2>2. {q \in TurnPositions' : q <= p} = {q \in TurnPositions : q <= p}
    BY <1>2, <2>1
  <2>3. TurnNumber(p)' = TurnNumber(p)
    BY <2>2 DEF TurnNumber
  <2>4. {i \in 1 .. p : messages'[i].role = "assistant"}
          = {i \in 1 .. p : messages[i].role = "assistant"}
    BY <1>1, <2>1
  <2>5. TurnStart(p)' = TurnStart(p)
    BY <2>4 DEF TurnStart, SelectLastInSubSeq
  <2> QED
    BY <2>3, <2>5
<1> QED
  BY <1>1, <1>2, <1>3

\* A new turn starts at its own message.
LEMMA TurnAdded ==
  ASSUME messages \in Seq(Message), NEW m \in Message, messages' = Append(messages, m),
         NEW n \in Nat, n = Len(messages) + 1, m.role = "assistant"
  PROVE  /\ TurnStart(n)' = n
         /\ Cardinality(TurnPositions)' = Cardinality(TurnPositions) + 1
<1>1. /\ messages' \in Seq(Message) /\ Len(messages') = n /\ messages'[n] = m /\ n > 0
      /\ DOMAIN messages = 1 .. n - 1 /\ TurnPositions' = TurnPositions \cup {n}
  BY Grows
<1>2. n \in {i \in 1 .. n : messages'[i].role = "assistant"}
  BY <1>1
<1>3. Max({i \in 1 .. n : messages'[i].role = "assistant"}) = n
  <2> DEFINE I == {i \in 1 .. n : messages'[i].role = "assistant"}
  <2>1. n \in I /\ \A i \in I : i \in Nat /\ i <= n
    BY <1>2
  <2> HIDE DEF I
  <2>2. \A x : x \in I /\ (\A y \in I : x >= y) => x = n
    BY <2>1
  <2>3. Max(I) = n
    BY <2>1, <2>2 DEF Max
  <2> QED
    BY <2>3 DEF I
<1>4. TurnStart(n)' = n
  BY <1>2, <1>3 DEF TurnStart, SelectLastInSubSeq
<1>5. n \notin TurnPositions
  BY <1>1 DEF TurnPositions
<1> QED
  BY <1>1, <1>4, <1>5, TurnsFinite, FS_AddElement

\* A result belongs to the turn before it.
LEMMA ResultAdded ==
  ASSUME messages \in Seq(Message), NEW m \in Message, messages' = Append(messages, m),
         NEW n \in Nat, n = Len(messages) + 1, m.role = "tool"
  PROVE  /\ TurnStart(n)' = TurnStart(n - 1)
         /\ TurnNumber(n)' = Cardinality(TurnPositions)
         /\ TurnPositions' = TurnPositions
<1>1. /\ messages' \in Seq(Message) /\ Len(messages') = n /\ messages'[n] = m /\ n > 0
      /\ DOMAIN messages = 1 .. n - 1 /\ TurnPositions' = TurnPositions
      /\ \A p \in 1 .. n - 1 : messages'[p] = messages[p]
  <2>1. /\ messages' \in Seq(Message) /\ Len(messages') = n /\ messages'[n] = m
        /\ DOMAIN messages = 1 .. n - 1 /\ \A p \in DOMAIN messages : messages'[p] = messages[p]
    BY Grows
  <2>2. TurnPositions' = TurnPositions \cup (IF m.role = "assistant" THEN {n} ELSE {})
    BY Grows
  <2>3. n > 0
    OBVIOUS
  <2>4. TurnPositions' = TurnPositions
    BY <2>2
  <2> QED
    BY <2>1, <2>3, <2>4
<1>2. {i \in 1 .. n : messages'[i].role = "assistant"}
        = {i \in 1 .. n - 1 : messages[i].role = "assistant"}
  BY <1>1
<1>3. TurnStart(n)' = TurnStart(n - 1)
  BY <1>2 DEF TurnStart, SelectLastInSubSeq
<1>4. {q \in TurnPositions : q <= n} = TurnPositions
  BY <1>1 DEF TurnPositions
<1> QED
  BY <1>1, <1>3, <1>4 DEF TurnNumber

(* While a turn is open, its message holds the ids of all its calls, the   *)
(* results after it answer the first of them, as the handler has recorded, *)
(* and the pending calls are the rest.                                     *)
OpenTurn ==
  LET last == TurnStart(Len(messages)) IN
  /\ last \in TurnPositions /\ Len(messages) = last + Len(dispatched)
  /\ messages[last].ids = [i \in 1 .. Len(dispatched) + Len(calls) |-> i]
  /\ \A i \in 1 .. Len(dispatched) : messages[last + i].id = i
  /\ \A j \in 1 .. Len(calls) : calls[j].id = Len(dispatched) + j

TranscriptInv ==
  /\ messages \in Seq(Message)
  /\ phase \in {"waiting", "resolving"} => messages = <<>>
  /\ phase \in {"turn", "running"} => OpenTurn /\ Cardinality(TurnPositions) = iteration
  /\ phase = "asking" => Owed = <<>> /\ Cardinality(TurnPositions) = Len(trace)

\* What is left of the ids 1 .. d + k after the first d are answered.
LEMMA IdsLeft ==
  ASSUME NEW d \in Nat, NEW k \in Nat
  PROVE  LET given == [i \in 1 .. d |-> i]
             ids == [i \in 1 .. d + k |-> i]
         IN  /\ IsPrefix(given, ids)
             /\ SubSeq(ids, Len(given) + 1, Len(ids)) = [i \in 1 .. k |-> d + i]
<1> DEFINE given == [i \in 1 .. d |-> i]
           ids == [i \in 1 .. d + k |-> i]
<1>1. Len(given) = d /\ Len(ids) = d + k
  OBVIOUS
<1>2. given \in Seq(Nat) /\ ids \in Seq(Nat)
  OBVIOUS
<1>3. /\ \A i \in 1 .. d : given[i] = i
      /\ \A i \in 1 .. d + k : ids[i] = i
  OBVIOUS
<1> HIDE DEF given, ids
<1>4. SubSeq(given, 1, d) = SubSeq(ids, 1, d)
  BY <1>1, <1>2, <1>3
<1>5. IsPrefix(given, ids)
  BY <1>1, <1>4 DEF IsPrefix
<1>6. SubSeq(ids, d + 1, d + k) = [i \in 1 .. k |-> d + i]
  BY <1>1, <1>2, <1>3
<1> QED
  BY <1>1, <1>5, <1>6 DEF given, ids

\* What an open turn owes are the pending calls.
LEMMA OwedIsPending ==
  CallsTyped /\ messages \in Seq(Message) /\ OpenTurn
    => Owed = [i \in 1 .. Len(calls) |-> Len(dispatched) + i]
<1> SUFFICES ASSUME CallsTyped, messages \in Seq(Message), OpenTurn
             PROVE  Owed = [i \in 1 .. Len(calls) |-> Len(dispatched) + i]
  OBVIOUS
<1> DEFINE last == TurnStart(Len(messages))
           given == [i \in 1 .. Len(messages) - last |-> messages[last + i].id]
           ids == messages[last].ids
           d == Len(dispatched)
           k == Len(calls)
<1>1. d \in Nat /\ k \in Nat
  BY DEF CallsTyped
<1>2. last \in Nat /\ last # 0 /\ Len(messages) - last = d
  <2>1. last \in 1 .. Len(messages) /\ Len(messages) \in Nat
    BY DEF OpenTurn, TurnPositions
  <2>2. Len(messages) = last + d
    BY DEF OpenTurn
  <2> HIDE DEF last, d
  <2> QED
    BY <1>1, <2>1, <2>2
<1>3. given = [i \in 1 .. d |-> i] /\ ids = [i \in 1 .. d + k |-> i]
  BY <1>2 DEF OpenTurn
<1>4. IsPrefix(given, ids) /\ SubSeq(ids, Len(given) + 1, Len(ids)) = [i \in 1 .. k |-> d + i]
  <2> HIDE DEF d, k, given, ids
  <2> QED
    BY ONLY <1>1, <1>3, IdsLeft
<1>5. Owed = IF last = 0 THEN <<>>
             ELSE IF IsPrefix(given, ids) THEN SubSeq(ids, Len(given) + 1, Len(ids))
             ELSE <<"garbled">>
  BY DEF Owed
<1> HIDE DEF last, given, ids, d, k
<1>6. Owed = [i \in 1 .. k |-> d + i]
  BY <1>2, <1>4, <1>5
<1> QED
  BY <1>6 DEF d, k

LEMMA OwedIsPendingNext ==
  (CallsTyped /\ messages \in Seq(Message) /\ OpenTurn
    => Owed = [i \in 1 .. Len(calls) |-> Len(dispatched) + i])'
BY OwedIsPending, PTL

\* Before the first turn nothing is owed.
LEMMA NothingSaid ==
  ASSUME messages = <<>>
  PROVE  Owed = <<>> /\ TurnPositions = {} /\ ResultPositions = {}
         /\ Cardinality(TurnPositions) = 0
<1>1. DOMAIN messages = {} /\ Len(messages) = 0
  OBVIOUS
<1>2. TurnPositions = {} /\ ResultPositions = {}
  BY <1>1 DEF TurnPositions, ResultPositions
<1>3. TurnStart(Len(messages)) = 0
  <2>1. {i \in 1 .. Len(messages) : messages[i].role = "assistant"} = {}
    BY <1>1
  <2> QED
    BY <2>1 DEF TurnStart, SelectLastInSubSeq
<1> QED
  BY <1>2, <1>3, FS_EmptySet DEF Owed

\* A turn of the model opens with all of its calls pending.
LEMMA TurnOpens ==
  ASSUME LoopInv, TranscriptInv, NEW names \in Turns, ChatTools(names)
  PROVE  TranscriptInv'
<1> DEFINE m == [role |-> "assistant", ids |-> [i \in DOMAIN names |-> i]]
<1>1. PICK k \in 0 .. MaxCalls : names \in [1 .. k -> Named]
  BY DEF Turns
<1>2. k \in Nat /\ DOMAIN names = 1 .. k
  BY <1>1, MaxCallsAssumption
<1>3. m \in Message /\ m.role = "assistant" /\ m.ids = [i \in 1 .. k |-> i]
  BY <1>2 DEF Message
<1>4. messages \in Seq(Message)
  BY DEF TranscriptInv
<1>5. /\ phase = "asking" /\ phase' = "turn" /\ messages' = Append(messages, m)
      /\ calls' = WithIds(names) /\ dispatched' = <<>> /\ iteration' = iteration
  BY DEF ChatTools
<1>6. Len(calls') = k /\ \A j \in 1 .. k : calls'[j].id = j
  BY <1>2, <1>5 DEF WithIds
<1>7. PICK n \in Nat : n = Len(messages) + 1
  BY <1>4
<1> HIDE DEF m
<1>8. /\ messages' \in Seq(Message) /\ Len(messages') = n /\ messages'[n] = m
      /\ TurnPositions' = TurnPositions \cup {n}
  BY <1>3, <1>4, <1>5, <1>7, Grows
<1>9. TurnStart(n)' = n /\ Cardinality(TurnPositions)' = Cardinality(TurnPositions) + 1
  BY <1>3, <1>4, <1>5, <1>7, TurnAdded
<1>10. TurnStart(Len(messages))' = n
  BY <1>8, <1>9
<1>11. Len(dispatched') = 0
  BY <1>5
<1>12. OpenTurn'
  BY <1>2, <1>3, <1>4, <1>6, <1>8, <1>10, <1>11 DEF OpenTurn
<1>13. Cardinality(TurnPositions)' = iteration'
  BY <1>5, <1>9 DEF LoopInv, TraceCounts, TranscriptInv
<1> QED
  BY <1>5, <1>8, <1>12, <1>13 DEF TranscriptInv

\* An answer is for the first pending call, and takes the next place.
LEMMA TurnAnswered ==
  ASSUME LoopInv, TranscriptInv, NEW ok \in BOOLEAN, calls # <<>>, Answered(ok),
         phase \in {"turn", "running"}
  PROVE  /\ TranscriptInv'
         /\ Head(calls).id = Len(dispatched) + 1
<1>1. PICK d \in Nat, k \in Nat : d = Len(dispatched) /\ k = Len(calls) /\ k > 0
  BY DEF LoopInv, CallsTyped
<1>2. PICK last \in Nat, n \in Nat : last = TurnStart(Len(messages)) /\ n = Len(messages) + 1
  <2>1. messages \in Seq(Message)
    BY DEF TranscriptInv
  <2>2. Len(messages) \in Nat /\ TurnStart(Len(messages)) \in Nat
    BY <2>1 DEF TranscriptInv, OpenTurn, TurnPositions
  <2> QED
    BY <2>2
<1>3. /\ messages \in Seq(Message)
      /\ last \in TurnPositions /\ last \in DOMAIN messages /\ n - 1 = last + d
      /\ messages[last].ids = [i \in 1 .. d + k |-> i]
      /\ \A i \in 1 .. d : messages[last + i].id = i
      /\ \A j \in 1 .. k : calls[j].id = d + j
  BY <1>1, <1>2 DEF TranscriptInv, OpenTurn, TurnPositions
<1>4. Head(calls).id = d + 1
  BY <1>1, <1>3 DEF LoopInv, CallsTyped
<1> DEFINE m == [role |-> "tool", id |-> Head(calls).id, ok |-> ok]
<1>5. m \in Message /\ m.role = "tool" /\ m.id = d + 1
  BY <1>4 DEF Message
<1>6. /\ messages' = Append(messages, m) /\ calls' = Tail(calls) /\ phase' = "turn"
      /\ Len(dispatched') = d + 1 /\ iteration' = iteration
  BY <1>1 DEF Answered, LoopInv, CallsTyped
<1> HIDE DEF m
<1>7. /\ messages' \in Seq(Message) /\ Len(messages') = n /\ messages'[n] = m
      /\ DOMAIN messages = 1 .. n - 1
      /\ \A p \in DOMAIN messages : messages'[p] = messages[p]
  BY <1>2, <1>3, <1>5, <1>6, Grows
<1>8. TurnPositions' = TurnPositions /\ TurnStart(n)' = TurnStart(n - 1)
  BY <1>2, <1>3, <1>5, <1>6, ResultAdded
<1>9. TurnStart(Len(messages))' = last
  <2>1. Len(messages) = n - 1
    BY <1>2, <1>3
  <2> QED
    BY <1>2, <1>7, <1>8, <2>1
<1>10. Len(calls') = k - 1 /\ \A j \in 1 .. k - 1 : calls'[j].id = d + 1 + j
  <2>1. calls \in Seq(Call)
    BY DEF LoopInv, CallsTyped
  <2>2. Len(calls') = k - 1 /\ \A j \in 1 .. k - 1 : calls'[j] = calls[j + 1]
    BY <1>1, <1>6, <2>1
  <2> QED
    BY <1>1, <1>3, <2>2
<1>11. \A i \in 1 .. d + 1 : messages'[last + i].id = i
  <2> TAKE i \in 1 .. d + 1
  <2>1. CASE i = d + 1
    <3>1. last + i = n
      BY <1>3, <2>1
    <3> QED
      BY <1>5, <1>7, <2>1, <3>1
  <2>2. CASE i # d + 1
    <3>1. i \in 1 .. d /\ last + i \in 1 .. n - 1
      BY <1>3, <2>2
    <3> QED
      BY <1>3, <1>7, <3>1
  <2> QED
    BY <2>1, <2>2
<1>12. OpenTurn'
  <2>1. messages'[last].ids = [i \in 1 .. (d + 1) + (k - 1) |-> i]
    <3>1. (d + 1) + (k - 1) = d + k
      OBVIOUS
    <3> QED
      BY <1>3, <1>7, <3>1
  <2>2. n = last + (d + 1)
    BY <1>3
  <2>3. last \in TurnPositions'
    BY <1>3, <1>8, Zenon
  <2> QED
    BY <1>6, <1>7, <1>9, <1>10, <1>11, <2>1, <2>2, <2>3 DEF OpenTurn
<1>13. Cardinality(TurnPositions)' = iteration'
  BY <1>6, <1>8 DEF TranscriptInv
<1> QED
  BY <1>1, <1>4, <1>6, <1>7, <1>12, <1>13 DEF TranscriptInv

-------------------------------------------------------------------------------
(* What the model was told, and what the trace tells the client *)

ToldAt(p) == <<TurnNumber(p), p - TurnStart(p), messages[p].id, messages[p].ok>>

LEMMA ToldEverywhere == Told = {ToldAt(p) : p \in ResultPositions}
BY DEF Told, ToldAt

LEMMA ToldEverywhereNext == (Told = {ToldAt(p) : p \in ResultPositions})'
BY ToldEverywhere, PTL

\* A result adds what it says to what the model was told, a turn nothing.
LEMMA TellsMore ==
  ASSUME messages \in Seq(Message), NEW m \in Message, messages' = Append(messages, m),
         NEW n \in Nat, n = Len(messages) + 1
  PROVE  /\ m.role = "assistant" => Told' = Told
         /\ m.role = "tool" =>
              Told' = Told \cup
                {<<Cardinality(TurnPositions), n - TurnStart(n - 1), m.id, m.ok>>}
<1>1. \A p \in ResultPositions : ToldAt(p)' = ToldAt(p)
  <2> SUFFICES ASSUME NEW p \in ResultPositions PROVE ToldAt(p)' = ToldAt(p)
    OBVIOUS
  <2>1. p \in DOMAIN messages
    BY DEF ResultPositions
  <2>2. /\ messages'[p] = messages[p]
        /\ TurnStart(p)' = TurnStart(p) /\ TurnNumber(p)' = TurnNumber(p)
    BY <2>1, Grows
  <2> QED
    BY <2>2 DEF ToldAt
<1>2. ResultPositions' = ResultPositions \cup (IF m.role = "tool" THEN {n} ELSE {})
  BY Grows
<1>3. CASE m.role = "assistant"
  <2>1. ResultPositions' = ResultPositions
    BY <1>2, <1>3
  <2> QED
    BY <1>1, <1>3, <2>1, ToldEverywhere, ToldEverywhereNext
<1>4. CASE m.role = "tool"
  <2>1. messages'[n] = m
    BY Grows
  <2>2. TurnStart(n)' = TurnStart(n - 1) /\ TurnNumber(n)' = Cardinality(TurnPositions)
    BY <1>4, ResultAdded
  <2>3. ToldAt(n)' = <<Cardinality(TurnPositions), n - TurnStart(n - 1), m.id, m.ok>>
    BY <2>1, <2>2 DEF ToldAt
  <2>4. ResultPositions' = ResultPositions \cup {n}
    BY <1>2, <1>4
  <2> QED
    BY <1>1, <1>4, <2>3, <2>4, ToldEverywhere, ToldEverywhereNext
<1> QED
  BY <1>3, <1>4 DEF Message

\* What a turn did, with one more result, and before the first.
LEMMA OneMoreOutcome ==
  ASSUME NEW turn, NEW tools \in Seq(Done), NEW done \in Done
  PROVE  /\ Outcomes(turn, Append(tools, done))
              = Outcomes(turn, tools) \cup {<<turn, Len(tools) + 1, done.id, done.ok>>}
         /\ Outcomes(turn, <<>>) = {}
<1> DEFINE more == Append(tools, done)
           n == Len(tools) + 1
<1>1. /\ DOMAIN more = DOMAIN tools \cup {n} /\ more[n] = done
      /\ \A k \in DOMAIN tools : more[k] = tools[k]
  BY AppendProperties
<1> HIDE DEF more, n
<1>2. Outcomes(turn, more) = Outcomes(turn, tools) \cup {<<turn, n, done.id, done.ok>>}
  BY <1>1 DEF Outcomes
<1>3. Outcomes(turn, <<>>) = {}
  BY DEF Outcomes
<1> QED
  BY <1>2, <1>3 DEF more, n

\* The trace, and the turn not yet in it.
LEMMA TracedParts ==
  Traced = TracedTurns \cup
             (IF phase \in {"turn", "running"} THEN Outcomes(iteration, dispatched) ELSE {})
BY DEF Traced

LEMMA TracedPartsNext ==
  (Traced = TracedTurns \cup
             (IF phase \in {"turn", "running"} THEN Outcomes(iteration, dispatched) ELSE {}))'
BY TracedParts, PTL

\* A turn that ends moves its results to the trace.
LEMMA TracesTurn ==
  ASSUME LoopInv, NEW entry \in Entries, trace' = Append(trace, entry)
  PROVE  /\ entry.kind = "tool_turn" =>
              TracedTurns' = TracedTurns \cup Outcomes(Len(trace) + 1, entry.tools)
         /\ entry.kind = "final_turn" => TracedTurns' = TracedTurns
<1> DEFINE n == Len(trace) + 1
<1>1. PICK longer : longer = trace' /\ longer = Append(trace, entry)
  OBVIOUS
<1>2. /\ DOMAIN longer = DOMAIN trace \cup {n} /\ longer[n] = entry
      /\ \A i \in DOMAIN trace : longer[i] = trace[i]
  <2>1. TraceCounts
    BY DEF LoopInv
  <2>2. /\ DOMAIN longer = 1 .. Len(trace) + 1 /\ DOMAIN trace = 1 .. Len(trace)
        /\ longer[Len(trace) + 1] = entry
        /\ \A i \in DOMAIN trace : longer[i] = trace[i]
    BY <1>1, <2>1, Traces
  <2> QED
    BY <2>1, <2>2 DEF TraceCounts
<1>3. PICK nn : nn = n
  OBVIOUS
<1> HIDE DEF n
<1>4. CASE entry.kind = "tool_turn"
  <2>1. ToolTurns' = ToolTurns \cup {nn}
    BY <1>1, <1>2, <1>3, <1>4 DEF ToolTurns
  <2>2. \A i \in ToolTurns : trace'[i] = trace[i]
    BY <1>1, <1>2 DEF ToolTurns
  <2>3. trace'[nn] = entry
    BY <1>1, <1>2, <1>3
  <2>4. TracedTurns' = TracedTurns \cup Outcomes(nn, entry.tools)
    BY <2>1, <2>2, <2>3 DEF TracedTurns
  <2> QED
    BY <1>3, <1>4, <2>4 DEF n
<1>5. CASE entry.kind = "final_turn"
  <2>1. ToolTurns' = ToolTurns
    BY <1>1, <1>2, <1>5 DEF ToolTurns
  <2>2. \A i \in ToolTurns : trace'[i] = trace[i]
    BY <1>1, <1>2 DEF ToolTurns
  <2>3. TracedTurns' = TracedTurns
    BY <2>1, <2>2 DEF TracedTurns
  <2> QED
    BY <1>5, <2>3
<1> QED
  BY <1>4, <1>5 DEF Entries

\* Where nothing is said, nothing is owed or told that was not.
LEMMA Unsaid ==
  ASSUME messages' = messages
  PROVE  /\ Owed' = Owed /\ TurnPositions' = TurnPositions /\ Told' = Told
         /\ TurnStart(Len(messages))' = TurnStart(Len(messages))
         /\ Cardinality(TurnPositions)' = Cardinality(TurnPositions)
<1>1. TurnPositions' = TurnPositions
  BY DEF TurnPositions, Role
<1>2. TurnStart(Len(messages))' = TurnStart(Len(messages))
  BY DEF TurnStart, SelectLastInSubSeq
<1>3. Owed' = Owed
  BY <1>2 DEF Owed
<1>4. ResultPositions' = ResultPositions
  BY DEF ResultPositions, Role
<1>5. ASSUME NEW p PROVE ToldAt(p)' = ToldAt(p)
  <2>1. TurnStart(p)' = TurnStart(p)
    BY DEF TurnStart, SelectLastInSubSeq
  <2>2. TurnNumber(p)' = TurnNumber(p)
    BY <1>1 DEF TurnNumber
  <2> QED
    BY <2>1, <2>2 DEF ToldAt
<1>6. Told' = Told
  BY <1>4, <1>5, ToldEverywhere, ToldEverywhereNext
<1> QED
  BY <1>1, <1>2, <1>3, <1>6

\* Nothing waits when the calls are all dispatched.
LEMMA OwesNothing ==
  ASSUME LoopInv, TranscriptInv,
         phase # "ended", phase \in {"turn", "running"} => calls = <<>>
  PROVE  Owed = <<>>
<1>1. CASE phase \in {"turn", "running"}
  <2>1. CallsTyped /\ messages \in Seq(Message) /\ OpenTurn /\ Len(calls) = 0
    BY <1>1 DEF LoopInv, TranscriptInv
  <2>2. Owed = [i \in 1 .. 0 |-> Len(dispatched) + i]
    BY <2>1, OwedIsPending
  <2> QED
    BY <2>2
<1> QED
  BY <1>1, NothingSaid DEF LoopInv, Phases, TranscriptInv

TranscriptTold == TranscriptInv /\ TraceTellsTranscript

LEMMA ChatToolsTold ==
  ASSUME LoopInv, TranscriptTold, NEW names \in Turns, ChatTools(names)
  PROVE  TranscriptTold'
<1>1. TranscriptInv /\ TranscriptInv'
  BY TurnOpens DEF TranscriptTold
<1>2. PICK k \in 0 .. MaxCalls : names \in [1 .. k -> Named]
  BY DEF Turns
<1> DEFINE m == [role |-> "assistant", ids |-> [i \in DOMAIN names |-> i]]
<1>3. m \in Message /\ m.role = "assistant"
  BY <1>2, MaxCallsAssumption DEF Message
<1>4. /\ phase = "asking" /\ phase' = "turn" /\ messages' = Append(messages, m)
      /\ dispatched' = <<>> /\ iteration' = iteration /\ trace' = trace
  BY DEF ChatTools
<1> HIDE DEF m
<1>5. PICK n \in Nat : n = Len(messages) + 1
  BY <1>1 DEF TranscriptInv
<1>6. Told' = Told
  BY <1>1, <1>3, <1>4, <1>5, TellsMore DEF TranscriptInv
<1>7. TracedTurns' = TracedTurns
  BY <1>4 DEF TracedTurns, ToolTurns
<1>8. Outcomes(iteration, dispatched)' = {}
  BY <1>4 DEF Outcomes
<1>9. Traced' = Traced
  BY <1>4, <1>7, <1>8, TracedParts, TracedPartsNext
<1> QED
  BY <1>1, <1>6, <1>9 DEF TranscriptTold, TraceTellsTranscript

LEMMA AnsweredTold ==
  ASSUME LoopInv, TranscriptTold, NEW ok \in BOOLEAN, calls # <<>>, Answered(ok),
         phase \in {"turn", "running"}
  PROVE  TranscriptTold'
<1>1. TranscriptInv /\ TranscriptInv' /\ Head(calls).id = Len(dispatched) + 1
  BY TurnAnswered DEF TranscriptTold
<1> DEFINE m == [role |-> "tool", id |-> Head(calls).id, ok |-> ok]
           done == [id |-> Head(calls).id, name |-> Head(calls).name, ok |-> ok]
<1>2. /\ messages' = Append(messages, m) /\ dispatched' = Append(dispatched, done)
      /\ phase' = "turn" /\ iteration' = iteration /\ trace' = trace
  BY DEF Answered
<1>3. Head(calls) \in Call /\ dispatched \in Seq(Done)
  BY DEF LoopInv, CallsTyped
<1>4. /\ m \in Message /\ m.role = "tool" /\ done \in Done
      /\ m.id = done.id /\ m.ok = done.ok
  BY <1>3 DEF Message, Call, Done
<1> HIDE DEF m, done
<1>5. PICK n \in Nat : n = Len(messages) + 1
  BY <1>1 DEF TranscriptInv
<1>6. n - TurnStart(n - 1) = Len(dispatched) + 1 /\ Cardinality(TurnPositions) = iteration
  <2>1. OpenTurn /\ Cardinality(TurnPositions) = iteration
    BY <1>1 DEF TranscriptInv
  <2>2. n - 1 = Len(messages) /\ Len(messages) \in Nat /\ Len(dispatched) \in Nat
    BY <1>1, <1>3, <1>5 DEF TranscriptInv
  <2>3. /\ TurnStart(Len(messages)) \in Nat
        /\ Len(messages) = TurnStart(Len(messages)) + Len(dispatched)
    BY <1>1, <2>1 DEF OpenTurn, TurnPositions, TranscriptInv
  <2> QED
    BY <2>1, <2>2, <2>3
<1> DEFINE new == <<iteration, Len(dispatched) + 1, m.id, m.ok>>
<1>7. Told' = Told \cup {new}
  <2>1. messages \in Seq(Message)
    BY <1>1 DEF TranscriptInv
  <2>2. Told' = Told \cup {<<Cardinality(TurnPositions), n - TurnStart(n - 1), m.id, m.ok>>}
    BY <1>2, <1>4, <1>5, <2>1, TellsMore
  <2> QED
    BY <1>6, <2>2
<1>8. TracedTurns' = TracedTurns
  BY <1>2 DEF TracedTurns, ToolTurns
<1>9. Outcomes(iteration, dispatched)' = Outcomes(iteration, dispatched) \cup {new}
  <2>1. Outcomes(iteration, Append(dispatched, done))
          = Outcomes(iteration, dispatched) \cup {<<iteration, Len(dispatched) + 1, done.id, done.ok>>}
    BY <1>3, <1>4, OneMoreOutcome
  <2>2. Outcomes(iteration, dispatched)' = Outcomes(iteration, Append(dispatched, done))
    BY <1>2 DEF Outcomes
  <2> QED
    BY <1>4, <2>1, <2>2
<1> HIDE DEF new
<1>10. Traced' = Traced \cup {new}
  BY <1>2, <1>8, <1>9, TracedParts, TracedPartsNext
<1> QED
  BY <1>1, <1>7, <1>10 DEF TranscriptTold, TraceTellsTranscript

LEMMA TurnEndTold ==
  ASSUME LoopInv, TranscriptTold, NextIteration \/ OutOfIterations
  PROVE  TranscriptTold'
<1> DEFINE entry == [kind |-> "tool_turn", iteration |-> iteration, tools |-> dispatched]
<1>1. /\ trace' = Append(trace, entry) /\ messages' = messages
      /\ phase = "turn" /\ phase' \in {"asking", "ended"} /\ calls = <<>>
  BY DEF NextIteration, OutOfIterations
<1>2. /\ entry \in Entries /\ entry.kind = "tool_turn" /\ entry.tools = dispatched
      /\ iteration = Len(trace) + 1
  BY <1>1 DEF LoopInv, CallsTyped, TraceCounts, Entries
<1> HIDE DEF entry
<1>3. TracedTurns' = TracedTurns \cup Outcomes(iteration, dispatched)
  BY <1>1, <1>2, TracesTurn
<1>4. Traced' = Traced
  BY <1>1, <1>3, TracedParts, TracedPartsNext
<1>5. /\ Told' = Told /\ Owed' = Owed
      /\ Cardinality(TurnPositions)' = Cardinality(TurnPositions)
  BY <1>1, Unsaid
<1>6. Owed = <<>> /\ Cardinality(TurnPositions) = iteration
  BY <1>1, OwesNothing DEF TranscriptTold, TranscriptInv
<1>7. Len(trace') = Len(trace) + 1
  BY <1>1 DEF LoopInv, TraceCounts
<1>8. TranscriptInv'
  BY <1>1, <1>2, <1>5, <1>6, <1>7 DEF TranscriptTold, TranscriptInv
<1> QED
  BY <1>4, <1>5, <1>8 DEF TranscriptTold, TraceTellsTranscript

LEMMA OthersTold ==
  ASSUME LoopInv, TranscriptTold,
         \/ Receive \/ ResolveFails \/ ResolveSucceeds \/ ChatFails \/ ChatFinal \/ Submit
         \/ Administer \/ UNCHANGED vars
  PROVE  TranscriptTold'
<1>1. messages' = messages /\ dispatched' = dispatched /\ calls' = calls
  BY DEF Receive, ResolveFails, ResolveSucceeds, ChatFails, ChatFinal, Submit,
         Administer, vars, loop
<1>2. /\ Told' = Told /\ Owed' = Owed /\ (OpenTurn' <=> OpenTurn)
      /\ Cardinality(TurnPositions)' = Cardinality(TurnPositions)
  <2>1. OpenTurn' <=> OpenTurn
    BY <1>1, Unsaid DEF OpenTurn
  <2> QED
    BY <1>1, <2>1, Unsaid
<1>3. CASE ChatFinal
  <2> DEFINE entry == [kind |-> "final_turn", iteration |-> iteration]
  <2>1. /\ trace' = Append(trace, entry) /\ phase = "asking" /\ phase' = "ended"
    BY <1>3 DEF ChatFinal
  <2>2. entry \in Entries /\ entry.kind = "final_turn"
    BY DEF LoopInv, TraceCounts, Entries
  <2> HIDE DEF entry
  <2>3. TracedTurns' = TracedTurns
    BY <2>1, <2>2, TracesTurn
  <2>4. Traced' = Traced
    BY <2>1, <2>3, TracedParts, TracedPartsNext
  <2> QED
    BY <1>1, <1>2, <2>1, <2>4 DEF TranscriptTold, TranscriptInv, TraceTellsTranscript
<1>4. CASE ~ ChatFinal
  <2>1. /\ trace' = trace
        /\ phase' \in {"turn", "running"} <=> phase \in {"turn", "running"}
        /\ phase \in {"turn", "running"} => iteration' = iteration
        /\ phase' \in {"waiting", "resolving"} => phase \in {"waiting", "resolving"}
        /\ phase' = "asking" => phase \in {"asking", "resolving"}
    BY <1>4 DEF Receive, ResolveFails, ResolveSucceeds, ChatFails, Submit,
                Administer, vars, loop
  <2> HIDE <1>4
  <2>2. TracedTurns' = TracedTurns
    BY <2>1 DEF TracedTurns, ToolTurns
  <2>3. Outcomes(iteration, dispatched)' = Outcomes(iteration', dispatched)
    BY <1>1 DEF Outcomes
  <2>4. Traced' = Traced
    BY <2>1, <2>2, <2>3, TracedParts, TracedPartsNext
  <2>5. TranscriptInv'
    <3>1. /\ phase = "resolving" => trace = <<>> /\ Len(trace) = 0 /\ messages = <<>>
          /\ phase = "resolving" => Owed = <<>> /\ Cardinality(TurnPositions) = 0
      BY NothingSaid DEF LoopInv, TraceCounts, TranscriptTold, TranscriptInv
    <3> QED
      BY <1>1, <1>2, <2>1, <3>1 DEF TranscriptTold, TranscriptInv
  <2> QED
    BY <1>2, <2>4, <2>5 DEF TranscriptTold, TraceTellsTranscript
<1> QED
  BY <1>3, <1>4

\* The transcript invariant is inductive, and so is what is told.
LEMMA TranscriptInvariant == Spec => []TranscriptTold
<1>1. Init => TranscriptTold
  <2> SUFFICES ASSUME Init PROVE TranscriptTold
    OBVIOUS
  <2>1. messages = <<>> /\ trace = <<>> /\ phase = "waiting"
    BY DEF Init
  <2>2. ResultPositions = {} /\ ToolTurns = {}
    BY <2>1, NothingSaid DEF ToolTurns
  <2>3. Told = {} /\ Traced = {}
    BY <2>1, <2>2 DEF Told, Traced, TracedTurns
  <2> QED
    BY <2>1, <2>3 DEF TranscriptTold, TranscriptInv, TraceTellsTranscript
<1>2. LoopInv /\ TranscriptTold /\ [Next]_vars => TranscriptTold'
  <2>1. LoopInv /\ TranscriptTold /\ FailsLocally => TranscriptTold'
    BY AnsweredTold DEF FailsLocally
  <2>2. \A ok \in BOOLEAN : LoopInv /\ TranscriptTold /\ ToolReturns(ok) => TranscriptTold'
    BY AnsweredTold DEF ToolReturns, LoopInv, CallsTyped
  <2> QED
    BY <2>1, <2>2, ChatToolsTold, TurnEndTold, OthersTold DEF Next, Loop
<1> QED
  BY <1>1, <1>2, LoopInvariant, PTL DEF Spec

(***************************************************************************)
(* The trace the client gets tells what the model was told: what it says   *)
(* of the turns traced so far, and of the current one, are the results in  *)
(* the transcript, each in its turn and at its place.                      *)
(***************************************************************************)
THEOREM TraceInvariant == Spec => []TraceTellsTranscript
<1>1. TranscriptTold => TraceTellsTranscript
  BY DEF TranscriptTold
<1> QED
  BY <1>1, TranscriptInvariant, PTL

-------------------------------------------------------------------------------
(* The transcript can be replayed *)

\* A turn of the model is a turn of the protocol: nothing was owed, and the
\* hard cap leaves room for one.
LEMMA AsksForTools ==
  ASSUME LoopInv, TranscriptTold, NEW names \in Turns, ChatTools(names)
  PROVE  Replay!AskForTools
<1>1. PICK k \in 0 .. MaxCalls : names \in [1 .. k -> Named]
  BY DEF Turns
<1>2. /\ phase = "asking" /\ phase' = "turn" /\ calls' = WithIds(names)
      /\ dispatched' = <<>> /\ iteration' = iteration
  BY DEF ChatTools
<1>3. LoopInv' /\ TranscriptInv /\ TranscriptInv'
  BY ChatToolsKeeps, TurnOpens DEF TranscriptTold
<1>4. Owed' = [i \in 1 .. k |-> i]
  <2>1. Owed' = [i \in 1 .. Len(calls') |-> Len(dispatched') + i]
    BY <1>2, <1>3, OwedIsPendingNext DEF LoopInv, TranscriptInv
  <2>2. Len(calls') = k /\ Len(dispatched') = 0
    BY <1>1, <1>2, MaxCallsAssumption DEF WithIds
  <2>3. \A i \in 1 .. k : 0 + i = i
    BY MaxCallsAssumption
  <2> QED
    BY <2>1, <2>2, <2>3
<1>5. /\ Owed = <<>> /\ Cardinality(TurnPositions) = Len(trace)
      /\ Cardinality(TurnPositions)' = iteration /\ iteration = Len(trace) + 1
      /\ iteration <= MaxIterations /\ Len(trace) \in Nat
  BY <1>2, <1>3 DEF LoopInv, TraceCounts, TranscriptInv
<1>6. MaxIterations \in 1 .. HARD_MAX_ITERATIONS /\ HARD_MAX_ITERATIONS \in Nat
  BY CapClamped, CapsAssumption DEF LoopInv, MaxIterations
<1>7. /\ Cardinality(TurnPositions) < HARD_MAX_ITERATIONS
      /\ Cardinality(TurnPositions)' = Cardinality(TurnPositions) + 1
  BY <1>5, <1>6
<1> QED
  BY <1>2, <1>4, <1>5, <1>7 DEF Replay!AskForTools

\* An answer gives the first result owed.
LEMMA GivesResult ==
  ASSUME LoopInv, TranscriptTold, NEW ok \in BOOLEAN, calls # <<>>, Answered(ok),
         phase \in {"turn", "running"}
  PROVE  Replay!GiveResult
<1>1. LoopInv' /\ TranscriptInv /\ TranscriptInv'
  BY AnsweredKeeps, TurnAnswered DEF TranscriptTold
<1>2. PICK d \in Nat, k \in Nat : d = Len(dispatched) /\ k = Len(calls) /\ k > 0
  BY DEF LoopInv, CallsTyped
<1>3. /\ phase' = "turn" /\ Len(calls') = k - 1 /\ Len(dispatched') = d + 1
      /\ iteration' = iteration
  BY <1>2 DEF Answered, LoopInv, CallsTyped
<1>4. Owed = [i \in 1 .. k |-> d + i]
  BY <1>1, <1>2, OwedIsPending DEF LoopInv, TranscriptInv
<1>5. Owed' = [i \in 1 .. k - 1 |-> (d + 1) + i]
  BY <1>1, <1>3, OwedIsPendingNext DEF LoopInv, TranscriptInv
<1>6. Owed # <<>> /\ Owed' = Tail(Owed)
  <2> DEFINE f == [i \in 1 .. k |-> d + i]
             g == [i \in 1 .. k - 1 |-> (d + 1) + i]
  <2>1. f \in Seq(Nat) /\ Len(f) = k /\ \A i \in 1 .. k : f[i] = d + i
    OBVIOUS
  <2>2. g \in Seq(Nat) /\ Len(g) = k - 1 /\ \A i \in 1 .. k - 1 : g[i] = (d + 1) + i
    BY <1>2
  <2> HIDE DEF f, g
  <2>3. f # <<>> /\ Tail(f) \in Seq(Nat) /\ Len(Tail(f)) = k - 1
    BY <1>2, <2>1
  <2>4. \A i \in 1 .. k - 1 : Tail(f)[i] = f[i + 1] /\ f[i + 1] = d + (i + 1)
    BY <1>2, <2>1
  <2>5. ASSUME NEW i \in 1 .. k - 1 PROVE Tail(f)[i] = g[i]
    <3>1. i \in Int /\ (d + 1) + i = d + (i + 1)
      BY <1>2
    <3> QED
      BY <2>2, <2>4, <3>1
  <2>6. g = Tail(f)
    BY <2>2, <2>3, <2>5, SeqEqual
  <2> QED
    BY <1>4, <1>5, <2>3, <2>6 DEF f, g
<1>7. Cardinality(TurnPositions)' = Cardinality(TurnPositions)
  BY <1>1, <1>3 DEF TranscriptInv
<1> QED
  BY <1>3, <1>6, <1>7 DEF Replay!GiveResult

\* The rest of the loop says nothing, and ends only when nothing is owed.
LEMMA ClosesOrStutters ==
  ASSUME LoopInv, TranscriptTold,
         \/ Receive \/ ResolveFails \/ ResolveSucceeds \/ ChatFails \/ ChatFinal \/ Submit
         \/ NextIteration \/ OutOfIterations \/ Administer \/ UNCHANGED vars
  PROVE  Replay!Close \/ UNCHANGED Replay!vars
<1>1. /\ messages' = messages
      /\ phase = "ended" => phase' = "ended"
      /\ phase # "ended" /\ phase' = "ended" => (phase = "turn" => calls = <<>>) /\ phase # "running"
  BY DEF Receive, ResolveFails, ResolveSucceeds, ChatFails, ChatFinal, Submit,
         NextIteration, OutOfIterations, Administer, vars, loop
<1>2. Owed' = Owed /\ Cardinality(TurnPositions)' = Cardinality(TurnPositions)
  BY <1>1, Unsaid
<1>3. CASE phase # "ended" /\ phase' = "ended"
  <2>1. Owed = <<>>
    BY <1>1, <1>3, OwesNothing DEF TranscriptTold
  <2> QED
    BY <1>2, <1>3, <2>1 DEF Replay!Close
<1>4. CASE ~ (phase # "ended" /\ phase' = "ended")
  BY <1>1, <1>2, <1>4 DEF Replay!vars
<1> QED
  BY <1>3, <1>4

(***************************************************************************)
(* The transcript the loop builds is one a provider accepts, and the       *)
(* provider is asked for no more turns than the hard cap: after each turn  *)
(* that asks for tools, one result for each call in the order of the       *)
(* calls, then the next turn or the end.  This is the safety part of       *)
(* ImplementsToolProtocol, every step a step of ToolProtocol or none.      *)
(***************************************************************************)
THEOREM TranscriptReplays == Spec => Replay!Safety
<1>1. Init => Replay!Init
  BY NothingSaid DEF Init, Replay!Init
<1>2. LoopInv /\ TranscriptTold /\ [Next]_vars => [Replay!Next]_(Replay!vars)
  <2>1. LoopInv /\ TranscriptTold /\ FailsLocally => Replay!Next
    BY GivesResult DEF FailsLocally, Replay!Next
  <2>2. \A ok \in BOOLEAN : LoopInv /\ TranscriptTold /\ ToolReturns(ok) => Replay!Next
    BY GivesResult DEF ToolReturns, LoopInv, CallsTyped, Replay!Next
  <2>3. \A names \in Turns : LoopInv /\ TranscriptTold /\ ChatTools(names) => Replay!Next
    BY AsksForTools DEF Replay!Next
  <2>4. Replay!Close => Replay!Next
    BY DEF Replay!Next
  <2> QED
    BY <2>1, <2>2, <2>3, <2>4, ClosesOrStutters DEF Next, Loop
<1> QED
  BY <1>1, <1>2, LoopInvariant, TranscriptInvariant, PTL DEF Spec, Replay!Safety

===============================================================================
