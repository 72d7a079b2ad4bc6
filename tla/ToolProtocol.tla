----------------------------- MODULE ToolProtocol -----------------------------
(***************************************************************************)
(* What a model provider asks of a client that replays a conversation with *)
(* tools: after an assistant turn that asks for tools, one result for each *)
(* call, in the order of the calls, and only then the next turn; and here, *)
(* what the gateway promises besides: a bounded number of turns.  This is  *)
(* the abstract specification the loop of Orchestrate implements.          *)
(***************************************************************************)
EXTENDS Naturals, Sequences

CONSTANTS
  MaxTurns,   \* the most turns the model is asked for
  MaxCalls    \* bound: the most tools it asks for in one turn

VARIABLES
  owed,       \* the calls of the last turn without a result, in order
  turns,      \* turns that asked for tools
  open        \* whether the conversation still goes on

Init == owed = <<>> /\ turns = 0 /\ open = TRUE

AskForTools ==
  /\ open /\ owed = <<>> /\ turns < MaxTurns
  /\ turns' = turns + 1
  /\ \E n \in 0 .. MaxCalls : owed' = [i \in 1 .. n |-> i]
  /\ open' = open

GiveResult ==
  /\ open /\ owed # <<>>
  /\ owed' = Tail(owed)
  /\ UNCHANGED <<turns, open>>

Close ==
  /\ open /\ owed = <<>>
  /\ open' = FALSE
  /\ UNCHANGED <<owed, turns>>

Next == AskForTools \/ GiveResult \/ Close

vars == <<owed, turns, open>>

Safety == Init /\ [][Next]_vars

Spec == Safety /\ WF_vars(Next)
===============================================================================
