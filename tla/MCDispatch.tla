------------------------------ MODULE MCDispatch -------------------------------
(* Dispatch for TLC: the preferences the customer may POST. *)
EXTENDS Dispatch, TLC

CONSTANTS Named, Floor      \* the provider and the floor they ask for

OneRequest ==
  {[tier |-> "premium", share |-> 0, seconds |-> 300, floor |-> Floor,
    queen |-> Named, comb |-> None]}
Alike == Permutations(Handlers)
===============================================================================
