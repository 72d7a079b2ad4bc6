------------------------------- MODULE MCChats --------------------------------
EXTENDS Chats, TLC

\* The rows, tenants and handlers are alike.
Alike ==
  Permutations(Tenants) \cup Permutations(Sessions)
    \cup Permutations(Messages) \cup Permutations(Handlers)
===============================================================================
