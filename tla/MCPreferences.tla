---------------------------- MODULE MCPreferences -----------------------------
(* Preferences for TLC: what a client may POST. *)
EXTENDS Preferences

CONSTANT QueenComb

Asked(tier, share, seconds, comb) ==
  [tier |-> tier, share |-> share, seconds |-> seconds, floor |-> "private",
   queen |-> None, comb |-> comb]

\* A share the free tier may not have, one only the premium tier may, and
\* a time out of range.
ThreeRequests ==
  {Asked("free", 20, 30, QueenComb), Asked("premium", 0, 3600, None),
   Asked("premium", 0, 3601, None)}
===============================================================================
