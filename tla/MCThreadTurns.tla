----------------------------- MODULE MCThreadTurns -----------------------------
(* Instances of ThreadTurns for TLC: what the visitor may say in one turn. *)
EXTENDS ThreadTurns, TLC

\* The way to a review in three turns.  Asking again reopens a settled mirror.
ShortWay == { {"evaluate", "act", "email", "reopen"}, {"accept"}, {"settle"} }

\* Turns that leave the band alone: all that matters is how they are answered.
SmallTalk == { {"explore"} }

RequestSymmetry == Permutations(Requests)

================================================================================
