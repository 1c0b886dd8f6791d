------------------------------- MODULE MCJourney -------------------------------
(* Instances of Journey for TLC: which events the team submits, and symmetry. *)
EXTENDS Journey, TLC

\* One event per rung; the aliases (prompt, loop_closed, engage), first_turn
\* and nda_signed take edges with the same ends or none.
MainEvents ==
    { "qualify", "reveal_client_page", "gate_invite", "gate_dormant", "accept_invite",
      "reactivate", "first_payment", "poc_start", "integration_start",
      "contract_executed" }

\* The way up, with both ways into a diagnosis; the sweep puts leads to sleep.
ClimbEvents == (MainEvents \ {"gate_dormant", "reactivate"}) \cup {"first_turn"}

ActorSymmetry == Permutations(Actors)

================================================================================
