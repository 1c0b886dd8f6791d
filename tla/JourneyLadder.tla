----------------------------- MODULE JourneyLadder -----------------------------
(***************************************************************************)
(* The progressive-disclosure ladder of apps/journey/models.py and         *)
(* apps/journey/constants.py: ten numbered states, the off-ladder DORMANT, *)
(* the events, and the authoritative transition table.  Everything here is *)
(* pure; the modules that move a lead extend it.                           *)
(*                                                                         *)
(* The table is the set of its triples <<from, event, to>>.  The read-side *)
(* aliases of normalize_state (CLIENT, ENGAGED) are left out: the enum no  *)
(* longer offers them and nothing can write them.                          *)
(***************************************************************************)
EXTENDS Naturals

LadderStates ==
    { "ARRIVED", "IN_REVIEW", "DIAGNOSED", "CLIENT_PAGE", "INVITED",
      "NDA_REVIEW", "ASSESSMENT", "POC", "INTEGRATION", "CUSTOMER_SUCCESS" }

States == LadderStates \cup {"DORMANT"}

Events ==
    { "prompt", "qualify", "reveal_client_page", "gate_invite",
      "gate_dormant", "accept_invite", "engage", "reactivate",
      "first_turn", "loop_closed", "nda_signed", "first_payment",
      "poc_start", "integration_start", "contract_executed" }

\* The states a team member may put to sleep: every one from the client page on.
Dozing == { "CLIENT_PAGE", "INVITED", "NDA_REVIEW", "ASSESSMENT", "POC", "INTEGRATION" }

\* ALLOWED_TRANSITIONS.  CUSTOMER_SUCCESS has no edge out: it is terminal.
Edges ==
    { <<"ARRIVED",     "first_turn",         "IN_REVIEW">>,
      <<"ARRIVED",     "prompt",             "IN_REVIEW">>,
      <<"ARRIVED",     "qualify",            "DIAGNOSED">>,
      <<"ARRIVED",     "loop_closed",        "DIAGNOSED">>,
      <<"IN_REVIEW",   "loop_closed",        "DIAGNOSED">>,
      <<"IN_REVIEW",   "qualify",            "DIAGNOSED">>,
      <<"DIAGNOSED",   "reveal_client_page", "CLIENT_PAGE">>,
      <<"CLIENT_PAGE", "gate_invite",        "INVITED">>,
      <<"INVITED",     "accept_invite",      "NDA_REVIEW">>,
      <<"NDA_REVIEW",  "nda_signed",         "NDA_REVIEW">>,
      <<"NDA_REVIEW",  "first_payment",      "ASSESSMENT">>,
      <<"NDA_REVIEW",  "engage",             "ASSESSMENT">>,
      <<"ASSESSMENT",  "poc_start",          "POC">>,
      <<"POC",         "integration_start",  "INTEGRATION">>,
      <<"INTEGRATION", "contract_executed",  "CUSTOMER_SUCCESS">>,
      <<"DORMANT",     "reactivate",         "CLIENT_PAGE">> }
    \cup { <<s, "gate_dormant", "DORMANT">> : s \in Dozing }

\* Mutant: a contract may be executed straight after the PoC.
TargetsEarlyContract(s, e) ==
    { t \in States : <<s, e, t>> \in Edges \cup
        {<<"POC", "contract_executed", "CUSTOMER_SUCCESS">>} }

\* _resolve_target: the targets of an event from a state (at most one).
Targets(s, e) == { t \in States : <<s, e, t>> \in Edges }

\* advance()'s idempotent tolerance: some transition on e would have led here.
Satisfied(s, e) == \E f \in States : <<f, e, s>> \in Edges

\* An event that neither moves the state nor is already satisfied: InvalidTransition.
Refused(s, e) == Targets(s, e) = {} /\ ~Satisfied(s, e)

\* journey_number: JOURNEY_NUMBERS, and NULL (here 0) for DORMANT.
JOURNEY_NUMBERS ==
    [ s \in LadderStates |->
        CASE s = "ARRIVED"     -> 1   [] s = "IN_REVIEW"        -> 2
          [] s = "DIAGNOSED"   -> 3   [] s = "CLIENT_PAGE"      -> 4
          [] s = "INVITED"     -> 5   [] s = "NDA_REVIEW"       -> 6
          [] s = "ASSESSMENT"  -> 7   [] s = "POC"              -> 8
          [] s = "INTEGRATION" -> 9   [] s = "CUSTOMER_SUCCESS" -> 10 ]

NULL == 0

Number(s) == IF s \in LadderStates THEN JOURNEY_NUMBERS[s] ELSE NULL

================================================================================
