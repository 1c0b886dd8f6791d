----------------------------- MODULE JourneyProofs -----------------------------
(***************************************************************************)
(* What Journey keeps for any set of leads, requests and events: types,    *)
(* the derived columns, the earned rungs, and the refinement of the        *)
(* abstract ladder.  The argument rests on one strengthening: every state  *)
(* an instance shows is the one its lead was born at or is in the audit    *)
(* log, and the log only ever grows by an edge out of such a state.        *)
(***************************************************************************)
EXTENDS Journey, TLAPS

\* The target of an edge is a state, and its source and event are of their type.
LEMMA EdgesTyped ==
    ASSUME NEW s, NEW e, NEW t, <<s, e, t>> \in Edges
    PROVE  s \in States /\ e \in Events /\ t \in States
  BY DEF Edges, States, LadderStates, Events, Dozing

\* Every state of the ladder has a number between 1 and 10; DORMANT has NULL.
LEMMA NumberTyped ==
    ASSUME NEW s \in States
    PROVE  Number(s) \in 0..10
<1>1. \A t \in LadderStates : JOURNEY_NUMBERS[t] \in 1..10
  BY DEF JOURNEY_NUMBERS, LadderStates
<1> QED
  BY <1>1 DEF Number, NULL

\* What advance() saves is a row again, and its derived columns are in step.
LEMMA SavedTyped ==
    ASSUME NEW c \in Rows, NEW r \in Rows, NEW t \in States
    PROVE  /\ Saved(c, r, t) \in Rows
           /\ Saved(c, r, t).journey_state = t
           /\ Saved(c, r, t).state_key = t
           /\ Saved(c, r, t).journey_number = Number(t)
<1>1. Number(t) \in 0..10
  BY NumberTyped
<1> QED
  BY <1>1 DEF Saved, Rows

\* A creator inserts a well-typed row at one of the states of Birth.
LEMMA NewRowTyped ==
    /\ \A s \in States : NewRow(s) \in Rows /\ NewRow(s).journey_state = s
    /\ \A o \in Origins : Birth[o] \in States
<1>1. \A o \in Origins : Birth[o] \in {"ARRIVED", "IN_REVIEW", "DIAGNOSED"}
  BY DEF Origins, Birth
<1>2. {"ARRIVED", "IN_REVIEW", "DIAGNOSED"} \subseteq States
  BY DEF States, LadderStates
<1>3. \A s \in States : NewRow(s) \in Rows /\ NewRow(s).journey_state = s
  BY DEF NewRow, Rows, NULL
<1> QED
  BY <1>1, <1>2, <1>3

\* An idle actor holds a well-typed instance of no lead.
LEMMA IdleTyped == Idle \in Instances /\ Idle.task = "idle" /\ Idle.lead = NoLead
<1>1. "ARRIVED" \in States
  BY DEF States, LadderStates
<1> QED
  BY <1>1, NewRowTyped DEF Idle, Instances, Tasks

\* One audit row more: the lead has reached its target and nothing else.
LEMMA AppendReached ==
    ASSUME NEW l \in Leads, log \in [Leads -> Seq(Transitions)],
           NEW x \in Transitions, origin' = origin,
           log' = [log EXCEPT ![l] = Append(@, x)]
    PROVE  /\ log' \in [Leads -> Seq(Transitions)]
           /\ Len(log'[l]) = Len(log[l]) + 1
           /\ log'[l][Len(log[l]) + 1] = x
           /\ \A i \in 1..Len(log[l]) : log'[l][i] = log[l][i]
           /\ \A n \in 0..Len(log[l]) : Visited(l, n)' = Visited(l, n)
           /\ Reached(l)' = Reached(l) \cup {x.to}
           /\ \A k \in Leads \ {l} : log'[k] = log[k]
<1>1. /\ log[l] \in Seq(Transitions)
      /\ log'[l] = Append(log[l], x)
      /\ \A k \in Leads \ {l} : log'[k] = log[k]
      /\ log' \in [Leads -> Seq(Transitions)]
  OBVIOUS
<1>2. /\ Len(log'[l]) = Len(log[l]) + 1
      /\ log'[l][Len(log[l]) + 1] = x
      /\ \A i \in 1..Len(log[l]) : log'[l][i] = log[l][i]
      /\ Len(log[l]) \in Nat
  BY <1>1
<1>3. \A n \in 0..Len(log[l]) : Visited(l, n)' = Visited(l, n)
  BY <1>2 DEF Visited
<1>4. Reached(l)' = Reached(l) \cup {x.to}
  <2>1. Reached(l)' = { Birth[o] : o \in Origins \cap {origin[l]} }
                      \cup { log'[l][i].to : i \in 1..(Len(log[l]) + 1) }
    BY <1>2 DEF Reached, Visited
  <2>2. 1..(Len(log[l]) + 1) = (1..Len(log[l])) \cup {Len(log[l]) + 1}
    BY <1>2
  <2> QED
    BY <2>1, <2>2, <1>2 DEF Reached, Visited
<1> QED
  BY <1>1, <1>2, <1>3, <1>4

\* ... and that is all an advance does to what leads have reached.
LEMMA WriteReached ==
    ASSUME TypeOK, NEW l \in Leads, NEW r \in Rows, NEW e, NEW t,
           <<r.journey_state, e, t>> \in Edges, Write(l, r, e, t), origin' = origin
    PROVE  /\ Reached(l)' = Reached(l) \cup {t}
           /\ \A k \in Leads \ {l} : log'[k] = log[k] /\ Reached(k)' = Reached(k)
<1> DEFINE x == [from |-> r.journey_state, event |-> e, to |-> t]
<1>1. /\ log \in [Leads -> Seq(Transitions)]
      /\ log' = [log EXCEPT ![l] = Append(@, x)]
      /\ x \in Transitions
      /\ x.to = t
  BY EdgesTyped DEF TypeOK, Write, Transitions
<1> HIDE DEF x
<1>2. Reached(l)' = Reached(l) \cup {x.to} /\ \A k \in Leads \ {l} : log'[k] = log[k]
  BY <1>1, AppendReached
<1> QED
  BY <1>1, <1>2 DEF Reached, Visited

--------------------------------------------------------------------------------
(* Every step, by what it does to the rows, the log and the instances.     *)

\* An instance (or row) that was true of the lead once.
Good(l, r) == r \in Rows /\ r.journey_state \in Reached(l) /\ InStep(l, r)

Put(l, r) == row' = [row EXCEPT ![l] = r] /\ UNCHANGED <<origin, log>>

BornShape(l) == \E o \in Origins : Born(l, o) /\ UNCHANGED log

PutShape == \E l \in known : \E r \in Rows : Good(l, r) /\ Put(l, r)

Climbs(l, r, e, t) ==
    /\ Good(l, r) /\ <<r.journey_state, e, t>> \in Edges
    /\ Write(l, r, e, t) /\ UNCHANGED origin

ClimbShape ==
    \E l \in known : \E r \in Rows : \E e \in Events : \E t \in States : Climbs(l, r, e, t)

RowShape ==
    \/ UNCHANGED <<origin, row, log>>
    \/ \E l \in Leads : BornShape(l)
    \/ PutShape
    \/ ClimbShape

\* An instance just read, or just saved.
Copied(h) ==
    h \in Instances /\ h.task # "idle" /\ h.lead \in known' /\ h.row = row'[h.lead]

HeldShape ==
    /\ held' \in [Actors -> Instances]
    /\ \A a \in Actors : held'[a] = held[a] \/ held'[a] = Idle \/ Copied(held'[a])

\* Nothing is logged of a lead that does not exist.
UnbornUnlogged == \A l \in Leads \ known : log[l] = <<>>

\* Instances held for a resubmission are of a questionnaire's lead.
Resubmits ==
    \A a \in Actors : held[a].task = "resubmit" => origin[held[a].lead] = "questionnaire"

IInv == TypeOK /\ EveryRungEarned /\ Lockstep /\ UnbornUnlogged /\ Resubmits

\* known is a set of leads whose origin is one of the four.
LEMMA KnownLeads ==
    ASSUME TypeOK, NEW l \in known
    PROVE  l \in Leads /\ origin[l] \in Origins
  BY DEF TypeOK, known

\* Under the invariant every row and every held instance was true of its lead once.
LEMMA RowsGood ==
    ASSUME IInv
    PROVE  /\ \A l \in known : Good(l, row[l])
           /\ \A a \in Actors : held[a].task # "idle" =>
                  held[a].lead \in known /\ Good(held[a].lead, held[a].row)
<1>1. \A l \in known : Good(l, row[l])
  BY KnownLeads DEF IInv, TypeOK, EveryRungEarned, Lockstep, Good
<1>2. ASSUME NEW a \in Actors, held[a].task # "idle"
      PROVE  held[a].lead \in known /\ Good(held[a].lead, held[a].row)
  <2>1. held[a].lead \in known /\ held[a].row \in Rows
    BY <1>2, IdleTyped DEF IInv, TypeOK, Instances
  <2> QED
    BY <2>1 DEF IInv, EveryRungEarned, Lockstep, Good
<1> QED
  BY <1>1, <1>2

\* A lead has reached the state it was born at, and no other before its first
\* audit row.
LEMMA BirthReached ==
    ASSUME NEW l, origin[l] \in Origins
    PROVE  /\ Birth[origin[l]] \in Reached(l)
           /\ log[l] = <<>> => Reached(l) = {Birth[origin[l]]}
<1>1. { Birth[o] : o \in Origins \cap {origin[l]} } = {Birth[origin[l]]}
  OBVIOUS
<1>2. Len(<<>>) = 0 /\ 1..0 = {}
  OBVIOUS
<1>3. log[l] = <<>> => Reached(l) = {Birth[origin[l]]}
  BY <1>1, <1>2 DEF Reached, Visited
<1> QED
  BY <1>1, <1>3 DEF Reached, Visited

\* A SELECT of the lead copies its row into an instance and changes no row.
LEMMA FetchShape ==
    ASSUME IInv, NEW a \in Actors, NEW l \in Leads, NEW task \in Tasks,
           task # "idle", Fetch(a, task, l)
    PROVE  RowShape /\ HeldShape
<1>1. row[l] \in Rows
  BY DEF IInv, TypeOK
<1>2. [task |-> task, lead |-> l, row |-> row[l]] \in Instances
  BY <1>1 DEF Instances
<1>3. known' = known /\ row' = row
  BY DEF Fetch, known
<1>4. HeldShape
  BY <1>2, <1>3 DEF Fetch, HeldShape, Copied, IInv, TypeOK
<1> QED
  BY <1>4 DEF RowShape, Fetch

\* A save of every column leaves a row and an instance that agree.
LEMMA ResubmitShape ==
    ASSUME IInv, NEW a \in Actors, ResubmitSave(a)
    PROVE  RowShape /\ HeldShape
<1> DEFINE l == held[a].lead
           r == [held[a].row EXCEPT !.journey_state = "IN_REVIEW"]
           h == [held[a] EXCEPT !.task = "qualify", !.row = r]
<1>0. origin[l] = "questionnaire"
  BY DEF ResubmitSave, IInv, Resubmits
<1>1. l \in known /\ Good(l, held[a].row) /\ held[a] \in Instances
  BY RowsGood DEF ResubmitSave, IInv, TypeOK
<1>2. /\ row' = [row EXCEPT ![l] = r]
      /\ held' = [held EXCEPT ![a] = h]
      /\ UNCHANGED <<origin, log>> /\ known' = known
  BY DEF ResubmitSave, known
<1>3. /\ r \in Rows /\ r.journey_state = "IN_REVIEW"
      /\ r.state_key = held[a].row.state_key
      /\ r.journey_number = held[a].row.journey_number
  BY <1>1 DEF Good, Rows, States, LadderStates
<1>4. r = NewRow("IN_REVIEW") \/
        (r.state_key \in Reached(l) /\ r.journey_number = Number(r.state_key))
  <2>1. CASE held[a].row = NewRow(Birth[origin[l]])
    <3>1. held[a].row = NewRow("IN_REVIEW")
      BY <1>0, <2>1 DEF Birth
    <3>2. NewRow("IN_REVIEW") \in Rows /\ held[a].row \in Rows
      BY <1>1, NewRowTyped DEF Good, States, LadderStates
    <3>3. \A x \in Rows : [x EXCEPT !.journey_state = x.journey_state] = x
      BY DEF Rows
    <3>4. NewRow("IN_REVIEW").journey_state = "IN_REVIEW"
      BY DEF NewRow
    <3> QED
      BY <3>1, <3>2, <3>3, <3>4
  <2>2. CASE held[a].row # NewRow(Birth[origin[l]])
    BY <1>1, <1>3, <2>2 DEF Good, InStep
  <2> QED
    BY <2>1, <2>2
<1>5. Good(l, r)
  <2>1. origin[l] \in Origins /\ Birth[origin[l]] = "IN_REVIEW"
    BY <1>0 DEF Origins, Birth
  <2>2. "IN_REVIEW" \in Reached(l)
    BY <2>1, BirthReached
  <2> QED
    BY <1>0, <1>3, <1>4, <2>1, <2>2 DEF Good, InStep
<1>6. h \in Instances /\ h.task # "idle" /\ h.lead = l /\ h.row = r
  BY <1>1, <1>3 DEF Instances, Tasks
<1>7. HeldShape
  <2>1. Copied(h)
    BY <1>1, <1>2, <1>6, KnownLeads DEF Copied, IInv, TypeOK
  <2> QED
    BY <1>2, <1>6, <2>1 DEF HeldShape, IInv, TypeOK
<1>8. RowShape
  BY <1>1, <1>2, <1>3, <1>5 DEF RowShape, PutShape, Put
<1> QED
  BY <1>7, <1>8

\* advance() leaves rows and log alone or takes one edge from the instance's state.
LEMMA AdvanceShape ==
    ASSUME IInv, NEW l \in known, NEW r, Good(l, r), NEW e \in Events, Advance(l, r, e),
           UNCHANGED origin
    PROVE  RowShape
<1>1. CASE Move(l, r, e)
  <2>1. PICK t \in Targets(r.journey_state, e) : Write(l, r, e, t)
    BY <1>1 DEF Move
  <2>2. Climbs(l, r, e, t) /\ t \in States /\ r \in Rows
    BY <2>1 DEF Targets, Good, Climbs
  <2> QED
    BY <2>2 DEF RowShape, ClimbShape
<1>2. CASE Tolerate(l, r, e)
  BY <1>2 DEF Tolerate, RowShape
<1>3. CASE Refuse(r, e)
  BY <1>3 DEF Refuse, RowShape
<1> QED
  BY <1>1, <1>2, <1>3 DEF Advance

\* A request that ends leaves its actor idle.
LEMMA ReleaseShape ==
    ASSUME IInv, NEW a \in Actors, Release(a)
    PROVE  HeldShape
  BY IdleTyped DEF Release, HeldShape, IInv, TypeOK

\* Accepting the invite takes the edge out of INVITED or does nothing.
LEMMA ClaimShape ==
    ASSUME IInv, NEW l \in known, AcceptInvite(l), UNCHANGED origin
    PROVE  RowShape
<1>1. CASE row[l].journey_state = "INVITED"
  <2>1. Write(l, row[l], "accept_invite", "NDA_REVIEW")
    BY <1>1 DEF AcceptInvite
  <2>2. <<row[l].journey_state, "accept_invite", "NDA_REVIEW">> \in Edges
    BY <1>1 DEF Edges
  <2>3. row[l] \in Rows /\ Good(l, row[l])
    BY RowsGood DEF Good
  <2>4. Climbs(l, row[l], "accept_invite", "NDA_REVIEW")
    BY <2>1, <2>2, <2>3 DEF Climbs
  <2> QED
    BY <2>2, <2>3, <2>4, EdgesTyped DEF RowShape, ClimbShape
<1>2. CASE row[l].journey_state # "INVITED"
  BY <1>2 DEF AcceptInvite, RowShape
<1> QED
  BY <1>1, <1>2

\* A creator inserts one row.
LEMMA CreateShape ==
    ASSUME NEW l \in Leads, NEW o \in Origins, Born(l, o), UNCHANGED log
    PROVE  RowShape
  BY DEF RowShape, BornShape

\* A submission inserts the row and goes on with it.
LEMMA SubmitShape ==
    ASSUME IInv, NEW a \in Actors, NEW l \in Leads, SubmitReview(a, l)
    PROVE  RowShape /\ HeldShape
<1> DEFINE h == [task |-> "qualify", lead |-> l, row |-> row'[l]]
<1>1. Born(l, "questionnaire") /\ UNCHANGED log /\ held' = [held EXCEPT ![a] = h]
  BY DEF SubmitReview
<1>2. "questionnaire" \in Origins
  BY DEF Origins
<1>3. row'[l] \in Rows /\ l \in known'
  <2>1. row'[l] = NewRow(Birth["questionnaire"]) /\ origin'[l] = "questionnaire"
    BY <1>1 DEF Born, IInv, TypeOK
  <2> QED
    BY <1>2, <2>1, NewRowTyped DEF known
<1>4. h \in Instances /\ h.task # "idle" /\ h.lead = l /\ h.row = row'[l]
  BY <1>3 DEF Instances, Tasks
<1>5. HeldShape
  BY <1>1, <1>3, <1>4 DEF HeldShape, Copied, IInv, TypeOK
<1> QED
  BY <1>1, <1>2, <1>5, CreateShape

\* Every step of the program has one of the shapes above.
LEMMA StepShape ==
    ASSUME IInv, [Next]_vars
    PROVE  RowShape /\ HeldShape
<1> USE DEF IInv
<1>0. UNCHANGED held => HeldShape
  BY DEF HeldShape, TypeOK
<1>1. ASSUME NEW l \in Leads, Arrive(l)
      PROVE  RowShape /\ HeldShape
  <2>1. PICK o \in Origins : Born(l, o) /\ UNCHANGED <<log, held>>
    BY <1>1 DEF Arrive, CreateLead, RegisterClient, CreateConversationLead, Origins
  <2> QED
    BY <1>0, <2>1, CreateShape
<1>2. ASSUME NEW a \in Actors, NEW l \in Leads, SubmitReview(a, l)
      PROVE  RowShape /\ HeldShape
  BY <1>2, SubmitShape
<1>3. ASSUME NEW l \in Leads, ClaimInvite(l)
      PROVE  RowShape /\ HeldShape
  <2>1. l \in known /\ AcceptInvite(l) /\ UNCHANGED <<origin, held>>
    BY <1>3 DEF ClaimInvite
  <2> QED
    BY <1>0, <2>1, ClaimShape
<1>4. ASSUME NEW l \in Leads, RecoverClaim(l)
      PROVE  RowShape /\ HeldShape
  BY <1>0, <1>4 DEF RecoverClaim, RowShape
<1>5. ASSUME NEW a \in Actors, NEW l \in Leads, NEW task \in Tasks, task # "idle",
             Fetch(a, task, l)
      PROVE  RowShape /\ HeldShape
  BY <1>5, FetchShape
<1>6. ASSUME NEW a \in Actors, NEW e \in Events, held[a].task # "idle",
             Advance(held[a].lead, held[a].row, e), Release(a)
      PROVE  RowShape /\ HeldShape
  BY <1>6, RowsGood, AdvanceShape, ReleaseShape DEF Release
<1>7. ASSUME NEW a \in Actors, Apply(a)
      PROVE  RowShape /\ HeldShape
  <2>1. {"gate_dormant", "qualify"} \subseteq Events /\ TeamEvents \subseteq Events
    BY TeamEventsAssumption DEF Events
  <2>2. CASE Abandon(a)
    BY <2>2, ReleaseShape DEF Abandon, Release, RowShape
  <2> QED
    BY <1>6, <1>7, <2>1, <2>2 DEF Apply, TeamAdvance, SweepAdvance, QualifyAdvance
<1>8. ASSUME NEW a \in Actors, EditSave(a)
      PROVE  RowShape /\ HeldShape
  <2>1. held[a].lead \in known /\ Good(held[a].lead, held[a].row)
    BY <1>8, RowsGood DEF EditSave
  <2> QED
    BY <2>1, <1>8, ReleaseShape DEF EditSave, Release, RowShape, PutShape, Put, Good
<1>9. ASSUME NEW a \in Actors, ResubmitSave(a)
      PROVE  RowShape /\ HeldShape
  BY <1>9, ResubmitShape
<1>10. ASSUME UNCHANGED vars
      PROVE  RowShape /\ HeldShape
  BY <1>0, <1>10 DEF vars, RowShape
<1>11. {"advance", "sweep", "edit", "resubmit"} \subseteq Tasks \ {"idle"}
  BY DEF Tasks
<1> QED
  BY <1>1, <1>2, <1>3, <1>4, <1>5, <1>7, <1>8, <1>9, <1>10, <1>11
  DEF Next, AdvanceNext, Rewrite, Claim, Begin, TeamFetch, SweepRead, EditRead, ResubmitRead

\* A step keeps who created a lead, and what an instance is held for.
LEMMA StepResubmits ==
    ASSUME IInv, [Next]_vars
    PROVE  /\ Resubmits'
           /\ \A l \in known : origin'[l] = origin[l]
           /\ known \subseteq known'
<1> USE DEF IInv, TypeOK
<1>1. ASSUME NEW l \in Leads, NEW o, Born(l, o)
      PROVE  (\A k \in known : origin'[k] = origin[k]) /\ known \subseteq known'
  BY <1>1 DEF Born, known
<1>2. UNCHANGED origin => (\A k \in known : origin'[k] = origin[k]) /\ known \subseteq known'
  BY DEF known
<1>3. ASSUME \A k \in known : origin'[k] = origin[k],
             \A a \in Actors : held'[a].task = "resubmit" => held'[a] = held[a]
      PROVE  Resubmits'
  BY <1>3, IdleTyped DEF Resubmits
<1>4. ASSUME NEW l \in Leads, Arrive(l)
      PROVE  Resubmits' /\ (\A k \in known : origin'[k] = origin[k]) /\ known \subseteq known'
  <2>1. PICK o : Born(l, o) /\ UNCHANGED held
    BY <1>4 DEF Arrive, CreateLead, RegisterClient, CreateConversationLead
  <2> QED
    BY <1>1, <1>3, <2>1
<1>5. ASSUME NEW a \in Actors, NEW l \in Leads, SubmitReview(a, l)
      PROVE  Resubmits' /\ (\A k \in known : origin'[k] = origin[k]) /\ known \subseteq known'
  <2>1. PICK r : held' = [held EXCEPT ![a] = [task |-> "qualify", lead |-> l, row |-> r]]
    BY <1>5 DEF SubmitReview
  <2>2. \A b \in Actors : held'[b].task = "resubmit" => held'[b] = held[b]
    BY <2>1
  <2> QED
    BY <1>1, <1>3, <1>5, <2>2 DEF SubmitReview
<1>6. ASSUME NEW l \in Leads, Claim(l)
      PROVE  Resubmits' /\ (\A k \in known : origin'[k] = origin[k]) /\ known \subseteq known'
  BY <1>2, <1>3, <1>6 DEF Claim, ClaimInvite, RecoverClaim
<1>7. ASSUME NEW a \in Actors, Release(a)
      PROVE  Resubmits' /\ (\A k \in known : origin'[k] = origin[k]) /\ known \subseteq known'
  <2>1. \A b \in Actors : held'[b].task = "resubmit" => held'[b] = held[b]
    BY <1>7, IdleTyped DEF Release
  <2> QED
    BY <1>2, <1>3, <1>7, <2>1 DEF Release
<1>8. ASSUME NEW a \in Actors, NEW l \in Leads, NEW task, Fetch(a, task, l),
             task = "resubmit" => origin[l] = "questionnaire"
      PROVE  Resubmits' /\ (\A k \in known : origin'[k] = origin[k]) /\ known \subseteq known'
  <2>1. /\ held' = [held EXCEPT ![a] = [task |-> task, lead |-> l, row |-> row[l]]]
        /\ origin' = origin
    BY <1>8 DEF Fetch
  <2>2. held'[a].task = task /\ held'[a].lead = l /\ \A b \in Actors \ {a} : held'[b] = held[b]
    BY <2>1
  <2> QED
    BY <1>2, <1>8, <2>1, <2>2 DEF Resubmits
<1>9. ASSUME NEW a \in Actors, ResubmitSave(a)
      PROVE  Resubmits' /\ (\A k \in known : origin'[k] = origin[k]) /\ known \subseteq known'
  <2>1. PICK h : held' = [held EXCEPT ![a] = h] /\ h.task = "qualify" /\ origin' = origin
    BY <1>9 DEF ResubmitSave, Instances
  <2>2. \A b \in Actors : held'[b].task = "resubmit" => held'[b] = held[b]
    BY <2>1
  <2> QED
    BY <1>2, <1>3, <2>1, <2>2
<1>10. CASE UNCHANGED vars
  BY <1>2, <1>3, <1>10 DEF vars
<1> QED
  BY <1>4, <1>5, <1>6, <1>7, <1>8, <1>9, <1>10
  DEF Next, AdvanceNext, Rewrite, Begin, Apply, TeamFetch, SweepRead, EditRead, ResubmitRead,
      TeamAdvance, SweepAdvance, QualifyAdvance, Abandon, EditSave

--------------------------------------------------------------------------------
(* The invariant.                                                          *)

\* What was in step with its lead stays so: what a lead reached only grows.
LEMMA InStepKept ==
    ASSUME NEW l, NEW r, InStep(l, r), origin'[l] = origin[l], Reached(l) \subseteq Reached(l)'
    PROVE  InStep(l, r)'
  BY DEF InStep

\* What the log of an existing lead shows, and what its row is after a step.
Accounted(l) ==
    /\ row[l].journey_state \in Reached(l)
    /\ InStep(l, row[l])
    /\ \A i \in 1..Len(log[l]) :
          /\ <<log[l][i].from, log[l][i].event, log[l][i].to>> \in Edges
          /\ log[l][i].from \in Visited(l, i - 1)

\* An audited write keeps every lead accounted for.
LEMMA ClimbLog ==
    ASSUME IInv, NEW k \in known, NEW r \in Rows, NEW e \in Events, NEW t \in States,
           Climbs(k, r, e, t), NEW l \in known
    PROVE  /\ log' \in [Leads -> Seq(Transitions)]
           /\ row' \in [Leads -> Rows]
           /\ Reached(l) \subseteq Reached(l)'
           /\ Accounted(l)'
<1> DEFINE x == [from |-> r.journey_state, event |-> e, to |-> t]
<1>0. /\ l \in Leads /\ k \in Leads /\ origin' = origin
      /\ Good(k, r) /\ <<r.journey_state, e, t>> \in Edges /\ Write(k, r, e, t)
  BY KnownLeads DEF IInv, Climbs
<1>1. /\ log \in [Leads -> Seq(Transitions)]
      /\ x \in Transitions
      /\ log' = [log EXCEPT ![k] = Append(@, x)]
      /\ row' = [row EXCEPT ![k] = Saved(@, r, t)]
  BY <1>0, KnownLeads DEF IInv, TypeOK, Transitions, Write, Rows
<1>2. /\ Saved(row[k], r, t) \in Rows
      /\ Saved(row[k], r, t).journey_state = t
      /\ Saved(row[k], r, t).state_key = t
      /\ Saved(row[k], r, t).journey_number = Number(t)
  BY <1>0, SavedTyped DEF IInv, TypeOK
<1>3. row' \in [Leads -> Rows]
  BY <1>1, <1>2 DEF IInv, TypeOK
<1>4. x.from = r.journey_state /\ x.event = e /\ x.to = t
  OBVIOUS
<1> HIDE DEF x
<1>5. /\ log' \in [Leads -> Seq(Transitions)]
      /\ Len(log'[k]) = Len(log[k]) + 1
      /\ log'[k][Len(log[k]) + 1] = x
      /\ \A i \in 1..Len(log[k]) : log'[k][i] = log[k][i]
      /\ \A n \in 0..Len(log[k]) : Visited(k, n)' = Visited(k, n)
      /\ Reached(k)' = Reached(k) \cup {x.to}
      /\ \A j \in Leads \ {k} : log'[j] = log[j]
  BY <1>0, <1>1, AppendReached
<1>6. Accounted(l)
  BY DEF IInv, EveryRungEarned, Lockstep, Accounted
<1>7. CASE l # k
  <2>1. log'[l] = log[l] /\ row'[l] = row[l]
    BY <1>0, <1>1, <1>5, <1>7 DEF IInv, TypeOK
  <2>2. Reached(l)' = Reached(l) /\ \A i \in 1..Len(log[l]) : Visited(l, i - 1)' = Visited(l, i - 1)
    BY <1>0, <2>1 DEF Reached, Visited
  <2>3. InStep(l, row[l])'
    BY <1>0, <1>6, <2>1, <2>2 DEF Accounted, InStep
  <2>4. Accounted(l)'
    BY <1>6, <2>1, <2>2, <2>3 DEF Accounted
  <2> QED
    BY <1>3, <1>5, <2>2, <2>4
<1>8. CASE l = k
  <2>1. Len(log[k]) \in Nat
    BY <1>0, <1>1
  <2>2. row'[k] = Saved(row[k], r, t) /\ t \in Reached(k)'
    BY <1>0, <1>1, <1>4, <1>5 DEF IInv, TypeOK
  <2>3. row'[k].journey_state \in Reached(k)' /\ InStep(k, row[k])'
    BY <1>2, <2>2 DEF InStep
  <2>4. ASSUME NEW i \in 1..Len(log'[k])
        PROVE  /\ <<log'[k][i].from, log'[k][i].event, log'[k][i].to>> \in Edges
               /\ log'[k][i].from \in Visited(k, i - 1)'
    <3>1. CASE i \in 1..Len(log[k])
      <4>1. log'[k][i] = log[k][i] /\ Visited(k, i - 1)' = Visited(k, i - 1)
        BY <1>5, <2>1, <3>1
      <4> QED
        BY <1>6, <1>8, <3>1, <4>1 DEF Accounted
    <3>2. CASE i = Len(log[k]) + 1
      <4>1. log'[k][i] = x /\ Visited(k, i - 1)' = Reached(k)
        BY <1>5, <2>1, <3>2 DEF Reached
      <4> QED
        BY <1>0, <1>4, <4>1 DEF Good
    <3> QED
      BY <1>5, <2>1, <3>1, <3>2
  <2>5. Accounted(k)'
    BY <2>3, <2>4 DEF Accounted
  <2> QED
    BY <1>3, <1>5, <1>8, <2>5
<1> QED
  BY <1>7, <1>8

\* What a step does to the audit log keeps it earned, and never shortens it.
LEMMA LogShape ==
    ASSUME IInv, RowShape
    PROVE  /\ log' \in [Leads -> Seq(Transitions)]
           /\ row' \in [Leads -> Rows]
           /\ \A l \in known : Reached(l) \subseteq Reached(l)'
           /\ \A l \in known' : Accounted(l)'
           /\ \A l \in Leads \ known' : log'[l] = <<>>
           /\ origin' \in [Leads -> Origins \cup {"none"}]
<1> USE DEF IInv
<1>0. \A l \in known : Accounted(l)
  BY DEF EveryRungEarned, Lockstep, Accounted
<1>1. CASE UNCHANGED <<origin, row, log>>
  BY <1>0, <1>1 DEF TypeOK, Accounted, InStep, Reached, Visited, known, UnbornUnlogged
<1>2. ASSUME NEW k \in Leads, NEW o \in Origins, Born(k, o), log' = log
      PROVE  /\ row' \in [Leads -> Rows]
             /\ \A l \in known : Reached(l) \subseteq Reached(l)'
             /\ \A l \in known' : Accounted(l)'
             /\ \A l \in Leads \ known' : log'[l] = <<>>
             /\ origin' \in [Leads -> Origins \cup {"none"}]
  <2>1. /\ origin' \in [Leads -> Origins \cup {"none"}] /\ origin'[k] = o
        /\ \A l \in Leads \ {k} : origin'[l] = origin[l] /\ row'[l] = row[l]
        /\ row'[k] = NewRow(Birth[o]) /\ k \notin known
        /\ row' = [row EXCEPT ![k] = NewRow(Birth[o])]
    BY <1>2 DEF Born, TypeOK, known
  <2>2. row' \in [Leads -> Rows]
    BY <2>1, NewRowTyped DEF TypeOK
  <2>3. \A l \in Leads \ {k} : \A n : Visited(l, n)' = Visited(l, n)
    BY <1>2, <2>1 DEF Visited
  <2>4. \A l \in Leads \ {k} : Reached(l)' = Reached(l)
    BY <1>2, <2>1 DEF Reached, Visited
  <2>5. ASSUME NEW l \in known
        PROVE  Accounted(l)' /\ Reached(l) \subseteq Reached(l)'
    <3>1. l \in Leads \ {k}
      BY <2>1 DEF known
    <3>2. InStep(l, row[l])'
      BY <1>0, <2>1, <2>4, <3>1 DEF Accounted, InStep
    <3> QED
      BY <1>0, <1>2, <2>1, <2>3, <2>4, <3>1, <3>2 DEF Accounted
  <2>6. Accounted(k)'
    <3>1. log'[k] = <<>>
      BY <1>2, <2>1 DEF UnbornUnlogged
    <3>2. Birth[origin[k]]' \in Reached(k)'
      BY <2>1 DEF Reached, Visited
    <3>3. Birth[origin[k]]' = Birth[o] /\ NewRow(Birth[o]).journey_state = Birth[o]
      BY <2>1, NewRowTyped DEF Birth
    <3>4. Len(log'[k]) = 0 /\ 1..0 = {}
      BY <3>1
    <3>5. InStep(k, row[k])'
      BY <2>1 DEF InStep
    <3> QED
      BY <2>1, <3>2, <3>3, <3>4, <3>5 DEF Accounted
  <2>7. known' = known \cup {k}
    <3>1. o # "none"
      BY DEF Origins
    <3> QED
      BY <2>1, <3>1 DEF known
  <2> QED
    BY <1>2, <2>1, <2>2, <2>5, <2>6, <2>7 DEF UnbornUnlogged
<1>3. ASSUME NEW k \in known, NEW r \in Rows, Good(k, r), Put(k, r)
      PROVE  /\ row' \in [Leads -> Rows]
             /\ \A l \in known : Reached(l)' = Reached(l)
             /\ \A l \in known' : Accounted(l)'
             /\ \A l \in Leads \ known' : log'[l] = <<>>
  <2>1. /\ row' = [row EXCEPT ![k] = r] /\ log' = log /\ origin' = origin
        /\ known' = known /\ k \in Leads
    BY <1>3 DEF Put, known
  <2>2. \A l \in known : Reached(l)' = Reached(l) /\ \A n : Visited(l, n)' = Visited(l, n)
    BY <2>1 DEF Reached, Visited
  <2>3. ASSUME NEW l \in known
        PROVE  Accounted(l)'
    <3>1. row'[l] = IF l = k THEN r ELSE row[l]
      BY <2>1, KnownLeads DEF TypeOK
    <3>2. row'[l].journey_state \in Reached(l) /\ InStep(l, row'[l])
      BY <1>0, <1>3, <3>1 DEF Accounted, Good
    <3>3. InStep(l, row[l])'
      BY <2>1, <2>2, <3>2 DEF InStep
    <3> QED
      BY <1>0, <2>1, <2>2, <3>2, <3>3 DEF Accounted
  <2> QED
    BY <2>1, <2>2, <2>3 DEF TypeOK, UnbornUnlogged
<1>4. ASSUME NEW k \in known, NEW r \in Rows, NEW e \in Events, NEW t \in States,
             Climbs(k, r, e, t)
      PROVE  /\ log' \in [Leads -> Seq(Transitions)]
             /\ row' \in [Leads -> Rows]
             /\ \A l \in known : Reached(l) \subseteq Reached(l)'
             /\ \A l \in known' : Accounted(l)'
             /\ \A l \in Leads \ known' : log'[l] = <<>>
             /\ origin' \in [Leads -> Origins \cup {"none"}]
  <2>1. origin' = origin /\ known' = known /\ k \in Leads
    BY <1>4, KnownLeads DEF Climbs, known
  <2>2. /\ log' \in [Leads -> Seq(Transitions)]
        /\ row' \in [Leads -> Rows]
        /\ \A l \in known : Reached(l) \subseteq Reached(l)' /\ Accounted(l)'
    BY <1>4, ClimbLog
  <2>3. \A l \in Leads \ known : log'[l] = log[l]
    BY <1>4, <2>1 DEF Climbs, Write, TypeOK
  <2> QED
    BY <2>1, <2>2, <2>3 DEF TypeOK, UnbornUnlogged
<1>5. CASE \E l \in Leads : BornShape(l)
  <2>1. PICK k \in Leads, o \in Origins : Born(k, o) /\ log' = log
    BY <1>5 DEF BornShape
  <2> QED
    BY <1>2, <2>1 DEF TypeOK
<1>6. CASE PutShape
  <2>1. PICK k \in known, r \in Rows : Good(k, r) /\ Put(k, r)
    BY <1>6 DEF PutShape
  <2>2. log' = log /\ origin' = origin
    BY <2>1 DEF Put
  <2> QED
    BY <1>3, <2>1, <2>2 DEF TypeOK
<1>7. CASE ClimbShape
  BY <1>4, <1>7 DEF ClimbShape
<1> QED
  BY <1>1, <1>5, <1>6, <1>7 DEF RowShape

\* The invariant holds initially.
LEMMA InitIInv == Init => IInv
<1> SUFFICES ASSUME Init PROVE IInv
  OBVIOUS
<1>1. known = {}
  BY DEF Init, known
<1>2. TypeOK
  <2>1. "ARRIVED" \in States
    BY DEF States, LadderStates
  <2> QED
    BY <2>1, NewRowTyped, IdleTyped, BoundsAssumption DEF Init, TypeOK
<1>3. EveryRungEarned /\ Lockstep
  BY <1>1 DEF EveryRungEarned, Lockstep
<1>4. UnbornUnlogged /\ Resubmits
  BY IdleTyped DEF Init, UnbornUnlogged, Resubmits
<1> QED
  BY <1>2, <1>3, <1>4 DEF IInv

\* The sets and the token counts keep their types.
LEMMA MintTyped ==
    ASSUME TypeOK, NEW l \in Leads, NEW s, Mint(l, s)
    PROVE  invites' \in [Leads -> 0..MaxInvites]
<1>1. CASE s = "INVITED" /\ invites[l] < MaxInvites
  <2>1. invites[l] + 1 \in 0..MaxInvites
    BY <1>1, BoundsAssumption DEF TypeOK
  <2> QED
    BY <1>1, <2>1 DEF Mint, TypeOK
<1>2. CASE ~(s = "INVITED" /\ invites[l] < MaxInvites)
  BY <1>2 DEF Mint, TypeOK
<1> QED
  BY <1>1, <1>2

OtherTypes ==
    /\ clients \subseteq Leads
    /\ payers \subseteq Leads
    /\ contracted \subseteq Leads
    /\ invites \in [Leads -> 0..MaxInvites]

\* The hooks and the minting of advance() keep their types.
LEMMA AdvanceOther ==
    ASSUME TypeOK, NEW l \in Leads, NEW r, NEW e, Advance(l, r, e)
    PROVE  /\ payers' \subseteq Leads
           /\ contracted' \subseteq Leads
           /\ invites' \in [Leads -> 0..MaxInvites]
<1>1. CASE Move(l, r, e)
  BY <1>1, MintTyped DEF Move, Hooks, TypeOK
<1>2. CASE Tolerate(l, r, e)
  BY <1>2, MintTyped DEF Tolerate, TypeOK
<1>3. CASE Refuse(r, e)
  BY <1>3 DEF Refuse, TypeOK
<1> QED
  BY <1>1, <1>2, <1>3 DEF Advance

\* Every step keeps the types of the sets and of the token counts.
LEMMA StepOther ==
    ASSUME IInv, [Next]_vars
    PROVE  OtherTypes'
<1> USE DEF IInv, OtherTypes, TypeOK
<1>1. ASSUME NEW l \in Leads, Arrive(l)
      PROVE  OtherTypes'
  BY <1>1 DEF Arrive, CreateLead, RegisterClient, CreateConversationLead
<1>2. ASSUME NEW l \in Leads, Claim(l)
      PROVE  OtherTypes'
  <2>1. invites[l] > 0 /\ invites' = [invites EXCEPT ![l] = @ - 1]
    BY <1>2 DEF Claim, ClaimInvite, RecoverClaim
  <2>2. invites[l] - 1 \in 0..MaxInvites
    BY <2>1, BoundsAssumption
  <2> QED
    BY <1>2, <2>1, <2>2 DEF Claim, ClaimInvite, RecoverClaim
<1>3. UNCHANGED <<clients, payers, contracted, invites>> => OtherTypes'
  OBVIOUS
<1>4. ASSUME NEW a \in Actors, NEW e, held[a].task # "idle",
             Advance(held[a].lead, held[a].row, e), Release(a)
      PROVE  OtherTypes'
  <2>1. held[a].lead \in Leads
    BY <1>4, KnownLeads, IdleTyped
  <2>2. UNCHANGED clients
    BY <1>4 DEF Release
  <2> QED
    BY <1>4, <2>1, <2>2, AdvanceOther
<1>5. ASSUME NEW a \in Actors, Apply(a)
      PROVE  OtherTypes'
  BY <1>3, <1>4, <1>5 DEF Apply, TeamAdvance, SweepAdvance, QualifyAdvance, Abandon, Release
<1>6. ASSUME NEW a \in Actors, NEW l \in Leads, Begin(a, l)
      PROVE  OtherTypes'
  BY <1>3, <1>6 DEF Begin, SubmitReview, TeamFetch, SweepRead, Fetch
<1>7. ASSUME NEW a \in Actors, Rewrite(a)
      PROVE  OtherTypes'
  BY <1>3, <1>7 DEF Rewrite, EditSave, ResubmitSave, EditRead, ResubmitRead, Release, Fetch
<1>8. CASE UNCHANGED vars
  BY <1>3, <1>8 DEF vars
<1> QED
  BY <1>1, <1>2, <1>5, <1>6, <1>7, <1>8 DEF Next, AdvanceNext

\* Every step keeps the invariant.
LEMMA StepIInv == IInv /\ [Next]_vars => IInv'
<1> SUFFICES ASSUME IInv, [Next]_vars
             PROVE  IInv'
  OBVIOUS
<1>1. RowShape /\ HeldShape
  BY StepShape
<1>2. /\ log' \in [Leads -> Seq(Transitions)]
      /\ row' \in [Leads -> Rows]
      /\ \A l \in known : Reached(l) \subseteq Reached(l)'
      /\ \A l \in known' : Accounted(l)'
      /\ UnbornUnlogged'
      /\ origin' \in [Leads -> Origins \cup {"none"}]
  BY <1>1, LogShape DEF UnbornUnlogged
<1>3. /\ Resubmits' /\ known \subseteq known'
      /\ \A l \in known : origin'[l] = origin[l]
  BY StepResubmits
<1>4. ASSUME NEW a \in Actors
      PROVE  /\ held'[a] = Idle \/ (held'[a].task # "idle" /\ held'[a].lead \in known')
             /\ \A l \in known' : held'[a].lead = l =>
                    /\ held'[a].row.journey_state \in Reached(l)'
                    /\ InStep(l, held[a].row)'
  <2>1. CASE held'[a] = held[a] /\ held[a].task # "idle"
    <3>1. held[a].lead \in known /\ Good(held[a].lead, held[a].row)
      BY <2>1, RowsGood
    <3>2. InStep(held[a].lead, held[a].row) /\ held[a].row.journey_state \in Reached(held[a].lead)
      BY <3>1 DEF Good
    <3>3. \A l \in known : held[a].lead = l =>
             /\ origin'[l] = origin[l] /\ Reached(l) \subseteq Reached(l)'
             /\ held'[a].row = held[a].row /\ InStep(l, held[a].row)
      BY <1>2, <1>3, <2>1, <3>2
    <3>4. \A l \in known : held[a].lead = l => InStep(l, held[a].row)'
      BY <3>3 DEF InStep
    <3> QED
      BY <1>2, <1>3, <2>1, <3>1, <3>2, <3>4
  <2>2. CASE held'[a] = Idle \/ (held'[a] = held[a] /\ held[a].task = "idle")
    <3>1. held'[a] = Idle /\ held'[a].task = "idle"
      BY <2>2, IdleTyped DEF IInv, TypeOK
    <3>2. held'[a].lead \notin Leads
      BY <3>1, IdleTyped, NoLeadAssumption
    <3>3. known' \subseteq Leads
      BY DEF known
    <3> QED
      BY <3>1, <3>2, <3>3
  <2>3. CASE Copied(held'[a])
    <3>1. /\ held'[a].task # "idle" /\ held'[a].lead \in known'
          /\ held'[a].row = row'[held'[a].lead]
      BY <2>3 DEF Copied
    <3>2. \A l \in known' : held'[a].lead = l =>
             /\ row'[l].journey_state \in Reached(l)' /\ InStep(l, row[l])'
             /\ held'[a].row = row'[l]
      BY <1>2, <3>1 DEF Accounted
    <3>3. \A l \in known' : held'[a].lead = l => InStep(l, held[a].row)'
      BY <3>2 DEF InStep
    <3> QED
      BY <3>1, <3>2, <3>3
  <2> QED
    BY <1>1, <2>1, <2>2, <2>3 DEF HeldShape
<1>5. TypeOK'
  <2>1. OtherTypes' /\ held' \in [Actors -> Instances]
    BY <1>1, StepOther DEF HeldShape
  <2> QED
    BY <1>2, <1>4, <2>1 DEF TypeOK, OtherTypes
<1>6. EveryRungEarned'
  BY <1>2, <1>4 DEF EveryRungEarned, Accounted
<1>7. Lockstep'
  BY <1>2, <1>4 DEF Lockstep, Accounted
<1> QED
  BY <1>2, <1>3, <1>5, <1>6, <1>7 DEF IInv

\* The invariant holds of every reachable state.
LEMMA InvariantHolds == Spec => []IInv
  BY InitIInv, StepIInv, PTL DEF Spec

\* Types, for every set of leads, requests and events.
THEOREM TypeCorrect == Spec => []TypeOK
  BY InvariantHolds, PTL DEF IInv

\* No lead, and no request's copy of one, ever shows a state that its creator
\* and the audit log do not account for, whatever overlaps with whatever.
THEOREM RungsAreEarned == Spec => []EveryRungEarned
  BY InvariantHolds, PTL DEF IInv

\* advance() derives the ladder columns together; the editor and a resubmission
\* save back the pair they read, and only the latter parts it from the state.
THEOREM ColumnsInStep == Spec => []Lockstep
  BY InvariantHolds, PTL DEF IInv

\* A lead that does not exist has been nowhere, so what leads have reached grows.
LEMMA StepGrows ==
    ASSUME IInv, [Next]_vars
    PROVE  \A l \in Leads : Reached(l) \subseteq Reached(l)'
<1>1. \A l \in known : Reached(l) \subseteq Reached(l)'
  BY StepShape, LogShape
<1>2. ASSUME NEW l \in Leads \ known
      PROVE  Reached(l) = {}
  <2>1. log[l] = <<>> /\ origin[l] = "none"
    BY DEF IInv, UnbornUnlogged, known
  <2>2. Len(<<>>) = 0 /\ 1..0 = {} /\ "none" \notin Origins
    BY DEF Origins
  <2> QED
    BY <2>1, <2>2 DEF Reached, Visited
<1> QED
  BY <1>1, <1>2

\* A request that ends was good for an advance of its lead, or does nothing.
LEMMA ApplyShape ==
    ASSUME IInv, NEW a \in Actors, Apply(a)
    PROVE  /\ Release(a) /\ held[a].task # "idle"
           /\ held[a].lead \in known /\ held[a].lead \in Leads
           /\ Good(held[a].lead, held[a].row)
           /\ \/ \E e \in Events : Advance(held[a].lead, held[a].row, e)
              \/ UNCHANGED <<row, log, payers, contracted, invites>>
<1>1. {"gate_dormant", "qualify"} \subseteq Events /\ TeamEvents \subseteq Events
  BY TeamEventsAssumption DEF Events
<1>2. Release(a) /\ held[a].task # "idle"
  BY IdleTyped
  DEF Apply, TeamAdvance, SweepAdvance, QualifyAdvance, Abandon, IInv, TypeOK
<1>3. held[a].lead \in known /\ held[a].lead \in Leads /\ Good(held[a].lead, held[a].row)
  BY <1>2, RowsGood, KnownLeads DEF IInv
<1> QED
  BY <1>1, <1>2, <1>3 DEF Apply, TeamAdvance, SweepAdvance, QualifyAdvance, Abandon

\* Reading a lead, and saving one without advance(), touches nothing but rows,
\* instances and the births of leads.
LEMMA QuietShape ==
    ASSUME NEW a, (\E l \in Leads : Begin(a, l)) \/ Rewrite(a)
    PROVE  UNCHANGED <<log, clients, payers, contracted, invites>>
  BY DEF Begin, Rewrite, SubmitReview, TeamFetch, SweepRead, EditRead, ResubmitRead,
         Fetch, EditSave, ResubmitSave, Release

--------------------------------------------------------------------------------
(* Clients come from invitations.                                          *)

\* A token is only minted on reaching INVITED, or again while standing there.
TokensEarned == \A l \in Leads : invites[l] > 0 => "INVITED" \in Reached(l)

\* advance() mints an invite only for a lead that reaches INVITED.
LEMMA AdvanceTokens ==
    ASSUME IInv, NEW l \in Leads, NEW r, Good(l, r), NEW e, Advance(l, r, e),
           UNCHANGED origin
    PROVE  \/ UNCHANGED invites
           \/ /\ \E n \in Nat : invites' = [invites EXCEPT ![l] = n]
              /\ "INVITED" \in Reached(l)'
<1>0. ASSUME NEW s, Mint(l, s)
      PROVE  \/ UNCHANGED invites
             \/ s = "INVITED" /\ \E n \in Nat : invites' = [invites EXCEPT ![l] = n]
  <2>1. invites[l] + 1 \in Nat
    BY BoundsAssumption DEF IInv, TypeOK
  <2> QED
    BY <1>0, <2>1 DEF Mint
<1>1. CASE Move(l, r, e)
  <2>1. PICK t \in Targets(r.journey_state, e) :
            Write(l, r, e, t) /\ (Mint(l, t) \/ UNCHANGED invites)
    BY <1>1 DEF Move
  <2>2. t \in Reached(l)'
    BY <2>1, WriteReached DEF Targets, Good, IInv
  <2> QED
    BY <1>0, <2>1, <2>2
<1>2. CASE Tolerate(l, r, e)
  <2>1. Mint(l, r.journey_state) /\ log' = log
    BY <1>2 DEF Tolerate
  <2>2. r.journey_state \in Reached(l)'
    BY <2>1 DEF Good, Reached, Visited
  <2> QED
    BY <1>0, <2>1, <2>2
<1>3. CASE Refuse(r, e)
  BY <1>3 DEF Refuse
<1> QED
  BY <1>1, <1>2, <1>3 DEF Advance

\* Every step keeps the tokens and the clients earned.
LEMMA StepInvited ==
    ASSUME IInv, TokensEarned, ClientsWereInvited, [Next]_vars
    PROVE  TokensEarned' /\ ClientsWereInvited'
<1>0. \A l \in Leads : Reached(l) \subseteq Reached(l)'
  BY StepGrows
<1>r. registered \subseteq registered'
  BY StepResubmits DEF registered, known
<1>1. ASSUME UNCHANGED <<invites, clients>>
      PROVE  TokensEarned' /\ ClientsWereInvited'
  BY <1>0, <1>r, <1>1 DEF TokensEarned, ClientsWereInvited, IInv, TypeOK
<1>2. ASSUME NEW l \in Leads, RegisterClient(l)
      PROVE  TokensEarned' /\ ClientsWereInvited'
  <2>1. invites' = invites /\ clients' = clients \cup {l} /\ l \in registered'
    BY <1>2 DEF RegisterClient, Born, registered, IInv, TypeOK
  <2> QED
    BY <1>0, <1>r, <2>1 DEF TokensEarned, ClientsWereInvited, IInv, TypeOK
<1>3. ASSUME NEW l \in Leads, Claim(l)
      PROVE  TokensEarned' /\ ClientsWereInvited'
  <2>1. /\ invites[l] > 0
        /\ invites' = [invites EXCEPT ![l] = @ - 1]
        /\ clients' \in {clients, clients \cup {l}}
    BY <1>3 DEF Claim, ClaimInvite, RecoverClaim
  <2>2. "INVITED" \in Reached(l)'
    BY <1>0, <2>1 DEF TokensEarned
  <2>3. \A k \in Leads : invites'[k] > 0 => "INVITED" \in Reached(k)'
    BY <1>0, <2>1, <2>2 DEF TokensEarned, IInv, TypeOK
  <2>4. \A k \in clients' : k \in registered' \/ "INVITED" \in Reached(k)'
    BY <1>0, <1>r, <2>1, <2>2 DEF ClientsWereInvited, IInv, TypeOK
  <2> QED
    BY <2>3, <2>4 DEF TokensEarned, ClientsWereInvited
<1>4. ASSUME NEW a \in Actors, Apply(a)
      PROVE  TokensEarned' /\ ClientsWereInvited'
  <2>1. /\ held[a].lead \in Leads /\ Good(held[a].lead, held[a].row)
        /\ UNCHANGED <<origin, clients>>
        /\ \/ \E e \in Events : Advance(held[a].lead, held[a].row, e)
           \/ UNCHANGED <<row, log, payers, contracted, invites>>
    BY <1>4, ApplyShape DEF Release
  <2>2. \/ UNCHANGED invites
        \/ \E l \in Leads : \E n \in Nat :
              invites' = [invites EXCEPT ![l] = n] /\ "INVITED" \in Reached(l)'
    BY <2>1, AdvanceTokens
  <2>3. ASSUME NEW l \in Leads, NEW n \in Nat,
               invites' = [invites EXCEPT ![l] = n], "INVITED" \in Reached(l)'
        PROVE  TokensEarned' /\ ClientsWereInvited'
    <3>1. \A k \in Leads : invites'[k] > 0 => "INVITED" \in Reached(k)'
      BY <1>0, <2>3 DEF TokensEarned, IInv, TypeOK
    <3>2. \A k \in clients' : k \in registered' \/ "INVITED" \in Reached(k)'
      BY <1>0, <1>r, <2>1 DEF ClientsWereInvited, IInv, TypeOK
    <3> QED
      BY <3>1, <3>2 DEF TokensEarned, ClientsWereInvited
  <2> QED
    BY <1>1, <2>1, <2>2, <2>3
<1>5. ASSUME NEW a \in Actors, (\E l \in Leads : Begin(a, l)) \/ Rewrite(a)
      PROVE  UNCHANGED <<invites, clients>>
  BY <1>5, QuietShape
<1>6. ASSUME NEW l \in Leads, CreateLead(l) \/ CreateConversationLead(l)
      PROVE  UNCHANGED <<invites, clients>>
  BY <1>6 DEF CreateLead, CreateConversationLead
<1>7. UNCHANGED vars => UNCHANGED <<invites, clients>>
  BY DEF vars
<1> QED
  BY <1>1, <1>2, <1>3, <1>4, <1>5, <1>6, <1>7 DEF Next, AdvanceNext, Arrive

\* No account without an invitation that was revealed or an open registration,
\* however many tokens are minted, replayed claims race or instances go stale.
THEOREM AccountsAreEarned == Spec => []ClientsWereInvited
<1>1. Init => TokensEarned /\ ClientsWereInvited
  BY DEF Init, TokensEarned, ClientsWereInvited
<1>2. IInv /\ TokensEarned /\ ClientsWereInvited /\ [Next]_vars
          => TokensEarned' /\ ClientsWereInvited'
  BY StepInvited
<1> QED
  BY <1>1, <1>2, InvariantHolds, PTL DEF Spec

--------------------------------------------------------------------------------
(* An executed contract has the whole climb behind it.                     *)

\* Each of these rungs has one rung below it, and only one.
Behind(l) ==
    /\ "ASSESSMENT" \in Reached(l) => "NDA_REVIEW" \in Reached(l)
    /\ "POC" \in Reached(l) => "ASSESSMENT" \in Reached(l)
    /\ "INTEGRATION" \in Reached(l) => "POC" \in Reached(l)

ClimbBehind ==
    /\ \A l \in Leads : Behind(l)
    /\ \A l \in contracted : l \in clients /\ "INTEGRATION" \in Reached(l)

\* Only one rung leads to each of the upper states.
LEMMA OneRungBelow ==
    ASSUME NEW s, NEW e, NEW t, <<s, e, t>> \in Edges
    PROVE  /\ t = "ASSESSMENT" => s = "NDA_REVIEW"
           /\ t = "POC" => s = "ASSESSMENT"
           /\ t = "INTEGRATION" => s = "POC"
           /\ e = "contract_executed" => s = "INTEGRATION"
  BY DEF Edges, Dozing

\* Every step keeps the rungs below an upper state reached.
LEMMA StepBehind ==
    ASSUME IInv, \A l \in Leads : Behind(l), [Next]_vars, NEW l \in Leads
    PROVE  Behind(l)'
<1>0. RowShape
  BY StepShape
<1>1. ASSUME Reached(l)' = Reached(l)
      PROVE  Behind(l)'
  BY <1>1 DEF Behind
<1>2. ASSUME UNCHANGED <<origin, log>>
      PROVE  Reached(l)' = Reached(l)
  BY <1>2 DEF Reached, Visited
<1>3. ASSUME NEW k \in known, NEW r \in Rows, NEW e \in Events, NEW t \in States,
             Climbs(k, r, e, t)
      PROVE  Behind(l)'
  <2>1. Reached(k)' = Reached(k) \cup {t} /\ \A j \in Leads \ {k} : Reached(j)' = Reached(j)
    BY <1>3, WriteReached, KnownLeads DEF IInv, Climbs
  <2>2. CASE l = k
    BY <1>3, <2>1, <2>2, OneRungBelow DEF Behind, Good, Climbs
  <2>3. CASE l # k
    BY <1>1, <2>1, <2>3
  <2> QED
    BY <2>2, <2>3
<1>4. ASSUME NEW k \in Leads, BornShape(k)
      PROVE  Behind(l)'
  <2>1. PICK o \in Origins : Born(k, o) /\ log' = log
    BY <1>4 DEF BornShape
  <2>2. k \notin known /\ \A j \in Leads \ {k} : origin'[j] = origin[j]
    BY <2>1 DEF Born, known, IInv, TypeOK
  <2>3. CASE l # k
    <3>1. Reached(l)' = Reached(l)
      BY <2>1, <2>2, <2>3 DEF Reached, Visited
    <3> QED
      BY <1>1, <3>1
  <2>4. CASE l = k
    <3>1. log'[l] = <<>> /\ Len(<<>>) = 0 /\ 1..0 = {}
      BY <2>1, <2>2, <2>4 DEF IInv, UnbornUnlogged
    <3>2. Reached(l)' \subseteq { Birth[x] : x \in Origins }
      BY <3>1 DEF Reached, Visited
    <3>3. \A x \in Origins : Birth[x] \notin {"ASSESSMENT", "POC", "INTEGRATION"}
      BY DEF Origins, Birth
    <3> QED
      BY <3>2, <3>3 DEF Behind
  <2> QED
    BY <2>3, <2>4
<1> QED
  BY <1>0, <1>1, <1>2, <1>3, <1>4 DEF RowShape, PutShape, ClimbShape, Put

\* Every step keeps a contract on top of its whole climb.
LEMMA StepContracted ==
    ASSUME IInv, ClimbBehind, [Next]_vars
    PROVE  ClimbBehind'
<1>0. /\ \A l \in Leads : Reached(l) \subseteq Reached(l)'
      /\ \A l \in Leads : Behind(l)'
  BY StepGrows, StepBehind DEF ClimbBehind
<1>1. ASSUME UNCHANGED contracted, clients \subseteq clients'
      PROVE  ClimbBehind'
  BY <1>0, <1>1 DEF ClimbBehind, IInv, TypeOK
<1>2. ASSUME NEW a \in Actors, Apply(a)
      PROVE  ClimbBehind'
  <2>1. /\ held[a].lead \in Leads /\ Good(held[a].lead, held[a].row)
        /\ UNCHANGED <<origin, clients>>
        /\ \/ \E e \in Events : Advance(held[a].lead, held[a].row, e)
           \/ UNCHANGED <<row, log, payers, contracted, invites>>
    BY <1>2, ApplyShape DEF Release
  <2>2. ASSUME NEW e, Move(held[a].lead, held[a].row, e)
        PROVE  ClimbBehind'
    <3>1. PICK t : <<held[a].row.journey_state, e, t>> \in Edges /\ Hooks(held[a].lead, e, t)
      BY <2>2 DEF Move, Targets
    <3>2. CASE UNCHANGED contracted
      BY <1>1, <2>1, <3>2
    <3>3. CASE /\ e = "contract_executed"
               /\ held[a].lead \in clients
               /\ contracted' = contracted \cup {held[a].lead}
      <4>1. "INTEGRATION" \in Reached(held[a].lead)
        BY <2>1, <3>1, <3>3, OneRungBelow DEF Good
      <4>2. \A l \in contracted' : l \in clients' /\ l \in Leads /\ "INTEGRATION" \in Reached(l)
        BY <2>1, <3>3, <4>1 DEF ClimbBehind, IInv, TypeOK
      <4> QED
        BY <1>0, <4>2 DEF ClimbBehind
    <3> QED
      BY <3>1, <3>2, <3>3 DEF Hooks
  <2>3. ASSUME NEW e, Tolerate(held[a].lead, held[a].row, e) \/ Refuse(held[a].row, e)
        PROVE  ClimbBehind'
    BY <1>1, <2>1, <2>3 DEF Tolerate, Refuse
  <2> QED
    BY <1>1, <2>1, <2>2, <2>3 DEF Advance
<1>3. ASSUME NEW l \in Leads, Arrive(l) \/ Claim(l)
      PROVE  UNCHANGED contracted /\ clients \subseteq clients'
  BY <1>3 DEF Arrive, CreateLead, RegisterClient, CreateConversationLead,
              Claim, ClaimInvite, RecoverClaim
<1>4. ASSUME NEW a \in Actors, (\E l \in Leads : Begin(a, l)) \/ Rewrite(a)
      PROVE  UNCHANGED contracted /\ clients \subseteq clients'
  BY <1>4, QuietShape
<1>5. UNCHANGED vars => UNCHANGED contracted /\ clients \subseteq clients'
  BY DEF vars
<1> QED
  BY <1>1, <1>2, <1>3, <1>4, <1>5 DEF Next, AdvanceNext

\* Stale requests can move a lead to and fro, but contract_state "executed" is
\* only ever reached through NDA, assessment, PoC and integration.
THEOREM ContractsAreEarned == Spec => []ContractEarned
<1>1. Init => ClimbBehind
  <2> SUFFICES ASSUME Init PROVE ClimbBehind
    OBVIOUS
  <2>1. \A l \in Leads : origin[l] = "none" /\ log[l] = <<>>
    BY DEF Init
  <2>2. Len(<<>>) = 0 /\ 1..0 = {} /\ "none" \notin Origins
    BY DEF Origins
  <2>3. \A l \in Leads : Reached(l) = {}
    BY <2>1, <2>2 DEF Reached, Visited
  <2> QED
    BY <2>3 DEF Init, ClimbBehind, Behind
<1>2. IInv /\ ClimbBehind /\ [Next]_vars => ClimbBehind'
  BY StepContracted
<1>3. IInv /\ ClimbBehind => ContractEarned
  BY DEF IInv, TypeOK, ClimbBehind, Behind, ContractEarned
<1> QED
  BY <1>1, <1>2, <1>3, InvariantHolds, PTL DEF Spec

--------------------------------------------------------------------------------
(* The refinement: the whole program keeps the abstract ladder.            *)

\* The journey begins where the ladder does.
LEMMA BeginsOnLadder == Init => Ladder!Init
<1> SUFFICES ASSUME Init PROVE Ladder!Init
  OBVIOUS
<1>1. \A l \in Leads : origin[l] = "none" /\ log[l] = <<>> /\ l \notin known
  BY DEF Init, known
<1>2. Len(<<>>) = 0 /\ 1..0 = {} /\ "none" \notin Origins
  BY DEF Origins
<1>3. \A l \in Leads : Reached(l) = {}
  BY <1>1, <1>2 DEF Reached, Visited
<1> QED
  BY <1>1, <1>3 DEF Ladder!Init

\* Rows and log left alone are a stutter of the ladder.
LEMMA StaysIsStutter ==
    ASSUME UNCHANGED <<origin, row, log>>
    PROVE  UNCHANGED Ladder!vars
  BY DEF Ladder!vars, Reached, Visited, known

\* An audited write is a climb: one edge, out of a state the lead has earned.
LEMMA WriteClimbs ==
    ASSUME IInv, NEW l \in known, NEW r \in Rows, NEW e \in Events, NEW t \in States,
           Climbs(l, r, e, t)
    PROVE  Ladder!Climb(l)
<1> DEFINE at == [k \in Leads |-> IF k \in known THEN row[k].journey_state ELSE "unborn"]
           earned == [k \in Leads |-> Reached(k)]
           edge == <<r.journey_state, e, t>>
<1>0. /\ Write(l, r, e, t) /\ Good(l, r) /\ edge \in Edges
      /\ origin' = origin /\ known' = known /\ l \in Leads
  BY KnownLeads DEF Climbs, known, IInv
<1>1. at' = [at EXCEPT ![l] = t]
  <2>1. row'[l].journey_state = t /\ \A k \in Leads \ {l} : row'[k] = row[k]
    BY <1>0, SavedTyped DEF Write, IInv, TypeOK
  <2> QED
    BY <1>0, <2>1
<1>2. Reached(l)' = Reached(l) \cup {t} /\ \A k \in Leads \ {l} : Reached(k)' = Reached(k)
  BY <1>0, WriteReached DEF IInv
<1>3. earned' = [earned EXCEPT ![l] = @ \cup {t}]
  BY <1>0, <1>2
<1>4. edge \in Edges /\ edge[1] \in earned[l] /\ edge[3] = t
  BY <1>0 DEF Good
<1> QED
  BY <1>1, <1>3, <1>4 DEF Ladder!Climb

\* A creator puts the lead on the ladder where it is born.
LEMMA BirthCreates ==
    ASSUME IInv, NEW l \in Leads, BornShape(l)
    PROVE  Ladder!Create(l)
<1> DEFINE at == [k \in Leads |-> IF k \in known THEN row[k].journey_state ELSE "unborn"]
           earned == [k \in Leads |-> Reached(k)]
<1>1. PICK o \in Origins : Born(l, o) /\ log' = log
  BY DEF BornShape
<1>2. /\ l \notin known /\ known' = known \cup {l}
      /\ \A k \in Leads \ {l} : origin'[k] = origin[k] /\ row'[k] = row[k]
      /\ origin'[l] = o /\ row'[l] = NewRow(Birth[o])
  <2>1. o # "none"
    BY DEF Origins
  <2> QED
    BY <1>1, <2>1 DEF Born, known, IInv, TypeOK
<1>3. Birth[o] \in { Birth[x] : x \in Origins } /\ row'[l].journey_state = Birth[o]
  BY <1>2, NewRowTyped
<1>4. at' = [at EXCEPT ![l] = Birth[o]] /\ at[l] = "unborn"
  BY <1>2, <1>3
<1>5. Reached(l)' = {Birth[o]} /\ \A k \in Leads \ {l} : Reached(k)' = Reached(k)
  <2>1. log'[l] = <<>> /\ Len(<<>>) = 0 /\ 1..0 = {}
    BY <1>1, <1>2 DEF IInv, UnbornUnlogged
  <2>2. { Birth[x] : x \in Origins \cap {o} } = {Birth[o]}
    OBVIOUS
  <2> QED
    BY <1>1, <1>2, <2>1, <2>2 DEF Reached, Visited
<1>6. earned' = [earned EXCEPT ![l] = {Birth[o]}]
  BY <1>5
<1> QED
  BY <1>3, <1>4, <1>6 DEF Ladder!Create

\* Every step of the program, the editor's and a resubmission's included, creates a
\* lead, puts it at a state it has earned or climbs one edge from such a state.
THEOREM KeepsEarnedLadder == Spec => StaysOnEarned
<1>1. IInv /\ [Next]_vars => [Ladder!Next]_(Ladder!vars)
  <2> SUFFICES ASSUME IInv, [Next]_vars
               PROVE  [Ladder!Next]_(Ladder!vars)
    OBVIOUS
  <2> DEFINE at == [l \in Leads |-> IF l \in known THEN row[l].journey_state ELSE "unborn"]
             earned == [l \in Leads |-> Reached(l)]
  <2>1. ASSUME NEW l \in known, NEW r \in Rows, Good(l, r), Put(l, r)
        PROVE  [Ladder!Next]_(Ladder!vars)
    <3>0. known' = known /\ l \in Leads
      BY <2>1, KnownLeads DEF Put, known, IInv
    <3>1. at' = [at EXCEPT ![l] = r.journey_state]
      BY <2>1, <3>0 DEF Put, IInv, TypeOK
    <3>2. earned' = earned
      BY <2>1 DEF Put, Reached, Visited
    <3>3. r.journey_state \in earned[l]
      BY <2>1, <3>0 DEF Good
    <3> QED
      BY <3>0, <3>1, <3>2, <3>3 DEF Ladder!Next, Ladder!Restore
  <2>2. ASSUME NEW l \in known, NEW r \in Rows, NEW e \in Events, NEW t \in States,
               Climbs(l, r, e, t)
        PROVE  [Ladder!Next]_(Ladder!vars)
    BY <2>2, WriteClimbs, KnownLeads DEF Ladder!Next, Ladder!ClimbNext, IInv
  <2>3. ASSUME NEW l \in Leads, BornShape(l)
        PROVE  [Ladder!Next]_(Ladder!vars)
    BY <2>3, BirthCreates DEF Ladder!Next, Ladder!ClimbNext
  <2> QED
    BY <2>1, <2>2, <2>3, StaysIsStutter, StepShape DEF RowShape, PutShape, ClimbShape
<1> QED
  BY <1>1, BeginsOnLadder, InvariantHolds, PTL DEF Spec, StaysOnEarned, Ladder!Spec

--------------------------------------------------------------------------------
(* What only a stale instance can do.                                      *)

\* advance() touches the row of its own lead and no other, and takes it along an
\* edge out of the state its instance shows.
LEMMA AdvanceMoves ==
    ASSUME TypeOK, NEW l \in Leads, NEW r \in Rows, NEW e, Advance(l, r, e)
    PROVE  /\ \A k \in Leads \ {l} : row'[k] = row[k]
           /\ \/ row'[l] = row[l]
              \/ row'[l].journey_state \in Targets(r.journey_state, e)
<1>1. CASE Move(l, r, e)
  <2>1. PICK t \in Targets(r.journey_state, e) : Write(l, r, e, t)
    BY <1>1 DEF Move
  <2>2. row[l] \in Rows /\ t \in States
    BY <2>1 DEF TypeOK, Targets
  <2>3. Saved(row[l], r, t).journey_state = t
    BY <2>2, SavedTyped
  <2> QED
    BY <2>1, <2>3 DEF Write, TypeOK
<1>2. CASE Tolerate(l, r, e)
  BY <1>2 DEF Tolerate
<1>3. CASE Refuse(r, e)
  BY <1>3 DEF Refuse
<1> QED
  BY <1>1, <1>2, <1>3 DEF Advance

\* A claim locks the row, so the edge it takes leaves the state the lead is in.
LEMMA AcceptMoves ==
    ASSUME TypeOK, NEW l \in Leads, AcceptInvite(l)
    PROVE  /\ \A k \in Leads \ {l} : row'[k] = row[k]
           /\ \/ row'[l] = row[l]
              \/ row'[l].journey_state \in Targets(row[l].journey_state, "accept_invite")
<1>1. CASE row[l].journey_state = "INVITED"
  <2>1. Write(l, row[l], "accept_invite", "NDA_REVIEW")
    BY <1>1 DEF AcceptInvite
  <2>2. "NDA_REVIEW" \in Targets(row[l].journey_state, "accept_invite")
    BY <1>1 DEF Targets, Edges, States, LadderStates
  <2>3. row[l] \in Rows /\ "NDA_REVIEW" \in States
    BY DEF TypeOK, States, LadderStates
  <2>4. Saved(row[l], row[l], "NDA_REVIEW").journey_state = "NDA_REVIEW"
    BY <2>3, SavedTyped
  <2> QED
    BY <2>1, <2>2, <2>4 DEF Write, TypeOK
<1>2. CASE row[l].journey_state # "INVITED"
  BY <1>2 DEF AcceptInvite
<1> QED
  BY <1>1, <1>2

\* What every step does to the state of a lead: it stays, or walks the table, or is
\* put back by its questionnaire, or where a stale instance says.
Walks(l) ==
    \/ row'[l].journey_state = row[l].journey_state
    \/ \E e \in Events : row'[l].journey_state \in Targets(row[l].journey_state, e)
    \/ \E a \in Actors :
          /\ held[a].lead = l /\ held[a].task = "resubmit"
          /\ held'[a].task = "qualify" /\ row'[l].journey_state = "IN_REVIEW"
    \/ \E a \in Actors :
          /\ held[a].lead = l /\ held'[a] = Idle
          /\ held[a].row.journey_state # row[l].journey_state

\* A step that lets go of an instance walks from the state it showed.
LEMMA ApplyWalks ==
    ASSUME IInv, NEW a \in Actors, Apply(a)
    PROVE  \A l \in known : Walks(l)
<1>1. /\ held[a].lead \in Leads /\ held[a].row \in Rows /\ held'[a] = Idle
      /\ \/ \E e \in Events : Advance(held[a].lead, held[a].row, e)
         \/ UNCHANGED <<row, log, payers, contracted, invites>>
  BY ApplyShape DEF Release, Good, IInv, TypeOK
<1>2. ASSUME NEW e \in Events, Advance(held[a].lead, held[a].row, e)
      PROVE  /\ \A k \in Leads \ {held[a].lead} : row'[k] = row[k]
             /\ \/ row'[held[a].lead] = row[held[a].lead]
                \/ row'[held[a].lead].journey_state \in Targets(held[a].row.journey_state, e)
  BY <1>1, <1>2, AdvanceMoves DEF IInv
<1>3. known \subseteq Leads
  BY DEF known
<1> QED
  BY <1>1, <1>2, <1>3 DEF Walks

\* Saving a held instance back moves its own lead only.
LEMMA RewriteWalks ==
    ASSUME IInv, NEW a \in Actors, Rewrite(a)
    PROVE  \A l \in known : Walks(l)
<1>1. row' = row => \A l \in known : Walks(l)
  BY DEF Walks
<1>2. CASE EditSave(a)
  <2>1. /\ held'[a] = Idle
        /\ row' = [row EXCEPT ![held[a].lead] = held[a].row]
    BY <1>2 DEF EditSave, Release, IInv, TypeOK
  <2> QED
    BY <2>1, KnownLeads DEF Walks, IInv, TypeOK
<1>3. CASE ResubmitSave(a)
  <2> DEFINE l == held[a].lead
             r == [held[a].row EXCEPT !.journey_state = "IN_REVIEW"]
  <2>1. /\ held[a].task = "resubmit" /\ row' = [row EXCEPT ![l] = r]
        /\ held'[a] = [held[a] EXCEPT !.task = "qualify", !.row = r]
        /\ held[a] \in Instances /\ l \in Leads
    BY <1>3, RowsGood, KnownLeads DEF ResubmitSave, IInv, TypeOK
  <2>2. r.journey_state = "IN_REVIEW" /\ held'[a].task = "qualify"
    BY <2>1 DEF Instances, Rows
  <2>3. /\ row'[l].journey_state = "IN_REVIEW"
        /\ \A k \in Leads \ {l} : row'[k] = row[k]
    BY <2>1, <2>2 DEF IInv, TypeOK
  <2> QED
    BY <2>1, <2>2, <2>3, KnownLeads DEF Walks, IInv
<1>4. CASE \E l \in Leads : EditRead(a, l) \/ ResubmitRead(a, l)
  BY <1>1, <1>4 DEF EditRead, ResubmitRead, Fetch
<1> QED
  BY <1>2, <1>3, <1>4 DEF Rewrite

\* Each action of the program walks.
LEMMA StepWalks ==
    ASSUME IInv, [Next]_vars
    PROVE  \A l \in known : Walks(l)
<1>0. row' = row => \A l \in known : Walks(l)
  BY DEF Walks
<1>1. ASSUME NEW k \in Leads, NEW o, Born(k, o)
      PROVE  \A l \in known : Walks(l)
  <2>1. \A l \in known : row'[l] = row[l]
    BY <1>1 DEF Born, known, IInv, TypeOK
  <2> QED
    BY <2>1 DEF Walks
<1>2. ASSUME NEW k \in Leads, ClaimInvite(k)
      PROVE  \A l \in known : Walks(l)
  <2>1. AcceptInvite(k) /\ "accept_invite" \in Events
    BY <1>2 DEF ClaimInvite, Events
  <2> QED
    BY <2>1, AcceptMoves, KnownLeads DEF Walks, IInv
<1>3. ASSUME NEW k \in Leads, RecoverClaim(k)
      PROVE  \A l \in known : Walks(l)
  BY <1>0, <1>3 DEF RecoverClaim
<1>4. ASSUME NEW a \in Actors, NEW k \in Leads, TeamFetch(a, k) \/ SweepRead(a, k)
      PROVE  \A l \in known : Walks(l)
  BY <1>0, <1>4 DEF TeamFetch, SweepRead, Fetch
<1>5. CASE UNCHANGED vars
  BY <1>0, <1>5 DEF vars
<1> QED
  BY <1>1, <1>2, <1>3, <1>4, <1>5, ApplyWalks, RewriteWalks
  DEF Next, AdvanceNext, Claim, Begin, SubmitReview,
      Arrive, CreateLead, RegisterClient, CreateConversationLead

\* advance() validates: only a resubmitted questionnaire, or letting go of a stale
\* instance, takes a lead off the table.
THEOREM OffTableIsStale == Spec => OnlyStaleLeavesTable
<1>1. IInv /\ [Next]_vars =>
        [\A l \in known :
            \/ row'[l].journey_state = row[l].journey_state
            \/ \E e \in Events : row'[l].journey_state \in Targets(row[l].journey_state, e)
            \/ \E a \in Actors :
                  /\ held[a].lead = l /\ held[a].task = "resubmit"
                  /\ held'[a].task = "qualify" /\ row'[l].journey_state = "IN_REVIEW"
            \/ \E a \in Actors :
                  /\ held[a].lead = l /\ held'[a] = Idle
                  /\ held[a].row.journey_state # row[l].journey_state]_vars
  BY StepWalks DEF Walks
<1> QED
  BY <1>1, InvariantHolds, PTL DEF Spec, OnlyStaleLeavesTable

--------------------------------------------------------------------------------
(* What holds of the creators and of every writer that goes through advance(). *)

\* A conversation's lead is past the questions from birth.
PastQuestions ==
    \A l \in known : origin[l] = "conversation" =>
        Reached(l) \cap {"ARRIVED", "IN_REVIEW"} = {}

\* An instance was stamped with value_delivered_at only if the row is.
Audited ==
    /\ LogTailIsState /\ ValueFirst /\ PastQuestions
    /\ \A a \in Actors : held[a].task # "idle" =>
           (held[a].row.value_delivered => row[held[a].lead].value_delivered)

Audit(l, r, e, t) == Climbs(l, r, e, t) /\ (r.value_delivered => row[l].value_delivered)

AuditShape ==
    \/ UNCHANGED <<origin, row, log>>
    \/ \E l \in Leads : BornShape(l)
    \/ \E l \in known : \E r \in Rows : \E e \in Events : \E t \in States : Audit(l, r, e, t)

\* advance() leaves rows and log alone or takes an audited edge.
LEMMA AdvanceAudits ==
    ASSUME IInv, NEW l \in known, NEW r, Good(l, r), NEW e \in Events, UNCHANGED origin,
           r.value_delivered => row[l].value_delivered, Advance(l, r, e)
    PROVE  AuditShape
<1>1. CASE Move(l, r, e)
  <2>1. PICK t \in Targets(r.journey_state, e) : Write(l, r, e, t)
    BY <1>1 DEF Move
  <2>2. t \in States /\ Climbs(l, r, e, t) /\ r \in Rows
    BY <2>1 DEF Targets, Good, Climbs
  <2> QED
    BY <2>2 DEF AuditShape, Audit
<1>2. CASE Tolerate(l, r, e) \/ Refuse(r, e)
  BY <1>2 DEF Tolerate, Refuse, AuditShape
<1> QED
  BY <1>1, <1>2 DEF Advance

\* Each action of the discipline has the shape.
LEMMA StepAudits ==
    ASSUME IInv, Audited, [AdvanceNext]_vars
    PROVE  AuditShape
<1>1. ASSUME NEW l \in Leads, NEW o \in Origins, Born(l, o), UNCHANGED log
      PROVE  AuditShape
  BY <1>1 DEF AuditShape, BornShape
<1>2. ASSUME NEW l \in Leads, ClaimInvite(l)
      PROVE  AuditShape
  <2>1. CASE row[l].journey_state = "INVITED"
    <3>1. /\ Write(l, row[l], "accept_invite", "NDA_REVIEW") /\ l \in known
          /\ UNCHANGED origin
      BY <1>2, <2>1 DEF ClaimInvite, AcceptInvite
    <3>2. <<row[l].journey_state, "accept_invite", "NDA_REVIEW">> \in Edges
      BY <2>1 DEF Edges
    <3>3. row[l] \in Rows /\ Good(l, row[l])
      BY <3>1, RowsGood DEF Good
    <3>4. Audit(l, row[l], "accept_invite", "NDA_REVIEW")
      BY <3>1, <3>2, <3>3 DEF Audit, Climbs
    <3> QED
      BY <3>1, <3>2, <3>3, <3>4, EdgesTyped DEF AuditShape
  <2>2. CASE row[l].journey_state # "INVITED"
    BY <1>2, <2>2 DEF ClaimInvite, AcceptInvite, AuditShape
  <2> QED
    BY <2>1, <2>2
<1>3. ASSUME NEW a \in Actors, Apply(a)
      PROVE  AuditShape
  <2>1. /\ held[a].task # "idle" /\ held[a].lead \in known /\ UNCHANGED origin
        /\ Good(held[a].lead, held[a].row)
        /\ \/ \E e \in Events : Advance(held[a].lead, held[a].row, e)
           \/ UNCHANGED <<row, log, payers, contracted, invites>>
    BY <1>3, ApplyShape DEF Release
  <2>2. held[a].row.value_delivered => row[held[a].lead].value_delivered
    BY <2>1 DEF Audited
  <2> QED
    BY <2>1, <2>2, AdvanceAudits DEF AuditShape
<1>4. ASSUME UNCHANGED <<origin, row, log>>
      PROVE  AuditShape
  BY <1>4 DEF AuditShape
<1>5. ASSUME NEW l \in Leads, Arrive(l) \/ \E a \in Actors : SubmitReview(a, l)
      PROVE  AuditShape
  BY <1>1, <1>5 DEF Arrive, CreateLead, RegisterClient, CreateConversationLead,
                    SubmitReview, Origins
<1> QED
  BY <1>2, <1>3, <1>4, <1>5
  DEF AdvanceNext, Claim, RecoverClaim, Begin, TeamFetch, SweepRead, Fetch, vars

\* An audited edge: the tail of the log, the stamp and every other lead.
LEMMA AuditKeeps ==
    ASSUME IInv, Audited, NEW l \in known, NEW r \in Rows, NEW e \in Events, NEW t \in States,
           Audit(l, r, e, t)
    PROVE  /\ \A k \in Leads \ {l} : row'[k] = row[k] /\ log'[k] = log[k]
                                      /\ Reached(k)' = Reached(k)
           /\ row[l].value_delivered => row'[l].value_delivered
           /\ log'[l] # <<>> /\ log'[l][Len(log'[l])].to = t
           /\ row'[l].journey_state = t
           /\ row'[l].value_delivered <=> /\ origin[l] # "conversation"
                                          /\ ~(Reached(l)' \subseteq {"ARRIVED", "IN_REVIEW"})
           /\ origin[l] = "conversation" => Reached(l)' \cap {"ARRIVED", "IN_REVIEW"} = {}
<1> DEFINE x == [from |-> r.journey_state, event |-> e, to |-> t]
<1>0. /\ l \in Leads /\ Good(l, r) /\ <<r.journey_state, e, t>> \in Edges
      /\ Write(l, r, e, t) /\ origin' = origin
      /\ r.value_delivered => row[l].value_delivered
  BY KnownLeads DEF Audit, Climbs, IInv
<1>1. /\ row[l] \in Rows /\ row' = [row EXCEPT ![l] = Saved(row[l], r, t)]
      /\ log' = [log EXCEPT ![l] = Append(@, x)] /\ row \in [Leads -> Rows]
      /\ log \in [Leads -> Seq(Transitions)] /\ x \in Transitions /\ x.to = t
  BY <1>0, EdgesTyped DEF Write, IInv, TypeOK, Transitions, Rows
<1> HIDE DEF x
<1>2. /\ Reached(l)' = Reached(l) \cup {t}
      /\ \A j \in Leads \ {l} : log'[j] = log[j]
  BY <1>0, <1>1, AppendReached
<1>3. /\ Saved(row[l], r, t).journey_state = t
      /\ Saved(row[l], r, t).value_delivered
            <=> row[l].value_delivered \/ (t = "DIAGNOSED" /\ ~r.value_delivered)
  BY <1>1, SavedTyped DEF Saved, Rows
<1>4. log'[l] # <<>> /\ log'[l][Len(log'[l])].to = t
  <2>1. Len(log'[l]) = Len(log[l]) + 1 /\ log'[l][Len(log[l]) + 1] = x
    BY <1>0, <1>1, AppendReached
  <2>2. log[l] \in Seq(Transitions)
    BY <1>0, <1>1
  <2>3. Len(log[l]) \in Nat
    BY <2>2
  <2>4. log'[l] # <<>>
    <3> SUFFICES ASSUME log'[l] = <<>> PROVE FALSE
      OBVIOUS
    <3>1. Len(log'[l]) = 0
      OBVIOUS
    <3> QED
      BY <2>1, <2>3, <3>1
  <2>5. log'[l][Len(log'[l])] = x
    BY <2>1
  <2> QED
    BY <1>1, <2>4, <2>5
<1>5. row'[l].value_delivered <=> row[l].value_delivered \/ (t = "DIAGNOSED" /\ ~r.value_delivered)
  BY <1>0, <1>1, <1>3
<1>6. /\ t = "DIAGNOSED" => r.journey_state \in {"ARRIVED", "IN_REVIEW"}
      /\ t = "IN_REVIEW" => r.journey_state = "ARRIVED"
      /\ t # "ARRIVED"
      /\ r.journey_state \in {"ARRIVED", "IN_REVIEW"} => t \in {"IN_REVIEW", "DIAGNOSED"}
  BY <1>0 DEF Edges, Dozing
<1>7. r.journey_state \in Reached(l)
  BY <1>0 DEF Good
<1>8. origin[l] = "conversation" => Reached(l) \cap {"ARRIVED", "IN_REVIEW"} = {}
  BY DEF Audited, PastQuestions
<1>9. row[l].value_delivered <=> /\ origin[l] # "conversation"
                                 /\ ~(Reached(l) \subseteq {"ARRIVED", "IN_REVIEW"})
  BY DEF Audited, ValueFirst
<1>10. origin[l] = "conversation" => Reached(l)' \cap {"ARRIVED", "IN_REVIEW"} = {}
  BY <1>2, <1>6, <1>7, <1>8
<1>11. row'[l].value_delivered <=> /\ origin[l] # "conversation"
                                   /\ ~(Reached(l)' \subseteq {"ARRIVED", "IN_REVIEW"})
  <2>1. CASE origin[l] = "conversation"
    BY <1>5, <1>6, <1>7, <1>8, <1>9, <2>1
  <2>2. CASE origin[l] # "conversation" /\ row[l].value_delivered
    BY <1>2, <1>5, <1>9, <2>2
  <2>3. CASE origin[l] # "conversation" /\ ~row[l].value_delivered
    <3>1. r.journey_state \in {"ARRIVED", "IN_REVIEW"} /\ ~r.value_delivered
      BY <1>0, <1>7, <1>9, <2>3
    <3>2. row'[l].value_delivered <=> t = "DIAGNOSED"
      BY <1>5, <2>3, <3>1
    <3> QED
      BY <1>2, <1>6, <1>9, <2>3, <3>1, <3>2
  <2> QED
    BY <2>1, <2>2, <2>3
<1>12. \A k \in Leads \ {l} : row'[k] = row[k] /\ log'[k] = log[k]
  BY <1>1, <1>2
<1>13. \A k \in Leads \ {l} : Reached(k)' = Reached(k)
  BY <1>0, <1>12 DEF Reached, Visited
<1>14. row'[l].journey_state = t
  BY <1>0, <1>1, <1>3
<1> QED
  BY <1>4, <1>5, <1>10, <1>11, <1>12, <1>13, <1>14

\* What the audit trail and the stamp say of one lead.
TellsOf(l) ==
    /\ IF log[l] = <<>> THEN row[l] = NewRow(Birth[origin[l]])
                        ELSE row[l].journey_state = log[l][Len(log[l])].to
    /\ row[l].value_delivered <=> /\ origin[l] # "conversation"
                                  /\ ~(Reached(l) \subseteq {"ARRIVED", "IN_REVIEW"})
    /\ origin[l] = "conversation" => Reached(l) \cap {"ARRIVED", "IN_REVIEW"} = {}

\* A lead just born is as its creator left it, and not stamped.
LEMMA BornAudits ==
    ASSUME IInv, NEW l \in Leads, NEW o \in Origins, Born(l, o), log' = log
    PROVE  /\ TellsOf(l)' /\ l \notin known /\ known' = known \cup {l}
           /\ \A k \in Leads \ {l} : row'[k] = row[k] /\ origin'[k] = origin[k]
                                      /\ Reached(k)' = Reached(k)
<1>1. /\ l \notin known /\ origin'[l] = o /\ row'[l] = NewRow(Birth[o])
      /\ \A k \in Leads \ {l} : row'[k] = row[k] /\ origin'[k] = origin[k]
  BY DEF Born, known, IInv, TypeOK
<1>2. o # "none"
  BY DEF Origins
<1>3. log'[l] = <<>> /\ Len(<<>>) = 0 /\ 1..0 = {}
  BY <1>1 DEF IInv, UnbornUnlogged
<1>4. { Birth[q] : q \in Origins \cap {o} } = {Birth[o]}
  OBVIOUS
<1>5. Reached(l)' = {Birth[o]}
  BY <1>1, <1>3, <1>4 DEF Reached, Visited
<1>6. /\ o # "conversation" => Birth[o] \in {"ARRIVED", "IN_REVIEW"}
      /\ o = "conversation" => Birth[o] = "DIAGNOSED"
  BY DEF Origins, Birth
<1>7. NewRow(Birth[o]).value_delivered = FALSE
  BY DEF NewRow
<1>8. TellsOf(l)'
  <2>1. Birth' = Birth
    BY DEF Birth
  <2>2. IF log'[l] = <<>> THEN row'[l] = NewRow(Birth[o])
                          ELSE row'[l].journey_state = log'[l][Len(log'[l])].to
    BY <1>1, <1>3
  <2>3. ~(row'[l].value_delivered) /\ ~(o # "conversation" /\ ~(Reached(l)' \subseteq {"ARRIVED", "IN_REVIEW"}))
    BY <1>1, <1>5, <1>6, <1>7
  <2>4. o = "conversation" => Reached(l)' \cap {"ARRIVED", "IN_REVIEW"} = {}
    BY <1>5, <1>6
  <2> QED
    BY <1>1, <2>1, <2>2, <2>3, <2>4 DEF TellsOf, NewRow
<1>9. \A k \in Leads \ {l} : Reached(k)' = Reached(k)
  BY <1>1 DEF Reached, Visited
<1> QED
  BY <1>1, <1>2, <1>8, <1>9 DEF known

\* What a step does to one lead.
LEMMA ShapeAudits ==
    ASSUME IInv, Audited, AuditShape
    PROVE  /\ \A k \in known' : TellsOf(k)'
           /\ \A k \in known : row[k].value_delivered => row'[k].value_delivered
<1>0. \A k \in known : TellsOf(k) /\ k \in Leads
  BY KnownLeads DEF Audited, LogTailIsState, ValueFirst, PastQuestions, TellsOf, IInv
<1>1. CASE UNCHANGED <<origin, row, log>>
  <2>1. origin' = origin /\ row' = row /\ log' = log
    BY <1>1
  <2>2. known' = known /\ \A k \in Leads : Reached(k)' = Reached(k)
    BY <2>1 DEF Reached, Visited, known
  <2>3. ASSUME NEW k \in known
        PROVE  TellsOf(k)'
    BY <1>0, <2>1, <2>2 DEF TellsOf
  <2> QED
    BY <2>1, <2>2, <2>3
<1>2. ASSUME NEW l \in Leads, NEW o \in Origins, Born(l, o), log' = log
      PROVE  /\ \A k \in known' : TellsOf(k)'
             /\ \A k \in known : row[k].value_delivered => row'[k].value_delivered
  <2>1. /\ TellsOf(l)' /\ l \notin known /\ known' = known \cup {l}
        /\ \A k \in Leads \ {l} : row'[k] = row[k] /\ origin'[k] = origin[k]
                                   /\ Reached(k)' = Reached(k)
    BY <1>2, BornAudits
  <2>2. \A k \in known : TellsOf(k)'
    BY <1>0, <1>2, <2>1 DEF TellsOf
  <2> QED
    BY <1>0, <2>1, <2>2
<1>3. ASSUME NEW l \in known, NEW r \in Rows, NEW e \in Events, NEW t \in States,
             Audit(l, r, e, t)
      PROVE  /\ \A k \in known' : TellsOf(k)'
             /\ \A k \in known : row[k].value_delivered => row'[k].value_delivered
  <2>1. origin' = origin /\ known' = known
    BY <1>3 DEF Audit, Climbs, known
  <2>2. /\ \A k \in Leads \ {l} : row'[k] = row[k] /\ log'[k] = log[k]
                                   /\ Reached(k)' = Reached(k)
        /\ row[l].value_delivered => row'[l].value_delivered
        /\ log'[l] # <<>> /\ log'[l][Len(log'[l])].to = t
        /\ row'[l].journey_state = t
        /\ row'[l].value_delivered <=> /\ origin[l] # "conversation"
                                       /\ ~(Reached(l)' \subseteq {"ARRIVED", "IN_REVIEW"})
        /\ origin[l] = "conversation" => Reached(l)' \cap {"ARRIVED", "IN_REVIEW"} = {}
    BY <1>3, AuditKeeps
  <2>3. TellsOf(l)'
    BY <2>1, <2>2 DEF TellsOf
  <2>4. \A k \in known \ {l} : TellsOf(k)'
    BY <1>0, <2>1, <2>2 DEF TellsOf
  <2> QED
    BY <1>0, <2>1, <2>2, <2>3, <2>4
<1> QED
  BY <1>1, <1>2, <1>3 DEF AuditShape, BornShape

\* Every step of the discipline keeps the trail, the stamp and the instances honest.
LEMMA StepAudited ==
    ASSUME IInv, Audited, [AdvanceNext]_vars
    PROVE  Audited'
<1>0. [Next]_vars
  BY DEF Next
<1>1. AuditShape /\ HeldShape
  BY <1>0, StepAudits, StepShape
<1>2. /\ \A k \in known' : TellsOf(k)'
      /\ \A k \in known : row[k].value_delivered => row'[k].value_delivered
  BY <1>1, ShapeAudits
<1>3. LogTailIsState' /\ ValueFirst' /\ PastQuestions'
  BY <1>2 DEF LogTailIsState, ValueFirst, PastQuestions, TellsOf
<1>4. ASSUME NEW a \in Actors, held'[a].task # "idle"
      PROVE  held'[a].row.value_delivered => row'[held'[a].lead].value_delivered
  <2>1. CASE held'[a] = held[a]
    <3>1. held[a].lead \in known
      BY <1>4, <2>1, RowsGood
    <3> QED
      BY <1>2, <1>4, <2>1, <3>1 DEF Audited
  <2>2. CASE Copied(held'[a])
    BY <2>2 DEF Copied
  <2> QED
    BY <1>1, <1>4, <2>1, <2>2, IdleTyped DEF HeldShape
<1> QED
  BY <1>3, <1>4 DEF Audited

\* ... and so they stay.
LEMMA AuditedHolds == AdvanceSpec => [](IInv /\ Audited)
<1>1. Init => Audited
  <2> SUFFICES ASSUME Init PROVE Audited
    OBVIOUS
  <2>1. known = {}
    BY DEF Init, known
  <2> QED
    BY <2>1, IdleTyped DEF Init, Audited, LogTailIsState, ValueFirst, PastQuestions
<1>2. [AdvanceNext]_vars => [Next]_vars
  BY DEF Next
<1>3. IInv /\ Audited /\ [AdvanceNext]_vars => (IInv /\ Audited)'
  BY <1>2, StepIInv, StepAudited
<1> QED
  BY <1>1, <1>3, InitIInv, PTL DEF AdvanceSpec

\* As long as nobody edits or resubmits, the audit trail ends in the state the lead
\* is in, stale instances included; before its first row, the lead is as created.
THEOREM TrailTellsState == AdvanceSpec => []LogTailIsState
<1>1. Audited => LogTailIsState
  BY DEF Audited
<1> QED
  BY <1>1, AuditedHolds, PTL

\* ... and the stamp is set just when a lead has got to DIAGNOSED, although the
\* instance that stamps it may be stale; a conversation's lead never carries it.
THEOREM ValueComesFirst == AdvanceSpec => []ValueFirst
<1>1. Audited => ValueFirst
  BY DEF Audited
<1> QED
  BY <1>1, AuditedHolds, PTL

\* Overlapping requests take edges out of states the lead has earned, never one step more:
\* without the editor and resubmissions the program implements the ladder that cannot be
\* restored.
THEOREM KeepsClimbing == AdvanceSpec => ClimbsFromEarned
<1>1. IInv /\ Audited /\ [AdvanceNext]_vars => [Ladder!ClimbNext]_(Ladder!vars)
  <2> SUFFICES ASSUME IInv, Audited, [AdvanceNext]_vars
               PROVE  [Ladder!ClimbNext]_(Ladder!vars)
    OBVIOUS
  <2>1. ASSUME NEW l \in known, NEW r \in Rows, NEW e \in Events, NEW t \in States,
               Audit(l, r, e, t)
        PROVE  Ladder!ClimbNext
    BY <2>1, WriteClimbs, KnownLeads DEF Audit, Ladder!ClimbNext, IInv
  <2>2. ASSUME NEW l \in Leads, BornShape(l)
        PROVE  Ladder!ClimbNext
    BY <2>2, BirthCreates DEF Ladder!ClimbNext
  <2> QED
    BY <2>1, <2>2, StepAudits, StaysIsStutter DEF AuditShape
<1> QED
  BY <1>1, BeginsOnLadder, AuditedHolds, PTL DEF AdvanceSpec, ClimbsFromEarned, Ladder!ClimbSpec

--------------------------------------------------------------------------------
(* Requests that do not overlap.                                           *)

\* The instance of an actor that is alone with the row shows the state the row is
\* in, or an invitation that a claim has accepted meanwhile.
InTouch ==
    \A a \in Actors : held[a] # Idle =>
        LET s == row[held[a].lead].journey_state IN
        \/ held[a].row.journey_state = s
        \/ held[a].row.journey_state = "INVITED" /\ s = "NDA_REVIEW"

\* Only a claim moves a row under an actor that is alone.
LEMMA StepInTouch ==
    ASSUME IInv, InTouch, \A a, b \in Actors : a = b, [Next]_vars
    PROVE  InTouch'
<1>0. \A a \in Actors : held[a] # Idle => held[a].lead \in known /\ held[a].lead \in Leads
  BY KnownLeads DEF IInv, TypeOK
<1>1. ASSUME NEW k \in Leads, NEW o, Born(k, o), held' = held
      PROVE  InTouch'
  <2>1. \A l \in known : row'[l] = row[l]
    BY <1>1 DEF Born, known, IInv, TypeOK
  <2> QED
    BY <1>0, <1>1, <2>1 DEF InTouch
<1>2. ASSUME NEW k \in Leads, ClaimInvite(k)
      PROVE  InTouch'
  <2>1. AcceptInvite(k) /\ held' = held
    BY <1>2 DEF ClaimInvite
  <2>2. /\ \A l \in Leads \ {k} : row'[l] = row[l]
        /\ \/ row'[k] = row[k]
           \/ row[k].journey_state = "INVITED" /\ row'[k].journey_state = "NDA_REVIEW"
    <3>1. CASE row[k].journey_state = "INVITED"
      <4>1. \A s : s \in Targets("INVITED", "accept_invite") => s = "NDA_REVIEW"
        BY DEF Targets, Edges, Dozing
      <4> QED
        BY <2>1, <3>1, <4>1, AcceptMoves DEF IInv
    <3>2. CASE row[k].journey_state # "INVITED"
      BY <2>1, <3>2 DEF AcceptInvite
    <3> QED
      BY <3>1, <3>2
  <2> QED
    BY <1>0, <2>1, <2>2 DEF InTouch
<1>3. ASSUME UNCHANGED <<row, held>>
      PROVE  InTouch'
  BY <1>3 DEF InTouch
<1>4. ASSUME NEW b \in Actors, NEW task, NEW k \in Leads, Fetch(b, task, k)
      PROVE  InTouch'
  <2>1. held'[b].lead = k /\ held'[b].row = row[k] /\ row' = row
    BY <1>4 DEF Fetch, IInv, TypeOK
  <2> QED
    BY <2>1 DEF InTouch
<1>5. ASSUME NEW b \in Actors, Release(b)
      PROVE  InTouch'
  <2>1. held'[b] = Idle
    BY <1>5 DEF Release, IInv, TypeOK
  <2> QED
    BY <2>1 DEF InTouch
<1>6. ASSUME NEW b \in Actors, NEW k \in Leads, SubmitReview(b, k)
      PROVE  InTouch'
  <2>1. held'[b].lead = k /\ held'[b].row = row'[k]
    BY <1>6 DEF SubmitReview, IInv, TypeOK
  <2> QED
    BY <2>1 DEF InTouch
<1>7. ASSUME NEW b \in Actors, ResubmitSave(b)
      PROVE  InTouch'
  <2> DEFINE r == [held[b].row EXCEPT !.journey_state = "IN_REVIEW"]
  <2>1. /\ held[b] \in Instances /\ held[b].lead \in Leads
        /\ held'[b] = [held[b] EXCEPT !.task = "qualify", !.row = r]
        /\ row' = [row EXCEPT ![held[b].lead] = r]
    BY <1>7, RowsGood, KnownLeads DEF ResubmitSave, IInv, TypeOK
  <2>2. held'[b].lead = held[b].lead /\ held'[b].row = r
    BY <2>1 DEF Instances
  <2>3. row'[held'[b].lead] = held'[b].row
    BY <2>1, <2>2 DEF IInv, TypeOK
  <2> QED
    BY <2>3 DEF InTouch
<1>8. ASSUME NEW b \in Actors, Rewrite(b)
      PROVE  InTouch'
  BY <1>4, <1>5, <1>7, <1>8 DEF Rewrite, EditSave, EditRead, ResubmitRead
<1>9. ASSUME NEW b \in Actors, NEW k \in Leads, Begin(b, k)
      PROVE  InTouch'
  BY <1>4, <1>6, <1>9 DEF Begin, TeamFetch, SweepRead
<1>10. ASSUME NEW b \in Actors, Apply(b)
      PROVE  InTouch'
  BY <1>5, <1>10, ApplyShape
<1>11. ASSUME NEW k \in Leads, Arrive(k)
      PROVE  InTouch'
  BY <1>1, <1>11 DEF Arrive, CreateLead, RegisterClient, CreateConversationLead
<1> QED
  BY <1>2, <1>3, <1>8, <1>9, <1>10, <1>11 DEF Next, AdvanceNext, Claim, RecoverClaim, vars

\* Where requests do not overlap, claims and the editor included, CUSTOMER_SUCCESS is
\* terminal as journey/models.py says but for one writer: a resubmitted questionnaire
\* recalls its lead.  Every other way out of it takes two requests.
THEOREM AloneCustomersStay ==
    ASSUME \A a, b \in Actors : a = b
    PROVE  Spec => OnlyResubmissionRecalls
<1>1. Init => InTouch
  BY DEF Init, InTouch
<1>2. IInv /\ InTouch /\ [Next]_vars => InTouch'
  BY StepInTouch
<1>3. IInv /\ InTouch /\ [Next]_vars =>
        [\A l \in known :
            row[l].journey_state = "CUSTOMER_SUCCESS" =>
                \/ row'[l].journey_state = "CUSTOMER_SUCCESS"
                \/ origin[l] = "questionnaire" /\ row'[l].journey_state = "IN_REVIEW"]_vars
  <2> SUFFICES ASSUME IInv, InTouch, [Next]_vars,
                      NEW l \in known, row[l].journey_state = "CUSTOMER_SUCCESS"
               PROVE  \/ row'[l].journey_state = "CUSTOMER_SUCCESS"
                      \/ origin[l] = "questionnaire" /\ row'[l].journey_state = "IN_REVIEW"
    OBVIOUS
  <2>1. \A e : Targets("CUSTOMER_SUCCESS", e) = {}
    BY DEF Targets, Edges, Dozing
  <2>2. \A a \in Actors : held[a].lead = l =>
            held[a].row.journey_state = row[l].journey_state
    <3>1. \A a \in Actors : held[a].lead = l => held[a] # Idle
      BY NoLeadAssumption, IdleTyped, KnownLeads DEF IInv
    <3> QED
      BY <3>1 DEF InTouch
  <2>3. \A a \in Actors : held[a].lead = l /\ held[a].task = "resubmit" =>
            origin[l] = "questionnaire"
    BY DEF IInv, Resubmits
  <2> QED
    BY <2>1, <2>2, <2>3, StepWalks DEF Walks
<1> QED
  BY <1>1, <1>2, <1>3, InvariantHolds, PTL DEF Spec, OnlyResubmissionRecalls

================================================================================
