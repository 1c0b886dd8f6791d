------------------------------ MODULE ThreadProofs ------------------------------
(***************************************************************************)
(* Proofs about ThreadTurns: it is well typed, its numbering has no holes, *)
(* a review is asked for, and a turn is answered once, for any number of   *)
(* sockets, requests, leads and messages; and one actor alone repeats no   *)
(* number.                                                                 *)
(***************************************************************************)
EXTENDS ThreadTurns, FiniteSetTheorems, TLAPS

--------------------------------------------------------------------------------
(* What the operators on instances return.                                 *)

\* An actor that takes a step of its own leaves the others as they are.
LEMMA MovedIsTyped ==
    ASSUME TypeOK, NEW a \in Actors, NEW from, NEW s \in Subs, Goes(a, from, s)
    PROVE  sub' \in [Actors -> Subs]
BY DEF TypeOK, Goes

\* A thread just created has well-typed columns, and nobody looks at it.
LEMMA FreshIsTyped == NewThread \in Columns /\ Away \in Subs
<1>1. NewThread \in Columns
  BY DEF NewThread, Columns, States, LadderStates
<1>2. Away \in Subs
  BY <1>1, BoundsAssumption DEF Away, Subs, Steps, Numbers
<1>3. QED
  BY <1>1, <1>2

\* The columns an instance saves are columns of the thread again.
LEMMA SavedIsTyped ==
    ASSUME TypeOK, NEW fields, NEW c \in Columns
    PROVE  Saved(fields, c) \in Columns
<1> DEFINE st == IF "state" \in fields THEN c.state ELSE row.state
           cu == IF "customer" \in fields THEN c.customer ELSE row.customer
           of == IF "offered" \in fields THEN c.offered ELSE row.offered
           se == IF "settled" \in fields THEN c.settled ELSE row.settled
           id == IF "identity" \in fields THEN c.identity ELSE row.identity
<1>1. row \in Columns
  BY DEF TypeOK
<1>2. st \in States /\ cu \in BOOLEAN /\ of \in BOOLEAN /\ se \in BOOLEAN /\ id \in BOOLEAN
  BY <1>1 DEF Columns
<1> HIDE DEF st, cu, of, se, id
<1>3. [row EXCEPT !.state = st, !.customer = cu, !.offered = of, !.settled = se,
                  !.identity = id] \in Columns
  BY <1>1, <1>2 DEF Columns
<1>4. QED
  BY <1>3 DEF Saved, st, cu, of, se, id

\* The state mirrored onto the thread is a state.
LEMMA MirrorIsTyped ==
    ASSUME TypeOK, NEW c \in Columns, NEW s \in States, Mirror(c, s)
    PROVE  row' \in Columns
<1>1. [c EXCEPT !.state = s] \in Columns
  BY DEF Columns
<1>2. row \in Columns /\ Saved({"state"}, [c EXCEPT !.state = s]) \in Columns
  BY <1>1, SavedIsTyped DEF TypeOK
<1>3. QED
  BY <1>2 DEF Mirror

\* What update_from_turn makes of an instance is an instance.
LEMMA EngagedIsTyped ==
    ASSUME NEW c \in Columns, NEW said
    PROVE  Engaged(c, said) \in Columns
<1> DEFINE cu == c.customer \/ Accepts(c, said)
           of == IF c.offered THEN said \cap {"accept", "refuse"} = {} ELSE Offers(c, said)
           se == IF Accepts(c, said) \/ "reopen" \in said THEN FALSE
                 ELSE c.settled \/ "settle" \in said
           id == "act" \in said \/ (c.identity /\ "anonymous" \notin said)
<1>1. cu \in BOOLEAN /\ of \in BOOLEAN /\ se \in BOOLEAN /\ id \in BOOLEAN
  BY DEF Offers
<1> HIDE DEF cu, of, se, id
<1>2. [c EXCEPT !.customer = cu, !.offered = of, !.settled = se, !.identity = id] \in Columns
  BY <1>1 DEF Columns
<1>3. QED
  BY <1>2 DEF Engaged, cu, of, se, id

\* A fresh SELECT yields a well-typed instance.
LEMMA FetchedIsTyped ==
    ASSUME TypeOK, NEW a \in Actors, NEW step \in Steps
    PROVE  Fetched(a, step) \in Subs
<1> DEFINE seen == IF Leadless(row) THEN "NONE" ELSE stage[row.lead]
<1>1. row \in Columns /\ seen \in States \cup {"NONE"}
  BY DEF TypeOK, Columns, Leadless
<1> HIDE DEF seen
<1>2. [Away EXCEPT !.at = step, !.copy = row, !.seen = seen] \in Subs
  BY <1>1, FreshIsTyped DEF Subs
<1>3. QED
  BY <1>2 DEF Fetched, seen

\* What an actor holds, field by field.
LEMMA HeldIsTyped ==
    ASSUME TypeOK, NEW a \in Actors
    PROVE  /\ sub[a] \in Subs
           /\ sub[a].copy \in Columns
           /\ sub[a].seen \in States \cup {"NONE"}
           /\ sub[a].seq \in Numbers
           /\ sub[a].key \in Numbers
           /\ sub[a].said \subseteq Sayings
BY DEF TypeOK, Subs

\* Going on to a step keeps everything else an actor holds.
LEMMA StepIsTyped ==
    ASSUME TypeOK, NEW a \in Actors, NEW step \in Steps
    PROVE  At(a, step) \in Subs
BY HeldIsTyped DEF At, Subs

\* A socket goes back to its connection, a request ends: both are well typed.
LEMMA DoneIsTyped ==
    ASSUME TypeOK, NEW a \in Actors
    PROVE  Done(a) \in Subs
<1>1. At(a, "open") \in Subs /\ 0 \in Numbers
  BY StepIsTyped, BoundsAssumption DEF Steps, Numbers
<1>2. [At(a, "open") EXCEPT !.seq = 0] \in Subs
  BY <1>1 DEF Subs
<1>3. QED
  BY <1>2, FreshIsTyped DEF Done

\* One more message of the right shape, while there is room for it.
LEMMA StoredIsTyped ==
    ASSUME TypeOK, NEW m \in Messages, Store(m)
    PROVE  msgs' \in Seq(Messages) /\ Len(msgs') <= MaxMessages
<1>1. msgs \in Seq(Messages) /\ Len(msgs) \in Nat /\ Len(msgs) < MaxMessages
  BY DEF TypeOK, Store
<1>2. msgs' = Append(msgs, m)
  BY DEF Store
<1>3. QED
  BY <1>1, <1>2, BoundsAssumption

--------------------------------------------------------------------------------
(* Every step is well typed.                                               *)

\* The target of an edge of the ladder is a state of it.
LEMMA TargetIsState ==
    ASSUME NEW s, NEW e, NEW t, <<s, e, t>> \in Edges
    PROVE  t \in States
BY DEF Edges, States, LadderStates, Dozing

\* Connecting, fetching and retrying hold a fresh instance or none.
LEMMA TypeOfFetches ==
    ASSUME TypeOK, NEW a \in Actors, Connect(a) \/ Disconnect(a) \/ Fetch(a) \/ Retry(a)
    PROVE  TypeOK'
<1>1. Fetched(a, "open") \in Subs /\ Fetched(a, "answer") \in Subs /\ Away \in Subs
  BY FetchedIsTyped, FreshIsTyped DEF Steps
<1>2. \E from : \E s \in Subs : Goes(a, from, s)
  BY <1>1 DEF Connect, Disconnect, Fetch, Retry
<1>3. sub' \in [Actors -> Subs]
  BY <1>2, MovedIsTyped
<1>4. UNCHANGED <<owner, row, stage, opened, told, msgs, locks, expired, worker, sweep, faults>>
  BY DEF Connect, Disconnect, Fetch, Retry
<1>5. QED
  BY <1>3, <1>4 DEF TypeOK

\* The steps that only note where an actor is.
LEMMA TypeOfNotes ==
    ASSUME TypeOK, NEW a \in Actors, HookStops(a) \/ KeepLoop(a) \/ NoReview(a) \/ Halt(a)
    PROVE  TypeOK'
<1>1. At(a, "answer") \in Subs /\ At(a, "review") \in Subs /\ Done(a) \in Subs
  BY StepIsTyped, DoneIsTyped DEF Steps
<1>2. [At(a, "answer") EXCEPT !.said = {}] \in Subs
  BY <1>1 DEF Subs
<1>3. \E from : \E s \in Subs : Goes(a, from, s)
  BY <1>1, <1>2 DEF HookStops, KeepLoop, NoReview, Halt
<1>4. sub' \in [Actors -> Subs]
  BY <1>3, MovedIsTyped
<1>5. UNCHANGED <<owner, row, stage, opened, told, msgs, locks, expired, worker, sweep, faults>>
  BY DEF HookStops, KeepLoop, NoReview, Halt
<1>6. QED
  BY <1>4, <1>5 DEF TypeOK

\* Allocating a number, for a turn or for an answer.
LEMMA TypeOfAllocations ==
    ASSUME TypeOK, NEW a \in Actors,
           (\E said \in Turns : Submit(a, said)) \/ Settle(a) \/ Generate(a)
    PROVE  TypeOK'
<1>1. PICK n \in 0..MaxMessages :
        Allocated(n) /\ \E from : \E s \in Subs : Goes(a, from, s)
  <2>1. ASSUME NEW n \in 0..MaxMessages
        PROVE  [At(a, "settling") EXCEPT !.seq = n] \in Subs
    BY StepIsTyped DEF Steps, Subs, Numbers
  <2>2. ASSUME NEW n \in 0..MaxMessages, NEW said \in Turns
        PROVE  [At(a, "numbered") EXCEPT !.said = said, !.seq = n] \in Subs
    <3>1. At(a, "numbered") \in Subs /\ said \in SUBSET Sayings /\ n \in Numbers
      BY StepIsTyped, TurnsAssumption DEF Steps, Numbers
    <3>2. QED
      BY <3>1 DEF Subs
  <2>3. CASE \E said \in Turns : Submit(a, said)
    BY <2>2, <2>3 DEF Submit
  <2>4. CASE Settle(a) \/ Generate(a)
    BY <2>1, <2>4 DEF Settle, Generate, TakeNumber
  <2>5. QED
    BY <2>3, <2>4
<1>2. sub' \in [Actors -> Subs]
  BY <1>1, MovedIsTyped
<1>3. faults' \in 0..MaxFaults
  BY <1>1, BoundsAssumption DEF Allocated, TypeOK
<1>4. UNCHANGED <<owner, row, stage, opened, told, msgs, locks, expired, worker, sweep>>
  BY DEF Submit, Settle, Generate, TakeNumber
<1>5. QED
  BY <1>2, <1>3, <1>4 DEF TypeOK

\* Storing a turn, an answer of the socket, or one under a lock.
LEMMA TypeOfInserts ==
    ASSUME TypeOK, NEW a \in Actors, Insert(a) \/ SettleInsert(a) \/ AnswerInsert(a)
    PROVE  TypeOK'
<1>1. \E m \in Messages : Store(m)
  <2>1. /\ [seq |-> sub[a].seq, by |-> "visitor", for |-> 0] \in Messages
        /\ [seq |-> sub[a].seq, by |-> "socket", for |-> 0] \in Messages
        /\ [seq |-> sub[a].seq, by |-> "http", for |-> sub[a].key] \in Messages
    BY HeldIsTyped, BoundsAssumption DEF Messages, Numbers
  <2>2. QED
    BY <2>1 DEF Insert, SettleInsert, AnswerInsert
<1>2. msgs' \in Seq(Messages) /\ Len(msgs') <= MaxMessages
  BY <1>1, StoredIsTyped
<1>3. \E from : \E s \in Subs : Goes(a, from, s)
  <2>1. At(a, "engage") \in Subs /\ 0 \in Numbers
    BY StepIsTyped, BoundsAssumption DEF Steps, Numbers
  <2>2. [At(a, "engage") EXCEPT !.seq = 0] \in Subs
    BY <2>1 DEF Subs
  <2>3. QED
    BY <2>2, DoneIsTyped, FreshIsTyped DEF Insert, SettleInsert, AnswerInsert
<1>4. sub' \in [Actors -> Subs]
  BY <1>3, MovedIsTyped
<1>5. told' \subseteq Sayings /\ locks' \subseteq Numbers
  BY HeldIsTyped DEF Insert, SettleInsert, AnswerInsert, Unlock, TypeOK
<1>6. UNCHANGED <<owner, row, stage, opened, expired, worker, sweep, faults>>
  BY DEF Insert, SettleInsert, AnswerInsert
<1>7. QED
  BY <1>2, <1>4, <1>5, <1>6 DEF TypeOK

\* Engagement writes the columns it marks dirty.
LEMMA TypeOfEngage ==
    ASSUME TypeOK, NEW a \in Actors, Engage(a)
    PROVE  TypeOK'
<1> DEFINE c == Engaged(sub[a].copy, sub[a].said)
           step == IF c.customer THEN "enter" ELSE "answer"
<1>1. c \in Columns
  BY HeldIsTyped, EngagedIsTyped
<1>2. At(a, step) \in Subs
  BY StepIsTyped DEF Steps
<1>3. row' \in Columns
  BY <1>1, SavedIsTyped DEF Engage
<1>4. Goes(a, "engage", [At(a, step) EXCEPT !.copy = c, !.said = {}])
  BY DEF Engage
<1>5. UNCHANGED <<owner, stage, opened, told, msgs, locks, expired, worker, sweep, faults>>
  BY DEF Engage
<1> HIDE DEF c, step
<1>6. [At(a, step) EXCEPT !.copy = c, !.said = {}] \in Subs
  BY <1>1, <1>2 DEF Subs
<1>7. sub' \in [Actors -> Subs]
  BY <1>4, <1>6, MovedIsTyped
<1>8. QED
  BY <1>3, <1>5, <1>7 DEF TypeOK

\* The band moves a thread or its lead to a state.
LEMMA TypeOfBand ==
    ASSUME TypeOK, NEW a \in Actors, EnterReview(a) \/ CloseLoop(a)
    PROVE  TypeOK'
<1>1. PICK from \in {"enter", "loop"}, to \in {"loop", "reflect"},
           s \in {"IN_REVIEW", "DIAGNOSED"}, event \in {"first_turn", "loop_closed"} :
        \/ AdvanceThread(a, from, to, s)
        \/ ~Leadless(sub[a].copy) /\ AdvanceLead(a, from, to, event)
  BY DEF EnterReview, CloseLoop
<1>2. UNCHANGED <<owner, opened, told, msgs, locks, expired, worker, sweep, faults>>
  BY DEF EnterReview, CloseLoop
<1>3. At(a, to) \in Subs
  BY StepIsTyped DEF Steps
<1>4. ASSUME NEW t \in States
      PROVE  /\ [At(a, to) EXCEPT !.copy.state = t] \in Subs
             /\ [At(a, to) EXCEPT !.seen = t, !.copy.state = t] \in Subs
  BY <1>3 DEF Subs, Columns
<1>5. CASE AdvanceThread(a, from, to, s)
  <2>1. s \in States
    BY DEF States, LadderStates
  <2>2. row' \in Columns
    BY <1>5, <2>1, HeldIsTyped, MirrorIsTyped DEF AdvanceThread, TypeOK
  <2>3. sub' \in [Actors -> Subs]
    BY <1>5, <2>1, <1>3, <1>4, MovedIsTyped DEF AdvanceThread
  <2>4. UNCHANGED stage
    BY <1>5 DEF AdvanceThread
  <2>5. QED
    BY <1>2, <2>2, <2>3, <2>4 DEF TypeOK
<1>6. CASE ~Leadless(sub[a].copy) /\ AdvanceLead(a, from, to, event)
  <2> DEFINE seen == sub[a].seen
  <2>1. sub[a].copy.lead \in Leads
    BY <1>6, HeldIsTyped DEF Leadless, Columns
  <2>2. CASE \E t \in Targets(seen, event) :
               /\ stage' = [stage EXCEPT ![sub[a].copy.lead] = t]
               /\ Mirror(sub[a].copy, t)
               /\ Goes(a, from, [At(a, to) EXCEPT !.seen = t, !.copy.state = t])
    <3>1. PICK t \in States :
               /\ stage' = [stage EXCEPT ![sub[a].copy.lead] = t]
               /\ Mirror(sub[a].copy, t)
               /\ Goes(a, from, [At(a, to) EXCEPT !.seen = t, !.copy.state = t])
      BY <2>2 DEF Targets
    <3>2. row' \in Columns
      BY <3>1, HeldIsTyped, MirrorIsTyped
    <3>3. sub' \in [Actors -> Subs]
      BY <3>1, <1>4, MovedIsTyped
    <3>4. stage' \in [Leads -> States \cup {"NONE"}]
      BY <3>1, <2>1 DEF TypeOK
    <3>5. QED
      BY <1>2, <3>2, <3>3, <3>4 DEF TypeOK
  <2>3. CASE /\ Satisfied(seen, event)
             /\ Mirror(sub[a].copy, seen)
             /\ Goes(a, from, [At(a, to) EXCEPT !.copy.state = seen])
             /\ UNCHANGED stage
    <3>1. seen \in States
      BY <2>3, TargetIsState DEF Satisfied
    <3>2. row' \in Columns
      BY <2>3, <3>1, HeldIsTyped, MirrorIsTyped
    <3>3. sub' \in [Actors -> Subs]
      BY <2>3, <3>1, <1>4, MovedIsTyped
    <3>4. QED
      BY <1>2, <2>3, <3>2, <3>3 DEF TypeOK
  <2>4. CASE Goes(a, from, At(a, to)) /\ UNCHANGED <<row, stage>>
    <3>1. sub' \in [Actors -> Subs]
      BY <2>4, <1>3, MovedIsTyped
    <3>2. QED
      BY <1>2, <2>4, <3>1 DEF TypeOK
  <2>5. QED
    BY <1>6, <2>2, <2>3, <2>4 DEF AdvanceLead
<1>7. QED
  BY <1>1, <1>5, <1>6

\* The reflection may reopen the mirror; the review attaches its lead.
LEMMA TypeOfReview ==
    ASSUME TypeOK, NEW a \in Actors, Reflect(a) \/ StartReview(a)
    PROVE  TypeOK'
<1>1. row \in Columns /\ At(a, "review") \in Subs /\ At(a, "answer") \in Subs
  BY StepIsTyped DEF TypeOK, Steps
<1>2. CASE Reflect(a)
  <2>1. /\ [row EXCEPT !.settled = FALSE] \in Columns
        /\ [At(a, "review") EXCEPT !.copy.settled = FALSE] \in Subs
    BY <1>1 DEF Subs, Columns
  <2>2. row' \in Columns
    BY <1>1, <1>2, <2>1 DEF Reflect
  <2>3. \E from : \E s \in Subs : Goes(a, from, s)
    BY <1>1, <1>2, <2>1 DEF Reflect
  <2>4. sub' \in [Actors -> Subs]
    BY <2>3, MovedIsTyped
  <2>5. QED
    BY <1>2, <2>2, <2>4 DEF Reflect, TypeOK
<1>3. CASE StartReview(a)
  <2>1. PICK l \in Leads :
          /\ stage' = [stage EXCEPT ![l] = "DIAGNOSED"]
          /\ opened' = opened \cup {l}
          /\ row' = [row EXCEPT !.lead = l]
          /\ Goes(a, "review", [At(a, "answer") EXCEPT !.copy.lead = l, !.seen = "DIAGNOSED"])
    BY <1>3 DEF StartReview
  <2>2. "DIAGNOSED" \in States
    BY DEF States, LadderStates
  <2>3. [At(a, "answer") EXCEPT !.copy.lead = l, !.seen = "DIAGNOSED"] \in Subs
    BY <1>1, <2>2 DEF Subs, Columns
  <2>4. sub' \in [Actors -> Subs]
    BY <2>1, <2>3, MovedIsTyped
  <2>5. row' \in Columns
    BY <1>1, <2>1 DEF Columns
  <2>6. QED
    BY <1>3, <2>1, <2>2, <2>4, <2>5 DEF StartReview, TypeOK
<1>4. QED
  BY <1>2, <1>3

\* Aiming at a turn, taking its lock, giving up or finding it answered.
LEMMA TypeOfLocks ==
    ASSUME TypeOK, NEW a \in Actors, Aim(a) \/ Lock(a) \/ Recheck(a) \/ GenerationFails(a)
    PROVE  TypeOK'
<1>1. /\ At(a, "aimed") \in Subs /\ At(a, "locked") \in Subs
      /\ At(a, "generating") \in Subs /\ Away \in Subs
  BY StepIsTyped, FreshIsTyped DEF Steps
<1>2. \A k \in Numbers : [At(a, "aimed") EXCEPT !.key = k] \in Subs
  BY <1>1 DEF Subs
<1>3. \E from : \E s \in Subs : Goes(a, from, s)
  BY <1>1, <1>2 DEF Aim, Lock, Recheck, GenerationFails
<1>4. sub' \in [Actors -> Subs]
  BY <1>3, MovedIsTyped
<1>5. locks' \subseteq Numbers
  BY HeldIsTyped DEF Aim, Lock, Recheck, GenerationFails, Unlock, TypeOK
<1>6. UNCHANGED <<owner, row, stage, opened, told, msgs, expired, worker, sweep, faults>>
  BY DEF Aim, Lock, Recheck, GenerationFails
<1>7. QED
  BY <1>4, <1>5, <1>6 DEF TypeOK

\* A lock that times out, and what the worker, the account and the sweep do.
LEMMA TypeOfOthers ==
    ASSUME TypeOK,
           \/ \E k \in Numbers : LockExpires(k)
           \/ \E l \in Leads : WorkerReads(l)
           \/ WorkerReveals \/ Claim \/ SweepReads \/ SweepDeletes
    PROVE  TypeOK'
<1>1. {"ARRIVED", "NDA_REVIEW", "CLIENT_PAGE"} \subseteq States
  BY DEF States, LadderStates
<1>2. CASE \E k \in Numbers : LockExpires(k)
  <2>1. faults' \in 0..MaxFaults
    BY <1>2, BoundsAssumption DEF LockExpires, TypeOK
  <2>2. locks' \subseteq Numbers /\ expired' \subseteq Numbers
    BY <1>2 DEF LockExpires, TypeOK
  <2>3. QED
    BY <1>2, <2>1, <2>2 DEF LockExpires, TypeOK
<1>3. CASE \E l \in Leads : WorkerReads(l)
  BY <1>3 DEF WorkerReads, TypeOK, Columns
<1>4. CASE WorkerReveals
  <2>1. row' \in Columns
    BY <1>1, <1>4 DEF WorkerReveals, TypeOK, Columns
  <2>2. stage' \in [Leads -> States \cup {"NONE"}] /\ worker' \in [lead : Leads \cup {NoLead}, state : States]
    BY <1>1, <1>4 DEF WorkerReveals, TypeOK, NoWork
  <2>3. QED
    BY <1>4, <2>1, <2>2 DEF WorkerReveals, TypeOK
<1>5. CASE Claim
  <2>1. row' \in Columns /\ stage' \in [Leads -> States \cup {"NONE"}]
    BY <1>1, <1>5 DEF Claim, TypeOK, Columns
  <2>2. QED
    BY <1>5, <2>1 DEF Claim, TypeOK
<1>6. CASE SweepReads
  BY <1>6 DEF SweepReads, TypeOK
<1>7. CASE SweepDeletes
  <2>1. row' \in Columns /\ sub' \in [Actors -> Subs]
    BY <1>7, FreshIsTyped DEF SweepDeletes
  <2>2. msgs' \in Seq(Messages) /\ Len(msgs') <= MaxMessages
    BY <1>7, BoundsAssumption DEF SweepDeletes
  <2>3. worker' \in [lead : Leads \cup {NoLead}, state : States]
    BY <1>1, <1>7 DEF SweepDeletes, NoWork
  <2>4. QED
    BY <1>7, <2>1, <2>2, <2>3 DEF SweepDeletes, TypeOK
<1>8. QED
  BY <1>2, <1>3, <1>4, <1>5, <1>6, <1>7

\* Together: no step of anybody breaks a type.
LEMMA StepType == TypeOK /\ [Next]_vars => TypeOK'
<1> SUFFICES ASSUME TypeOK, [Next]_vars
             PROVE  TypeOK'
  OBVIOUS
<1>1. CASE \E a \in Actors : Turn(a)
  BY <1>1, TypeOfAllocations, TypeOfInserts, TypeOfNotes, TypeOfEngage, TypeOfBand, TypeOfReview
     DEF Turn
<1>2. CASE \E a \in Actors : Socket(a)
  BY <1>2, TypeOfFetches, TypeOfAllocations, TypeOfInserts, TypeOfNotes DEF Socket
<1>3. CASE \E a \in Actors : Request(a)
  BY <1>3, TypeOfFetches, TypeOfAllocations, TypeOfInserts, TypeOfLocks DEF Request
<1>4. CASE \/ \E k \in Numbers : LockExpires(k)
           \/ \E l \in Leads : WorkerReads(l)
           \/ WorkerReveals \/ Claim \/ SweepReads \/ SweepDeletes
  BY <1>4, TypeOfOthers
<1>5. CASE UNCHANGED vars
  BY <1>5 DEF vars, TypeOK
<1>6. QED
  BY <1>1, <1>2, <1>3, <1>4, <1>5 DEF Next

\* The empty conversation is well typed.
LEMMA InitType == Init => TypeOK
<1>1. "ARRIVED" \in States
  BY DEF States, LadderStates
<1>2. ASSUME Init
      PROVE  /\ row \in Columns /\ sub \in [Actors -> Subs]
             /\ stage \in [Leads -> States \cup {"NONE"}]
  BY <1>2, FreshIsTyped DEF Init
<1>3. ASSUME Init
      PROVE  msgs \in Seq(Messages) /\ Len(msgs) <= MaxMessages /\ faults \in 0..MaxFaults
  BY <1>3, BoundsAssumption DEF Init
<1>4. ASSUME Init
      PROVE  worker \in [lead : Leads \cup {NoLead}, state : States]
  BY <1>1, <1>4 DEF Init, NoWork
<1>5. QED
  BY <1>2, <1>3, <1>4 DEF Init, TypeOK

\* Types hold however many sockets and requests write the thread from
\* instances of their own.
THEOREM TypeCorrect == Spec => []TypeOK
BY InitType, StepType, PTL DEF Spec

--------------------------------------------------------------------------------
(* The numbering has no holes.  The strengthening: while a number is held  *)
(* and its message not yet inserted, all the numbers below it are stored   *)
(* already, so that it can be stored at any later time.                    *)

AllSeqs == SeqsOf({"visitor", "socket", "http"})

Holding == {"numbered", "settling"}

PendingCovered ==
    owner # "deleted" =>
        \A a \in Actors : sub[a].at \in Holding =>
            \A n \in 1..(sub[a].seq - 1) : n \in AllSeqs

IInv == TypeOK /\ NoHoles /\ PendingCovered

\* Every message is a turn or an answer: the numbers are those of all messages.
LEMMA AllSeqsAre ==
    ASSUME TypeOK
    PROVE  AllSeqs = { msgs[i].seq : i \in DOMAIN msgs }
<1>1. \A i \in DOMAIN msgs : msgs[i] \in Messages
  BY DEF TypeOK
<1>2. \A i \in DOMAIN msgs : msgs[i].by \in {"visitor", "socket", "http"}
  BY <1>1 DEF Messages
<1>3. QED
  BY <1>2 DEF AllSeqs, SeqsOf

\* No holes, said of the set of numbers.
LEMMA NoHolesInSet ==
    ASSUME TypeOK
    PROVE  NoHoles <=> \A s \in AllSeqs : \A n \in 1..s : n \in AllSeqs
BY AllSeqsAre DEF NoHoles

\* The same two facts of the state a step leads to.
LEMMA AllSeqsWillBe ==
    ASSUME TypeOK'
    PROVE  /\ AllSeqs' = { msgs'[i].seq : i \in DOMAIN msgs' }
           /\ NoHoles' <=> \A s \in AllSeqs' : \A n \in 1..s : n \in AllSeqs'
<1>1. \A i \in DOMAIN msgs' : msgs'[i] \in Messages
  BY DEF TypeOK
<1>2. \A i \in DOMAIN msgs' : msgs'[i].by \in {"visitor", "socket", "http"}
  BY <1>1 DEF Messages
<1>3. AllSeqs' = { msgs'[i].seq : i \in DOMAIN msgs' }
  BY <1>2 DEF AllSeqs, SeqsOf
<1>4. QED
  BY <1>3 DEF NoHoles

\* The next number is 0, when the allocation failed, or has all below it stored.
LEMMA AllocatedIsCovered ==
    ASSUME TypeOK, NoHoles, NEW n \in Nat, Allocated(n)
    PROVE  \A k \in 1..(n - 1) : k \in AllSeqs
<1>1. CASE n = 0
  BY <1>1
<1>2. CASE IsNext(n)
  <2>1. PICK top \in Numbers : IsTop(top, AllSeqs) /\ n = top + 1
    BY <1>2 DEF IsNext, AllSeqs
  <2>2. CASE top \in AllSeqs
    BY <2>1, <2>2, NoHolesInSet DEF Numbers
  <2>3. CASE top = 0
    BY <2>1, <2>3
  <2>4. QED
    BY <2>1, <2>2, <2>3 DEF IsTop
<1>3. QED
  BY <1>1, <1>2 DEF Allocated

\* Storing a message adds its number and takes none away.
LEMMA StoreAdds ==
    ASSUME TypeOK, TypeOK', NEW m \in Messages, Store(m)
    PROVE  AllSeqs' = AllSeqs \cup {m.seq}
<1>1. msgs \in Seq(Messages) /\ msgs' = Append(msgs, m)
  BY DEF TypeOK, Store
<1>2. /\ DOMAIN msgs' = DOMAIN msgs \cup {Len(msgs) + 1}
      /\ \A i \in DOMAIN msgs : msgs'[i] = msgs[i]
      /\ msgs'[Len(msgs) + 1] = m
  BY <1>1
<1>3. AllSeqs = { msgs[i].seq : i \in DOMAIN msgs }
  BY AllSeqsAre
<1>4. AllSeqs' = { msgs'[i].seq : i \in DOMAIN msgs' }
  BY AllSeqsWillBe
<1>5. QED
  BY <1>2, <1>3, <1>4

\* A step that stores nothing and holds no new number.
LEMMA QuietKeeps ==
    ASSUME IInv, TypeOK', UNCHANGED msgs, owner' # "deleted" => owner # "deleted",
           \A b \in Actors : sub'[b].at \in Holding =>
               sub[b].at \in Holding /\ sub'[b].seq = sub[b].seq
    PROVE  NoHoles' /\ PendingCovered'
<1>1. AllSeqs' = AllSeqs
  BY DEF AllSeqs, SeqsOf
<1>2. NoHoles'
  BY DEF IInv, NoHoles
<1>3. PendingCovered'
  BY <1>1 DEF IInv, PendingCovered
<1>4. QED
  BY <1>2, <1>3

\* An actor that goes on to any other step is quiet.
LEMMA GoingIsQuiet ==
    ASSUME IInv, TypeOK', NEW a \in Actors, NEW from, NEW s, s.at \notin Holding,
           Goes(a, from, s), UNCHANGED <<msgs, owner>>
    PROVE  NoHoles' /\ PendingCovered'
<1>1. \A b \in Actors : sub'[b] = IF b = a THEN s ELSE sub[b]
  BY DEF IInv, TypeOK, Goes
<1>2. QED
  BY <1>1, QuietKeeps

\* Where an actor is after a step of its own.
LEMMA AtIsStep ==
    ASSUME TypeOK, NEW a \in Actors, NEW step
    PROVE  At(a, step).at = step /\ Fetched(a, step).at = step /\ Away.at = "away"
<1>1. At(a, step).at = step
  BY HeldIsTyped DEF At, Subs
<1>2. Fetched(a, step).at = step /\ Away.at = "away"
  BY DEF Fetched, Away
<1>3. QED
  BY <1>1, <1>2

\* Where an actor works on the answer to a turn under its lock.
Working == {"aimed", "locked", "generating"}

\* Reading, noting, engaging, moving through the band, reviewing.
QuietAction(a) ==
    \/ Connect(a) \/ Disconnect(a) \/ Fetch(a) \/ Retry(a)
    \/ HookStops(a) \/ KeepLoop(a) \/ NoReview(a) \/ Halt(a)
    \/ Engage(a) \/ EnterReview(a) \/ CloseLoop(a) \/ Reflect(a) \/ StartReview(a)

\* After none of them does the actor hold a number or work on a turn.
LEMMA QuietGoes ==
    ASSUME TypeOK, NEW a \in Actors, QuietAction(a)
    PROVE  /\ \E from, s : s.at \notin Holding \cup Working /\ Goes(a, from, s)
           /\ UNCHANGED <<msgs, owner, locks, expired>>
<1>1. \A step : At(a, step).at = step /\ Fetched(a, step).at = step /\ Away.at = "away"
  BY AtIsStep
<1>2. UNCHANGED <<msgs, owner, locks, expired>>
  BY DEF QuietAction, Connect, Disconnect, Fetch, Retry, HookStops, KeepLoop, NoReview, Halt,
         Engage, EnterReview, CloseLoop, Reflect, StartReview
<1>3. SUFFICES \E from, s : s.at \notin Holding \cup Working /\ Goes(a, from, s)
  BY <1>2
<1>4. CASE Connect(a) \/ Disconnect(a) \/ Fetch(a) \/ Retry(a)
  BY <1>1, <1>4 DEF Connect, Disconnect, Fetch, Retry, Holding, Working
<1>5. CASE HookStops(a) \/ KeepLoop(a) \/ NoReview(a) \/ Halt(a)
  <2>1. [At(a, "answer") EXCEPT !.said = {}].at = "answer" /\ [At(a, "open") EXCEPT !.seq = 0].at = "open"
    BY <1>1, StepIsTyped DEF Subs, Steps
  <2>2. Done(a).at \in {"open", "away"}
    BY <1>1, <2>1 DEF Done
  <2>3. CASE HookStops(a)
    BY <2>1, <2>3 DEF HookStops, Holding, Working
  <2>4. CASE KeepLoop(a) \/ NoReview(a)
    <3>1. \E from : Goes(a, from, At(a, "review")) \/ Goes(a, from, At(a, "answer"))
      BY <2>4 DEF KeepLoop, NoReview
    <3>2. QED
      BY <1>1, <3>1 DEF Holding, Working
  <2>5. CASE Halt(a)
    BY <2>2, <2>5 DEF Halt, Holding, Working
  <2>6. QED
    BY <1>5, <2>3, <2>4, <2>5
<1>6. CASE Engage(a)
  <2>1. ASSUME NEW step \in {"enter", "answer"}, NEW c
        PROVE  [At(a, step) EXCEPT !.copy = c, !.said = {}].at = step
    BY <1>1, StepIsTyped DEF Subs, Steps
  <2>2. QED
    BY <1>6, <2>1 DEF Engage, Holding, Working
<1>7. CASE EnterReview(a) \/ CloseLoop(a)
  <2>1. ASSUME NEW step \in {"loop", "reflect"}, NEW t
        PROVE  /\ [At(a, step) EXCEPT !.copy.state = t].at = step
               /\ [At(a, step) EXCEPT !.seen = t, !.copy.state = t].at = step
    BY <1>1, StepIsTyped DEF Subs, Steps
  <2>2. ASSUME NEW from, NEW to \in {"loop", "reflect"}, NEW s, NEW event,
               AdvanceThread(a, from, to, s) \/ AdvanceLead(a, from, to, event)
        PROVE  \E f, r : r.at \notin Holding \cup Working /\ Goes(a, f, r)
    <3>1. CASE AdvanceThread(a, from, to, s)
      BY <1>1, <2>1, <3>1 DEF AdvanceThread, Holding, Working
    <3>2. CASE AdvanceLead(a, from, to, event)
      BY <1>1, <2>1, <3>2 DEF AdvanceLead, Holding, Working
    <3>3. QED
      BY <2>2, <3>1, <3>2
  <2>3. CASE EnterReview(a)
    BY <2>2, <2>3 DEF EnterReview
  <2>4. CASE CloseLoop(a)
    BY <2>2, <2>4 DEF CloseLoop
  <2>5. QED
    BY <1>7, <2>3, <2>4
<1>8. CASE Reflect(a) \/ StartReview(a)
  <2>1. /\ [At(a, "review") EXCEPT !.copy.settled = FALSE].at = "review"
        /\ \A l : [At(a, "answer") EXCEPT !.copy.lead = l, !.seen = "DIAGNOSED"].at = "answer"
    BY <1>1, StepIsTyped DEF Subs, Steps
  <2>2. QED
    BY <1>1, <1>8, <2>1 DEF Reflect, StartReview, Holding, Working
<1>9. QED
  BY <1>4, <1>5, <1>6, <1>7, <1>8 DEF QuietAction

\* All of them, and aiming and locking, are quiet.
LEMMA QuietSteps ==
    ASSUME IInv, TypeOK', NEW a \in Actors,
           QuietAction(a) \/ Aim(a) \/ Lock(a) \/ Recheck(a) \/ GenerationFails(a)
    PROVE  NoHoles' /\ PendingCovered'
<1>1. TypeOK
  BY DEF IInv
<1>2. CASE QuietAction(a)
  BY <1>1, <1>2, QuietGoes, GoingIsQuiet
<1>3. CASE Aim(a) \/ Lock(a) \/ Recheck(a) \/ GenerationFails(a)
  <2>1. \A step : At(a, step).at = step /\ Away.at = "away"
    BY <1>1, AtIsStep
  <2>2. \A k : [At(a, "aimed") EXCEPT !.key = k].at = "aimed"
    BY <1>1, <2>1, StepIsTyped DEF Subs, Steps
  <2>3. \E from, s : s.at \notin Holding /\ Goes(a, from, s)
    <3>1. CASE Aim(a)
      BY <2>2, <3>1 DEF Aim, Holding
    <3>2. CASE Lock(a)
      BY <2>1, <3>2 DEF Lock, Holding
    <3>3. CASE Recheck(a) \/ GenerationFails(a)
      BY <2>1, <3>3 DEF Recheck, GenerationFails, Holding
    <3>4. QED
      BY <1>3, <3>1, <3>2, <3>3
  <2>4. UNCHANGED <<msgs, owner>>
    BY <1>3 DEF Aim, Lock, Recheck, GenerationFails
  <2>5. QED
    BY <2>3, <2>4, GoingIsQuiet
<1>4. QED
  BY <1>2, <1>3

\* A number is handed out: it is covered by what is stored.
LEMMA AllocationKeeps ==
    ASSUME IInv, TypeOK', NEW a \in Actors,
           (\E said \in Turns : Submit(a, said)) \/ Settle(a) \/ Generate(a)
    PROVE  NoHoles' /\ PendingCovered'
<1>1. TypeOK /\ NoHoles /\ PendingCovered
  BY DEF IInv
<1>2. ASSUME NEW n, NEW said
      PROVE  /\ [At(a, "settling") EXCEPT !.seq = n].seq = n
             /\ [At(a, "numbered") EXCEPT !.said = said, !.seq = n].seq = n
  BY <1>1, StepIsTyped DEF Subs, Steps
<1>3. PICK n \in 0..MaxMessages : Allocated(n) /\ \E from, s : s.seq = n /\ Goes(a, from, s)
  <2>1. CASE \E said \in Turns : Submit(a, said)
    BY <1>2, <2>1 DEF Submit
  <2>2. CASE Settle(a) \/ Generate(a)
    BY <1>2, <2>2 DEF Settle, Generate, TakeNumber
  <2>3. QED
    BY <2>1, <2>2
<1>4. UNCHANGED <<msgs, owner>>
  BY DEF Submit, Settle, Generate, TakeNumber
<1>5. AllSeqs' = AllSeqs /\ NoHoles'
  BY <1>1, <1>4 DEF AllSeqs, SeqsOf, NoHoles
<1>6. \A k \in 1..(n - 1) : k \in AllSeqs
  BY <1>1, <1>3, AllocatedIsCovered
<1>7. PICK s : s.seq = n /\ \A b \in Actors : sub'[b] = IF b = a THEN s ELSE sub[b]
  BY <1>1, <1>3 DEF Goes, TypeOK
<1>8. PendingCovered'
  BY <1>1, <1>4, <1>5, <1>6, <1>7 DEF PendingCovered
<1>9. QED
  BY <1>5, <1>8

\* A message is inserted under a number that is covered.
LEMMA InsertKeeps ==
    ASSUME IInv, TypeOK', NEW a \in Actors, Insert(a) \/ SettleInsert(a) \/ AnswerInsert(a)
    PROVE  NoHoles' /\ PendingCovered'
<1>1. TypeOK /\ NoHoles /\ PendingCovered
  BY DEF IInv
<1>2. PICK m \in Messages : m.seq = sub[a].seq /\ Store(m)
  <2>1. /\ [seq |-> sub[a].seq, by |-> "visitor", for |-> 0] \in Messages
        /\ [seq |-> sub[a].seq, by |-> "socket", for |-> 0] \in Messages
        /\ [seq |-> sub[a].seq, by |-> "http", for |-> sub[a].key] \in Messages
    BY <1>1, HeldIsTyped, BoundsAssumption DEF Messages, Numbers
  <2>2. QED
    BY <2>1 DEF Insert, SettleInsert, AnswerInsert
<1>3. AllSeqs' = AllSeqs \cup {m.seq}
  BY <1>1, <1>2, StoreAdds
<1>4. owner # "deleted" /\ sub[a].at \in Holding /\ UNCHANGED owner
  BY DEF Insert, SettleInsert, AnswerInsert, Goes, Holding
<1>5. /\ sub[a].seq \in Nat
      /\ \A n \in 1..(sub[a].seq - 1) : n \in AllSeqs
  BY <1>1, <1>4, HeldIsTyped DEF PendingCovered, Numbers
<1>6. NoHoles'
  <2>1. \A s \in AllSeqs' : \A n \in 1..s : n \in AllSeqs'
    <3>1. \A s \in AllSeqs : \A n \in 1..s : n \in AllSeqs'
      BY <1>1, <1>3, NoHolesInSet
    <3>2. \A n \in 1..m.seq : n \in AllSeqs'
      BY <1>2, <1>3, <1>5
    <3>3. QED
      BY <1>3, <3>1, <3>2
  <2>2. QED
    BY <2>1, AllSeqsWillBe
<1>7. PICK s : /\ s.at \notin Holding
               /\ \A b \in Actors : sub'[b] = IF b = a THEN s ELSE sub[b]
  <2>1. /\ [At(a, "engage") EXCEPT !.seq = 0].at = "engage"
        /\ [At(a, "open") EXCEPT !.seq = 0].at = "open"
        /\ Away.at = "away"
    BY <1>1, StepIsTyped, AtIsStep DEF Subs, Steps
  <2>2. \E from, s : s.at \notin Holding /\ Goes(a, from, s)
    BY <2>1 DEF Insert, SettleInsert, AnswerInsert, Done, Holding
  <2>3. QED
    BY <1>1, <2>2 DEF Goes, TypeOK
<1>8. PendingCovered'
  BY <1>1, <1>3, <1>4, <1>7 DEF PendingCovered
<1>9. QED
  BY <1>6, <1>8

\* Nobody else hands out or stores a number; the sweep leaves none.
LEMMA OthersKeep ==
    ASSUME IInv, TypeOK',
           \/ \E k \in Numbers : LockExpires(k)
           \/ \E l \in Leads : WorkerReads(l)
           \/ WorkerReveals \/ Claim \/ SweepReads \/ SweepDeletes
    PROVE  NoHoles' /\ PendingCovered'
<1>1. CASE SweepDeletes
  BY <1>1 DEF SweepDeletes, NoHoles, PendingCovered
<1>2. CASE ~SweepDeletes
  <2>1. UNCHANGED <<msgs, sub>> /\ (owner' # "deleted" => owner # "deleted")
    BY <1>2 DEF LockExpires, WorkerReads, WorkerReveals, Claim, SweepReads
  <2>2. QED
    BY <2>1, QuietKeeps
<1>3. QED
  BY <1>1, <1>2

\* Together: no step of anybody skips a number.
LEMMA StepIInv == IInv /\ [Next]_vars => IInv'
<1> SUFFICES ASSUME IInv, [Next]_vars
             PROVE  IInv'
  OBVIOUS
<1>1. TypeOK'
  BY StepType DEF IInv
<1>2. CASE \E a \in Actors : Turn(a)
  BY <1>1, <1>2, QuietSteps, AllocationKeeps, InsertKeeps DEF Turn, QuietAction, IInv
<1>3. CASE \E a \in Actors : Socket(a)
  BY <1>1, <1>3, QuietSteps, AllocationKeeps, InsertKeeps DEF Socket, QuietAction, IInv
<1>4. CASE \E a \in Actors : Request(a)
  BY <1>1, <1>4, QuietSteps, AllocationKeeps, InsertKeeps DEF Request, QuietAction, IInv
<1>5. CASE \/ \E k \in Numbers : LockExpires(k)
           \/ \E l \in Leads : WorkerReads(l)
           \/ WorkerReveals \/ Claim \/ SweepReads \/ SweepDeletes
  BY <1>1, <1>5, OthersKeep DEF IInv
<1>6. CASE UNCHANGED vars
  BY <1>1, <1>6, QuietKeeps DEF vars, IInv
<1>7. QED
  BY <1>2, <1>3, <1>4, <1>5, <1>6 DEF Next

\* An empty thread has no holes and nobody holds a number.
LEMMA InitIInv == Init => IInv
<1>1. Init => NoHoles /\ PendingCovered
  BY DEF Init, NoHoles, PendingCovered, Away, Holding
<1>2. QED
  BY <1>1, InitType DEF IInv

\* However many turns and answers are numbered at once, and however the
\* lock-free gap between next_seq() and the INSERT is interleaved, the numbers
\* stored are without holes: a repeated number is possible, a skipped one is not.
THEOREM NumberingHasNoHoles == Spec => []NoHoles
<1>1. Spec => []IInv
  BY InitIInv, StepIInv, PTL DEF Spec
<1>2. IInv => NoHoles
  BY DEF IInv
<1>3. QED
  BY <1>1, <1>2, PTL

--------------------------------------------------------------------------------
(* The review is asked for.  The strengthening: whatever an instance shows *)
(* of offer, consent, mirror and action was said in a stored turn, in the  *)
(* row and in every copy however stale, and an actor in the band walks for *)
(* somebody who accepted.                                                  *)

Asked == {"evaluate", "accept"} \subseteq told
Sought == {"evaluate", "accept", "settle", "act", "email"} \subseteq told

Backed(c) ==
    /\ c.state # "ARRIVED" \/ c.customer => Asked
    /\ c.offered => "evaluate" \in told
    /\ c.settled => "settle" \in told
    /\ c.identity => "act" \in told

Heard(s) ==
    /\ Backed(s.copy)
    /\ s.at = "engage" => s.said \subseteq told
    /\ s.at \in {"enter", "loop", "reflect"} => Asked

Backing ==
    /\ Backed(row)
    /\ \A a \in Actors : Heard(sub[a])
    /\ worker # NoWork => Asked
    /\ opened # {} => Sought

\* A step of one actor that says nothing new.
LEMMA GoesBacked ==
    ASSUME TypeOK, Backing, NEW a \in Actors, NEW from, NEW s, Goes(a, from, s), Heard(s),
           Backed(row'), UNCHANGED <<told, opened, worker>>
    PROVE  Backing'
<1>1. \A b \in Actors : sub'[b] = IF b = a THEN s ELSE sub[b]
  BY DEF TypeOK, Goes
<1>2. QED
  BY <1>1 DEF Backing, Heard, Backed, Asked, Sought

\* A step of one actor that keeps what it holds and goes on to a quiet place.
LEMMA CopyBacked ==
    ASSUME TypeOK, Backing, NEW a \in Actors, NEW from, NEW s, Goes(a, from, s),
           s.copy = sub[a].copy, s.at \notin {"engage", "enter", "loop", "reflect"},
           UNCHANGED <<row, told, opened, worker>>
    PROVE  Backing'
<1>1. Heard(s)
  BY DEF Backing, Heard
<1>2. Backed(row')
  BY DEF Backing, Backed
<1>3. QED
  BY <1>1, <1>2, GoesBacked

LEMMA FetchBacked ==
    ASSUME TypeOK, Backing, NEW a \in Actors,
           \/ Connect(a) \/ Fetch(a) \/ Retry(a) \/ Disconnect(a) \/ GenerationFails(a)
           \/ Lock(a) \/ Recheck(a) \/ AnswerInsert(a)
    PROVE  Backing'
<1>1. \A step \in {"open", "answer"} : Heard(Fetched(a, step))
  BY DEF Fetched, Away, Backing, Heard, Backed
<1>2. Heard(Away)
  BY DEF Away, NewThread, Heard, Backed
<1>3. Backed(row') /\ UNCHANGED <<row, told, opened, worker>>
  BY DEF Backing, Connect, Fetch, Retry, Disconnect, GenerationFails, Lock, Recheck, AnswerInsert
<1>4. CASE Connect(a) \/ Fetch(a) \/ Retry(a)
  BY <1>1, <1>3, <1>4, GoesBacked DEF Connect, Fetch, Retry
<1>5. CASE Disconnect(a) \/ GenerationFails(a) \/ AnswerInsert(a)
  BY <1>2, <1>3, <1>5, GoesBacked DEF Disconnect, GenerationFails, AnswerInsert
<1>6. /\ At(a, "locked").at = "locked" /\ At(a, "locked").copy = sub[a].copy
      /\ At(a, "generating").at = "generating" /\ At(a, "generating").copy = sub[a].copy
  BY HeldIsTyped DEF At, Subs
<1>7. CASE Lock(a)
  BY <1>2, <1>3, <1>6, <1>7, GoesBacked, CopyBacked DEF Lock
<1>8. CASE Recheck(a)
  BY <1>2, <1>3, <1>6, <1>8, GoesBacked, CopyBacked DEF Recheck
<1>9. QED
  BY <1>4, <1>5, <1>7, <1>8

LEMMA QuietBacked ==
    ASSUME TypeOK, Backing, NEW a \in Actors,
           \/ (\E said \in Turns : Submit(a, said)) \/ HookStops(a) \/ KeepLoop(a) \/ NoReview(a)
           \/ Settle(a) \/ SettleInsert(a) \/ Halt(a) \/ Aim(a) \/ Generate(a)
    PROVE  Backing'
<1>1. sub[a] \in Subs
  BY HeldIsTyped
<1>2. /\ \A x \in {"answer", "review"} : At(a, x).at = x /\ At(a, x).copy = sub[a].copy
      /\ \A n : /\ [At(a, "settling") EXCEPT !.seq = n].at = "settling"
                /\ [At(a, "settling") EXCEPT !.seq = n].copy = sub[a].copy
                /\ [At(a, "aimed") EXCEPT !.key = n].at = "aimed"
                /\ [At(a, "aimed") EXCEPT !.key = n].copy = sub[a].copy
                /\ [At(a, "open") EXCEPT !.seq = n].at = "open"
                /\ [At(a, "open") EXCEPT !.seq = n].copy = sub[a].copy
      /\ [At(a, "answer") EXCEPT !.said = {}].at = "answer"
      /\ [At(a, "answer") EXCEPT !.said = {}].copy = sub[a].copy
  BY <1>1 DEF At, Subs
<1>3. UNCHANGED <<row, told, opened, worker>>
  BY DEF Submit, HookStops, KeepLoop, NoReview, Settle, SettleInsert, Halt, Aim, Generate, TakeNumber
<1>4. ASSUME NEW said, Submit(a, said) PROVE Backing'
  <2>1. PICK n : Goes(a, "open", [At(a, "numbered") EXCEPT !.said = said, !.seq = n])
    BY <1>4 DEF Submit
  <2> DEFINE s == [At(a, "numbered") EXCEPT !.said = said, !.seq = n]
  <2>2. s.at = "numbered" /\ s.copy = sub[a].copy
    BY <1>1 DEF At, Subs
  <2> HIDE DEF s
  <2>3. Goes(a, "open", s)
    BY <2>1 DEF s
  <2>4. QED
    BY <1>3, <2>2, <2>3, CopyBacked
<1>5. CASE HookStops(a)
  BY <1>2, <1>3, <1>5, CopyBacked DEF HookStops
<1>6. CASE KeepLoop(a) \/ NoReview(a)
  BY <1>2, <1>3, <1>6, CopyBacked DEF KeepLoop, NoReview
<1>7. CASE Settle(a) \/ Generate(a)
  <2>1. PICK n, from : Goes(a, from, [At(a, "settling") EXCEPT !.seq = n])
    BY <1>7 DEF Settle, Generate, TakeNumber
  <2>2. QED
    BY <1>2, <1>3, <2>1, CopyBacked
<1>8. CASE SettleInsert(a) \/ Halt(a)
  <2>1. PICK from : Goes(a, from, [At(a, "open") EXCEPT !.seq = 0])
    BY <1>8 DEF SettleInsert, Halt, Done
  <2>2. QED
    BY <1>2, <1>3, <2>1, CopyBacked
<1>9. CASE Aim(a)
  <2>1. PICK k : Goes(a, "answer", [At(a, "aimed") EXCEPT !.key = k])
    BY <1>9 DEF Aim
  <2>2. QED
    BY <1>2, <1>3, <2>1, CopyBacked
<1>10. QED
  BY <1>4, <1>5, <1>6, <1>7, <1>8, <1>9

\* A stored turn: its sayings are told, and everything told stays told.
LEMMA InsertBacked ==
    ASSUME TypeOK, Backing, NEW a \in Actors, Insert(a)
    PROVE  Backing'
<1> DEFINE s == [At(a, "engage") EXCEPT !.seq = 0]
<1>1. s.copy = sub[a].copy /\ s.at = "engage" /\ s.said = sub[a].said
  BY HeldIsTyped DEF At, Subs
<1>2. /\ Goes(a, "numbered", s) /\ told' = told \cup sub[a].said
      /\ UNCHANGED <<row, opened, worker>>
  BY DEF Insert
<1> HIDE DEF s
<1>3. \A b \in Actors : sub'[b] = IF b = a THEN s ELSE sub[b]
  BY <1>2 DEF TypeOK, Goes
<1>4. (Asked => Asked') /\ (Sought => Sought') /\ told \subseteq told'
  BY <1>2 DEF Asked, Sought
<1>5. \A b \in Actors \ {a} : Heard(sub[b])'
  BY <1>3, <1>4 DEF Backing, Heard, Backed
<1>6. Heard(sub[a])'
  <2>1. sub'[a] = s /\ Heard(sub[a])
    BY <1>3 DEF Backing
  <2>2. QED
    BY <1>1, <1>2, <1>4, <2>1 DEF Heard, Backed
<1>7. Backed(row)'
  BY <1>2, <1>4 DEF Backing, Backed
<1>8. QED
  BY <1>2, <1>4, <1>5, <1>6, <1>7 DEF Backing

\* Engagement: what the turn says backs what the instance now shows.
LEMMA EngageBacked ==
    ASSUME TypeOK, Backing, NEW a \in Actors, Engage(a)
    PROVE  Backing'
<1> DEFINE c == Engaged(sub[a].copy, sub[a].said)
           x == IF c.customer THEN "enter" ELSE "answer"
           s == [At(a, x) EXCEPT !.copy = c, !.said = {}]
<1>1. c \in Columns /\ Backed(sub[a].copy) /\ sub[a].said \subseteq told
  BY HeldIsTyped, EngagedIsTyped DEF Backing, Heard, Engage, Goes
<1>2. /\ c.customer <=> (sub[a].copy.customer \/ Accepts(sub[a].copy, sub[a].said))
      /\ c.offered => (sub[a].copy.offered \/ Offers(sub[a].copy, sub[a].said))
      /\ c.settled => (sub[a].copy.settled \/ "settle" \in sub[a].said)
      /\ c.identity => (sub[a].copy.identity \/ "act" \in sub[a].said)
      /\ c.state = sub[a].copy.state
  BY HeldIsTyped DEF Engaged, Columns
<1>3. Backed(c)
  BY <1>1, <1>2 DEF Backed, Asked, Accepts, Offers
<1>4. Goes(a, "engage", s) /\ UNCHANGED <<told, opened, worker>>
  BY DEF Engage
<1>5. \E fields : row' = Saved(fields, c)
  BY DEF Engage
<1> HIDE DEF c
<1>6. s.copy = c /\ s.at = x
  BY <1>1, HeldIsTyped DEF At, Subs
<1>7. Heard(s)
  BY <1>3, <1>6 DEF Heard, Backed
<1>8. Backed(row')
  BY <1>1, <1>3, <1>5 DEF Saved, Backing, Backed, TypeOK, Columns
<1> HIDE DEF s
<1>9. QED
  BY <1>4, <1>7, <1>8, GoesBacked

\* The band moves an instance and the row for somebody who accepted.
LEMMA BandBacked ==
    ASSUME TypeOK, Backing, NEW a \in Actors, EnterReview(a) \/ CloseLoop(a)
    PROVE  Backing'
<1>1. PICK from \in {"enter", "loop"}, to \in {"loop", "reflect"},
           n \in {"IN_REVIEW", "DIAGNOSED"}, event \in {"first_turn", "loop_closed"} :
        AdvanceThread(a, from, to, n) \/ AdvanceLead(a, from, to, event)
  BY DEF EnterReview, CloseLoop
<1>2. UNCHANGED <<told, opened, worker>>
  BY DEF EnterReview, CloseLoop
<1>3. Asked
  BY <1>1 DEF AdvanceThread, AdvanceLead, Goes, Backing, Heard
<1>4. sub[a] \in Subs /\ sub[a].copy \in Columns /\ Backed(sub[a].copy) /\ row \in Columns
  BY HeldIsTyped DEF Backing, Heard, TypeOK
<1>5. ASSUME NEW t
      PROVE  /\ Heard([At(a, to) EXCEPT !.copy.state = t])
             /\ Heard([At(a, to) EXCEPT !.seen = t, !.copy.state = t])
  BY <1>1, <1>3, <1>4 DEF At, Subs, Columns, Heard, Backed
<1>6. Heard(At(a, to))
  BY <1>1, <1>3, <1>4 DEF At, Subs, Heard
<1>7. ASSUME NEW t, Mirror(sub[a].copy, t) PROVE Backed(row')
  BY <1>3, <1>4, <1>7 DEF Mirror, Saved, Backing, Backed, Columns
<1>8. row' = row => Backed(row')
  BY DEF Backing
<1>9. \E s : Goes(a, from, s) /\ Heard(s) /\ Backed(row')
  <2>1. CASE AdvanceThread(a, from, to, n)
    BY <1>5, <1>6, <1>7, <1>8, <2>1 DEF AdvanceThread
  <2>2. CASE AdvanceLead(a, from, to, event)
    BY <1>5, <1>6, <1>7, <1>8, <2>2 DEF AdvanceLead
  <2>3. QED
    BY <1>1, <2>1, <2>2
<1>10. QED
  BY <1>2, <1>9, GoesBacked

LEMMA ReflectBacked ==
    ASSUME TypeOK, Backing, NEW a \in Actors, Reflect(a)
    PROVE  Backing'
<1>1. sub[a] \in Subs /\ sub[a].copy \in Columns /\ Backed(sub[a].copy) /\ row \in Columns
  BY HeldIsTyped DEF Backing, Heard, TypeOK
<1>2. Heard(At(a, "review")) /\ Heard([At(a, "review") EXCEPT !.copy.settled = FALSE])
  BY <1>1 DEF At, Subs, Columns, Heard, Backed
<1>3. Backed(row')
  BY <1>1 DEF Reflect, Backing, Backed, Columns
<1>4. \E from, s : Goes(a, from, s) /\ Heard(s)
  BY <1>2 DEF Reflect
<1>5. UNCHANGED <<told, opened, worker>>
  BY DEF Reflect
<1>6. QED
  BY <1>3, <1>4, <1>5, GoesBacked

\* The gates read off the instance, and the instance is backed.
LEMMA StartBacked ==
    ASSUME TypeOK, Backing, NEW a \in Actors, StartReview(a)
    PROVE  Backing'
<1>1. sub[a] \in Subs /\ sub[a].copy \in Columns /\ Backed(sub[a].copy) /\ row \in Columns
  BY HeldIsTyped DEF Backing, Heard, TypeOK
<1>2. Sought
  BY <1>1 DEF StartReview, GatesOpen, Backed, Asked, Sought
<1>3. PICK l \in Leads :
        /\ row' = [row EXCEPT !.lead = l]
        /\ Goes(a, "review", [At(a, "answer") EXCEPT !.copy.lead = l, !.seen = "DIAGNOSED"])
  BY DEF StartReview
<1> DEFINE s == [At(a, "answer") EXCEPT !.copy.lead = l, !.seen = "DIAGNOSED"]
<1>4. Heard(s)
  BY <1>1 DEF At, Subs, Columns, Heard, Backed
<1> HIDE DEF s
<1>5. \A b \in Actors : sub'[b] = IF b = a THEN s ELSE sub[b]
  BY <1>3 DEF TypeOK, Goes, s
<1>6. told' = told /\ worker' = worker
  BY DEF StartReview
<1>7. Backed(row')
  BY <1>1, <1>3 DEF Backing, Backed, Columns
<1>8. QED
  BY <1>2, <1>4, <1>5, <1>6, <1>7 DEF Backing, Heard, Backed, Asked, Sought

LEMMA OthersBacked ==
    ASSUME TypeOK, Backing,
           \/ UNCHANGED vars \/ \E k \in Numbers : LockExpires(k)
           \/ \E l \in Leads : WorkerReads(l)
           \/ WorkerReveals \/ Claim \/ SweepReads \/ SweepDeletes
    PROVE  Backing'
<1>1. told' = told /\ opened' = opened
  BY DEF vars, LockExpires, WorkerReads, WorkerReveals, Claim, SweepReads, SweepDeletes
<1>2. row \in Columns
  BY DEF TypeOK
<1>3. Sought => Asked
  BY DEF Sought, Asked
<1>4. CASE UNCHANGED <<row, sub, worker>>
  BY <1>1, <1>4 DEF Backing, Heard, Backed, Asked, Sought
<1>5. CASE \E l \in Leads : WorkerReads(l)
  BY <1>1, <1>3, <1>5 DEF WorkerReads, Backing, Heard, Backed, Asked, Sought
<1>6. CASE WorkerReveals
  BY <1>1, <1>2, <1>6 DEF WorkerReveals, Backing, Heard, Backed, Asked, Sought, Columns
<1>7. CASE Claim
  <2>1. \/ row' = row
        \/ \E l : row' = [row EXCEPT !.lead = l]
    BY <1>7 DEF Claim
  <2>2. Backed(row')
    BY <1>2, <2>1 DEF Backing, Backed, Columns
  <2>3. sub' = sub /\ worker' = worker
    BY <1>7 DEF Claim
  <2>4. QED
    BY <1>1, <2>2, <2>3 DEF Backing, Heard, Backed, Asked, Sought
<1>8. CASE SweepDeletes
  BY <1>1, <1>8 DEF SweepDeletes, Backing, Heard, Backed, Asked, Sought, NewThread, Away
<1>9. QED
  BY <1>4, <1>5, <1>6, <1>7, <1>8 DEF vars, LockExpires, SweepReads

LEMMA StepBacked == TypeOK /\ Backing /\ [Next]_vars => Backing'
<1> SUFFICES ASSUME TypeOK, Backing, [Next]_vars PROVE Backing'
  OBVIOUS
<1>1. ASSUME NEW a \in Actors, Turn(a) PROVE Backing'
  BY <1>1, QuietBacked, InsertBacked, EngageBacked, BandBacked, ReflectBacked, StartBacked DEF Turn
<1>2. ASSUME NEW a \in Actors, Socket(a) \/ Request(a) PROVE Backing'
  BY <1>2, FetchBacked, QuietBacked DEF Socket, Request
<1>3. QED
  BY <1>1, <1>2, OthersBacked DEF Next

\* No thread leaves ARRIVED and no lead is opened by the conversation without every
\* consent having been given in a stored turn, however stale the instances were.
THEOREM ReviewsAreAskedFor == Spec => []ReviewIsAskedFor
<1>1. Init => Backing
  BY DEF Init, Backing, Heard, Backed, Away, NewThread
<1>2. Spec => []Backing
  BY <1>1, StepBacked, TypeCorrect, PTL DEF Spec
<1>3. Backing => ReviewIsAskedFor
  BY DEF Backing, Backed, Asked, Sought, ReviewIsAskedFor
<1>4. QED
  BY <1>2, <1>3, PTL

--------------------------------------------------------------------------------
(* One answer to a turn.  The strengthening: as long as its lock has not   *)
(* expired, one request at a time works on a turn and holds its lock, and  *)
(* from the second look on no numbered answer to it is stored; and what is *)
(* numbered for it comes after it, so that the second look sees it.        *)

Holds(a, k) ==
    /\ sub[a].key = k
    /\ sub[a].at \in {"locked", "generating"} \/ (sub[a].at = "settling" /\ a \in Requests)

Answers(i, k) == i \in DOMAIN msgs /\ msgs[i].by = "http" /\ msgs[i].for = k

Later(n, k) == n = 0 \/ n > k

OneHolder(k) ==
    /\ \A a \in Actors : Holds(a, k) => k \in locks
    /\ \A a, b \in Actors : Holds(a, k) /\ Holds(b, k) => a = b

HolderBare(k) == \A a \in Actors : Holds(a, k) /\ sub[a].at # "locked" =>
    \A i \in DOMAIN msgs : Answers(i, k) => msgs[i].seq = 0

ComesLater(k) ==
    /\ \A a \in Actors : Holds(a, k) /\ sub[a].at = "settling" => Later(sub[a].seq, k)
    /\ \A i \in DOMAIN msgs : Answers(i, k) => Later(msgs[i].seq, k)

OneNumbered(k) == \A i, j \in DOMAIN msgs :
    Answers(i, k) /\ Answers(j, k) /\ msgs[i].seq # 0 /\ msgs[j].seq # 0 => i = j

Excl(k) == OneHolder(k) /\ HolderBare(k) /\ ComesLater(k) /\ OneNumbered(k)

\* A request works on a turn that was stored.
Targeted == \A a \in Actors : sub[a].at \in {"aimed", "locked", "generating"} =>
    sub[a].key \in SeqsOf({"visitor"}) \cup {0}

Exclusive == Targeted /\ \A k \in Numbers \ expired : Excl(k)

\* A message more, and it keeps its place.
LEMMA StoredIs ==
    ASSUME TypeOK, NEW m, Store(m)
    PROVE  /\ DOMAIN msgs' = DOMAIN msgs \cup {Len(msgs) + 1}
           /\ Len(msgs) + 1 \notin DOMAIN msgs
           /\ \A i \in DOMAIN msgs : msgs'[i] = msgs[i]
           /\ msgs'[Len(msgs) + 1] = m
<1>1. msgs \in Seq(Messages) /\ msgs' = Append(msgs, m)
  BY DEF TypeOK, Store
<1>2. QED
  BY <1>1

\* What is stored that is no answer over HTTP, if anything.
StoresNoAnswer == UNCHANGED msgs \/ \E m : Store(m) /\ m.by # "http"

LEMMA SameAnswers ==
    ASSUME TypeOK, StoresNoAnswer
    PROVE  /\ \A i, k : Answers(i, k)' <=> Answers(i, k)
           /\ \A i, k : Answers(i, k) => i \in DOMAIN msgs /\ msgs'[i] = msgs[i]
           /\ SeqsOf({"visitor"}) \subseteq SeqsOf({"visitor"})'
<1>1. CASE UNCHANGED msgs
  BY <1>1 DEF Answers, SeqsOf
<1>2. CASE \E m : Store(m) /\ m.by # "http"
  <2>1. PICK m : Store(m) /\ m.by # "http"
    BY <1>2
  <2>2. QED
    BY <2>1, StoredIs DEF Answers, SeqsOf
<1>3. QED
  BY <1>1, <1>2 DEF StoresNoAnswer

\* A step of an actor that does not end up working on a turn.
LEMMA LeavesExclusive ==
    ASSUME TypeOK, Exclusive, StoresNoAnswer, NEW a \in Actors, NEW from, NEW s,
           Goes(a, from, s), s.at \notin {"aimed", "locked", "generating"},
           s.at = "settling" => a \notin Requests, expired' = expired,
           \/ locks \subseteq locks'
           \/ locks' = locks \ {sub[a].key} /\ Holds(a, sub[a].key)
    PROVE  Exclusive'
<1>1. \A b \in Actors : sub'[b] = IF b = a THEN s ELSE sub[b]
  BY DEF TypeOK, Goes
<1>2. \A b \in Actors : \A k : Holds(b, k)' => b # a /\ Holds(b, k)
  BY <1>1 DEF Holds
<1>3. Targeted'
  BY <1>1, SameAnswers DEF Targeted, Exclusive
<1>4. ASSUME NEW k \in Numbers \ expired
      PROVE  Excl(k)'
  <2>1. Excl(k)
    BY <1>4 DEF Exclusive
  <2>2. OneHolder(k)'
    <3>1. \A b \in Actors : Holds(b, k)' => k \in locks /\ (Holds(a, sub[a].key) => k # sub[a].key)
      BY <1>2, <2>1 DEF Excl, OneHolder
    <3>2. \A b \in Actors : Holds(b, k)' => k \in locks'
      BY <3>1
    <3>3. QED
      BY <1>2, <2>1, <3>2 DEF Excl, OneHolder
  <2>3. HolderBare(k)'
    BY <1>1, <1>2, <2>1, SameAnswers DEF Excl, HolderBare, Answers
  <2>4. ComesLater(k)'
    BY <1>1, <1>2, <2>1, SameAnswers DEF Excl, ComesLater, Later, Answers
  <2>5. OneNumbered(k)'
    BY <2>1, SameAnswers DEF Excl, OneNumbered, Answers
  <2>6. QED
    BY <2>2, <2>3, <2>4, <2>5 DEF Excl
<1>5. QED
  BY <1>3, <1>4 DEF Exclusive

\* Aiming at the latest turn, or taking over what an actor already works on.
LEMMA AimExclusive ==
    ASSUME TypeOK, Exclusive, NEW a \in Actors, Aim(a)
    PROVE  Exclusive'
<1>1. PICK k \in Numbers : LatestVisitor(k) /\ Goes(a, "answer", [At(a, "aimed") EXCEPT !.key = k])
  BY DEF Aim
<1> DEFINE s == [At(a, "aimed") EXCEPT !.key = k]
<1>2. s.at = "aimed" /\ s.key = k
  BY HeldIsTyped DEF At, Subs
<1> HIDE DEF s
<1>3. \A b \in Actors : sub'[b] = IF b = a THEN s ELSE sub[b]
  BY <1>1 DEF TypeOK, Goes, s
<1>4. UNCHANGED <<msgs, locks, expired>>
  BY DEF Aim
<1>5. \A b \in Actors : \A n : Holds(b, n)' => b # a /\ Holds(b, n)
  BY <1>2, <1>3 DEF Holds
<1>6. Targeted'
  BY <1>1, <1>2, <1>3, <1>4 DEF Targeted, Exclusive, SeqsOf, LatestVisitor, IsTop
<1>7. ASSUME NEW n \in Numbers \ expired
      PROVE  Excl(n)'
  BY <1>3, <1>4, <1>5, <1>7
     DEF Exclusive, Excl, OneHolder, HolderBare, ComesLater, OneNumbered, Answers, Later
<1>8. QED
  BY <1>4, <1>6, <1>7 DEF Exclusive

\* cache.add succeeds only when nobody has the lock.
LEMMA LockExclusive ==
    ASSUME TypeOK, Exclusive, NEW a \in Actors, Lock(a)
    PROVE  Exclusive'
<1> DEFINE k == sub[a].key
<1>1. UNCHANGED <<msgs, expired>> /\ locks' = locks \cup {k}
  BY DEF Lock
<1>2. CASE k \in locks
  <2>1. Goes(a, "aimed", Away) /\ Away.at = "away"
    BY <1>2 DEF Lock, Away
  <2>2. QED
    BY <1>1, <2>1, LeavesExclusive DEF StoresNoAnswer
<1>3. CASE k \notin locks
  <2>1. /\ Goes(a, "aimed", At(a, "locked")) /\ sub[a].at = "aimed"
        /\ At(a, "locked").at = "locked" /\ At(a, "locked").key = k
    BY <1>3, HeldIsTyped DEF Lock, Goes, At, Subs
  <2>2. \A b \in Actors : sub'[b] = IF b = a THEN At(a, "locked") ELSE sub[b]
    BY <2>1 DEF TypeOK, Goes
  <2>3. \A b \in Actors : \A n : Holds(b, n)' <=> (b = a /\ n = k) \/ (b # a /\ Holds(b, n))
    BY <2>1, <2>2 DEF Holds
  <2>4. Targeted'
    BY <1>1, <2>1, <2>2 DEF Targeted, Exclusive, SeqsOf
  <2>5. ASSUME NEW n \in Numbers \ expired
        PROVE  Excl(n)'
    <3>1. Excl(n)
      BY <2>5 DEF Exclusive
    <3>2. OneHolder(n)'
      BY <1>1, <1>3, <2>3, <3>1 DEF Excl, OneHolder
    <3>3. HolderBare(n)' /\ ComesLater(n)' /\ OneNumbered(n)'
      BY <1>1, <2>1, <2>2, <2>3, <3>1
         DEF Excl, HolderBare, ComesLater, OneNumbered, Answers, Later
    <3>4. QED
      BY <3>2, <3>3 DEF Excl
  <2>6. QED
    BY <1>1, <2>4, <2>5 DEF Exclusive
<1>4. QED
  BY <1>2, <1>3

\* The second look: an answer that has a number comes after the turn, and is seen.
LEMMA RecheckExclusive ==
    ASSUME TypeOK, Exclusive, NEW a \in Actors, Recheck(a)
    PROVE  Exclusive'
<1> DEFINE k == sub[a].key
<1>1. UNCHANGED <<msgs, expired>> /\ sub[a].at = "locked" /\ Holds(a, k)
  BY DEF Recheck, Goes, Holds
<1>2. CASE Answered(k)
  <2>1. Goes(a, "locked", Away) /\ locks' = locks \ {k} /\ Away.at = "away"
    BY <1>2 DEF Recheck, Unlock, Away
  <2>2. QED
    BY <1>1, <2>1, LeavesExclusive DEF StoresNoAnswer
<1>3. CASE ~Answered(k)
  <2>1. /\ Goes(a, "locked", At(a, "generating")) /\ locks' = locks
        /\ At(a, "generating").at = "generating" /\ At(a, "generating").key = k
    BY <1>3, HeldIsTyped DEF Recheck, At, Subs
  <2>2. \A b \in Actors : sub'[b] = IF b = a THEN At(a, "generating") ELSE sub[b]
    BY <2>1 DEF TypeOK, Goes
  <2>3. \A b \in Actors : \A n : Holds(b, n)' <=> Holds(b, n)
    BY <1>1, <2>1, <2>2 DEF Holds
  <2>4. Targeted'
    BY <1>1, <2>1, <2>2 DEF Targeted, Exclusive, SeqsOf
  <2>5. \A i \in DOMAIN msgs : Answers(i, k) => ~(msgs[i].seq > k)
    BY <1>3 DEF Answered, SeqsOf, Answers
  <2>6. ASSUME NEW n \in Numbers \ expired
        PROVE  Excl(n)'
    <3>1. Excl(n)
      BY <2>6 DEF Exclusive
    <3>2. OneHolder(n)' /\ OneNumbered(n)'
      BY <1>1, <2>1, <2>3, <3>1 DEF Excl, OneHolder, OneNumbered, Answers
    <3>3. ComesLater(n)'
      BY <1>1, <2>1, <2>2, <2>3, <3>1 DEF Excl, ComesLater, Answers, Later
    <3>4. \A i, j : Answers(i, j)' <=> Answers(i, j)
      BY <1>1 DEF Answers
    <3>5. CASE n = k
      <4>1. \A i \in DOMAIN msgs : Answers(i, k) => msgs[i].seq = 0
        BY <2>5, <3>1, <3>5 DEF Excl, ComesLater, Later
      <4>2. HolderBare(n)'
        BY <1>1, <3>4, <3>5, <4>1 DEF HolderBare
      <4>3. QED
        BY <3>2, <3>3, <4>2 DEF Excl
    <3>6. CASE n # k
      <4>1. \A b \in Actors : Holds(b, n)' => b # a
        BY <1>1, <2>3, <3>6 DEF Holds
      <4>2. HolderBare(n)'
        BY <1>1, <2>2, <2>3, <3>1, <3>4, <4>1 DEF Excl, HolderBare
      <4>3. QED
        BY <3>2, <3>3, <4>2 DEF Excl
    <3>7. QED
      BY <3>5, <3>6
  <2>7. QED
    BY <1>1, <2>4, <2>6 DEF Exclusive
<1>4. QED
  BY <1>2, <1>3

\* The number of an answer is higher than that of any stored turn, or lost.
LEMMA GenerateExclusive ==
    ASSUME TypeOK, Exclusive, NEW a \in Actors, Generate(a)
    PROVE  Exclusive'
<1> DEFINE k == sub[a].key
<1>1. UNCHANGED <<msgs, locks, expired>> /\ sub[a].at = "generating" /\ Holds(a, k)
  BY DEF Generate, TakeNumber, Goes, Holds
<1>2. PICK n \in 0..MaxMessages :
        Allocated(n) /\ Goes(a, "generating", [At(a, "settling") EXCEPT !.seq = n])
  BY DEF Generate, TakeNumber
<1> DEFINE s == [At(a, "settling") EXCEPT !.seq = n]
<1>3. s.at = "settling" /\ s.key = k /\ s.seq = n
  BY HeldIsTyped DEF At, Subs
<1> HIDE DEF s
<1>4. \A b \in Actors : sub'[b] = IF b = a THEN s ELSE sub[b]
  BY <1>2 DEF TypeOK, Goes, s
<1>5. \A b \in Actors : \A j : Holds(b, j)' => Holds(b, j)
  BY <1>1, <1>3, <1>4 DEF Holds
<1>6. Later(n, k)
  <2>1. CASE n = 0
    BY <2>1 DEF Later
  <2>2. CASE IsNext(n)
    <3>1. PICK top \in Numbers : IsTop(top, AllSeqs) /\ n = top + 1
      BY <2>2 DEF IsNext, AllSeqs
    <3>2. k \in Numbers /\ k \in SeqsOf({"visitor"}) \cup {0}
      BY <1>1, HeldIsTyped DEF Exclusive, Targeted
    <3>3. SeqsOf({"visitor"}) \subseteq AllSeqs
      BY DEF SeqsOf, AllSeqs
    <3>4. k <= top
      BY <3>1, <3>2, <3>3 DEF IsTop, Numbers
    <3>5. QED
      BY <3>1, <3>2, <3>4, BoundsAssumption DEF Later, Numbers
  <2>3. QED
    BY <1>2, <2>1, <2>2 DEF Allocated
<1>7. Targeted'
  BY <1>1, <1>3, <1>4 DEF Targeted, Exclusive, SeqsOf
<1>8. ASSUME NEW j \in Numbers \ expired
      PROVE  Excl(j)'
  <2>1. Excl(j)
    BY <1>8 DEF Exclusive
  <2>2. \A i, m : Answers(i, m)' <=> Answers(i, m)
    BY <1>1 DEF Answers
  <2>3. OneHolder(j)' /\ OneNumbered(j)'
    BY <1>1, <1>5, <2>1, <2>2 DEF Excl, OneHolder, OneNumbered
  <2>4. HolderBare(j)'
    BY <1>1, <1>4, <1>5, <2>1, <2>2 DEF Excl, HolderBare
  <2>5. ComesLater(j)'
    <3>1. ASSUME NEW b \in Actors, Holds(b, j)', sub'[b].at = "settling"
          PROVE  Later(sub'[b].seq, j)
      <4>1. CASE b = a
        BY <1>3, <1>4, <1>6, <3>1, <4>1 DEF Holds
      <4>2. CASE b # a
        BY <1>4, <1>5, <2>1, <3>1, <4>2 DEF Excl, ComesLater
      <4>3. QED
        BY <4>1, <4>2
    <3>2. \A i \in DOMAIN msgs' : Answers(i, j)' => Later(msgs'[i].seq, j)
      BY <1>1, <2>1, <2>2 DEF Excl, ComesLater
    <3>3. QED
      BY <3>1, <3>2 DEF ComesLater, Later
  <2>6. QED
    BY <2>3, <2>4, <2>5 DEF Excl
<1>9. QED
  BY <1>1, <1>7, <1>8 DEF Exclusive

\* The answer is stored by the one holder, with no numbered answer before it.
LEMMA AnswerExclusive ==
    ASSUME TypeOK, Exclusive, NEW a \in Actors, AnswerInsert(a)
    PROVE  Exclusive'
<1> DEFINE k == sub[a].key
           top == Len(msgs) + 1
           m == [seq |-> sub[a].seq, by |-> "http", for |-> k]
<1>1. /\ expired' = expired /\ locks' = locks \ {k} /\ Holds(a, k) /\ sub[a].at = "settling"
      /\ Goes(a, "settling", Away)
  BY DEF AnswerInsert, Unlock, Goes, Holds
<1>2. \A b \in Actors : sub'[b] = IF b = a THEN Away ELSE sub[b]
  BY <1>1 DEF TypeOK, Goes
<1>3. \A b \in Actors : \A j : Holds(b, j)' <=> b # a /\ Holds(b, j)
  BY <1>2 DEF Holds, Away
<1>4. /\ DOMAIN msgs' = DOMAIN msgs \cup {top} /\ top \notin DOMAIN msgs
      /\ \A i \in DOMAIN msgs : msgs'[i] = msgs[i]
      /\ msgs'[top] = m
  BY StoredIs DEF AnswerInsert
<1>5. m.by = "http" /\ m.for = k /\ m.seq = sub[a].seq
  OBVIOUS
<1> HIDE DEF m, top
<1>6. \A i, j : Answers(i, j)' <=> Answers(i, j) \/ (i = top /\ j = k)
  BY <1>4, <1>5 DEF Answers
<1>7. Targeted'
  BY <1>2, <1>4 DEF Targeted, Exclusive, SeqsOf, Away
<1>8. ASSUME NEW j \in Numbers \ expired
      PROVE  Excl(j)'
  <2>1. Excl(j)
    BY <1>8 DEF Exclusive
  <2>2. OneHolder(j)'
    BY <1>1, <1>3, <2>1 DEF Excl, OneHolder
  <2>3. \A b \in Actors : Holds(b, j)' => j # k
    BY <1>1, <1>3, <2>1 DEF Excl, OneHolder
  <2>4. HolderBare(j)'
    BY <1>2, <1>3, <1>4, <1>6, <2>1, <2>3 DEF Excl, HolderBare, Answers
  <2>5. ComesLater(j)'
    <3>1. \A b \in Actors : Holds(b, j)' /\ sub'[b].at = "settling" => Later(sub'[b].seq, j)
      BY <1>2, <1>3, <2>1 DEF Excl, ComesLater
    <3>2. j = k => Later(m.seq, j)
      BY <1>1, <1>5, <2>1 DEF Excl, ComesLater
    <3>3. \A i \in DOMAIN msgs' : Answers(i, j)' => Later(msgs'[i].seq, j)
      BY <1>4, <1>6, <2>1, <3>2 DEF Excl, ComesLater, Answers
    <3>4. QED
      BY <3>1, <3>3 DEF ComesLater, Later
  <2>6. OneNumbered(j)'
    <3>1. j = k => \A i \in DOMAIN msgs : Answers(i, k) => msgs[i].seq = 0
      BY <1>1, <2>1 DEF Excl, HolderBare
    <3>2. QED
      BY <1>4, <1>6, <2>1, <3>1 DEF Excl, OneNumbered, Answers
  <2>7. QED
    BY <2>2, <2>4, <2>5, <2>6 DEF Excl
<1>9. QED
  BY <1>1, <1>7, <1>8 DEF Exclusive

\* A turn is submitted, a message of another kind is numbered or stored, a
\* generation fails: the actor works on no turn any more.
LEMMA OtherTurnsExclusive ==
    ASSUME TypeOK, Exclusive, NEW a \in Actors,
           \/ \E said \in Turns : Submit(a, said)
           \/ Insert(a) \/ Settle(a) \/ SettleInsert(a) \/ GenerationFails(a)
    PROVE  Exclusive'
<1>1. \A step : At(a, step).at = step /\ Away.at = "away"
  BY AtIsStep
<1>2. CASE \E said \in Turns : Submit(a, said)
  <2>1. \A n, said : [At(a, "numbered") EXCEPT !.said = said, !.seq = n].at = "numbered"
    BY <1>1, StepIsTyped DEF Subs, Steps
  <2>2. UNCHANGED <<msgs, locks, expired>>
    BY <1>2 DEF Submit
  <2>3. PICK s : s.at = "numbered" /\ Goes(a, "open", s)
    BY <1>2, <2>1 DEF Submit
  <2>4. QED
    BY <2>2, <2>3, LeavesExclusive DEF StoresNoAnswer
<1>3. CASE Insert(a)
  <2>1. [At(a, "engage") EXCEPT !.seq = 0].at = "engage"
    BY <1>1, StepIsTyped DEF Subs, Steps
  <2>2. Store([seq |-> sub[a].seq, by |-> "visitor", for |-> 0])
    BY <1>3 DEF Insert
  <2>3. StoresNoAnswer
    BY <2>2 DEF StoresNoAnswer
  <2>4. UNCHANGED <<locks, expired>> /\ Goes(a, "numbered", [At(a, "engage") EXCEPT !.seq = 0])
    BY <1>3 DEF Insert
  <2>5. QED
    BY <2>1, <2>3, <2>4, LeavesExclusive
<1>4. CASE Settle(a)
  <2>1. \A n : [At(a, "settling") EXCEPT !.seq = n].at = "settling"
    BY <1>1, StepIsTyped DEF Subs, Steps
  <2>2. UNCHANGED <<msgs, locks, expired>> /\ a \notin Requests
    BY <1>4, ActorsAssumption DEF Settle, TakeNumber
  <2>3. PICK s : s.at = "settling" /\ Goes(a, "answer", s)
    BY <1>4, <2>1 DEF Settle, TakeNumber
  <2>4. QED
    BY <2>2, <2>3, LeavesExclusive DEF StoresNoAnswer
<1>5. CASE SettleInsert(a)
  <2>1. [At(a, "open") EXCEPT !.seq = 0].at = "open"
    BY <1>1, StepIsTyped DEF Subs, Steps
  <2>2. Done(a).at \in {"open", "away"}
    BY <1>1, <2>1 DEF Done
  <2>3. Store([seq |-> sub[a].seq, by |-> "socket", for |-> 0])
    BY <1>5 DEF SettleInsert
  <2>4. StoresNoAnswer
    BY <2>3 DEF StoresNoAnswer
  <2>5. UNCHANGED <<locks, expired>> /\ Goes(a, "settling", Done(a))
    BY <1>5 DEF SettleInsert
  <2>6. QED
    BY <2>2, <2>4, <2>5, LeavesExclusive
<1>6. CASE GenerationFails(a)
  <2>1. /\ UNCHANGED <<msgs, expired>> /\ Goes(a, "generating", Away)
        /\ locks' = locks \ {sub[a].key} /\ Holds(a, sub[a].key)
    BY <1>6 DEF GenerationFails, Unlock, Goes, Holds
  <2>2. QED
    BY <1>1, <2>1, LeavesExclusive DEF StoresNoAnswer
<1>7. QED
  BY <1>2, <1>3, <1>4, <1>5, <1>6

LEMMA QuietExclusive ==
    ASSUME TypeOK, Exclusive, NEW a \in Actors, QuietAction(a)
    PROVE  Exclusive'
<1>1. UNCHANGED <<msgs, locks, expired>>
  BY QuietGoes
<1>2. PICK from, s : s.at \notin Holding \cup Working /\ Goes(a, from, s)
  BY QuietGoes
<1>3. QED
  BY <1>1, <1>2, LeavesExclusive DEF StoresNoAnswer, Holding, Working

\* An expired lock takes its turn out of the claim; the sweep leaves no message.
LEMMA OthersExclusive ==
    ASSUME TypeOK, Exclusive,
           \/ UNCHANGED vars \/ \E k \in Numbers : LockExpires(k)
           \/ \E l \in Leads : WorkerReads(l)
           \/ WorkerReveals \/ Claim \/ SweepReads \/ SweepDeletes
    PROVE  Exclusive'
<1>1. CASE SweepDeletes
  BY <1>1 DEF SweepDeletes, Exclusive, Targeted, Excl, OneHolder, HolderBare, ComesLater,
              OneNumbered, Answers, Holds, Away
<1>2. CASE \E k \in Numbers : LockExpires(k)
  <2>1. PICK k \in Numbers : LockExpires(k)
    BY <1>2
  <2>2. UNCHANGED <<msgs, sub>> /\ locks' = locks \ {k} /\ expired' = expired \cup {k}
    BY <2>1 DEF LockExpires
  <2>3. Targeted'
    BY <2>2 DEF Exclusive, Targeted, SeqsOf
  <2>4. ASSUME NEW n \in Numbers \ expired' PROVE Excl(n)'
    BY <2>2, <2>4
       DEF Exclusive, Excl, OneHolder, HolderBare, ComesLater, OneNumbered, Answers, Holds, Later
  <2>5. QED
    BY <2>3, <2>4 DEF Exclusive
<1>3. CASE UNCHANGED <<msgs, sub, locks, expired>>
  <2>1. Targeted'
    BY <1>3 DEF Exclusive, Targeted, SeqsOf
  <2>2. ASSUME NEW n \in Numbers \ expired' PROVE Excl(n)'
    BY <1>3, <2>2
       DEF Exclusive, Excl, OneHolder, HolderBare, ComesLater, OneNumbered, Answers, Holds, Later
  <2>3. QED
    BY <2>1, <2>2 DEF Exclusive
<1>4. QED
  BY <1>1, <1>2, <1>3 DEF vars, WorkerReads, WorkerReveals, Claim, SweepReads

LEMMA StepExclusive == TypeOK /\ Exclusive /\ [Next]_vars => Exclusive'
<1> SUFFICES ASSUME TypeOK, Exclusive, [Next]_vars PROVE Exclusive'
  OBVIOUS
<1>1. ASSUME NEW a \in Actors, Turn(a) PROVE Exclusive'
  BY <1>1, QuietExclusive, OtherTurnsExclusive DEF Turn, QuietAction
<1>2. ASSUME NEW a \in Actors, Socket(a) PROVE Exclusive'
  BY <1>2, QuietExclusive, OtherTurnsExclusive DEF Socket, QuietAction
<1>3. ASSUME NEW a \in Actors, Request(a) PROVE Exclusive'
  BY <1>3, QuietExclusive, OtherTurnsExclusive, AimExclusive, LockExclusive, RecheckExclusive,
     GenerateExclusive, AnswerExclusive DEF Request, QuietAction
<1>4. QED
  BY <1>1, <1>2, <1>3, OthersExclusive DEF Next

\* With no two numbered answers to a turn, it has one at most.
LEMMA ExclusiveAnswersOnce == Exclusive => AnsweredOnce
<1> SUFFICES ASSUME Exclusive, NEW k \in Numbers \ expired
             PROVE  LET answers == { i \in DOMAIN msgs : msgs[i].by = "http" /\ msgs[i].for = k }
                    IN  (\A i \in answers : msgs[i].seq # 0) => Cardinality(answers) <= 1
  BY DEF AnsweredOnce
<1> DEFINE answers == { i \in DOMAIN msgs : msgs[i].by = "http" /\ msgs[i].for = k }
<1>1. SUFFICES ASSUME \A i \in answers : msgs[i].seq # 0
               PROVE  Cardinality(answers) <= 1
  OBVIOUS
<1>2. \A i, j \in answers : i = j
  BY <1>1 DEF Exclusive, Excl, OneNumbered, Answers
<1> HIDE DEF answers
<1>3. CASE answers = {}
  BY <1>3, FS_EmptySet
<1>4. CASE answers # {}
  <2>1. PICK i : i \in answers
    BY <1>4
  <2>2. answers = {i}
    BY <1>2, <2>1
  <2>3. Cardinality(answers) = 1
    BY <2>2, FS_Singleton
  <2>4. QED
    BY <2>3
<1>5. QED
  BY <1>3, <1>4

\* A turn whose lock has not timed out and whose answers kept their numbers is
\* answered once over HTTP, however retries, originals and failures interleave:
\* the lock and the second look under it are enough.
THEOREM TurnsAreAnsweredOnce == Spec => []AnsweredOnce
<1>1. Init => Exclusive
  BY DEF Init, Exclusive, Targeted, Excl, OneHolder, HolderBare, ComesLater, OneNumbered,
         Answers, Holds, Away
<1>2. Spec => []Exclusive
  BY <1>1, StepExclusive, TypeCorrect, PTL DEF Spec
<1>3. QED
  BY <1>2, ExclusiveAnswersOnce, PTL

--------------------------------------------------------------------------------
(* Two writers are needed to repeat a number.  What next_seq's comment says *)
(* of any two turns holds where there is one actor: the number it holds is  *)
(* above every number stored until it stores it.                            *)

PendingFresh ==
    \A a \in Actors : sub[a].at \in Holding =>
        sub[a].seq = 0 \/ \A n \in AllSeqs : n < sub[a].seq

Numbered == SeqsAreUnique /\ PendingFresh

\* Whatever stores nothing and holds no number it did not hold.
LEMMA QuietNumbers ==
    ASSUME Numbered, UNCHANGED msgs,
           \A b \in Actors : sub'[b].at \in Holding =>
               sub[b].at \in Holding /\ sub'[b].seq = sub[b].seq
    PROVE  Numbered'
<1>1. AllSeqs' = AllSeqs
  BY DEF AllSeqs, SeqsOf
<1>2. QED
  BY <1>1 DEF Numbered, SeqsAreUnique, PendingFresh

\* The number handed out is 0 or the next, above all that are stored.
LEMMA AllocatedIsFresh ==
    ASSUME TypeOK, NEW n, Allocated(n)
    PROVE  n = 0 \/ \A k \in AllSeqs : k < n
<1>1. AllSeqs \subseteq Nat
  <2>1. \A i \in DOMAIN msgs : msgs[i] \in Messages
    BY DEF TypeOK
  <2>2. \A i \in DOMAIN msgs : msgs[i].seq \in Nat
    BY <2>1, BoundsAssumption DEF Messages, Numbers
  <2>3. QED
    BY <2>2, AllSeqsAre
<1>2. ASSUME IsNext(n) PROVE \A k \in AllSeqs : k < n
  <2>1. PICK top \in Numbers : IsTop(top, AllSeqs) /\ n = top + 1
    BY <1>2 DEF IsNext, AllSeqs
  <2>2. top \in Nat /\ \A k \in AllSeqs : k <= top
    BY <2>1, BoundsAssumption DEF IsTop, Numbers
  <2>3. QED
    BY <1>1, <2>1, <2>2
<1>3. QED
  BY <1>2 DEF Allocated

LEMMA AllocationNumbers ==
    ASSUME TypeOK, Numbered, NEW a \in Actors,
           (\E said \in Turns : Submit(a, said)) \/ Settle(a) \/ Generate(a)
    PROVE  Numbered'
<1>1. ASSUME NEW n, NEW said
      PROVE  /\ [At(a, "settling") EXCEPT !.seq = n].seq = n
             /\ [At(a, "numbered") EXCEPT !.said = said, !.seq = n].seq = n
  BY StepIsTyped DEF Subs, Steps
<1>2. PICK n \in 0..MaxMessages : Allocated(n) /\ \E from, s : s.seq = n /\ Goes(a, from, s)
  <2>1. CASE \E said \in Turns : Submit(a, said)
    BY <1>1, <2>1 DEF Submit
  <2>2. CASE Settle(a) \/ Generate(a)
    BY <1>1, <2>2 DEF Settle, Generate, TakeNumber
  <2>3. QED
    BY <2>1, <2>2
<1>3. UNCHANGED msgs
  BY DEF Submit, Settle, Generate, TakeNumber
<1>4. AllSeqs' = AllSeqs
  BY <1>3 DEF AllSeqs, SeqsOf
<1>5. PICK s : s.seq = n /\ \A b \in Actors : sub'[b] = IF b = a THEN s ELSE sub[b]
  BY <1>2 DEF Goes, TypeOK
<1>6. PendingFresh'
  BY <1>2, <1>4, <1>5, AllocatedIsFresh DEF Numbered, PendingFresh
<1>7. QED
  BY <1>3, <1>6 DEF Numbered, SeqsAreUnique

\* The one actor stores the number it holds, which nothing stored has.
LEMMA InsertNumbers ==
    ASSUME TypeOK, TypeOK', Numbered, NEW a \in Actors, \A b \in Actors : b = a,
           Insert(a) \/ SettleInsert(a) \/ AnswerInsert(a)
    PROVE  Numbered'
<1>1. PICK m \in Messages : m.seq = sub[a].seq /\ Store(m)
  <2>1. /\ [seq |-> sub[a].seq, by |-> "visitor", for |-> 0] \in Messages
        /\ [seq |-> sub[a].seq, by |-> "socket", for |-> 0] \in Messages
        /\ [seq |-> sub[a].seq, by |-> "http", for |-> sub[a].key] \in Messages
    BY HeldIsTyped, BoundsAssumption DEF Messages, Numbers
  <2>2. QED
    BY <2>1 DEF Insert, SettleInsert, AnswerInsert
<1>2. sub[a].at \in Holding
  BY DEF Insert, SettleInsert, AnswerInsert, Goes, Holding
<1>3. m.seq = 0 \/ \A n \in AllSeqs : n < m.seq
  BY <1>1, <1>2 DEF Numbered, PendingFresh
<1>4. msgs \in Seq(Messages) /\ msgs' = Append(msgs, m)
  BY <1>1 DEF TypeOK, Store
<1>5. /\ DOMAIN msgs' = DOMAIN msgs \cup {Len(msgs) + 1}
      /\ \A i \in DOMAIN msgs : msgs'[i] = msgs[i]
      /\ msgs'[Len(msgs) + 1] = m
  BY <1>4
<1>6. ASSUME NEW i \in DOMAIN msgs, msgs[i].seq = m.seq PROVE m.seq = 0
  <2>1. msgs[i].seq \in AllSeqs
    BY AllSeqsAre
  <2>2. m.seq \in Nat
    BY BoundsAssumption DEF Messages, Numbers
  <2>3. QED
    BY <1>3, <1>6, <2>1, <2>2
<1>7. SeqsAreUnique'
  <2> SUFFICES ASSUME NEW i \in DOMAIN msgs', NEW j \in DOMAIN msgs', msgs'[i].seq = msgs'[j].seq
               PROVE  i = j \/ msgs'[i].seq = 0
    BY DEF SeqsAreUnique
  <2>1. CASE i \in DOMAIN msgs /\ j \in DOMAIN msgs
    BY <1>5, <2>1 DEF Numbered, SeqsAreUnique
  <2>2. CASE i \notin DOMAIN msgs \/ j \notin DOMAIN msgs
    BY <1>5, <1>6, <2>2
  <2>3. QED
    BY <2>1, <2>2
<1>8. PICK s : /\ s.at \notin Holding
               /\ \A b \in Actors : sub'[b] = IF b = a THEN s ELSE sub[b]
  <2>1. /\ [At(a, "engage") EXCEPT !.seq = 0].at = "engage"
        /\ [At(a, "open") EXCEPT !.seq = 0].at = "open"
        /\ Away.at = "away"
    BY StepIsTyped, AtIsStep DEF Subs, Steps
  <2>2. \E from, s : s.at \notin Holding /\ Goes(a, from, s)
    BY <2>1 DEF Insert, SettleInsert, AnswerInsert, Done, Holding
  <2>3. QED
    BY <2>2 DEF Goes, TypeOK
<1>9. PendingFresh'
  BY <1>8 DEF PendingFresh
<1>10. QED
  BY <1>7, <1>9 DEF Numbered

\* The steps of an actor that neither take nor store a number.
LEMMA OtherTurnsNumber ==
    ASSUME TypeOK, Numbered, NEW a \in Actors,
           QuietAction(a) \/ Aim(a) \/ Lock(a) \/ Recheck(a) \/ GenerationFails(a)
    PROVE  Numbered'
<1>1. \A step : At(a, step).at = step /\ Away.at = "away"
  BY AtIsStep
<1>2. \A k : [At(a, "aimed") EXCEPT !.key = k].at = "aimed"
  BY <1>1, StepIsTyped DEF Subs, Steps
<1>3. UNCHANGED msgs /\ \E from, s : s.at \notin Holding /\ Goes(a, from, s)
  <2>1. CASE QuietAction(a)
    BY <2>1, QuietGoes
  <2>2. CASE Aim(a)
    BY <1>2, <2>2 DEF Aim, Holding
  <2>3. CASE Lock(a)
    BY <1>1, <2>3 DEF Lock, Holding
  <2>4. CASE Recheck(a) \/ GenerationFails(a)
    BY <1>1, <2>4 DEF Recheck, GenerationFails, Holding
  <2>5. QED
    BY <2>1, <2>2, <2>3, <2>4
<1>4. PICK s : s.at \notin Holding /\ \A b \in Actors : sub'[b] = IF b = a THEN s ELSE sub[b]
  BY <1>3 DEF Goes, TypeOK
<1>5. QED
  BY <1>3, <1>4, QuietNumbers

LEMMA OthersNumber ==
    ASSUME Numbered,
           \/ \E k \in Numbers : LockExpires(k)
           \/ \E l \in Leads : WorkerReads(l)
           \/ WorkerReveals \/ Claim \/ SweepReads \/ SweepDeletes
    PROVE  Numbered'
<1>1. CASE SweepDeletes
  BY <1>1 DEF SweepDeletes, Numbered, SeqsAreUnique, PendingFresh, Away, Holding
<1>2. CASE ~SweepDeletes
  <2>1. UNCHANGED <<msgs, sub>>
    BY <1>2 DEF LockExpires, WorkerReads, WorkerReveals, Claim, SweepReads
  <2>2. QED
    BY <2>1, QuietNumbers
<1>3. QED
  BY <1>1, <1>2

LEMMA StepNumbers ==
    ASSUME TypeOK, Numbered, \A a, b \in Actors : a = b, [Next]_vars
    PROVE  Numbered'
<1>1. TypeOK'
  BY StepType
<1>2. ASSUME NEW a \in Actors, Turn(a) \/ Socket(a) \/ Request(a)
      PROVE  Numbered'
  <2>1. \A b \in Actors : b = a
    OBVIOUS
  <2>2. \/ QuietAction(a) \/ Aim(a) \/ Lock(a) \/ Recheck(a) \/ GenerationFails(a)
        \/ (\E said \in Turns : Submit(a, said)) \/ Settle(a) \/ Generate(a)
        \/ Insert(a) \/ SettleInsert(a) \/ AnswerInsert(a)
    BY <1>2 DEF Turn, Socket, Request, QuietAction
  <2>3. QED
    BY <1>1, <2>1, <2>2, OtherTurnsNumber, AllocationNumbers, InsertNumbers
<1>3. CASE UNCHANGED vars
  BY <1>3, QuietNumbers DEF vars
<1>4. QED
  BY <1>2, <1>3, OthersNumber DEF Next

\* One socket, or one request at a time, never stores a number twice, whatever allocations
\* fail, accounts claim and sweeps delete: the repeated numbers take two actors in the gap
\* between next_seq and the INSERT (next_seq).
THEOREM OneActorNumbersUniquely ==
    ASSUME \A a, b \in Actors : a = b
    PROVE  Spec => []SeqsAreUnique
<1>1. Init => Numbered
  BY DEF Init, Numbered, SeqsAreUnique, PendingFresh, Away, Holding
<1>2. TypeOK /\ Numbered /\ [Next]_vars => Numbered'
  BY StepNumbers
<1>3. Numbered => SeqsAreUnique
  BY DEF Numbered
<1>4. QED
  BY <1>1, <1>2, <1>3, TypeCorrect, PTL DEF Spec
================================================================================
