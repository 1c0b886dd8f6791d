------------------------------ MODULE ThreadTurns ------------------------------
(***************************************************************************)
(* One anonymous conversation: how a visitor's turns are numbered, stored, *)
(* walked through the qualification band and answered, while a WebSocket   *)
(* keeps one Thread instance for as long as it is open, HTTP requests      *)
(* fetch their own, the worker reveals the finished review, an account     *)
(* claims the thread and the retention sweep deletes it.                   *)
(*                                                                         *)
(* A turn is a series of writes, each its own transaction, all of them     *)
(* made from the instance the actor holds (`copy'), with the columns that  *)
(* `update_fields' names.  What a message says is abstracted to the set of *)
(* things the deterministic recognisers find in it.                        *)
(***************************************************************************)
EXTENDS JourneyLadder, Sequences, FiniteSets

CONSTANTS
    Sockets,       \* WebSocket connections of the visitor
    Requests,      \* concurrent HTTP requests on the thread
    Leads,         \* leads that may come to exist
    NoLead,
    Turns,         \* the turns the visitor may submit: subsets of Sayings
    MaxMessages,   \* bound: messages of the thread
    MaxFaults      \* bound: failed allocations and expired locks altogether

Actors == Sockets \cup Requests

\* What a body can be recognised as (engagement_state, reveal_bridge).
Sayings == { "evaluate", "accept", "refuse", "settle", "reopen",
             "act", "anonymous", "explore", "email" }

ASSUME ActorsAssumption == Sockets \cap Requests = {}
ASSUME NoLeadAssumption == NoLead \notin Leads
ASSUME TurnsAssumption == Turns \subseteq SUBSET Sayings
ASSUME BoundsAssumption == MaxMessages \in Nat /\ MaxFaults \in Nat

VARIABLES
    owner,     \* owner_kind, or "deleted" when the thread is gone
    row,       \* the columns of the thread the turns read and write
    stage,     \* journey_state of each lead, "NONE" while it does not exist
    opened,    \* the leads the conversation itself created
    told,      \* everything said in the messages stored so far
    msgs,      \* the stored messages, in the order of their INSERTs
    sub,       \* what each socket or request holds and is doing
    locks,     \* generation locks in the cache, by the turn they are for
    expired,   \* ... and the turns whose lock has timed out
    worker,    \* the generation worker bringing a READY review to its thread
    sweep,     \* the retention sweep has this thread in its result set
    faults

vars == <<owner, row, stage, opened, told, msgs, sub, locks, expired, worker, sweep, faults>>

Numbers == 0..MaxMessages

Columns == [ state : States, lead : Leads \cup {NoLead}, customer : BOOLEAN,
             offered : BOOLEAN, settled : BOOLEAN, identity : BOOLEAN ]

NewThread == [ state |-> "ARRIVED", lead |-> NoLead, customer |-> FALSE,
               offered |-> FALSE, settled |-> FALSE, identity |-> FALSE ]

Messages == [ seq : Numbers, by : {"visitor", "socket", "http"}, for : Numbers ]

Steps == { "away", "open", "numbered", "engage", "enter", "loop", "reflect", "review",
           "answer", "aimed", "locked", "generating", "settling" }

Subs == [ at : Steps, copy : Columns, seen : States \cup {"NONE"},
          said : SUBSET Sayings, seq : Numbers, key : Numbers ]

Away == [ at |-> "away", copy |-> NewThread, seen |-> "NONE", said |-> {},
          seq |-> 0, key |-> 0 ]

NoWork == [lead |-> NoLead, state |-> "ARRIVED"]

TypeOK ==
    /\ owner \in {"session", "client", "deleted"}
    /\ row \in Columns
    /\ stage \in [Leads -> States \cup {"NONE"}]
    /\ opened \subseteq Leads
    /\ told \subseteq Sayings
    /\ msgs \in Seq(Messages) /\ Len(msgs) <= MaxMessages
    /\ sub \in [Actors -> Subs]
    /\ locks \subseteq Numbers /\ expired \subseteq Numbers
    /\ worker \in [lead : Leads \cup {NoLead}, state : States]
    /\ sweep \in BOOLEAN
    /\ faults \in 0..MaxFaults

Init ==
    /\ owner = "session"
    /\ row = NewThread
    /\ stage = [l \in Leads |-> "NONE"]
    /\ opened = {}
    /\ told = {}
    /\ msgs = <<>>
    /\ sub = [a \in Actors |-> Away]
    /\ locks = {}
    /\ expired = {}
    /\ worker = NoWork
    /\ sweep = FALSE
    /\ faults = 0

--------------------------------------------------------------------------------
(* The numbering.                                                          *)

SeqsOf(kinds) == { msgs[i].seq : i \in { j \in DOMAIN msgs : msgs[j].by \in kinds } }

\* n is Max("seq") over a set of sequence numbers, 0 when there is none.
IsTop(n, S) == n \in S \cup {0} /\ \A m \in S : m <= n

\* Mutant: a number is reserved for the answer of every turn.
IsNextSkipping(n) == n = 2 * Len(msgs) + 1

\* next_seq: one more than the highest number stored when the row lock was
\* held; the lock is gone before the message is inserted.
IsNext(n) == \E top \in Numbers : IsTop(top, SeqsOf({"visitor", "socket", "http"})) /\ n = top + 1

\* _next_seq: an allocation that raises falls back to 0.
Allocated(n) ==
    \/ IsNext(n) /\ UNCHANGED faults
    \/ n = 0 /\ faults < MaxFaults /\ faults' = faults + 1

Store(m) ==
    /\ Len(msgs) < MaxMessages
    /\ msgs' = Append(msgs, m)

LatestVisitor(k) == IsTop(k, SeqsOf({"visitor"}))
Answered(k) == \E n \in SeqsOf({"socket", "http"}) : n > k

--------------------------------------------------------------------------------
(* Reading and writing the thread through an instance.                     *)

\* thread.save(update_fields = fields) of instance c.
Saved(fields, c) ==
    [ row EXCEPT
        !.state    = IF "state" \in fields THEN c.state ELSE @,
        !.customer = IF "customer" \in fields THEN c.customer ELSE @,
        !.offered  = IF "offered" \in fields THEN c.offered ELSE @,
        !.settled  = IF "settled" \in fields THEN c.settled ELSE @,
        !.identity = IF "identity" \in fields THEN c.identity ELSE @ ]

Leadless(c) == c.lead = NoLead

\* A fresh SELECT of the thread with its lead.
Fetched(a, step) ==
    [Away EXCEPT !.at = step, !.copy = row,
                 !.seen = IF Leadless(row) THEN "NONE" ELSE stage[row.lead]]

\* Actor a leaves step `from' for the state s of its own.
Goes(a, from, s) == owner # "deleted" /\ sub[a].at = from /\ sub' = [sub EXCEPT ![a] = s]

At(a, step) == [sub[a] EXCEPT !.at = step]

\* A socket goes back to its open connection with the instance it has; a request ends.
Done(a) == IF a \in Sockets THEN [At(a, "open") EXCEPT !.seq = 0] ELSE Away

\* ThreadConsumer.connect: get_for_session, once for the socket's lifetime.
Connect(s) ==
    /\ s \in Sockets /\ owner = "session"
    /\ Goes(s, "away", Fetched(s, "open"))
    /\ UNCHANGED <<owner, row, stage, opened, told, msgs, locks, expired, worker, sweep, faults>>

Disconnect(s) ==
    /\ s \in Sockets
    /\ Goes(s, "open", Away)
    /\ UNCHANGED <<owner, row, stage, opened, told, msgs, locks, expired, worker, sweep, faults>>

\* ThreadTurnsView.post: by the session, or by the client who has claimed it.
Fetch(r) ==
    /\ r \in Requests
    /\ Goes(r, "away", Fetched(r, "open"))
    /\ UNCHANGED <<owner, row, stage, opened, told, msgs, locks, expired, worker, sweep, faults>>

\* ThreadRetryView.post: the latest visitor turn has no later agent message.
Retry(r) ==
    /\ r \in Requests
    /\ SeqsOf({"visitor"}) # {}
    /\ \E k \in Numbers : LatestVisitor(k) /\ ~Answered(k)
    /\ Goes(r, "away", Fetched(r, "answer"))
    /\ UNCHANGED <<owner, row, stage, opened, told, msgs, locks, expired, worker, sweep, faults>>

--------------------------------------------------------------------------------
(* A turn: ingest_inbound and its hooks.                                   *)

Submit(a, said) ==
    /\ Len(msgs) < MaxMessages
    /\ \E n \in 0..MaxMessages :
          /\ Allocated(n)
          /\ Goes(a, "open", [At(a, "numbered") EXCEPT !.said = said, !.seq = n])
    /\ UNCHANGED <<owner, row, stage, opened, told, msgs, locks, expired, worker, sweep>>

Insert(a) ==
    /\ Goes(a, "numbered", [At(a, "engage") EXCEPT !.seq = 0])
    /\ Store([seq |-> sub[a].seq, by |-> "visitor", for |-> 0])
    /\ told' = told \cup sub[a].said
    /\ UNCHANGED <<owner, row, stage, opened, locks, expired, worker, sweep, faults>>

\* A confidential or probing turn is answered at once, unexamined.
HookStops(a) ==
    /\ Goes(a, "engage", [At(a, "answer") EXCEPT !.said = {}])
    /\ UNCHANGED <<owner, row, stage, opened, told, msgs, locks, expired, worker, sweep, faults>>

\* Checks 2 and 3: only a pending offer can be accepted.
Accepts(c, said) == c.offered /\ "accept" \in said
Offers(c, said) == ~c.offered /\ "evaluate" \in said

\* update_from_turn on instance c: the offer, the consent, the mirror, the action.
Engaged(c, said) ==
    [ c EXCEPT
        !.customer = @ \/ Accepts(c, said),
        !.offered  = IF @ THEN said \cap {"accept", "refuse"} = {} ELSE Offers(c, said),
        !.settled  = IF Accepts(c, said) \/ "reopen" \in said THEN FALSE
                     ELSE @ \/ "settle" \in said,
        !.identity = "act" \in said \/ (@ /\ "anonymous" \notin said) ]

\* The columns it marks dirty.  A visitor who goes exploring again is written
\* down as a visitor, which is news if the instance said evaluator.
Dirty(c, said) ==
    { f \in {"customer", "offered", "settled", "identity"} :
        CASE f = "customer" -> Accepts(c, said)
          [] f = "offered"  -> Offers(c, said) \/ (c.offered /\ said \cap {"accept", "refuse"} # {})
          [] f = "settled"  -> Accepts(c, said) \/ said \cap {"settle", "reopen"} # {}
          [] f = "identity" -> said \cap {"act", "anonymous"} # {} }

Explores(c, said) == ~c.customer /\ ~Accepts(c, said) /\ "explore" \in said /\ "evaluate" \notin said

Engage(a) ==
    LET c == Engaged(sub[a].copy, sub[a].said)
        dirty == Dirty(sub[a].copy, sub[a].said)
    IN  /\ Goes(a, "engage", [At(a, IF c.customer THEN "enter" ELSE "answer")
                                 EXCEPT !.copy = c, !.said = {}])
        /\ \/ row' = Saved(dirty, c)
           \/ Explores(sub[a].copy, sub[a].said) /\ row' = Saved(dirty \cup {"customer"}, c)
        /\ UNCHANGED <<owner, stage, opened, told, msgs, locks, expired, worker, sweep, faults>>

\* Mutant: a result without a to_state is mirrored as it is, empty.
MirrorEmpty(c, s) ==
    row' = IF c.state = s THEN row ELSE Saved({"state"}, [c EXCEPT !.state = ""])

\* _mirror_onto_thread: saved only when the instance differs.
Mirror(c, s) ==
    row' = IF c.state = s THEN row ELSE Saved({"state"}, [c EXCEPT !.state = s])

\* With a lead the band is journey.advance() on the lead of the instance, and
\* its result is mirrored; a refusal or a lead further on changes nothing.
AdvanceLead(a, from, to, event) ==
    LET c == sub[a].copy  seen == sub[a].seen IN
    \/ \E t \in Targets(seen, event) :
          /\ stage' = [stage EXCEPT ![c.lead] = t]
          /\ Mirror(c, t)
          /\ Goes(a, from, [At(a, to) EXCEPT !.seen = t, !.copy.state = t])
    \/ /\ Targets(seen, event) = {} /\ Satisfied(seen, event)
       /\ Mirror(c, seen)
       /\ Goes(a, from, [At(a, to) EXCEPT !.copy.state = seen])
       /\ UNCHANGED stage
    \/ /\ Refused(seen, event)
       /\ Goes(a, from, At(a, to))
       /\ UNCHANGED <<row, stage>>

\* Without one the instance's own column moves, forward of what it shows.
AdvanceThread(a, from, to, s) ==
    LET c == sub[a].copy IN
    /\ IF Number(c.state) < Number(s)
       THEN Mirror(c, s) /\ Goes(a, from, [At(a, to) EXCEPT !.copy.state = s])
       ELSE Goes(a, from, At(a, to)) /\ UNCHANGED row
    /\ UNCHANGED stage

EnterReview(a) ==
    /\ IF Leadless(sub[a].copy) THEN AdvanceThread(a, "enter", "loop", "IN_REVIEW")
                                ELSE AdvanceLead(a, "enter", "loop", "first_turn")
    /\ UNCHANGED <<owner, opened, told, msgs, locks, expired, worker, sweep, faults>>

InBand(a) ==
    (IF Leadless(sub[a].copy) THEN sub[a].copy.state ELSE sub[a].seen) \in {"ARRIVED", "IN_REVIEW"}

\* close_qualification_loop: the stop rule says whether.
CloseLoop(a) ==
    /\ InBand(a)
    /\ IF Leadless(sub[a].copy) THEN AdvanceThread(a, "loop", "reflect", "DIAGNOSED")
                                ELSE AdvanceLead(a, "loop", "reflect", "loop_closed")
    /\ UNCHANGED <<owner, opened, told, msgs, locks, expired, worker, sweep, faults>>

KeepLoop(a) ==
    /\ Goes(a, "loop", At(a, "review"))
    /\ UNCHANGED <<owner, row, stage, opened, told, msgs, locks, expired, worker, sweep, faults>>

\* The reflection artifact: a mirror below its quality gate goes back to FALLBACK.
Reflect(a) ==
    /\ \/ /\ row' = [row EXCEPT !.settled = FALSE]
          /\ Goes(a, "reflect",
                  IF Leadless(sub[a].copy) THEN [At(a, "review") EXCEPT !.copy.settled = FALSE]
                                           ELSE At(a, "review"))
       \/ Goes(a, "reflect", At(a, "review")) /\ UNCHANGED row
    /\ UNCHANGED <<owner, stage, opened, told, msgs, locks, expired, worker, sweep, faults>>

\* Mutant: the mirror need not be confirmed.
GatesOpenUnconfirmed(c) ==
    /\ Leadless(c) /\ Number(c.state) >= 3
    /\ c.customer /\ c.identity
    /\ "email" \in told

\* maybe_reveal_client_page: every gate but the address is read off the instance.
GatesOpen(c) ==
    /\ Leadless(c) /\ Number(c.state) >= 3
    /\ c.customer /\ c.settled /\ c.identity
    /\ "email" \in told

\* The lead and its attachment are one transaction; then its review is kicked off.
StartReview(a) ==
    /\ GatesOpen(sub[a].copy)
    /\ \E l \in Leads :
          /\ stage[l] = "NONE"
          /\ stage' = [stage EXCEPT ![l] = "DIAGNOSED"]
          /\ opened' = opened \cup {l}
          /\ row' = [row EXCEPT !.lead = l]
          /\ Goes(a, "review", [At(a, "answer") EXCEPT !.copy.lead = l, !.seen = "DIAGNOSED"])
    /\ UNCHANGED <<owner, told, msgs, locks, expired, worker, sweep, faults>>

NoReview(a) ==
    /\ ~GatesOpen(sub[a].copy)
    /\ Goes(a, "review", At(a, "answer"))
    /\ UNCHANGED <<owner, row, stage, opened, told, msgs, locks, expired, worker, sweep, faults>>

--------------------------------------------------------------------------------
(* The answer.                                                             *)

\* The number is taken when generation is over ...
TakeNumber(a, from) ==
    /\ Len(msgs) < MaxMessages
    /\ \E n \in 0..MaxMessages :
          Allocated(n) /\ Goes(a, from, [At(a, "settling") EXCEPT !.seq = n])
    /\ UNCHANGED <<owner, row, stage, opened, told, msgs, locks, expired, worker, sweep>>

\* ... on the socket, with no lock, ...
Settle(s) == s \in Sockets /\ TakeNumber(s, "answer")

SettleInsert(s) ==
    /\ s \in Sockets
    /\ Goes(s, "settling", Done(s))
    /\ Store([seq |-> sub[s].seq, by |-> "socket", for |-> 0])
    /\ UNCHANGED <<owner, row, stage, opened, told, locks, expired, worker, sweep, faults>>

\* The stream guard stops it: nothing is stored.
Halt(s) ==
    /\ s \in Sockets
    /\ Goes(s, "answer", Done(s))
    /\ UNCHANGED <<owner, row, stage, opened, told, msgs, locks, expired, worker, sweep, faults>>

\* ... over HTTP under the lock of the latest visitor turn.
Aim(r) ==
    /\ r \in Requests
    /\ \E k \in Numbers : LatestVisitor(k) /\ Goes(r, "answer", [At(r, "aimed") EXCEPT !.key = k])
    /\ UNCHANGED <<owner, row, stage, opened, told, msgs, locks, expired, worker, sweep, faults>>

\* cache.add: "pending" when somebody has it.
Lock(r) ==
    LET k == sub[r].key IN
    /\ Goes(r, "aimed", IF k \in locks THEN Away ELSE At(r, "locked"))
    /\ locks' = locks \cup {k}
    /\ UNCHANGED <<owner, row, stage, opened, told, msgs, expired, worker, sweep, faults>>

Unlock(r) == locks' = locks \ {sub[r].key}

\* Mutant: no second look after the lock is taken.
RecheckNot(r) ==
    /\ Goes(r, "locked", At(r, "generating"))
    /\ UNCHANGED <<owner, row, stage, opened, told, msgs, locks, expired, worker, sweep, faults>>

Recheck(r) ==
    /\ IF Answered(sub[r].key)
       THEN Goes(r, "locked", Away) /\ Unlock(r)
       ELSE Goes(r, "locked", At(r, "generating")) /\ UNCHANGED locks
    /\ UNCHANGED <<owner, row, stage, opened, told, msgs, expired, worker, sweep, faults>>

GenerationFails(r) ==
    /\ Goes(r, "generating", Away)
    /\ Unlock(r)
    /\ UNCHANGED <<owner, row, stage, opened, told, msgs, expired, worker, sweep, faults>>

Generate(r) == TakeNumber(r, "generating")

\* The answer is stored and `finally' deletes the lock, whoever holds it by now.
AnswerInsert(r) ==
    /\ r \in Requests
    /\ Goes(r, "settling", Away)
    /\ Store([seq |-> sub[r].seq, by |-> "http", for |-> sub[r].key])
    /\ Unlock(r)
    /\ UNCHANGED <<owner, row, stage, opened, told, expired, worker, sweep, faults>>

\* The lock times out under a generation that takes longer than 180 seconds.
LockExpires(k) ==
    /\ k \in locks
    /\ faults < MaxFaults /\ faults' = faults + 1
    /\ locks' = locks \ {k}
    /\ expired' = expired \cup {k}
    /\ UNCHANGED <<owner, row, stage, opened, told, msgs, sub, worker, sweep>>

--------------------------------------------------------------------------------
(* The worker, the account and the sweep.                                  *)

\* finalize_ready_review finds the thread of its lead ...
WorkerReads(l) ==
    /\ worker = NoWork /\ owner # "deleted"
    /\ l \in opened /\ row.lead = l /\ stage[l] = "DIAGNOSED"
    /\ worker' = [lead |-> l, state |-> row.state]
    /\ UNCHANGED <<owner, row, stage, opened, told, msgs, sub, locks, expired, sweep, faults>>

\* ... reveals the page and mirrors the state onto it.
WorkerReveals ==
    /\ worker # NoWork /\ owner # "deleted"
    /\ stage' = [stage EXCEPT ![worker.lead] = "CLIENT_PAGE"]
    /\ row' = [row EXCEPT !.state = "CLIENT_PAGE"]
    /\ worker' = NoWork
    /\ UNCHANGED <<owner, opened, told, msgs, sub, locks, expired, sweep, faults>>

\* claim_threads locks the row.  The lead is the account's: a registration's is
\* at ARRIVED, an invitation's past it.
Claim ==
    /\ owner = "session"
    /\ owner' = "client"
    /\ IF Leadless(row)
       THEN \E l \in Leads, s \in {"ARRIVED", "NDA_REVIEW"} :
               /\ stage[l] = "NONE"
               /\ stage' = [stage EXCEPT ![l] = s]
               /\ row' = [row EXCEPT !.lead = l]
       ELSE UNCHANGED <<stage, row>>
    /\ UNCHANGED <<opened, told, msgs, sub, locks, expired, worker, sweep, faults>>

\* expired_anonymous_threads: the window of an unclaimed thread has closed ...
SweepReads ==
    /\ owner = "session" /\ ~sweep
    /\ sweep' = TRUE
    /\ UNCHANGED <<owner, row, stage, opened, told, msgs, sub, locks, expired, worker, faults>>

\* ... and when the cursor reaches it, it is deleted with all its messages;
\* whatever is under way on it fails.
SweepDeletes ==
    /\ sweep
    /\ sweep' = FALSE
    /\ owner' = "deleted"
    /\ row' = NewThread
    /\ msgs' = <<>>
    /\ sub' = [a \in Actors |-> Away]
    /\ locks' = {}
    /\ expired' = {}
    /\ worker' = NoWork
    /\ UNCHANGED <<stage, opened, told, faults>>

--------------------------------------------------------------------------------
Turn(a) ==
    \/ \E said \in Turns : Submit(a, said)
    \/ Insert(a) \/ HookStops(a) \/ Engage(a) \/ EnterReview(a) \/ CloseLoop(a)
    \/ KeepLoop(a) \/ Reflect(a) \/ StartReview(a) \/ NoReview(a)

Socket(s) == Connect(s) \/ Disconnect(s) \/ Settle(s) \/ SettleInsert(s) \/ Halt(s)

Request(r) ==
    \/ Fetch(r) \/ Retry(r) \/ Aim(r) \/ Lock(r) \/ Recheck(r)
    \/ GenerationFails(r) \/ Generate(r) \/ AnswerInsert(r)

Next ==
    \/ \E a \in Actors : Turn(a) \/ Socket(a) \/ Request(a)
    \/ \E k \in Numbers : LockExpires(k)
    \/ \E l \in Leads : WorkerReads(l)
    \/ WorkerReveals \/ Claim \/ SweepReads \/ SweepDeletes

Spec == Init /\ [][Next]_vars

--------------------------------------------------------------------------------
(* Properties.                                                             *)

\* The numbering has no holes: below every stored number all others are
\* stored too, so a jump a client sees is a message it has missed and can fetch.
\* Races may repeat a number, and a failed allocation stores a 0, but none is skipped.
NoHoles ==
    \A i \in DOMAIN msgs : \A n \in 1..msgs[i].seq :
        \E j \in DOMAIN msgs : msgs[j].seq = n

\* A retry racing the original request never produces a second answer to the
\* same turn, as long as the turn's lock did not time out and no answer lost its number.
AnsweredOnce ==
    \A k \in Numbers \ expired :
        LET answers == { i \in DOMAIN msgs : msgs[i].by = "http" /\ msgs[i].for = k }
        IN  (\A i \in answers : msgs[i].seq # 0) => Cardinality(answers) <= 1

\* The review is asked for: no thread leaves ARRIVED before an assessment was
\* offered and accepted, and the conversation opens no lead before the mirror
\* was settled, an action chosen and an address given, each in a turn of its
\* visitor, however stale the instance was that found the gates open.
ReviewIsAskedFor ==
    /\ row.state # "ARRIVED" => {"evaluate", "accept"} \subseteq told
    /\ opened # {} => {"evaluate", "accept", "settle", "act", "email"} \subseteq told

\* "Two concurrent turns on one thread can never be handed the same number."
SeqsAreUnique ==
    \A i, j \in DOMAIN msgs : msgs[i].seq = msgs[j].seq => i = j \/ msgs[i].seq = 0

\* Claiming a thread clears its retention window: a claimed thread is not swept.
ClaimedIsKept == [][owner = "client" => owner' # "deleted"]_vars

================================================================================
