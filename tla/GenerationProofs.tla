---------------------------- MODULE GenerationProofs ----------------------------
(***************************************************************************)
(* Proofs about Generation: it is well typed, and no access code is issued *)
(* for an empty page, for any number of requests and runs, with and        *)
(* without Celery, whatever breaks; a page is revealed once where messages *)
(* are, and a pending page always has somebody left to resolve it where    *)
(* the broker keeps what it accepts.                                       *)
(***************************************************************************)
EXTENDS Generation, TLAPS

--------------------------------------------------------------------------------
(* The shapes of the state.                                                *)

Pages == [status : Statuses, version : Versions, content : Versions]
Reqs == [at : RequestSteps, seen : Seen]
Runs == [ kind : {"none", "celery", "thread", "team"}, at : JobSteps,
          retries : 0..max_retries, version : Versions, seen : Seen, finalize : BOOLEAN ]

\* 0 and 1 are versions, and the idle request and run are well typed.
LEMMA IdleIsTyped ==
    0 \in Versions /\ 1 \in Versions /\ IdleRequest \in Reqs /\ IdleJob \in Runs
BY BoundsAssumption DEF Versions, IdleRequest, IdleJob, Reqs, Runs, RequestSteps, JobSteps,
                        Seen, max_retries

LEMMA TypeOKIs ==
    TypeOK <=> /\ source \in Sources /\ stage \in Seen /\ page \in Pages
               /\ req \in [Requests -> Reqs] /\ job \in [Jobs -> Runs]
               /\ reveals \in 0..2 /\ granted \in BOOLEAN /\ faults \in 0..MaxFaults
BY DEF TypeOK, Pages, Reqs, Runs

LEMMA TypedNext ==
    ASSUME source' \in Sources, stage' \in Seen, page' \in Pages,
           req' \in [Requests -> Reqs], job' \in [Jobs -> Runs],
           reveals' \in 0..2, granted' \in BOOLEAN, faults' \in 0..MaxFaults
    PROVE  TypeOK'
BY DEF TypeOK, Pages, Reqs, Runs

\* A fault is counted within its bound.
LEMMA FaultIsTyped ==
    ASSUME TypeOK, NEW f, Fault(f)
    PROVE  faults' \in 0..MaxFaults
BY BoundsAssumption DEF TypeOK, Fault

\* A run that goes on, ends or is idle keeps the shape of a run.
LEMMA RunIsTyped ==
    ASSUME TypeOK, NEW j \in Jobs
    PROVE  /\ job[j] \in Runs
           /\ \A step \in JobSteps : Now(j, step) \in Runs
           /\ Ended(j) \in Runs
<1>1. job[j] \in Runs
  BY TypeOKIs
<1>2. \A step \in JobSteps : Now(j, step) \in Runs
  BY <1>1 DEF Now, Runs
<1>3. Ended(j) \in Runs
  BY <1>2, IdleIsTyped DEF Ended, JobSteps
<1>4. QED
  BY <1>1, <1>2, <1>3

\* Where the transition table leads.
LEMMA TargetIsSeen ==
    ASSUME NEW s, NEW e, NEW t \in Targets(s, e)
    PROVE  t \in Seen
BY DEF Targets, Seen

\* The version a run gives the page.
LEMMA NextVersionIsTyped ==
    ASSUME TypeOK
    PROVE  NextVersion \in Versions
<1>1. page.version \in Versions /\ MaxVersion \in Nat \ {0}
  BY BoundsAssumption DEF TypeOK
<1>2. QED
  BY <1>1, IdleIsTyped DEF NextVersion, Versions

--------------------------------------------------------------------------------
(* Every step is well typed.                                               *)

RequestAction(r) ==
    \/ Submit(r) \/ StartReview(r) \/ Retry(r) \/ Open(r) \/ RequestStep(r) \/ RequestDies(r)
    \/ \E j \in Jobs : EnqueueFallsBack(r, j)

\* A request moves on, and at most starts a run.
LEMMA RequestTypes ==
    ASSUME TypeOK, NEW r \in Requests, RequestAction(r)
    PROVE  TypeOK'
<1> USE TypeOKIs, TypedNext
<1>1. \A step \in RequestSteps, s \in Seen : Doing(step, s) \in Reqs
  BY DEF Doing, Reqs
<1>2. {"IN_REVIEW", "DIAGNOSED", "CLIENT_PAGE", "NONE"} \subseteq Seen
  BY DEF Seen, States, LadderStates
<1>3. {"saved", "kicking", "marked", "opening"} \subseteq RequestSteps
  BY DEF RequestSteps
<1>4. CASE Submit(r) \/ StartReview(r) \/ Diagnose(r) \/ Retry(r) \/ Open(r)
  BY <1>1, <1>2, <1>3, <1>4 DEF Submit, StartReview, Diagnose, Retry, Open, Request
<1>5. CASE Kick(r)
  <2>1. page' \in Pages
    BY <1>5, IdleIsTyped DEF Kick, Pages, Statuses
  <2>2. QED
    BY <1>1, <1>2, <1>3, <1>5, <2>1 DEF Kick, Request
<1>6. ASSUME NEW j \in Jobs, Enqueue(r, j) \/ EnqueueFallsBack(r, j)
      PROVE  TypeOK'
  <2>1. PICK kind \in {"celery", "thread"} : Start(r, j, kind)
    BY <1>6 DEF Enqueue, EnqueueFallsBack
  <2>2. [IdleJob EXCEPT !.kind = kind, !.at = "queued",
                        !.finalize = (source = "conversation")] \in Runs
    BY IdleIsTyped DEF Runs, JobSteps
  <2>3. faults' \in 0..MaxFaults
    BY <1>6, FaultIsTyped DEF Enqueue, EnqueueFallsBack
  <2>4. QED
    BY <2>1, <2>2, <2>3, IdleIsTyped DEF Start, Request
<1>7. CASE IssueCode(r)
  BY <1>2, <1>7, IdleIsTyped DEF IssueCode, Request
<1>8. CASE RequestDies(r)
  BY <1>8, IdleIsTyped, FaultIsTyped DEF RequestDies, Request
<1>9. QED
  BY <1>4, <1>5, <1>6, <1>7, <1>8 DEF RequestAction, RequestStep

RunAction(j) ==
    \/ JobStep(j) \/ TeamGenerate(j) \/ GenerateRaises(j) \/ FinalizeRaises(j)
    \/ WorkerDies(j) \/ ChildKilled(j)

\* A killed run keeps nothing.
LEMMA KilledIs ==
    /\ KilledJob \in Runs /\ KilledJob.at = "killed" /\ KilledJob.kind = "none"
    /\ KilledJob.finalize = FALSE
BY IdleIsTyped DEF KilledJob, IdleJob, Runs, JobSteps

\* A run writes the page or the lead, and goes on.
LEMMA RunTypes ==
    ASSUME TypeOK, NEW j \in Jobs, RunAction(j)
    PROVE  TypeOK'
<1> USE TypeOKIs, TypedNext
<1>1. job[j] \in Runs /\ Ended(j) \in Runs /\ \A step \in JobSteps : Now(j, step) \in Runs
  BY RunIsTyped
<1>2. {"loaded", "working", "published", "revealing", "raised", "queued"} \subseteq JobSteps
  BY DEF JobSteps
<1>3. job[j].version \in Versions /\ job[j].retries \in 0..2
  BY <1>1 DEF Runs, max_retries
<1>4. CASE Load(j)
  <2>1. [job[j] EXCEPT !.at = "loaded", !.seen = stage, !.version = NextVersion] \in Runs
    BY <1>1, <1>2, NextVersionIsTyped DEF Runs
  <2>2. QED
    BY <1>4, <2>1 DEF Load, Job
<1>5. CASE MarkPending(j)
  <2>1. page' \in Pages
    BY <1>3, <1>5 DEF MarkPending, Pages, Statuses
  <2>2. QED
    BY <1>1, <1>2, <1>5, <2>1 DEF MarkPending, Job
<1>6. CASE Publish(j)
  <2>1. page' \in Pages
    BY <1>3, <1>6 DEF Publish, Pages, Statuses
  <2>2. QED
    BY <1>1, <1>2, <1>6, <2>1 DEF Publish, Job
<1>7. CASE Finalize(j)
  <2>1. PICK to \in Runs : Job(j, "published", to)
    BY <1>1, <1>2, <1>7 DEF Finalize
  <2>2. UNCHANGED <<stage, page, req, reveals, granted, faults>>
    BY <1>7 DEF Finalize
  <2>3. QED
    BY <2>1, <2>2 DEF Job
<1>8. CASE Reveal(j)
  <2>1. /\ stage' = stage \/ stage' = "CLIENT_PAGE"
        /\ reveals' = reveals \/ reveals' = IF reveals < 2 THEN reveals + 1 ELSE 2
        /\ granted' = granted \/ granted' = TRUE
    BY <1>8 DEF Reveal
  <2>2. UNCHANGED <<source, page, req, faults>>
    BY <1>8 DEF Reveal, Job
  <2>3. PICK to \in Runs : Job(j, "revealing", to)
    BY <1>1, <1>2, <1>8 DEF Reveal
  <2>4. job' \in [Jobs -> Runs]
    BY <2>3 DEF Job
  <2>5. stage' \in Seen /\ reveals' \in 0..2
    BY <2>1 DEF Seen, States, LadderStates
  <2>6. granted' \in BOOLEAN
    BY <2>1
  <2>7. QED
    BY <2>2, <2>4, <2>5, <2>6
<1>9. CASE RetryTask(j)
  <2>1. Now(j, "queued") \in Runs /\ Now(j, "queued").retries = job[j].retries
    BY <1>1, <1>2 DEF Now, Runs
  <2>2. [Now(j, "queued") EXCEPT !.retries = @ + 1] \in Runs
    BY <1>3, <1>9, <2>1 DEF RetryTask, Runs, max_retries
  <2>3. QED
    BY <1>9, <2>2 DEF RetryTask, Job
<1>10. CASE GiveUp(j)
  <2>1. page' \in Pages
    BY <1>10 DEF GiveUp, Pages, Statuses
  <2>2. QED
    BY <1>1, <1>10, <2>1 DEF GiveUp, Job
<1>11. CASE TeamFails(j) \/ Ack(j)
  BY <1>11, IdleIsTyped DEF TeamFails, Ack, Job
<1>12. CASE TeamGenerate(j)
  <2>1. [IdleJob EXCEPT !.kind = "team", !.at = "queued"] \in Runs
    BY IdleIsTyped DEF Runs, JobSteps
  <2>2. QED
    BY <1>12, <2>1 DEF TeamGenerate
<1>13. CASE GenerateRaises(j) \/ FinalizeRaises(j)
  <2>1. faults' \in 0..MaxFaults
    BY <1>13, FaultIsTyped DEF GenerateRaises, FinalizeRaises
  <2>2. PICK from \in JobSteps, to \in Runs : Job(j, from, to)
    BY <1>1, <1>2, <1>13 DEF GenerateRaises, FinalizeRaises
  <2>3. QED
    BY <1>13, <2>1, <2>2 DEF GenerateRaises, FinalizeRaises, Job
<1>14. CASE WorkerDies(j)
  <2>1. [Now(j, "queued") EXCEPT !.version = 0, !.seen = "NONE"] \in Runs
    BY <1>1, <1>2, IdleIsTyped DEF Runs, Seen
  <2>2. QED
    BY <1>14, <2>1, IdleIsTyped, FaultIsTyped DEF WorkerDies
<1>15. CASE ChildKilled(j)
  BY <1>15, KilledIs, FaultIsTyped DEF ChildKilled
<1>16. QED
  BY <1>4, <1>5, <1>6, <1>7, <1>8, <1>9, <1>10, <1>11, <1>12, <1>13, <1>14, <1>15
     DEF RunAction, JobStep

\* A message is delivered twice, the team moves the lead.
LEMMA OtherTypes ==
    ASSUME TypeOK, (\E j, k \in Jobs : Redeliver(j, k)) \/ TeamMoves
    PROVE  TypeOK'
<1> USE TypeOKIs, TypedNext
<1>1. CASE TeamMoves
  BY <1>1, TargetIsSeen DEF TeamMoves
<1>2. ASSUME NEW j \in Jobs, NEW k \in Jobs, Redeliver(j, k)
      PROVE  TypeOK'
  <2>1. Now(j, "queued") \in Runs
    BY RunIsTyped DEF JobSteps
  <2>2. [Now(j, "queued") EXCEPT !.version = 0, !.seen = "NONE"] \in Runs
    BY <2>1, IdleIsTyped DEF Runs, Seen
  <2>3. QED
    BY <1>2, <2>2, FaultIsTyped DEF Redeliver
<1>3. QED
  BY <1>1, <1>2

LEMMA StepTypes == TypeOK /\ [Next]_vars => TypeOK'
<1> SUFFICES ASSUME TypeOK, [Next]_vars PROVE TypeOK'
  OBVIOUS
<1>1. CASE UNCHANGED vars
  BY <1>1 DEF vars, TypeOK
<1>2. CASE Next
  BY <1>2, RequestTypes, RunTypes, OtherTypes DEF Next, RequestAction, RunAction
<1>3. QED
  BY <1>1, <1>2

LEMMA InitTypes == Init => TypeOK
<1> SUFFICES ASSUME Init PROVE TypeOK
  OBVIOUS
<1>1. page \in Pages
  BY IdleIsTyped DEF Init, Pages, Statuses
<1>2. stage \in Seen /\ source \in Sources
  BY DEF Init, Seen
<1>3. req \in [Requests -> Reqs] /\ job \in [Jobs -> Runs]
  BY IdleIsTyped DEF Init
<1>4. reveals \in 0..2 /\ faults \in 0..MaxFaults
  BY BoundsAssumption DEF Init
<1>5. granted \in BOOLEAN
  BY DEF Init
<1>6. QED
  BY <1>1, <1>2, <1>3, <1>4, <1>5, TypeOKIs

\* Every reachable state of a review is well typed.
THEOREM TypeCorrect == Spec => []TypeOK
BY InitTypes, StepTypes, PTL DEF Spec

--------------------------------------------------------------------------------
(* No code without content.  The strengthening: a run that has looked at   *)
(* the page has a version, a READY page has sections and never loses them, *)
(* and what stands before a code (a run on its way to the reveal, a        *)
(* request that found the page READY) was preceded by a publication.       *)

HasContent == page.content > 0

Filled ==
    /\ page.status # "none" => page.version > 0
    /\ page.status = "ready" \/ granted => HasContent
    /\ \A r \in Requests :
          /\ req[r].at = "marked" => page.status # "none"
          /\ req[r].at = "opening" => HasContent
    /\ \A j \in Jobs :
          /\ job[j].kind \in {"celery", "thread"} => page.status # "none"
          /\ job[j].at \in {"loaded", "working"} => job[j].version > 0
          /\ job[j].at \in {"published", "revealing"} => HasContent

\* The page keeps its sections, and leaves "none" for good.
PageGrows == (HasContent => HasContent') /\ (page.status # "none" => page'.status # "none")

\* What a request starts or looks at.
LEMMA RequestFills ==
    ASSUME TypeOK, Filled, NEW r \in Requests, RequestAction(r)
    PROVE  Filled'
<1>1. page \in Pages /\ req \in [Requests -> Reqs] /\ job \in [Jobs -> Runs]
  BY TypeOKIs
<1>2. PICK from, to : from \in RequestSteps /\ Request(r, from, to)
  BY DEF RequestAction, RequestStep, Submit, StartReview, Retry, Open, Diagnose, Kick, Enqueue,
         EnqueueFallsBack, Start, IssueCode, RequestDies, RequestSteps
<1>3. \A q \in Requests : req'[q] = IF q = r THEN to ELSE req[q]
  BY <1>1, <1>2 DEF Request
<1>4. CASE Submit(r) \/ StartReview(r) \/ Retry(r) \/ Diagnose(r) \/ RequestDies(r)
  <2>1. req'[r].at \notin {"marked", "opening"}
    BY <1>1, <1>4 DEF Submit, StartReview, Retry, Diagnose, RequestDies, Request, Doing, IdleRequest
  <2>2. UNCHANGED <<page, job, granted>>
    BY <1>4 DEF Submit, StartReview, Retry, Diagnose, RequestDies
  <2>3. QED
    BY <1>3, <2>1, <2>2 DEF Filled, HasContent
<1>5. CASE Open(r)
  <2>1. UNCHANGED <<page, job, granted>> /\ page.status = "ready" /\ req'[r].at = "opening"
    BY <1>1, <1>5 DEF Open, Request, Doing
  <2>2. QED
    BY <1>3, <2>1 DEF Filled, HasContent
<1>6. CASE Kick(r)
  <2>1. /\ page'.status = "pending" /\ page'.content = page.content
        /\ page'.version = IF page.status = "none" THEN 1 ELSE page.version
    BY <1>1, <1>6 DEF Kick, Pages
  <2>2. UNCHANGED <<job, granted>> /\ req'[r].at = "marked"
    BY <1>1, <1>6 DEF Kick, Request, Doing
  <2>3. QED
    BY <1>3, <2>1, <2>2 DEF Filled, HasContent
<1>7. ASSUME NEW j \in Jobs, Enqueue(r, j) \/ EnqueueFallsBack(r, j)
      PROVE  Filled'
  <2>1. PICK kind : Start(r, j, kind)
    BY <1>7 DEF Enqueue, EnqueueFallsBack
  <2>2. UNCHANGED <<page, granted>> /\ req[r].at = "marked" /\ req'[r].at = "idle"
    BY <1>1, <2>1 DEF Start, Request, IdleRequest
  <2>3. \A k \in Jobs : job'[k] = job[k] \/ job'[k].at = "queued"
    BY <1>1, <2>1, IdleIsTyped DEF Start, Runs
  <2>4. QED
    BY <1>3, <2>2, <2>3 DEF Filled, HasContent
<1>8. CASE IssueCode(r)
  <2>1. UNCHANGED <<page, job>> /\ req[r].at = "opening" /\ req'[r].at = "idle"
    BY <1>1, <1>8 DEF IssueCode, Request, IdleRequest
  <2>2. QED
    BY <1>3, <2>1 DEF Filled, HasContent
<1>9. QED
  BY <1>4, <1>5, <1>6, <1>7, <1>8 DEF RequestAction, RequestStep

\* A run that ends, fails or starts again claims nothing of the page but that it exists.
LEMMA RunRests ==
    ASSUME TypeOK, Filled, NEW j \in Jobs, NEW to, PageGrows,
           job' = [job EXCEPT ![j] = to], UNCHANGED req,
           page'.status # "none" => page'.version > 0,
           page'.status = "ready" \/ granted' => HasContent',
           to.kind \in {"celery", "thread"} => page'.status # "none",
           to.at \in {"loaded", "working"} => to.version > 0,
           to.at \in {"published", "revealing"} => HasContent'
    PROVE  Filled'
<1>1. \A k \in Jobs : job'[k] = IF k = j THEN to ELSE job[k]
  BY DEF TypeOK
<1>2. QED
  BY <1>1 DEF Filled, PageGrows

\* What a run goes on to, field by field.
LEMMA RunGoesOn ==
    ASSUME TypeOK, NEW j \in Jobs
    PROVE  /\ \A step : /\ Now(j, step).at = step
                        /\ Now(j, step).kind = job[j].kind
                        /\ Now(j, step).version = job[j].version
           /\ Ended(j).kind \in {job[j].kind, "none"} /\ Ended(j).at \in {"done", "idle"}
           /\ job[j].version \in Nat
<1>1. job[j] \in Runs
  BY RunIsTyped
<1>2. \A step : /\ Now(j, step).at = step
                /\ Now(j, step).kind = job[j].kind
                /\ Now(j, step).version = job[j].version
  BY <1>1 DEF Now, Runs
<1>3. Ended(j).kind \in {job[j].kind, "none"} /\ Ended(j).at \in {"done", "idle"}
  BY <1>2 DEF Ended, IdleJob
<1>4. QED
  BY <1>1, <1>2, <1>3 DEF Runs, Versions

\* A run looks at the page, publishes it, fails or goes on to the reveal.
LEMMA RunFills ==
    ASSUME TypeOK, Filled, NEW j \in Jobs, RunAction(j)
    PROVE  Filled'
<1>1. page \in Pages /\ job[j] \in Runs
  BY TypeOKIs, RunIsTyped
<1>2. /\ \A step : /\ Now(j, step).at = step
                   /\ Now(j, step).kind = job[j].kind
                   /\ Now(j, step).version = job[j].version
      /\ Ended(j).kind \in {job[j].kind, "none"} /\ Ended(j).at \in {"done", "idle"}
      /\ job[j].version \in Nat
  BY RunGoesOn
<1>3. /\ page.status # "none" => page.version > 0
      /\ page.status = "ready" \/ granted => HasContent
      /\ job[j].kind \in {"celery", "thread"} => page.status # "none"
      /\ job[j].at \in {"loaded", "working"} => job[j].version > 0
      /\ job[j].at \in {"published", "revealing"} => HasContent
  BY DEF Filled
<1>4. CASE Load(j)
  <2>1. NextVersion > 0
    BY <1>1, <1>3, BoundsAssumption DEF NextVersion, Pages, Versions
  <2> DEFINE to == [job[j] EXCEPT !.at = "loaded", !.seen = stage, !.version = NextVersion]
  <2>2. to.kind = job[j].kind /\ to.at = "loaded" /\ to.version = NextVersion
    BY <1>1 DEF Runs
  <2>3. job' = [job EXCEPT ![j] = to] /\ UNCHANGED <<page, req, granted>>
    BY <1>4 DEF Load, Job
  <2> HIDE DEF to
  <2>4. QED
    BY <1>3, <2>1, <2>2, <2>3, RunRests DEF PageGrows, HasContent
<1>5. CASE MarkPending(j)
  <2>1. /\ job' = [job EXCEPT ![j] = Now(j, "working")] /\ UNCHANGED <<req, granted>>
        /\ job[j].at = "loaded"
    BY <1>5 DEF MarkPending, Job
  <2>2. /\ page'.status = "pending" /\ page'.version = job[j].version
        /\ page'.content = page.content
    BY <1>1, <1>5 DEF MarkPending, Pages
  <2>3. /\ Now(j, "working").at = "working" /\ Now(j, "working").version > 0
        /\ PageGrows /\ page'.version > 0
    BY <1>2, <1>3, <2>1, <2>2 DEF PageGrows, HasContent
  <2>4. QED
    BY <1>3, <2>1, <2>2, <2>3, RunRests DEF HasContent
<1>6. CASE Publish(j)
  <2>1. PICK to : /\ job' = [job EXCEPT ![j] = to]
                  /\ to.kind \in {job[j].kind, "none"} /\ to.at \in {"published", "done", "idle"}
    <3>1. job' = [job EXCEPT ![j] = Now(j, "published")] \/ job' = [job EXCEPT ![j] = Ended(j)]
      BY <1>6 DEF Publish, Job
    <3>2. CASE job' = [job EXCEPT ![j] = Now(j, "published")]
      <4>1. Now(j, "published").kind = job[j].kind /\ Now(j, "published").at = "published"
        BY <1>2
      <4>2. QED
        BY <3>2, <4>1
    <3>3. CASE job' = [job EXCEPT ![j] = Ended(j)]
      BY <1>2, <3>3
    <3>4. QED
      BY <3>1, <3>2, <3>3
  <2>2. UNCHANGED <<req, granted>> /\ job[j].version > 0
    BY <1>3, <1>6 DEF Publish, Job
  <2>3. page'.status = "ready" /\ page'.version = job[j].version /\ page'.content = job[j].version
    BY <1>6 DEF Publish
  <2>4. QED
    BY <1>3, <2>1, <2>2, <2>3, RunRests DEF PageGrows, HasContent
<1>7. CASE Finalize(j)
  <2>1. PICK to : /\ job' = [job EXCEPT ![j] = to]
                  /\ to.kind \in {job[j].kind, "none"} /\ to.at \in {"revealing", "done", "idle"}
    <3>1. job' = [job EXCEPT ![j] = Now(j, "revealing")] \/ job' = [job EXCEPT ![j] = Ended(j)]
      BY <1>7 DEF Finalize, Job
    <3>2. CASE job' = [job EXCEPT ![j] = Now(j, "revealing")]
      <4>1. Now(j, "revealing").kind = job[j].kind /\ Now(j, "revealing").at = "revealing"
        BY <1>2
      <4>2. QED
        BY <3>2, <4>1
    <3>3. CASE job' = [job EXCEPT ![j] = Ended(j)]
      BY <1>2, <3>3
    <3>4. QED
      BY <3>1, <3>2, <3>3
  <2>2. UNCHANGED <<page, req, granted>> /\ job[j].at = "published"
    BY <1>7 DEF Finalize, Job
  <2>3. QED
    BY <1>3, <2>1, <2>2, RunRests DEF PageGrows, HasContent
<1>8. CASE Reveal(j)
  <2>1. PICK to : /\ job' = [job EXCEPT ![j] = to]
                  /\ to.kind \in {job[j].kind, "none"} /\ to.at \in {"raised", "done", "idle"}
    <3>1. job' = [job EXCEPT ![j] = Now(j, "raised")] \/ job' = [job EXCEPT ![j] = Ended(j)]
      BY <1>8 DEF Reveal, Job
    <3>2. CASE job' = [job EXCEPT ![j] = Now(j, "raised")]
      <4>1. Now(j, "raised").kind = job[j].kind /\ Now(j, "raised").at = "raised"
        BY <1>2
      <4>2. QED
        BY <3>2, <4>1
    <3>3. CASE job' = [job EXCEPT ![j] = Ended(j)]
      BY <1>2, <3>3
    <3>4. QED
      BY <3>1, <3>2, <3>3
  <2>2. UNCHANGED <<page, req>> /\ job[j].at = "revealing"
    BY <1>8 DEF Reveal, Job
  <2>3. QED
    BY <1>3, <2>1, <2>2, RunRests DEF PageGrows, HasContent
<1>9. CASE RetryTask(j) \/ WorkerDies(j)
  <2>1. PICK to : /\ job' = [job EXCEPT ![j] = to]
                  /\ to.kind \in {job[j].kind, "none"} /\ to.at \in {"queued", "idle"}
    <3>1. CASE RetryTask(j)
      <4>1. Now(j, "queued") \in Runs
        BY RunIsTyped DEF JobSteps
      <4>2. /\ [Now(j, "queued") EXCEPT !.retries = @ + 1].kind = job[j].kind
            /\ [Now(j, "queued") EXCEPT !.retries = @ + 1].at = "queued"
        BY <1>2, <4>1 DEF Runs
      <4>3. QED
        BY <3>1, <4>2 DEF RetryTask, Job
    <3>2. CASE WorkerDies(j)
      <4>1. Now(j, "queued") \in Runs
        BY RunIsTyped DEF JobSteps
      <4>2. /\ [Now(j, "queued") EXCEPT !.version = 0, !.seen = "NONE"].kind = job[j].kind
            /\ [Now(j, "queued") EXCEPT !.version = 0, !.seen = "NONE"].at = "queued"
        BY <1>2, <4>1 DEF Runs
      <4>3. IdleJob.kind = "none" /\ IdleJob.at = "idle"
        BY DEF IdleJob
      <4>4. QED
        BY <3>2, <4>2, <4>3 DEF WorkerDies
    <3>3. QED
      BY <1>9, <3>1, <3>2
  <2>2. UNCHANGED <<page, req, granted>>
    BY <1>9 DEF RetryTask, WorkerDies
  <2>3. QED
    BY <1>3, <2>1, <2>2, RunRests DEF PageGrows, HasContent
<1>10. CASE GiveUp(j)
  <2>1. job' = [job EXCEPT ![j] = Ended(j)] /\ UNCHANGED <<req, granted>> /\ page.status # "none"
    BY <1>3, <1>10 DEF GiveUp, Job
  <2>2. page'.status = "failed" /\ page'.version = page.version /\ page'.content = page.content
    BY <1>1, <1>10 DEF GiveUp, Pages
  <2>3. QED
    BY <1>2, <1>3, <2>1, <2>2, RunRests DEF PageGrows, HasContent
<1>11. CASE TeamFails(j) \/ Ack(j)
  <2>1. job' = [job EXCEPT ![j] = IdleJob] /\ UNCHANGED <<page, req, granted>>
    BY <1>11 DEF TeamFails, Ack, Job
  <2>2. QED
    BY <1>3, <2>1, RunRests DEF PageGrows, HasContent, IdleJob
<1>12. CASE TeamGenerate(j)
  <2> DEFINE to == [IdleJob EXCEPT !.kind = "team", !.at = "queued"]
  <2>1. to.kind = "team" /\ to.at = "queued"
    BY DEF IdleJob
  <2>2. job' = [job EXCEPT ![j] = to] /\ UNCHANGED <<page, req, granted>>
    BY <1>12 DEF TeamGenerate
  <2> HIDE DEF to
  <2>3. QED
    BY <1>3, <2>1, <2>2, RunRests DEF PageGrows, HasContent
<1>13. CASE GenerateRaises(j) \/ FinalizeRaises(j)
  <2>1. PICK to : /\ job' = [job EXCEPT ![j] = to]
                  /\ to.kind \in {job[j].kind, "none"} /\ to.at \in {"raised", "done", "idle"}
    BY <1>2, <1>13 DEF GenerateRaises, FinalizeRaises, Job
  <2>2. UNCHANGED <<page, req, granted>>
    BY <1>13 DEF GenerateRaises, FinalizeRaises
  <2>3. QED
    BY <1>3, <2>1, <2>2, RunRests DEF PageGrows, HasContent
<1>14. CASE ChildKilled(j)
  <2>1. job' = [job EXCEPT ![j] = KilledJob] /\ UNCHANGED <<page, req, granted>>
    BY <1>14 DEF ChildKilled
  <2>2. QED
    BY <1>3, <2>1, KilledIs, RunRests DEF PageGrows, HasContent
<1>15. QED
  BY <1>4, <1>5, <1>6, <1>7, <1>8, <1>9, <1>10, <1>11, <1>12, <1>13, <1>14
     DEF RunAction, JobStep

\* A task delivered twice starts from nothing again.
LEMMA OtherFills ==
    ASSUME TypeOK, Filled, (\E j, k \in Jobs : Redeliver(j, k)) \/ TeamMoves \/ UNCHANGED vars
    PROVE  Filled'
<1>1. CASE TeamMoves \/ UNCHANGED vars
  BY <1>1 DEF TeamMoves, vars, Filled, HasContent
<1>2. ASSUME NEW j \in Jobs, NEW k \in Jobs, Redeliver(j, k)
      PROVE  Filled'
  <2> DEFINE to == [Now(j, "queued") EXCEPT !.version = 0, !.seen = "NONE"]
  <2>1. Now(j, "queued") \in Runs
    BY RunIsTyped DEF JobSteps
  <2>2. to.kind = job[j].kind /\ to.at = "queued"
    BY <2>1, RunGoesOn DEF Runs
  <2>3. job' = [job EXCEPT ![k] = to] /\ UNCHANGED <<page, req, granted>>
    BY <1>2 DEF Redeliver
  <2> HIDE DEF to
  <2>4. QED
    BY <2>2, <2>3, RunRests DEF Filled, PageGrows, HasContent
<1>3. QED
  BY <1>1, <1>2

LEMMA StepFills == TypeOK /\ Filled /\ [Next]_vars => Filled'
BY RequestFills, RunFills, OtherFills DEF Next, RequestAction, RunAction

\* No code is ever issued for a page without published sections, however runs
\* and requests interleave and whichever of them die, fail or are repeated.
THEOREM CodesAlwaysHaveContent == Spec => []CodesHaveContent
<1>1. Init => Filled
  BY DEF Init, Filled, IdleRequest, IdleJob
<1>2. Spec => []Filled
  BY <1>1, StepFills, TypeCorrect, PTL DEF Spec
<1>3. Filled => CodesHaveContent
  BY DEF Filled, HasContent, CodesHaveContent
<1>4. QED
  BY <1>2, <1>3, PTL

--------------------------------------------------------------------------------
(* One reveal.  Only a conversation asks for one, through the one request  *)
(* that opens its lead and then the one run this request starts; the run   *)
(* may die and load again at any point, but it never looks at a DIAGNOSED  *)
(* lead once it has revealed the page.  A broker that delivers the task    *)
(* twice makes two such runs of it, which the assumption of the theorem    *)
(* excludes (gen_fair has no duplicates either).                           *)

\* Where a run acts on the state of the lead it has loaded.
Aware == {"loaded", "working", "published", "revealing"}

Busy(r) == req[r].at # "idle"

NoReveal == reveals = 0 /\ \A j \in Jobs : ~job[j].finalize

OneReveal ==
    /\ \A r \in Requests : req[r].at \in {"idle", "kicking", "marked"}
    /\ stage = "NONE" => NoReveal /\ \A r \in Requests : ~Busy(r)
    /\ \A q, r \in Requests : Busy(q) /\ Busy(r) => q = r
    /\ \A i, j \in Jobs : job[i].finalize /\ job[j].finalize => i = j
    /\ \A r \in Requests : Busy(r) => NoReveal
    /\ reveals \in {0, 1}
    /\ reveals = 1 => /\ stage # "DIAGNOSED"
                      /\ \A j \in Jobs : job[j].finalize /\ job[j].at \in Aware =>
                                             job[j].seen # "DIAGNOSED"

RevealLine ==
    /\ \A j \in Jobs : job[j].at \in {"published", "revealing"} => job[j].finalize
    /\ source # "conversation" => NoReveal
    /\ source = "conversation" => OneReveal

\* The reveal takes a DIAGNOSED lead and no other.
LEMMA RevealTargets ==
    ASSUME NEW s
    PROVE  Targets(s, "reveal_client_page") # {} => s = "DIAGNOSED"
BY DEF Targets, Edges, Dozing

\* A request of the questionnaire, whose runs do not reveal.
LEMMA OtherRequestReveals ==
    ASSUME TypeOK, RevealLine, source # "conversation", NEW r \in Requests, RequestAction(r)
    PROVE  RevealLine'
<1>1. UNCHANGED <<source, reveals>>
  BY DEF RequestAction, RequestStep, Submit, StartReview, Retry, Open, Diagnose, Kick, Enqueue,
         EnqueueFallsBack, Start, IssueCode, RequestDies, Request
<1>2. ASSUME NEW j \in Jobs, Enqueue(r, j) \/ EnqueueFallsBack(r, j)
      PROVE  RevealLine'
  <2>1. PICK kind : Start(r, j, kind)
    BY <1>2 DEF Enqueue, EnqueueFallsBack
  <2> DEFINE to == [IdleJob EXCEPT !.kind = kind, !.at = "queued",
                                   !.finalize = (source = "conversation")]
  <2>2. job' = [job EXCEPT ![j] = to] /\ ~to.finalize /\ to.at = "queued"
    BY <2>1 DEF Start, IdleJob
  <2> HIDE DEF to
  <2>3. \A k \in Jobs : job'[k] = IF k = j THEN to ELSE job[k]
    BY <2>2, TypeOKIs
  <2>4. QED
    BY <1>1, <2>2, <2>3 DEF RevealLine, NoReveal
<1>3. CASE UNCHANGED job
  BY <1>1, <1>3 DEF RevealLine, NoReveal
<1>4. QED
  BY <1>2, <1>3 DEF RequestAction, RequestStep, Submit, StartReview, Retry, Open, Diagnose, Kick,
                    IssueCode, RequestDies

\* A request of the conversation: one of them opens the lead, and hands over to one run.
LEMMA RequestReveals ==
    ASSUME TypeOK, RevealLine, source = "conversation", NEW r \in Requests, RequestAction(r)
    PROVE  RevealLine'
<1> USE DEF RevealLine
<1>0. req \in [Requests -> Reqs] /\ job \in [Jobs -> Runs] /\ OneReveal
  BY TypeOKIs
<1>1. ~(Submit(r) \/ Retry(r) \/ Open(r) \/ Diagnose(r) \/ IssueCode(r))
  BY <1>0 DEF OneReveal, Submit, Retry, Open, Diagnose, IssueCode, Request
<1>2. CASE StartReview(r)
  <2>1. /\ \A q \in Requests : req'[q] = IF q = r THEN Doing("kicking", "DIAGNOSED") ELSE req[q]
        /\ UNCHANGED <<source, job, reveals>> /\ stage = "NONE" /\ stage' = "DIAGNOSED"
    BY <1>0, <1>2 DEF StartReview, Request
  <2>2. Doing("kicking", "DIAGNOSED").at = "kicking"
    BY DEF Doing
  <2>3. QED
    BY <1>0, <2>1, <2>2 DEF OneReveal, NoReveal, Busy
<1>3. CASE Kick(r)
  <2>1. /\ \A q \in Requests : req'[q] = IF q = r THEN Doing("marked", "NONE") ELSE req[q]
        /\ UNCHANGED <<source, job, reveals, stage>> /\ req[r].at = "kicking"
    BY <1>0, <1>3 DEF Kick, Request
  <2>2. Doing("marked", "NONE").at = "marked"
    BY DEF Doing
  <2>3. QED
    BY <1>0, <2>1, <2>2 DEF OneReveal, NoReveal, Busy
<1>4. CASE RequestDies(r)
  <2>1. /\ \A q \in Requests : req'[q] = IF q = r THEN IdleRequest ELSE req[q]
        /\ UNCHANGED <<source, job, reveals, stage>>
    BY <1>0, <1>4 DEF RequestDies, Request
  <2>2. IdleRequest.at = "idle"
    BY DEF IdleRequest
  <2>3. QED
    BY <1>0, <2>1, <2>2 DEF OneReveal, NoReveal, Busy
<1>5. ASSUME NEW j \in Jobs, Enqueue(r, j) \/ EnqueueFallsBack(r, j)
      PROVE  RevealLine'
  <2>1. PICK kind : Start(r, j, kind)
    BY <1>5 DEF Enqueue, EnqueueFallsBack
  <2> DEFINE to == [IdleJob EXCEPT !.kind = kind, !.at = "queued",
                                   !.finalize = (source = "conversation")]
  <2>2. job' = [job EXCEPT ![j] = to] /\ to.at = "queued"
    BY <2>1 DEF Start, IdleJob
  <2> HIDE DEF to
  <2>3. \A k \in Jobs : job'[k] = IF k = j THEN to ELSE job[k]
    BY <1>0, <2>2
  <2>4. /\ \A q \in Requests : req'[q] = IF q = r THEN IdleRequest ELSE req[q]
        /\ UNCHANGED <<source, reveals, stage>> /\ req[r].at = "marked"
    BY <1>0, <2>1 DEF Start, Request
  <2>5. NoReveal /\ \A q \in Requests : Busy(q) => q = r
    BY <1>0, <2>4 DEF OneReveal, Busy
  <2>6. \A q \in Requests : req'[q].at = "idle"
    BY <2>4, <2>5 DEF IdleRequest, Busy
  <2>7. \A i, k \in Jobs : job'[i].finalize /\ job'[k].finalize => i = k
    BY <2>3, <2>5 DEF NoReveal
  <2>8. stage # "NONE" /\ reveals = 0
    BY <1>0, <2>4, <2>5 DEF OneReveal, NoReveal, Busy
  <2>9. \A k \in Jobs : job'[k].at \in {"published", "revealing"} => job'[k].finalize
    BY <2>2, <2>3
  <2>10. QED
    BY <2>4, <2>6, <2>7, <2>8, <2>9 DEF OneReveal, Busy
<1>6. QED
  BY <1>1, <1>2, <1>3, <1>4, <1>5 DEF RequestAction, RequestStep

\* A run that goes on as what it was, and has not looked at a DIAGNOSED lead since.
LEMMA RunKeepsLine ==
    ASSUME TypeOK, RevealLine, NEW j \in Jobs, NEW to,
           job' = [job EXCEPT ![j] = to], UNCHANGED <<source, stage, req, reveals>>,
           to.finalize => job[j].finalize,
           to.at \in {"published", "revealing"} => to.finalize,
           reveals = 1 /\ to.finalize /\ to.at \in Aware => to.seen # "DIAGNOSED"
    PROVE  RevealLine'
<1>1. \A k \in Jobs : job'[k] = IF k = j THEN to ELSE job[k]
  BY TypeOKIs
<1>2. \A k \in Jobs : job'[k].at \in {"published", "revealing"} => job'[k].finalize
  BY <1>1 DEF RevealLine
<1>3. \A k \in Jobs : job'[k].finalize => job[k].finalize
  BY <1>1
<1>4. NoReveal => NoReveal'
  BY <1>3 DEF NoReveal
<1>5. ASSUME OneReveal PROVE OneReveal'
  <2>1. ASSUME NEW k \in Jobs, reveals = 1, job'[k].finalize, job'[k].at \in Aware
        PROVE  job'[k].seen # "DIAGNOSED"
    BY <1>1, <1>5, <2>1 DEF OneReveal
  <2>2. QED
    BY <1>3, <1>4, <1>5, <2>1 DEF OneReveal, Busy
<1>6. QED
  BY <1>2, <1>4, <1>5 DEF RevealLine

\* A run is what it was started as, and remembers the lead it loaded until it ends.
LEMMA RunCarries ==
    ASSUME TypeOK, NEW j \in Jobs
    PROVE  /\ \A step : /\ Now(j, step).at = step
                        /\ Now(j, step).seen = job[j].seen
                        /\ Now(j, step).finalize = job[j].finalize
           /\ Ended(j).finalize => job[j].finalize
           /\ Ended(j).at \in {"done", "idle"}
<1>1. job[j] \in Runs
  BY RunIsTyped
<1>2. \A step : /\ Now(j, step).at = step
                /\ Now(j, step).seen = job[j].seen
                /\ Now(j, step).finalize = job[j].finalize
  BY <1>1 DEF Now, Runs
<1>3. Ended(j).finalize => job[j].finalize
  BY <1>2 DEF Ended, IdleJob
<1>4. Ended(j).at \in {"done", "idle"}
  BY <1>2 DEF Ended, IdleJob
<1>5. QED
  BY <1>2, <1>3, <1>4

\* The reveal itself: the one run of the conversation, from a lead it saw DIAGNOSED.
LEMMA RevealReveals ==
    ASSUME TypeOK, RevealLine, NEW j \in Jobs, Reveal(j)
    PROVE  RevealLine'
<1>1. /\ job[j].at = "revealing" /\ UNCHANGED <<source, req>>
      /\ job' = [job EXCEPT ![j] = Ended(j)] \/ job' = [job EXCEPT ![j] = Now(j, "raised")]
  BY DEF Reveal, Job
<1>2. PICK to : /\ job' = [job EXCEPT ![j] = to]
                /\ to.finalize => job[j].finalize
                /\ to.at \in {"done", "idle", "raised"}
  <2>1. CASE job' = [job EXCEPT ![j] = Ended(j)]
    BY <2>1, RunCarries
  <2>2. CASE job' = [job EXCEPT ![j] = Now(j, "raised")]
    <3>1. Now(j, "raised").at = "raised" /\ Now(j, "raised").finalize = job[j].finalize
      BY RunCarries
    <3>2. QED
      BY <2>2, <3>1
  <2>3. QED
    BY <1>1, <2>1, <2>2
<1>3. job[j].finalize /\ source = "conversation" /\ OneReveal
  BY <1>1 DEF RevealLine, NoReveal
<1>4. CASE UNCHANGED <<stage, reveals>>
  BY <1>1, <1>2, <1>4, RunKeepsLine DEF Aware
<1>5. CASE ~UNCHANGED <<stage, reveals>>
  <2>1. /\ Targets(job[j].seen, "reveal_client_page") # {}
        /\ stage' = "CLIENT_PAGE"
        /\ reveals' = IF reveals < 2 THEN reveals + 1 ELSE 2
    BY <1>5 DEF Reveal
  <2>2. job[j].seen = "DIAGNOSED"
    BY <2>1, RevealTargets
  <2>3. reveals = 0
    BY <1>1, <1>3, <2>2 DEF OneReveal, Aware
  <2>4. reveals' = 1
    BY <2>1, <2>3
  <2>5. \A r \in Requests : ~Busy(r)
    BY <1>3 DEF OneReveal, NoReveal
  <2>6. \A k \in Jobs : job'[k] = IF k = j THEN to ELSE job[k]
    BY <1>2, TypeOKIs
  <2>7. \A k \in Jobs : job'[k].finalize => k = j
    BY <1>3, <2>6 DEF OneReveal
  <2>8. \A k \in Jobs : job'[k].finalize => job'[k].at \notin Aware
    BY <1>2, <2>6, <2>7 DEF Aware
  <2>9. OneReveal'
    <3>1. \A r \in Requests : req'[r].at \in {"idle", "kicking", "marked"} /\ ~Busy(r)'
      BY <1>1, <1>3, <2>5 DEF OneReveal, Busy
    <3>2. QED
      BY <2>1, <2>4, <2>7, <2>8, <3>1 DEF OneReveal
  <2>10. \A k \in Jobs : job'[k].at \in {"published", "revealing"} => job'[k].finalize
    BY <1>2, <2>6 DEF RevealLine
  <2>11. QED
    BY <1>1, <1>3, <2>9, <2>10 DEF RevealLine
<1>6. QED
  BY <1>4, <1>5

\* Every other step of a run keeps to the line.
LEMMA RunReveals ==
    ASSUME TypeOK, RevealLine, NEW j \in Jobs, RunAction(j)
    PROVE  RevealLine'
<1>1. /\ \A step : /\ Now(j, step).at = step
                   /\ Now(j, step).seen = job[j].seen
                   /\ Now(j, step).finalize = job[j].finalize
      /\ Ended(j).finalize => job[j].finalize
      /\ Ended(j).at \in {"done", "idle"}
  BY RunCarries
<1>2. job[j] \in Runs /\ IdleJob.finalize = FALSE /\ IdleJob.at = "idle"
  BY RunIsTyped DEF IdleJob
<1>3. reveals = 1 /\ job[j].finalize =>
         stage # "DIAGNOSED" /\ (job[j].at \in Aware => job[j].seen # "DIAGNOSED")
  BY DEF RevealLine, OneReveal, NoReveal
<1>4. CASE Reveal(j)
  BY <1>4, RevealReveals
<1>5. CASE Load(j)
  <2> DEFINE to == [job[j] EXCEPT !.at = "loaded", !.seen = stage, !.version = NextVersion]
  <2>1. to.at = "loaded" /\ to.seen = stage /\ to.finalize = job[j].finalize
    BY <1>2 DEF Runs
  <2>2. job' = [job EXCEPT ![j] = to] /\ UNCHANGED <<source, stage, req, reveals>>
    BY <1>5 DEF Load, Job
  <2> HIDE DEF to
  <2>3. QED
    BY <1>3, <2>1, <2>2, RunKeepsLine
<1>6. CASE MarkPending(j)
  <2>1. job' = [job EXCEPT ![j] = Now(j, "working")] /\ job[j].at = "loaded"
    BY <1>6 DEF MarkPending, Job
  <2>2. UNCHANGED <<source, stage, req, reveals>>
    BY <1>6 DEF MarkPending, Job
  <2>3. QED
    BY <1>1, <1>3, <2>1, <2>2, RunKeepsLine DEF Aware
<1>7. CASE Publish(j)
  <2>1. /\ job[j].at = "working"
        /\ \/ job[j].finalize /\ job' = [job EXCEPT ![j] = Now(j, "published")]
           \/ job' = [job EXCEPT ![j] = Ended(j)]
    BY <1>7 DEF Publish, Job
  <2>2. UNCHANGED <<source, stage, req, reveals>>
    BY <1>7 DEF Publish, Job
  <2>3. CASE job' = [job EXCEPT ![j] = Ended(j)]
    BY <1>1, <2>2, <2>3, RunKeepsLine DEF Aware
  <2>4. CASE job[j].finalize /\ job' = [job EXCEPT ![j] = Now(j, "published")]
    BY <1>1, <1>3, <2>1, <2>2, <2>4, RunKeepsLine DEF Aware
  <2>5. QED
    BY <2>1, <2>3, <2>4
<1>8. CASE Finalize(j)
  <2>1. /\ job[j].at = "published"
        /\ \/ job' = [job EXCEPT ![j] = Now(j, "revealing")]
           \/ job' = [job EXCEPT ![j] = Ended(j)]
    BY <1>8 DEF Finalize, Job
  <2>2. UNCHANGED <<source, stage, req, reveals>> /\ job[j].finalize
    BY <1>8, <2>1 DEF Finalize, Job, RevealLine
  <2>3. CASE job' = [job EXCEPT ![j] = Ended(j)]
    BY <1>1, <2>2, <2>3, RunKeepsLine DEF Aware
  <2>4. CASE job' = [job EXCEPT ![j] = Now(j, "revealing")]
    BY <1>1, <1>3, <2>1, <2>2, <2>4, RunKeepsLine DEF Aware
  <2>5. QED
    BY <2>1, <2>3, <2>4
<1>9. CASE RetryTask(j)
  <2> DEFINE to == [Now(j, "queued") EXCEPT !.retries = @ + 1]
  <2>1. Now(j, "queued") \in Runs
    BY RunIsTyped DEF JobSteps
  <2>2. to.at = "queued" /\ to.finalize = job[j].finalize
    BY <1>1, <2>1 DEF Runs
  <2>3. job' = [job EXCEPT ![j] = to] /\ UNCHANGED <<source, stage, req, reveals>>
    BY <1>9 DEF RetryTask, Job
  <2> HIDE DEF to
  <2>4. QED
    BY <2>2, <2>3, RunKeepsLine DEF Aware
<1>10. CASE WorkerDies(j)
  <2> DEFINE to == [Now(j, "queued") EXCEPT !.version = 0, !.seen = "NONE"]
  <2>1. Now(j, "queued") \in Runs
    BY RunIsTyped DEF JobSteps
  <2>2. to.at = "queued" /\ to.finalize = job[j].finalize
    BY <1>1, <2>1 DEF Runs
  <2>3. /\ job' = [job EXCEPT ![j] = to] \/ job' = [job EXCEPT ![j] = IdleJob]
        /\ UNCHANGED <<source, stage, req, reveals>>
    BY <1>10 DEF WorkerDies
  <2> HIDE DEF to
  <2>4. QED
    BY <1>2, <2>2, <2>3, RunKeepsLine DEF Aware
<1>11. CASE GiveUp(j) \/ TeamFails(j) \/ Ack(j)
  <2>1. /\ job' = [job EXCEPT ![j] = Ended(j)] \/ job' = [job EXCEPT ![j] = IdleJob]
        /\ UNCHANGED <<source, stage, req, reveals>>
    BY <1>11 DEF GiveUp, TeamFails, Ack, Job
  <2>2. QED
    BY <1>1, <1>2, <2>1, RunKeepsLine DEF Aware
<1>12. CASE TeamGenerate(j)
  <2> DEFINE to == [IdleJob EXCEPT !.kind = "team", !.at = "queued"]
  <2>1. ~to.finalize /\ to.at = "queued"
    BY DEF IdleJob
  <2>2. job' = [job EXCEPT ![j] = to] /\ UNCHANGED <<source, stage, req, reveals>>
    BY <1>12 DEF TeamGenerate
  <2> HIDE DEF to
  <2>3. QED
    BY <2>1, <2>2, RunKeepsLine
<1>13. CASE GenerateRaises(j) \/ FinalizeRaises(j)
  <2>1. /\ job' = [job EXCEPT ![j] = Ended(j)] \/ job' = [job EXCEPT ![j] = Now(j, "raised")]
        /\ UNCHANGED <<source, stage, req, reveals>>
    BY <1>13 DEF GenerateRaises, FinalizeRaises, Job
  <2>2. QED
    BY <1>1, <2>1, RunKeepsLine DEF Aware
<1>14. CASE ChildKilled(j)
  <2>1. job' = [job EXCEPT ![j] = KilledJob] /\ UNCHANGED <<source, stage, req, reveals>>
    BY <1>14 DEF ChildKilled
  <2>2. QED
    BY <2>1, KilledIs, RunKeepsLine DEF Aware
<1>15. QED
  BY <1>4, <1>5, <1>6, <1>7, <1>8, <1>9, <1>10, <1>11, <1>12, <1>13, <1>14
     DEF RunAction, JobStep

\* The team moves a lead, but to DIAGNOSED never.
LEMMA TeamReveals ==
    ASSUME RevealLine, TeamMoves
    PROVE  RevealLine'
<1>1. UNCHANGED <<source, req, job, reveals>> /\ stage' # "DIAGNOSED"
  BY DEF TeamMoves, Targets, Edges, Dozing
<1>2. stage # "NONE" /\ stage' # "NONE"
  BY DEF TeamMoves, Targets, Edges, Dozing, States, LadderStates
<1>3. NoReveal => NoReveal'
  BY <1>1 DEF NoReveal
<1>4. OneReveal => OneReveal'
  BY <1>1, <1>2, <1>3 DEF OneReveal, Busy
<1>5. QED
  BY <1>1, <1>3, <1>4 DEF RevealLine

LEMMA StepReveals ==
    ASSUME TypeOK, RevealLine, [Next]_vars, "duplicate" \notin Faults
    PROVE  RevealLine'
<1>1. \A j, k \in Jobs : ~Redeliver(j, k)
  BY DEF Redeliver, Fault
<1>2. UNCHANGED vars => RevealLine'
  BY DEF vars, RevealLine, NoReveal, OneReveal, Busy
<1>3. QED
  BY <1>1, <1>2, RequestReveals, OtherRequestReveals, RunReveals, TeamReveals
     DEF Next, RequestAction, RunAction

\* finalize_ready_review writes one transition: wherever the run, its request or its worker
\* is lost, and however often a failed task is retried, as long as no message is delivered twice.
THEOREM RevealsAreOnce ==
    ASSUME "duplicate" \notin Faults
    PROVE  Spec => []RevealedOnce
<1>1. Init => RevealLine
  BY DEF Init, RevealLine, NoReveal, OneReveal, Busy, IdleRequest, IdleJob
<1>2. TypeOK /\ RevealLine /\ [Next]_vars => RevealLine'
  BY StepReveals
<1>3. RevealLine => RevealedOnce
  BY DEF RevealLine, OneReveal, NoReveal, RevealedOnce
<1>4. QED
  BY <1>1, <1>2, <1>3, TypeCorrect, PTL DEF Spec

--------------------------------------------------------------------------------
(* What PendingResolves rests on.  That a pending page resolves is left to *)
(* TLC; that there always is somebody to resolve it is a safety property.  *)
(* The hypotheses are the configuration gen_fair is about: every run is a  *)
(* task, and no web process dies between marking the page and queueing it. *)

\* A run that will publish the page, fail it, or be queued again.
Carries(run) == run.at \in {"queued", "loaded", "working", "raised"}

OnlyTasks == \A j \in Jobs : Free(j) \/ job[j].kind = "celery"

PendingIsCarried ==
    page.status = "pending" =>
        \/ \E r \in Requests : req[r].at = "marked"
        \/ \E j \in Jobs : Carries(job[j])
        \/ Killed

\* A run that goes on leaves a pending page with somebody, itself or who had it before.
LEMMA RunHandsOver ==
    ASSUME TypeOK, OnlyTasks, PendingIsCarried, NEW j \in Jobs, NEW to,
           job' = [job EXCEPT ![j] = to], UNCHANGED req,
           to \in {IdleJob, KilledJob} \/ to.kind = "celery",
           page'.status = "pending" =>
               \/ Carries(to) \/ to.at = "killed"
               \/ page.status = "pending" /\ ~Carries(job[j]) /\ job[j].at # "killed"
    PROVE  OnlyTasks' /\ PendingIsCarried'
<1>1. \A k \in Jobs : job'[k] = IF k = j THEN to ELSE job[k]
  BY TypeOKIs
<1>2. OnlyTasks'
  BY <1>1 DEF OnlyTasks, Free, IdleJob, KilledJob
<1>3. PendingIsCarried'
  <2> SUFFICES ASSUME page'.status = "pending", \A r \in Requests : req'[r].at # "marked"
               PROVE  \E k \in Jobs : Carries(job'[k]) \/ job'[k].at = "killed"
    BY DEF PendingIsCarried, Carries, Killed
  <2>1. CASE Carries(to) \/ to.at = "killed"
    BY <1>1, <2>1
  <2>2. CASE page.status = "pending" /\ ~Carries(job[j]) /\ job[j].at # "killed"
    <3>1. PICK k \in Jobs : Carries(job[k]) \/ job[k].at = "killed"
      BY <2>2 DEF PendingIsCarried, Killed
    <3>2. job'[k] = job[k]
      BY <1>1, <2>2, <3>1
    <3>3. QED
      BY <3>1, <3>2
  <2>3. QED
    BY <2>1, <2>2
<1>4. QED
  BY <1>2, <1>3

\* A request hands the page it has marked over to the task it queues.
LEMMA RequestHandsOver ==
    ASSUME TypeOK, OnlyTasks, PendingIsCarried, UseCelery, "request" \notin Faults,
           "broker" \notin Faults, NEW r \in Requests, RequestAction(r)
    PROVE  OnlyTasks' /\ PendingIsCarried'
<1>1. ~RequestDies(r) /\ \A j \in Jobs : ~EnqueueFallsBack(r, j)
  BY DEF RequestDies, EnqueueFallsBack, Fault
<1>2. CASE Kick(r)
  <2>1. req'[r] = Doing("marked", "NONE") /\ UNCHANGED job
    BY <1>2, TypeOKIs DEF Kick, Request
  <2>2. req'[r].at = "marked"
    BY <2>1 DEF Doing
  <2>3. QED
    BY <2>1, <2>2 DEF OnlyTasks, Free, PendingIsCarried
<1>3. ASSUME NEW j \in Jobs, Enqueue(r, j) PROVE OnlyTasks' /\ PendingIsCarried'
  <2> DEFINE to == [IdleJob EXCEPT !.kind = "celery", !.at = "queued",
                                   !.finalize = (source = "conversation")]
  <2>1. job' = [job EXCEPT ![j] = to]
    BY <1>3 DEF Enqueue, Start
  <2>2. to.kind = "celery" /\ to.at = "queued"
    BY DEF IdleJob
  <2> HIDE DEF to
  <2>3. \A k \in Jobs : job'[k] = IF k = j THEN to ELSE job[k]
    BY <2>1, TypeOKIs
  <2>4. QED
    BY <2>2, <2>3 DEF OnlyTasks, Free, PendingIsCarried, Carries
<1>4. CASE Submit(r) \/ StartReview(r) \/ Retry(r) \/ Open(r) \/ Diagnose(r) \/ IssueCode(r)
  <2>1. UNCHANGED <<page, job>> /\ req[r].at # "marked"
    BY <1>4 DEF Submit, StartReview, Retry, Open, Diagnose, IssueCode, Request
  <2>2. \A q \in Requests \ {r} : req'[q] = req[q]
    BY <1>4, TypeOKIs DEF Submit, StartReview, Retry, Open, Diagnose, IssueCode, Request
  <2>3. QED
    BY <2>1, <2>2 DEF OnlyTasks, Free, PendingIsCarried, Killed
<1>5. QED
  BY <1>1, <1>2, <1>3, <1>4 DEF RequestAction, RequestStep

\* A task publishes or fails the page, or carries it on.
LEMMA TaskHandsOver ==
    ASSUME TypeOK, OnlyTasks, PendingIsCarried, ~TeamRuns, NEW j \in Jobs, RunAction(j)
    PROVE  OnlyTasks' /\ PendingIsCarried'
<1>1. job[j] \in Runs /\ page \in Pages
  BY RunIsTyped, TypeOKIs
<1>2. ~TeamGenerate(j)
  BY DEF TeamGenerate
<1>3. job[j].kind = "celery" /\ job[j].at \notin {"idle", "killed"}
  <2>1. CASE job[j] \in {IdleJob, KilledJob}
    <3>1. job[j].at \in {"idle", "killed"} /\ job[j].kind = "none"
      BY <2>1, KilledIs DEF IdleJob
    <3>2. QED
      BY <1>2, <3>1 DEF RunAction, JobStep, Load, MarkPending, Publish, Finalize, Reveal,
         RetryTask, GiveUp, TeamFails, Ack, GenerateRaises, FinalizeRaises, WorkerDies,
         ChildKilled, Job
  <2>2. CASE job[j].kind = "celery"
    <3>1. job[j].at \notin {"idle", "killed"}
      BY <1>2, <2>2 DEF RunAction, JobStep, Load, MarkPending, Publish, Finalize, Reveal,
         RetryTask, GiveUp, TeamFails, Ack, GenerateRaises, FinalizeRaises, WorkerDies,
         ChildKilled, Job
    <3>2. QED
      BY <2>2, <3>1
  <2>3. QED
    BY <2>1, <2>2 DEF OnlyTasks, Free
<1>4. \A step : Now(j, step).at = step /\ Now(j, step).kind = "celery"
  BY <1>1, <1>3 DEF Now, Runs
<1>5. Ended(j).kind = "celery" /\ ~TeamFails(j)
  BY <1>3, <1>4 DEF Ended, TeamFails
<1>6. UNCHANGED req
  BY <1>2 DEF RunAction, JobStep, Load, MarkPending, Publish, Finalize, Reveal, RetryTask, GiveUp,
     TeamFails, Ack, GenerateRaises, FinalizeRaises, WorkerDies, ChildKilled
<1>7. ASSUME NEW to, job' = [job EXCEPT ![j] = to], to.kind = "celery",
             page'.status = "pending" =>
                 Carries(to) \/ (page.status = "pending" /\ ~Carries(job[j]))
      PROVE  OnlyTasks' /\ PendingIsCarried'
  BY <1>3, <1>6, <1>7, RunHandsOver
<1>8. CASE Load(j)
  <2> DEFINE to == [job[j] EXCEPT !.at = "loaded", !.seen = stage, !.version = NextVersion]
  <2>1. job' = [job EXCEPT ![j] = to] /\ to.kind = "celery" /\ Carries(to)
    BY <1>1, <1>3, <1>8 DEF Load, Job, Runs, Carries
  <2> HIDE DEF to
  <2>2. QED
    BY <1>7, <2>1
<1>9. CASE MarkPending(j) \/ GenerateRaises(j)
  <2>1. PICK step \in {"working", "raised"} : job' = [job EXCEPT ![j] = Now(j, step)]
    BY <1>9 DEF MarkPending, GenerateRaises, Job
  <2>2. Carries(Now(j, step)) /\ Now(j, step).kind = "celery"
    BY <1>4 DEF Carries
  <2>3. QED
    BY <1>7, <2>1, <2>2
<1>10. CASE Publish(j) \/ GiveUp(j)
  <2>1. page'.status # "pending"
    BY <1>1, <1>10 DEF Publish, GiveUp, Pages
  <2>2. \/ job' = [job EXCEPT ![j] = Now(j, "published")]
        \/ job' = [job EXCEPT ![j] = Ended(j)]
    BY <1>10 DEF Publish, GiveUp, Job
  <2>3. QED
    BY <1>4, <1>5, <1>7, <2>1, <2>2
<1>11. CASE Finalize(j) \/ Reveal(j) \/ FinalizeRaises(j) \/ Ack(j)
  <2>1. page' = page /\ ~Carries(job[j])
    BY <1>11 DEF Finalize, Reveal, FinalizeRaises, Ack, Job, Carries
  <2>2. \/ \E step : job' = [job EXCEPT ![j] = Now(j, step)]
        \/ job' = [job EXCEPT ![j] = Ended(j)]
        \/ job' = [job EXCEPT ![j] = IdleJob]
    BY <1>11 DEF Finalize, Reveal, FinalizeRaises, Ack, Job
  <2>3. CASE job' = [job EXCEPT ![j] = IdleJob]
    BY <1>3, <1>6, <2>1, <2>3, RunHandsOver
  <2>4. QED
    BY <1>4, <1>5, <1>7, <2>1, <2>2, <2>3
<1>12. CASE RetryTask(j)
  <2> DEFINE to == [Now(j, "queued") EXCEPT !.retries = @ + 1]
  <2>1. job' = [job EXCEPT ![j] = to]
    BY <1>12 DEF RetryTask, Job
  <2>2. to.kind = "celery" /\ Carries(to)
    BY <1>1, <1>3 DEF Now, Runs, Carries
  <2> HIDE DEF to
  <2>3. QED
    BY <1>7, <2>1, <2>2
<1>13. CASE WorkerDies(j)
  <2> DEFINE to == [Now(j, "queued") EXCEPT !.version = 0, !.seen = "NONE"]
  <2>1. job' = [job EXCEPT ![j] = to]
    BY <1>3, <1>13 DEF WorkerDies
  <2>2. to.kind = "celery" /\ Carries(to)
    BY <1>1, <1>3 DEF Now, Runs, Carries
  <2> HIDE DEF to
  <2>3. QED
    BY <1>7, <2>1, <2>2
<1>14. CASE ChildKilled(j)
  BY <1>6, <1>14, KilledIs, RunHandsOver DEF ChildKilled
<1>15. QED
  BY <1>2, <1>5, <1>8, <1>9, <1>10, <1>11, <1>12, <1>13, <1>14 DEF RunAction, JobStep

\* A message delivered twice only adds a run.
LEMMA RedeliveryHandsOver ==
    ASSUME TypeOK, OnlyTasks, PendingIsCarried, NEW j \in Jobs, NEW k \in Jobs, Redeliver(j, k)
    PROVE  OnlyTasks' /\ PendingIsCarried'
<1> DEFINE to == [Now(j, "queued") EXCEPT !.version = 0, !.seen = "NONE"]
<1>1. job[j] \in Runs /\ job[j].kind = "celery"
  BY RunIsTyped DEF Redeliver
<1>2. to.kind = "celery" /\ Carries(to)
  BY <1>1 DEF Now, Runs, Carries
<1>3. job' = [job EXCEPT ![k] = to] /\ UNCHANGED req
  BY DEF Redeliver
<1> HIDE DEF to
<1>4. QED
  BY <1>2, <1>3, RunHandsOver

LEMMA StepHandsOver ==
    ASSUME TypeOK, OnlyTasks, PendingIsCarried, [Next]_vars, UseCelery, ~TeamRuns,
           "request" \notin Faults, "broker" \notin Faults
    PROVE  OnlyTasks' /\ PendingIsCarried'
<1>1. UNCHANGED vars \/ TeamMoves => UNCHANGED <<page, req, job>>
  BY DEF vars, TeamMoves
<1>2. UNCHANGED <<page, req, job>> => OnlyTasks' /\ PendingIsCarried'
  BY DEF OnlyTasks, Free, PendingIsCarried, Killed
<1>3. QED
  BY <1>1, <1>2, RequestHandsOver, TaskHandsOver, RedeliveryHandsOver
     DEF Next, RequestAction, RunAction

\* A pending page is never abandoned unnoticed: as long as runs are Celery tasks and no web
\* process dies between its two writes, a request is about to queue a run of it, or a task has
\* yet to write it, whatever workers die, runs raise and messages are delivered again (acks_late,
\* self.retry, mark_failed after the last), or a killed child took its message with it and no
\* run has been started in its place.
THEOREM PendingIsNeverAbandoned ==
    ASSUME UseCelery, ~TeamRuns, "request" \notin Faults, "broker" \notin Faults
    PROVE  Spec => []PendingIsCarried
<1>1. Init => OnlyTasks /\ PendingIsCarried
  BY DEF Init, OnlyTasks, Free, PendingIsCarried
<1>2. TypeOK /\ OnlyTasks /\ PendingIsCarried /\ [Next]_vars => OnlyTasks' /\ PendingIsCarried'
  BY StepHandsOver
<1>3. QED
  BY <1>1, <1>2, TypeCorrect, PTL DEF Spec

================================================================================
