------------------------------- MODULE Generation -------------------------------
(***************************************************************************)
(* My Review: how the result page of one lead is generated, published,     *)
(* failed, retried and revealed.  Requests (the questionnaire, its retry   *)
(* and open actions, the conversation bridge, the team's regenerate        *)
(* endpoint) mark the page and start generation runs; the runs are Celery  *)
(* tasks, or daemon threads of the web process when Celery is off.  No row *)
(* is locked anywhere, so every read and every write is a step.            *)
(*                                                                         *)
(* The lead is one: the races of first submissions that create two of them *)
(* are not modelled.  What the review says is abstracted to the version    *)
(* whose sections the row holds (0: none yet).                             *)
(***************************************************************************)
EXTENDS JourneyLadder

CONSTANTS
    Requests,      \* concurrent HTTP requests
    Jobs,          \* generation runs that can be under way at once
    UseCelery,     \* ENABLE_CELERY
    Sources,       \* where the lead may come from: see Origins
    TeamRuns,      \* the team regenerates the page (POST result-page/generate/)
    Faults,        \* what may break: see Breakage
    MaxFaults,     \* bound: crashes and failed generations altogether
    MaxVersion     \* bound: artifact_version

Origins == {"conversation", "questionnaire"}

ASSUME ModeAssumption == {UseCelery, TeamRuns} \subseteq BOOLEAN /\ Sources \subseteq Origins

\* A whole worker, a child of its pool or a web process dies, the broker is down or
\* delivers twice, a run raises.
Breakage == {"worker", "child", "request", "broker", "duplicate", "generate"}

ASSUME FaultsAssumption == Faults \subseteq Breakage
ASSUME BoundsAssumption == MaxFaults \in Nat /\ MaxVersion \in Nat \ {0}

VARIABLES
    source,   \* where this lead comes from; it never changes
    stage,    \* lead.journey_state, or "NONE" while there is no lead
    page,     \* ResultPage: generation_status, artifact_version, the stored sections
    req,      \* what each request is doing
    job,      \* what each generation run is doing
    reveals,  \* JourneyTransition rows finalize_ready_review wrote (capped at 2)
    granted,  \* an access code for the client page has been issued
    faults    \* faults so far

vars == <<source, stage, page, req, job, reveals, granted, faults>>

max_retries == 2

Statuses == {"none", "pending", "ready", "failed"}
Versions == 0..MaxVersion
Seen == States \cup {"NONE"}

RequestSteps == {"idle", "saved", "kicking", "marked", "opening"}
IdleRequest == [at |-> "idle", seen |-> "NONE"]

JobSteps == {"idle", "queued", "loaded", "working", "published", "revealing", "raised",
             "done", "killed"}
IdleJob == [ kind |-> "none", at |-> "idle", retries |-> 0, version |-> 0,
             seen |-> "NONE", finalize |-> FALSE ]

\* A run that went with its process and its message: nobody will take it up again.
KilledJob == [IdleJob EXCEPT !.at = "killed"]
Killed == \E j \in Jobs : job[j].at = "killed"

Free(j) == job[j] \in {IdleJob, KilledJob}

TypeOK ==
    /\ source \in Sources
    /\ stage \in Seen
    /\ page \in [status : Statuses, version : Versions, content : Versions]
    /\ req \in [Requests -> [at : RequestSteps, seen : Seen]]
    /\ job \in [Jobs -> [ kind : {"none", "celery", "thread", "team"}, at : JobSteps,
                          retries : 0..max_retries, version : Versions,
                          seen : Seen, finalize : BOOLEAN ]]
    /\ reveals \in 0..2
    /\ granted \in BOOLEAN
    /\ faults \in 0..MaxFaults

Init ==
    /\ source \in Sources
    /\ stage = "NONE"
    /\ page = [status |-> "none", version |-> 0, content |-> 0]
    /\ req = [r \in Requests |-> IdleRequest]
    /\ job = [j \in Jobs |-> IdleJob]
    /\ reveals = 0
    /\ granted = FALSE
    /\ faults = 0

Fault(f) == f \in Faults /\ faults < MaxFaults /\ faults' = faults + 1

--------------------------------------------------------------------------------
(* Requests.                                                               *)

Request(r, from, to) ==
    /\ req[r].at = from
    /\ req' = [req EXCEPT ![r] = to]
    /\ UNCHANGED source

Doing(step, seen) == [at |-> step, seen |-> seen]

\* QualifyView.post: create_from_review saves the lead at IN_REVIEW, whether it
\* is new or already further, ...
Submit(r) ==
    /\ source = "questionnaire"
    /\ Request(r, "idle", Doing("saved", "IN_REVIEW"))
    /\ stage' = "IN_REVIEW"
    /\ UNCHANGED <<page, job, reveals, granted, faults>>

\* ... and mark_diagnosed moves it on from the instance just saved.
Diagnose(r) ==
    /\ Request(r, "saved", Doing("kicking", "DIAGNOSED"))
    /\ stage' = "DIAGNOSED"
    /\ UNCHANGED <<page, job, reveals, granted, faults>>

\* maybe_reveal_client_page: a diagnosed conversation with an address gets its
\* lead, which starts at DIAGNOSED.
StartReview(r) ==
    /\ source = "conversation"
    /\ stage = "NONE"
    /\ Request(r, "idle", Doing("kicking", "DIAGNOSED"))
    /\ stage' = "DIAGNOSED"
    /\ UNCHANGED <<page, job, reveals, granted, faults>>

\* action "retry": refused while the page is READY or PENDING.
Retry(r) ==
    /\ source = "questionnaire"
    /\ stage # "NONE"
    /\ page.status \in {"failed", "none"}
    /\ Request(r, "idle", Doing("kicking", stage))
    /\ UNCHANGED <<stage, page, job, reveals, granted, faults>>

\* kick_off_result_page: PENDING whatever the page was, ...
Kick(r) ==
    /\ Request(r, "kicking", Doing("marked", "NONE"))
    /\ page' = [page EXCEPT !.status = "pending",
                            !.version = IF page.status = "none" THEN 1 ELSE @]
    /\ UNCHANGED <<stage, job, reveals, granted, faults>>


\* ... then the task is queued or the thread started.  Only a conversation's
\* own kick asks for the reveal.
Start(r, j, kind) ==
    /\ Free(j)
    /\ Request(r, "marked", IdleRequest)
    /\ job' = [job EXCEPT ![j] = [IdleJob EXCEPT
                  !.kind = kind, !.at = "queued", !.finalize = (source = "conversation")]]
    /\ UNCHANGED <<stage, page, reveals, granted>>

Enqueue(r, j) == Start(r, j, IF UseCelery THEN "celery" ELSE "thread") /\ UNCHANGED faults

\* The broker refuses the task: the request falls back to a thread.
EnqueueFallsBack(r, j) == UseCelery /\ Fault("broker") /\ Start(r, j, "thread")

\* The web process dies between the two.
RequestDies(r) ==
    /\ Fault("request")
    /\ Request(r, "marked", IdleRequest)
    /\ UNCHANGED <<stage, page, job, reveals, granted>>

\* action "open": needs READY, and reads the lead ...
Open(r) ==
    /\ source = "questionnaire"
    /\ page.status = "ready"
    /\ Request(r, "idle", Doing("opening", stage))
    /\ UNCHANGED <<stage, page, job, reveals, granted, faults>>

\* ... before it advances that instance (if it was DIAGNOSED) and issues a code.
IssueCode(r) ==
    /\ Request(r, "opening", IdleRequest)
    /\ stage' = IF req[r].seen = "DIAGNOSED" THEN "CLIENT_PAGE" ELSE stage
    /\ granted' = TRUE
    /\ UNCHANGED <<page, job, reveals, faults>>

\* ResultPageGenerateView: generate_for_lead in the request, nothing around it.
TeamGenerate(j) ==
    /\ TeamRuns
    /\ stage # "NONE"
    /\ Free(j)
    /\ job' = [job EXCEPT ![j] = [IdleJob EXCEPT !.kind = "team", !.at = "queued"]]
    /\ UNCHANGED <<source, stage, page, req, reveals, granted, faults>>

\* What the team does to the lead meanwhile, through journey.advance.
TeamMoves ==
    /\ \E e \in {"gate_invite", "gate_dormant", "reactivate"} :
          \E t \in Targets(stage, e) : stage' = t
    /\ UNCHANGED <<source, page, req, job, reveals, granted, faults>>

--------------------------------------------------------------------------------
(* Generation runs.                                                        *)

Job(j, from, to) ==
    /\ job[j].at = from
    /\ job' = [job EXCEPT ![j] = to]
    /\ UNCHANGED source

Now(j, step) == [job[j] EXCEPT !.at = step]

\* The task ends: acks_late leaves a Celery message unacknowledged until then.
Ended(j) == IF job[j].kind = "celery" THEN Now(j, "done") ELSE IdleJob

\* The version the page will get: one more than a READY page's (the bound makes
\* all versions from MaxVersion on the same).
NextVersion ==
    CASE page.status = "none"  -> 1
      [] page.status = "ready" -> IF page.version < MaxVersion THEN page.version + 1
                                  ELSE MaxVersion
      [] OTHER                 -> page.version

\* The lead is read, and the existing page.
Load(j) ==
    /\ Job(j, "queued", [job[j] EXCEPT !.at = "loaded", !.seen = stage,
                                       !.version = NextVersion])
    /\ UNCHANGED <<stage, page, req, reveals, granted, faults>>

MarkPending(j) ==
    /\ Job(j, "loaded", Now(j, "working"))
    /\ page' = [page EXCEPT !.status = "pending", !.version = job[j].version]
    /\ UNCHANGED <<stage, req, reveals, granted, faults>>

\* Mutant: the page is READY before its sections are.
PublishEmpty(j) ==
    /\ Job(j, "working", IF job[j].finalize THEN Now(j, "published") ELSE Ended(j))
    /\ page' = [page EXCEPT !.status = "ready", !.version = job[j].version]
    /\ UNCHANGED <<stage, req, reveals, granted, faults>>

\* Validated and persisted, in one write.
Publish(j) ==
    /\ Job(j, "working", IF job[j].finalize THEN Now(j, "published") ELSE Ended(j))
    /\ page' = [ status |-> "ready", version |-> job[j].version,
                 content |-> job[j].version ]
    /\ UNCHANGED <<stage, req, reveals, granted, faults>>

\* A section does not validate, a read or a write fails, the soft time limit strikes.
GenerateRaises(j) ==
    /\ Fault("generate")
    /\ \E s \in {"loaded", "working"} : Job(j, s, Now(j, "raised"))
    /\ UNCHANGED <<stage, page, req, reveals, granted>>

\* current_state_number: DORMANT has no number and counts as 1.
StateNumber == IF Number(stage) = NULL THEN 1 ELSE Number(stage)

\* finalize_ready_review reads the page and, through the thread, the lead ...
Finalize(j) ==
    /\ Job(j, "published",
           IF page.status = "ready" /\ StateNumber < 4 THEN Now(j, "revealing") ELSE Ended(j))
    /\ UNCHANGED <<stage, page, req, reveals, granted, faults>>

\* Mutant: the reveal sets the state itself, unvalidated.
RevealBlindly(j) ==
    /\ Job(j, "revealing", Ended(j))
    /\ granted' = TRUE
    /\ stage' = "CLIENT_PAGE"
    /\ reveals' = IF reveals < 2 THEN reveals + 1 ELSE 2
    /\ UNCHANGED <<page, req, faults>>

\* ... and advances the worker's own instance.  InvalidTransition fails the
\* Celery task; the thread's wrapper logs it.
Reveal(j) ==
    LET seen == job[j].seen IN
    /\ IF Refused(seen, "reveal_client_page")
       THEN /\ Job(j, "revealing", IF job[j].kind = "celery" THEN Now(j, "raised") ELSE Ended(j))
            /\ UNCHANGED <<stage, reveals, granted>>
       ELSE /\ Job(j, "revealing", Ended(j))
            /\ granted' = TRUE
            /\ IF Targets(seen, "reveal_client_page") # {}
               THEN stage' = "CLIENT_PAGE" /\ reveals' = IF reveals < 2 THEN reveals + 1 ELSE 2
               ELSE UNCHANGED <<stage, reveals>>
    /\ UNCHANGED <<page, req, faults>>

\* The reveal raises (a read, a write, the grant): a Celery task fails with its
\* page READY, the thread's own wrapper swallows it.
FinalizeRaises(j) ==
    /\ Fault("generate")
    /\ \E s \in {"published", "revealing"} :
          Job(j, s, IF job[j].kind = "celery" THEN Now(j, "raised") ELSE Ended(j))
    /\ UNCHANGED <<stage, page, req, reveals, granted>>

\* Mutant: max_retries is not looked at.
RetryTaskForever(j) ==
    /\ job[j].kind = "celery"
    /\ Job(j, "raised", [Now(j, "queued") EXCEPT !.retries = @ + 1])
    /\ UNCHANGED <<stage, page, req, reveals, granted, faults>>

\* self.retry: the message goes back to the queue with a countdown.
RetryTask(j) ==
    /\ job[j].kind = "celery"
    /\ job[j].retries < max_retries
    /\ Job(j, "raised", [Now(j, "queued") EXCEPT !.retries = @ + 1])
    /\ UNCHANGED <<stage, page, req, reveals, granted, faults>>


\* mark_failed: after the last retry, or at once in a thread.
GiveUp(j) ==
    /\ job[j].kind = "thread" \/ (job[j].kind = "celery" /\ job[j].retries = max_retries)
    /\ Job(j, "raised", Ended(j))
    /\ page' = [page EXCEPT !.status = "failed"]
    /\ UNCHANGED <<stage, req, reveals, granted, faults>>

\* The team's request answers 500 and leaves the page as it is.
TeamFails(j) ==
    /\ job[j].kind = "team"
    /\ Job(j, "raised", IdleJob)
    /\ UNCHANGED <<stage, page, req, reveals, granted, faults>>

Ack(j) ==
    /\ Job(j, "done", IdleJob)
    /\ UNCHANGED <<stage, page, req, reveals, granted, faults>>

\* The whole process running j is lost: the broker redelivers a task that nobody
\* acknowledged; a daemon thread or a request is gone.
WorkerDies(j) ==
    /\ Fault("worker")
    /\ job[j].at \notin {"idle", "queued", "killed"} \/ job[j].kind = "thread"
    /\ job' = [job EXCEPT ![j] =
                  IF job[j].kind = "celery"
                  THEN [Now(j, "queued") EXCEPT !.version = 0, !.seen = "NONE"]
                  ELSE IdleJob]
    /\ UNCHANGED <<source, stage, page, req, reveals, granted>>

\* Only the child of the pool dies, or the hard time limit kills it: the worker itself
\* acknowledges the message (acks_late without reject_on_worker_lost), neither retry
\* nor mark_failed runs, and the page stays as the child left it.
ChildKilled(j) ==
    /\ Fault("child")
    /\ job[j].kind = "celery" /\ job[j].at \in {"loaded", "working", "published", "revealing", "raised"}
    /\ job' = [job EXCEPT ![j] = KilledJob]
    /\ UNCHANGED <<source, stage, page, req, reveals, granted>>

\* The broker delivers a message again that is still held unacknowledged (its
\* visibility timeout ran out): two workers run the same task.
Redeliver(j, k) ==
    /\ Fault("duplicate")
    /\ job[j].kind = "celery" /\ job[j].at # "idle"
    /\ Free(k)
    /\ job' = [job EXCEPT ![k] = [Now(j, "queued") EXCEPT !.version = 0, !.seen = "NONE"]]
    /\ UNCHANGED <<source, stage, page, req, reveals, granted>>

--------------------------------------------------------------------------------
RequestStep(r) == Diagnose(r) \/ Kick(r) \/ (\E j \in Jobs : Enqueue(r, j)) \/ IssueCode(r)

JobStep(j) ==
    \/ Load(j) \/ MarkPending(j) \/ Publish(j) \/ Finalize(j) \/ Reveal(j)
    \/ RetryTask(j) \/ GiveUp(j) \/ TeamFails(j) \/ Ack(j)

Next ==
    \/ \E r \in Requests : Submit(r) \/ StartReview(r) \/ Retry(r) \/ Open(r)
    \/ \E r \in Requests : RequestStep(r) \/ RequestDies(r)
    \/ \E r \in Requests, j \in Jobs : EnqueueFallsBack(r, j)
    \/ \E j \in Jobs : JobStep(j) \/ TeamGenerate(j)
    \/ \E j \in Jobs : GenerateRaises(j) \/ FinalizeRaises(j)
    \/ \E j \in Jobs : WorkerDies(j) \/ ChildKilled(j)
    \/ \E j, k \in Jobs : Redeliver(j, k)
    \/ TeamMoves

Spec == Init /\ [][Next]_vars

\* A request once started is answered, a queued task is run and a running one
\* goes on; nobody is obliged to submit, retry, open, move the lead or fail.
FairSpec ==
    /\ Spec
    /\ \A r \in Requests : WF_vars(RequestStep(r))
    /\ \A j \in Jobs : WF_vars(JobStep(j))

--------------------------------------------------------------------------------
(* Properties.                                                             *)

\* No partial artifact is ever reachable: an access code is only issued, by
\* the worker's reveal or by "open", for a page whose sections were published,
\* whatever other run has put it back to PENDING or FAILED since it was looked at.
CodesHaveContent == granted => page.content > 0

\* finalize_ready_review reveals "once": redelivery after a crash at any point,
\* before or after the transition, writes no second one.
RevealedOnce == reveals <= 1

\* "After bounded retries a failure is persisted as FAILED": a page that is being
\* prepared does not stay so, unless a run was killed with its message and nobody
\* has started another in its place.
PendingResolves ==
    page.status = "pending" ~> page.status # "pending" \/ Killed


================================================================================
