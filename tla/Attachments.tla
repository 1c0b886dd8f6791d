------------------------------- MODULE Attachments -------------------------------
(***************************************************************************)
(* Uploaded files (apps/attachments): staging, the pipeline that scans and *)
(* then reads a file, binding to a thread, the team's quarantine and       *)
(* release, and the purge of a file by its visitor, by the nightly sweep   *)
(* or with its thread.                                                     *)
(*                                                                         *)
(* The bytes live in an object store outside the database, so every write  *)
(* there is a step of its own.  The pipeline keeps an instance of the row  *)
(* from statement to statement and saves its own columns over whatever     *)
(* happened in between; each statement is a step, and a worker may die     *)
(* between any two.                                                        *)
(***************************************************************************)
CONSTANTS
    Files,      \* rows of Attachment
    Threads,    \* conversations
    Unbound     \* Attachment.thread of a file staged before its conversation

ASSUME FilesAssumption == Unbound \notin Threads /\ Threads \cap {"visitor", "sweep"} = {}

VARIABLES
    status,     \* Attachment.status; "none" before the row, "gone" after its deletion
    thread,     \* Attachment.thread
    alive,      \* threads not deleted
    blob,       \* files whose bytes are in the store
    purged,     \* rows with purged_at and deleted_at (only purge writes either)
    expired,    \* rows past retention_expires_at
    clean,      \* rows with a clean AttachmentScan
    released,   \* rows with a "release" audit entry
    text,       \* AttachmentExtraction: none, metadata only, or the file's text
    excerpts,   \* rows with AttachmentExcerpts
    job,        \* the pipeline run of each file, named for what it holds
    binding,    \* bind calls that have read the file unbound
    purging,    \* purge calls that have loaded their file: by whom, and how far
    removing    \* threads whose visitor is deleting them

rows == <<status, thread, expired, purged>>
findings == <<clean, released, text, excerpts>>
calls == <<binding, purging, removing>>
fileVars == <<rows, alive, blob, findings, job, calls>>

Statuses == {"none", "writing", "staged", "scanning", "scanned", "extracting", "ready",
             "quarantined", "purged", "gone"}
JobStates == {"idle", "queued", "scan", "clean", "accepted", "refused", "extract", "read",
              "meta", "text", "saved", "excerpts"}
Purges == [by : {"visitor", "sweep"} \cup Threads, file : Files, at : {"loaded", "erased"}]

Row(f) == status[f] \notin {"none", "writing", "gone"}

FileInit ==
    /\ status = [f \in Files |-> "none"] /\ thread = [f \in Files |-> Unbound]
    /\ alive = Threads /\ blob = {} /\ purged = {} /\ expired = {}
    /\ clean = {} /\ released = {} /\ text = [f \in Files |-> "none"] /\ excerpts = {}
    /\ job = [f \in Files |-> "idle"]
    /\ binding = {} /\ purging = {} /\ removing = {}

-----------------------------------------------------------------------------
(* Upload and binding *)

\* stage writes the bytes before the row; the request may die in between.
Write(f) ==
    /\ status[f] = "none"
    /\ status' = [status EXCEPT ![f] = "writing"] /\ blob' = blob \cup {f}
    /\ UNCHANGED <<thread, expired, purged, alive, findings, job, calls>>

\* The row is created and its processing dispatched, to a worker or inline.
Stage(f, t) ==
    /\ status[f] = "writing" /\ t \in alive \cup {Unbound}
    /\ status' = [status EXCEPT ![f] = "staged"] /\ thread' = [thread EXCEPT ![f] = t]
    /\ job' = [job EXCEPT ![f] = "queued"]
    /\ UNCHANGED <<expired, purged, alive, blob, findings, calls>>

\* The row cannot be created: the bytes are taken back, unless that fails as well.
StageFails(f) ==
    /\ status[f] = "writing"
    /\ status' = [status EXCEPT ![f] = "gone"] /\ blob' \in {blob, blob \ {f}}
    /\ UNCHANGED <<thread, expired, purged, alive, findings, job, calls>>

\* bind_many lists files that are not deleted; bind looks at the instance it was given.
BindReads(f, t) ==
    /\ Row(f) /\ thread[f] = Unbound /\ f \notin purged /\ t \in alive
    /\ binding' = binding \cup {<<f, t>>}
    /\ UNCHANGED <<rows, alive, blob, findings, job, purging, removing>>

\* ... and saves the thread with a retention of its own; a deleted row or thread refuses.
BindWrites(f, t) ==
    /\ <<f, t>> \in binding /\ binding' = binding \ {<<f, t>>}
    /\ IF Row(f) /\ t \in alive
       THEN thread' = [thread EXCEPT ![f] = t] /\ expired' = expired \ {f}
       ELSE UNCHANGED <<thread, expired>>
    /\ UNCHANGED <<status, purged, alive, blob, findings, job, purging, removing>>

-----------------------------------------------------------------------------
(* The pipeline: scan, then extraction, then excerpts *)

\* Saving the instance's status fails when the row is gone, and ends the run.
JobSaves(f, s, next) ==
    /\ status' = [status EXCEPT ![f] = IF Row(f) THEN s ELSE @]
    /\ job' = [job EXCEPT ![f] = IF Row(f) THEN next ELSE "idle"]

JobStarts(f) ==
    /\ job[f] = "queued" /\ JobSaves(f, "scanning", "scan")
    /\ UNCHANGED <<thread, expired, purged, alive, blob, findings, calls>>

\* A missing blob is an error verdict; the scanners may refuse what they read.
JobScans(f) ==
    /\ job[f] = "scan"
    /\ \E v \in (IF f \in blob THEN {"clean"} ELSE {}) \cup {"refused"} :
          job' = [job EXCEPT ![f] = v]
    /\ UNCHANGED <<rows, alive, blob, findings, calls>>

JobRecords(f) ==
    /\ job[f] = "clean"
    /\ clean' = IF Row(f) THEN clean \cup {f} ELSE clean
    /\ job' = [job EXCEPT ![f] = IF Row(f) THEN "accepted" ELSE "idle"]
    /\ UNCHANGED <<rows, alive, blob, released, text, excerpts, calls>>

JobAppliesAll(f) ==
    /\ job[f] \in {"accepted", "refused"} /\ JobSaves(f, "scanned", "extract")
    /\ UNCHANGED <<thread, expired, purged, alive, blob, findings, calls>>

JobApplies(f) ==
    /\ \/ job[f] = "accepted" /\ JobSaves(f, "scanned", "extract")
       \/ job[f] = "refused" /\ JobSaves(f, "quarantined", "idle")
    /\ UNCHANGED <<thread, expired, purged, alive, blob, findings, calls>>

\* extractor.run refuses a file without a clean scan (ScanRequired).
JobExtracts(f) ==
    /\ job[f] = "extract" /\ f \in clean
    /\ JobSaves(f, "extracting", "read")
    /\ UNCHANGED <<thread, expired, purged, alive, blob, findings, calls>>

\* What cannot be read or parsed becomes metadata only.
JobReads(f) ==
    /\ job[f] = "read"
    /\ \E v \in (IF f \in blob THEN {"text"} ELSE {}) \cup {"meta"} :
          job' = [job EXCEPT ![f] = v]
    /\ UNCHANGED <<rows, alive, blob, findings, calls>>

JobStores(f) ==
    /\ job[f] \in {"text", "meta"}
    /\ text' = [text EXCEPT ![f] = IF Row(f) THEN job[f] ELSE @]
    /\ job' = [job EXCEPT ![f] = IF Row(f) THEN "saved" ELSE "idle"]
    /\ UNCHANGED <<rows, alive, blob, clean, released, excerpts, calls>>

JobReadies(f) ==
    /\ job[f] = "saved" /\ JobSaves(f, "ready", "excerpts")
    /\ UNCHANGED <<thread, expired, purged, alive, blob, findings, calls>>

\* Excerpts come from the extraction as it is now; unsafe text yields none.
JobExcerpts(f) ==
    /\ job[f] = "excerpts" /\ job' = [job EXCEPT ![f] = "idle"]
    /\ excerpts' \in IF Row(f) /\ text[f] = "text" THEN {excerpts \cup {f}, excerpts \ {f}}
                                                   ELSE {excerpts}
    /\ UNCHANGED <<rows, alive, blob, clean, released, text, calls>>

\* A worker or request dies, the task was acknowledged: nobody takes the run up again.
JobDies(f) ==
    /\ job[f] \notin {"idle", "queued"} /\ job' = [job EXCEPT ![f] = "idle"]
    /\ UNCHANGED <<rows, alive, blob, findings, calls>>

Pipeline(f) == \/ JobStarts(f) \/ JobScans(f) \/ JobRecords(f) \/ JobApplies(f)
               \/ JobExtracts(f) \/ JobReads(f) \/ JobStores(f) \/ JobReadies(f)
               \/ JobExcerpts(f) \/ JobDies(f)

-----------------------------------------------------------------------------
(* The team's decisions, on a locked row *)

ReleasableWhatever(f) == status[f] = "quarantined"

Releasable(f) == f \notin purged /\ status[f] = "quarantined"

Release(f) ==
    /\ Row(f) /\ Releasable(f)
    /\ status' = [status EXCEPT ![f] = "scanned"] /\ released' = released \cup {f}
    /\ UNCHANGED <<thread, expired, purged, alive, blob, clean, text, excerpts, job, calls>>

Quarantine(f) ==
    /\ Row(f) /\ f \notin purged
    /\ status' = [status EXCEPT ![f] = "quarantined"]
    /\ UNCHANGED <<thread, expired, purged, alive, blob, findings, job, calls>>

-----------------------------------------------------------------------------
(* Retention *)

\* retention_expires_at passes.
Expire(f) ==
    /\ Row(f) /\ f \notin purged \cup expired /\ expired' = expired \cup {f}
    /\ UNCHANGED <<status, thread, purged, alive, blob, findings, job, calls>>

Load(by, F) == purging' = purging \cup {[by |-> by, file |-> f, at |-> "loaded"] : f \in F}

VisitorDeletes(f) ==
    /\ Row(f) /\ f \notin purged /\ status[f] # "purged" /\ Load("visitor", {f})
    /\ UNCHANGED <<rows, alive, blob, findings, job, binding, removing>>

Overdue == {f \in expired \ purged : Row(f)}

SweepSkipsQuarantine ==
    /\ Overdue # {} /\ \A p \in purging : p.by # "sweep"
    /\ Load("sweep", {f \in Overdue : status[f] # "quarantined"})
    /\ UNCHANGED <<rows, alive, blob, findings, job, binding, removing>>

\* The nightly purge_sweep lists what is overdue, then purges one after the other.
SweepLists ==
    /\ Overdue # {} /\ \A p \in purging : p.by # "sweep"
    /\ Load("sweep", Overdue)
    /\ UNCHANGED <<rows, alive, blob, findings, job, binding, removing>>

OfThread(t) == {f \in Files : Row(f) /\ thread[f] = t}

\* A visitor deletes a conversation: its files first, then the thread.
ThreadDeletes(t) ==
    /\ t \in alive \ removing /\ removing' = removing \cup {t}
    /\ Load(t, OfThread(t) \ purged)
    /\ UNCHANGED <<rows, alive, blob, findings, job, binding>>

\* One caller purges one file at a time.
Turn(p) == /\ p.at = "loaded"
           /\ p.by # "visitor" => \A q \in purging : q.by = p.by => q.at = "loaded"

PurgeErasesMaybe(p) ==
    /\ p \in purging /\ Turn(p)
    /\ blob' \in {blob, blob \ {p.file}}
    /\ purging' = (purging \ {p}) \cup {[p EXCEPT !.at = "erased"]}
    /\ UNCHANGED <<rows, alive, findings, job, binding, removing>>

PurgeErases(p) ==
    /\ p \in purging /\ Turn(p)
    /\ blob' = blob \ {p.file}
    /\ purging' = (purging \ {p}) \cup {[p EXCEPT !.at = "erased"]}
    /\ UNCHANGED <<rows, alive, findings, job, binding, removing>>

\* The call ends without recording a purge; deleting a thread stops at its first failure.
PurgeGivesUp(p) ==
    /\ purging' = purging \ {q \in purging : q = p \/ (q.by = p.by /\ p.by \in Threads)}
    /\ removing' = removing \ {p.by}

\* The store refuses (purge raises), or the process dies before or after the erasure.
PurgeFails(p) ==
    /\ p \in purging /\ (Turn(p) \/ p.at = "erased") /\ PurgeGivesUp(p)
    /\ UNCHANGED <<rows, alive, blob, findings, job, binding>>

PurgeRecords(p) ==
    /\ p \in purging /\ p.at = "erased" /\ Row(p.file)
    /\ purging' = purging \ {p}
    /\ status' = [status EXCEPT ![p.file] = "purged"] /\ purged' = purged \cup {p.file}
    /\ text' = [text EXCEPT ![p.file] = "none"] /\ excerpts' = excerpts \ {p.file}
    /\ UNCHANGED <<thread, expired, alive, blob, clean, released, job, binding, removing>>

\* Deleting a thread deletes the rows of its files, also of those bound since the listing.
Cascade(t) ==
    /\ alive' = alive \ {t}
    /\ status' = [f \in Files |-> IF f \in OfThread(t) THEN "gone" ELSE status[f]]
    /\ clean' = clean \ OfThread(t) /\ released' = released \ OfThread(t)
    /\ text' = [f \in Files |-> IF f \in OfThread(t) THEN "none" ELSE text[f]]
    /\ excerpts' = excerpts \ OfThread(t)
    /\ UNCHANGED <<thread, expired, purged, job, binding>>

ThreadGoes(t) ==
    /\ t \in removing /\ \A p \in purging : p.by # t
    /\ removing' = removing \ {t} /\ Cascade(t)
    /\ UNCHANGED <<blob, purging>>

\* Retention purges a whole thread in one transaction and ignores a failed purge of a file;
\* the sweep of anonymous threads does not look at files at all.
ThreadExpires(t) ==
    /\ t \in alive /\ Cascade(t)
    /\ \E erased \in SUBSET (OfThread(t) \ purged) : blob' = blob \ erased
    /\ UNCHANGED <<purging, removing>>

Purge(f) == \E p \in purging : p.file = f /\ (PurgeErases(p) \/ PurgeFails(p) \/ PurgeRecords(p))

FileSteps(f) ==
    \/ Write(f) \/ StageFails(f) \/ \E t \in Threads \cup {Unbound} : Stage(f, t)
    \/ \E t \in Threads : BindReads(f, t) \/ BindWrites(f, t)
    \/ Pipeline(f) \/ Release(f) \/ Quarantine(f)
    \/ Expire(f) \/ VisitorDeletes(f) \/ Purge(f)

FileNext == \/ \E f \in Files : FileSteps(f)
            \/ \E t \in Threads : ThreadDeletes(t) \/ ThreadGoes(t) \/ ThreadExpires(t)
            \/ SweepLists

FileSpec == FileInit /\ [][FileNext]_fileVars

\* A night's purge of f: the store and the process do not fail every night, and a row that
\* is gone only fails its own purge.
SweepErases(f) == PurgeErases([by |-> "sweep", file |-> f, at |-> "loaded"])
SweepRecords(f) == LET p == [by |-> "sweep", file |-> f, at |-> "erased"]
                   IN  PurgeRecords(p) \/ (~Row(f) /\ PurgeFails(p))
FileFairness == /\ WF_fileVars(SweepLists)
                /\ \A f \in Files : SF_fileVars(SweepErases(f)) /\ SF_fileVars(SweepRecords(f))

-----------------------------------------------------------------------------
(* Properties *)

FilesTypeOK ==
    /\ status \in [Files -> Statuses] /\ thread \in [Files -> Threads \cup {Unbound}]
    /\ alive \subseteq Threads /\ removing \subseteq Threads
    /\ blob \subseteq Files /\ purged \subseteq Files /\ expired \subseteq Files
    /\ clean \subseteq Files /\ released \subseteq Files /\ excerpts \subseteq Files
    /\ text \in [Files -> {"none", "meta", "text"}] /\ job \in [Files -> JobStates]
    /\ binding \subseteq Files \X Threads /\ purging \subseteq Purges

\* is_downloadable: what may be fetched again.
Downloadable(f) == status[f] \in {"scanned", "extracting", "ready"} /\ f \notin purged

\* Nothing is handed out or read that was neither scanned clean nor released on the record,
\* and no text exists of a file without a clean scan, whatever the pipeline, the team and
\* the purges did to the row in between (is_downloadable, for_context).
OnlyClearedIsHandedOut == \A f \in Files :
    /\ Downloadable(f) => f \in clean \cup released
    /\ text[f] = "text" => f \in clean

\* A row that says it was purged leads to no bytes: no interleaving of purges, pipelines
\* and failures records a purge whose bytes are still in the store (retention.purge).
PurgedIsErased == \A f \in purged : f \notin blob

\* Once no pipeline run holds the file any more, a quarantine is lifted by a release on the
\* record only, and a purged file comes back in no way: no status that hands it out, no
\* text (attachment_review.release, intake.process).
QuietFilesStayShut == [][\A f \in Files : job[f] = "idle" =>
    /\ status[f] = "quarantined" /\ Downloadable(f)' => status'[f] = "scanned" /\ f \in released'
    /\ f \in purged => /\ status'[f] \in {status[f], "purged", "gone"}
                       /\ text'[f] \in {text[f], "none"}]_fileVars

\* Retention is kept: what stays overdue is in the end purged by the nightly sweep, or its
\* row goes with its thread, even though the store may refuse on any given night.
RetentionIsKept == \A f \in Files : f \in Overdue ~> f \notin Overdue
=================================================================================
