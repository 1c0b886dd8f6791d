---------------------------- MODULE AttachmentProofs ----------------------------
(***************************************************************************)
(* Theorems about Attachments.  PurgedIsErased is strengthened with what a *)
(* purge holds between the erasure of the bytes and the record of it: the  *)
(* bytes do not come back, because only an upload writes them and no purge *)
(* is under way of a file still being uploaded.  OnlyClearedIsHandedOut is *)
(* strengthened with what the pipeline may rely on from one statement to   *)
(* the next: as long as the row is there, so is its clean scan.            *)
(***************************************************************************)
EXTENDS Attachments, TLAPS

\* Files whose upload has not created a row yet.
Uploading(f) == status[f] \in {"none", "writing"}

Shut ==
    /\ \A p \in purging : ~Uploading(p.file) /\ (p.at = "erased" => p.file \notin blob)
    /\ \A f \in purged : ~Uploading(f)
    /\ PurgedIsErased

\* Pipeline states that stand on a clean scan.
PastScan == {"accepted", "extract", "read", "meta", "text", "saved"}

Cleared ==
    /\ \A f \in Files : job[f] \in PastScan /\ Row(f) => f \in clean
    /\ OnlyClearedIsHandedOut

FilesInv == FilesTypeOK /\ Shut /\ Cleared

LEMMA FilesInitEstablishes == FileInit => FilesInv
<1> SUFFICES ASSUME FileInit PROVE FilesInv
    OBVIOUS
<1>1. FilesTypeOK
      BY DEF FileInit, FilesTypeOK, Statuses, JobStates
<1>2. Shut
      BY DEF FileInit, Shut, PurgedIsErased
<1>3. Cleared
      BY DEF FileInit, Cleared, PastScan, OnlyClearedIsHandedOut, Downloadable
<1>4. QED BY <1>1, <1>2, <1>3 DEF FilesInv

-----------------------------------------------------------------------------
(* Types *)

LEMMA PurgeTyped == ASSUME FilesTypeOK, NEW p \in purging
                    PROVE  /\ p \in Purges /\ p.file \in Files
                           /\ p.by \in {"visitor", "sweep"} \cup Threads
                           /\ p.at \in {"loaded", "erased"}
                           /\ [p EXCEPT !.at = "erased"] \in Purges
                           /\ [p EXCEPT !.at = "erased"].file = p.file
                           /\ [p EXCEPT !.at = "erased"].at = "erased"
BY DEF FilesTypeOK, Purges

LEMMA LoadTyped == ASSUME FilesTypeOK, NEW by \in {"visitor", "sweep"} \cup Threads,
                          NEW F \in SUBSET Files, Load(by, F)
                   PROVE  purging' \subseteq Purges
BY DEF FilesTypeOK, Load, Purges

LEMMA UploadTyped ==
    ASSUME FilesTypeOK, NEW f \in Files,
           \/ Write(f) \/ StageFails(f) \/ \E t \in Threads \cup {Unbound} : Stage(f, t)
           \/ \E t \in Threads : BindReads(f, t) \/ BindWrites(f, t)
    PROVE  FilesTypeOK'
<1>1. CASE Write(f) \/ StageFails(f)
      BY <1>1 DEF FilesTypeOK, Write, StageFails, findings, calls, Statuses
<1>2. CASE \E t \in Threads \cup {Unbound} : Stage(f, t)
      BY <1>2 DEF FilesTypeOK, Stage, findings, calls, Statuses, JobStates
<1>3. CASE \E t \in Threads : BindReads(f, t)
      BY <1>3 DEF FilesTypeOK, BindReads, rows, findings
<1>4. CASE \E t \in Threads : BindWrites(f, t)
      BY <1>4 DEF FilesTypeOK, BindWrites, findings
<1>5. QED BY <1>1, <1>2, <1>3, <1>4

LEMMA PipelineTyped == ASSUME FilesTypeOK, NEW f \in Files, Pipeline(f) PROVE FilesTypeOK'
<1>1. CASE JobStarts(f) \/ JobApplies(f) \/ JobExtracts(f) \/ JobReadies(f)
      BY <1>1 DEF FilesTypeOK, JobStarts, JobApplies, JobExtracts, JobReadies, JobSaves,
                  findings, calls, Statuses, JobStates
<1>2. CASE JobScans(f) \/ JobReads(f) \/ JobDies(f)
      BY <1>2 DEF FilesTypeOK, JobScans, JobReads, JobDies, rows, findings, calls, JobStates
<1>3. CASE JobRecords(f)
      BY <1>3 DEF FilesTypeOK, JobRecords, rows, calls, JobStates
<1>4. CASE JobStores(f)
      BY <1>4 DEF FilesTypeOK, JobStores, rows, calls, JobStates
<1>5. CASE JobExcerpts(f)
      BY <1>5 DEF FilesTypeOK, JobExcerpts, rows, calls, JobStates
<1>6. QED BY <1>1, <1>2, <1>3, <1>4, <1>5 DEF Pipeline

LEMMA TeamTyped ==
    ASSUME FilesTypeOK, NEW f \in Files, Release(f) \/ Quarantine(f) \/ Expire(f)
    PROVE  FilesTypeOK'
BY DEF FilesTypeOK, Release, Quarantine, Expire, findings, calls, Statuses

LEMMA ListingTyped ==
    ASSUME FilesTypeOK,
           \/ \E f \in Files : VisitorDeletes(f)
           \/ SweepLists \/ \E t \in Threads : ThreadDeletes(t)
    PROVE  FilesTypeOK'
<1>1. ASSUME NEW f \in Files, VisitorDeletes(f) PROVE FilesTypeOK'
  <2>1. purging' \subseteq Purges
        BY <1>1, LoadTyped DEF VisitorDeletes
  <2>2. QED BY <1>1, <2>1 DEF VisitorDeletes, FilesTypeOK, rows, findings
<1>2. ASSUME SweepLists PROVE FilesTypeOK'
  <2>1. Overdue \in SUBSET Files
        BY DEF FilesTypeOK, Overdue
  <2>2. purging' \subseteq Purges
        BY <1>2, <2>1, LoadTyped DEF SweepLists
  <2>3. QED BY <1>2, <2>2 DEF SweepLists, FilesTypeOK, rows, findings
<1>3. ASSUME NEW t \in Threads, ThreadDeletes(t) PROVE FilesTypeOK'
  <2>1. OfThread(t) \ purged \in SUBSET Files
        BY DEF OfThread
  <2>2. purging' \subseteq Purges
        BY <1>3, <2>1, LoadTyped DEF ThreadDeletes
  <2>3. QED BY <1>3, <2>2 DEF ThreadDeletes, FilesTypeOK, rows, findings
<1>4. QED BY <1>1, <1>2, <1>3

LEMMA PurgingTyped ==
    ASSUME FilesTypeOK, NEW p \in purging, PurgeErases(p) \/ PurgeFails(p) \/ PurgeRecords(p)
    PROVE  FilesTypeOK'
<1>1. CASE PurgeErases(p)
      BY <1>1, PurgeTyped DEF FilesTypeOK, PurgeErases, rows, findings
<1>2. CASE PurgeFails(p)
      BY <1>2 DEF FilesTypeOK, PurgeFails, PurgeGivesUp, rows, findings
<1>3. CASE PurgeRecords(p)
      BY <1>3, PurgeTyped DEF FilesTypeOK, PurgeRecords, Statuses
<1>4. QED BY <1>1, <1>2, <1>3

LEMMA CascadeTyped ==
    ASSUME FilesTypeOK, NEW t \in Threads, ThreadGoes(t) \/ ThreadExpires(t)
    PROVE  FilesTypeOK'
<1>1. Cascade(t) /\ blob' \subseteq blob /\ purging' = purging /\ removing' \subseteq removing
      BY DEF ThreadGoes, ThreadExpires
<1>2. status' \in [Files -> Statuses] /\ text' \in [Files -> {"none", "meta", "text"}]
      BY <1>1 DEF FilesTypeOK, Cascade, Statuses
<1>3. QED BY <1>1, <1>2 DEF FilesTypeOK, Cascade

-----------------------------------------------------------------------------
(* A purged file's bytes *)

\* What writes no bytes, records no purge and begins purges of existing rows only.
LEMMA StaysShut ==
    ASSUME FilesInv, blob' \subseteq blob, purged' = purged,
           \A f \in Files : Uploading(f)' => Uploading(f),
           \A p \in purging' \ purging : p.at = "loaded" /\ ~Uploading(p.file)',
           purging' \subseteq Purges
    PROVE  Shut'
<1>1. \A p \in purging' : p.file \in Files
      BY DEF Purges
<1>2. purged \subseteq Files
      BY DEF FilesInv, FilesTypeOK
<1>3. QED BY <1>1, <1>2 DEF FilesInv, Shut, PurgedIsErased
LEMMA WriteShut == ASSUME FilesInv, NEW f \in Files, Write(f) PROVE Shut'
<1>1. /\ Uploading(f) /\ blob' = blob \cup {f} /\ purged' = purged /\ purging' = purging
      /\ \A g \in Files : g # f => status'[g] = status[g]
      BY DEF Write, Uploading, FilesInv, FilesTypeOK, calls
<1>2. f \notin purged /\ \A p \in purging : p.file # f
      BY <1>1 DEF FilesInv, Shut
<1>3. \A p \in purging : p.file \in Files
      BY PurgeTyped DEF FilesInv
<1>4. \A g \in Files : g # f /\ ~Uploading(g) => ~Uploading(g)'
      BY <1>1 DEF Uploading
<1>5. \A p \in purging' : ~Uploading(p.file)' /\ (p.at = "erased" => p.file \notin blob')
      BY <1>1, <1>2, <1>3, <1>4 DEF FilesInv, Shut
<1>6. \A g \in purged' : ~Uploading(g)' /\ g \notin blob'
      BY <1>1, <1>2, <1>4 DEF FilesInv, Shut, FilesTypeOK, PurgedIsErased
<1>7. QED BY <1>5, <1>6 DEF Shut, PurgedIsErased

LEMMA ErasesShut == ASSUME FilesInv, NEW p \in purging, PurgeErases(p) PROVE Shut'
<1>1. /\ blob' = blob \ {p.file} /\ purged' = purged /\ status' = status
      /\ purging' = (purging \ {p}) \cup {[p EXCEPT !.at = "erased"]}
      BY DEF PurgeErases, rows
<1>2. [p EXCEPT !.at = "erased"].file = p.file
      BY PurgeTyped DEF FilesInv
<1>3. QED BY <1>1, <1>2 DEF FilesInv, Shut, Uploading, PurgedIsErased

LEMMA RecordsShut == ASSUME FilesInv, NEW p \in purging, PurgeRecords(p) PROVE Shut'
<1>1. /\ blob' = blob /\ purged' = purged \cup {p.file} /\ purging' \subseteq purging
      /\ p.at = "erased"
      BY DEF PurgeRecords
<1>2. p.file \in Files /\ p.file \notin blob /\ ~Uploading(p.file)
      BY <1>1, PurgeTyped DEF FilesInv, Shut
<1>3. \A g \in Files : status'[g] \in {status[g], "purged"}
      BY <1>2 DEF PurgeRecords, FilesInv, FilesTypeOK
<1>4. \A q \in purging : q.file \in Files
      BY PurgeTyped DEF FilesInv
<1>5. \A g \in Files : Uploading(g)' => Uploading(g)
      BY <1>3 DEF Uploading
<1>6. QED BY <1>1, <1>2, <1>4, <1>5 DEF FilesInv, Shut, FilesTypeOK, PurgedIsErased

LEMMA ListingShut ==
    ASSUME FilesInv,
           \/ \E f \in Files : VisitorDeletes(f)
           \/ SweepLists \/ \E t \in Threads : ThreadDeletes(t)
    PROVE  Shut'
<1>1. /\ blob' = blob /\ purged' = purged /\ status' = status
      BY DEF VisitorDeletes, SweepLists, ThreadDeletes, rows
<1>2. ASSUME NEW by, NEW F, Load(by, F), \A f \in F : Row(f)
      PROVE  \A p \in purging' \ purging : p.at = "loaded" /\ Row(p.file)
      BY <1>2 DEF Load
<1>3. \A p \in purging' \ purging : p.at = "loaded" /\ Row(p.file)
  <2>1. ASSUME NEW f \in Files, VisitorDeletes(f) PROVE Load("visitor", {f}) /\ Row(f)
        BY <2>1 DEF VisitorDeletes
  <2>2. ASSUME SweepLists PROVE Load("sweep", Overdue) /\ \A f \in Overdue : Row(f)
        BY <2>2 DEF SweepLists, Overdue
  <2>3. ASSUME NEW t \in Threads, ThreadDeletes(t)
        PROVE  Load(t, OfThread(t) \ purged) /\ \A f \in OfThread(t) \ purged : Row(f)
        BY <2>3 DEF ThreadDeletes, OfThread
  <2>4. CASE \E f \in Files : VisitorDeletes(f)
    <3>1. PICK f \in Files : Load("visitor", {f}) /\ Row(f)
          BY <2>1, <2>4
    <3>2. \A g \in {f} : Row(g)
          BY <3>1
    <3>3. QED BY <1>2, <3>1, <3>2
  <2>5. CASE SweepLists
        BY <1>2, <2>2, <2>5
  <2>6. CASE \E t \in Threads : ThreadDeletes(t)
    <3>1. PICK t \in Threads : /\ Load(t, OfThread(t) \ purged)
                               /\ \A f \in OfThread(t) \ purged : Row(f)
          BY <2>3, <2>6
    <3>2. QED BY <1>2, <3>1
  <2>7. QED BY <2>4, <2>5, <2>6
<1>4. purging' \subseteq Purges
      BY ListingTyped DEF FilesInv, FilesTypeOK
<1>5. QED BY <1>1, <1>3, <1>4, StaysShut DEF Row, Uploading

LEMMA FileShut ==
    ASSUME FilesInv, NEW f \in Files,
           \/ StageFails(f) \/ \E t \in Threads \cup {Unbound} : Stage(f, t)
           \/ \E t \in Threads : BindReads(f, t) \/ BindWrites(f, t)
           \/ Pipeline(f) \/ Release(f) \/ Quarantine(f) \/ Expire(f)
    PROVE  Shut'
<1>1. purging' = purging /\ blob' \subseteq blob /\ purged' = purged
      BY DEF StageFails, Stage, BindReads, BindWrites, Pipeline, JobStarts, JobScans, JobRecords,
             JobApplies, JobExtracts, JobReads, JobStores, JobReadies, JobExcerpts, JobDies,
             Release, Quarantine, Expire, rows, calls
<1>2. \A g \in Files : Uploading(g)' => Uploading(g)
  <2>1. CASE StageFails(f) \/ (\E t \in Threads \cup {Unbound} : Stage(f, t))
              \/ Release(f) \/ Quarantine(f)
        BY <2>1 DEF StageFails, Stage, Release, Quarantine, Uploading, FilesInv, FilesTypeOK
  <2>2. CASE Pipeline(f)
        BY <2>2 DEF Pipeline, JobStarts, JobScans, JobRecords, JobApplies, JobExtracts, JobReads,
                    JobStores, JobReadies, JobExcerpts, JobDies, JobSaves, rows, Uploading,
                    FilesInv, FilesTypeOK
  <2>3. CASE Expire(f) \/ \E t \in Threads : BindReads(f, t) \/ BindWrites(f, t)
        BY <2>3 DEF Expire, BindReads, BindWrites, rows, Uploading
  <2>4. QED BY <2>1, <2>2, <2>3
<1>3. QED BY <1>1, <1>2, StaysShut DEF FilesInv, FilesTypeOK

LEMMA GoesShut ==
    ASSUME FilesInv, NEW t \in Threads, ThreadGoes(t) \/ ThreadExpires(t) PROVE Shut'
<1>1. blob' \subseteq blob /\ purging' = purging /\ Cascade(t)
      BY DEF ThreadGoes, ThreadExpires
<1>2. \A g \in Files : Uploading(g)' => Uploading(g)
      BY <1>1 DEF Cascade, Uploading, FilesInv, FilesTypeOK
<1>3. QED BY <1>1, <1>2, StaysShut DEF Cascade, FilesInv, FilesTypeOK

LEMMA FailsShut == ASSUME FilesInv, NEW p \in purging, PurgeFails(p) PROVE Shut'
<1>1. /\ purging' \subseteq purging /\ blob' = blob /\ purged' = purged /\ status' = status
      BY DEF PurgeFails, PurgeGivesUp, rows
<1>2. QED BY <1>1, StaysShut DEF Uploading, FilesInv, FilesTypeOK

-----------------------------------------------------------------------------
(* What may be handed out *)

HandsOut == {"scanned", "extracting", "ready"}

\* What adds nothing to what may be handed out and takes no scan or release away from a row.
LEMMA StaysCleared ==
    ASSUME FilesInv,
           \A f \in Files :
              /\ Row(f)' => Row(f) /\ (f \in clean => f \in clean')
                                   /\ (f \in released => f \in released')
              /\ status'[f] \in HandsOut => status'[f] = status[f]
              /\ f \in purged => f \in purged'
              /\ text'[f] = "text" => text[f] = "text" /\ (f \in clean => f \in clean')
              /\ job'[f] \in PastScan /\ Row(f)' => job[f] \in PastScan
    PROVE  Cleared'
BY DEF FilesInv, Cleared, OnlyClearedIsHandedOut, Downloadable, HandsOut, Row

LEMMA WaitingCleared ==
    ASSUME FilesInv, NEW f \in Files,
           \/ Write(f) \/ StageFails(f)
           \/ \E t \in Threads : BindReads(f, t) \/ BindWrites(f, t)
           \/ VisitorDeletes(f) \/ Expire(f) \/ Quarantine(f)
    PROVE  Cleared'
<1>1. /\ UNCHANGED <<clean, released, text, job, purged>>
      /\ \A g \in Files : \/ status'[g] = status[g]
                          \/ status'[g] \in {"writing", "gone"}
                          \/ status'[g] = "quarantined" /\ Row(g)
      BY DEF Write, StageFails, BindReads, BindWrites, VisitorDeletes, Expire, Quarantine,
             rows, findings, FilesInv, FilesTypeOK
<1>2. QED BY <1>1, StaysCleared DEF HandsOut, Row

LEMMA StageCleared ==
    ASSUME FilesInv, NEW f \in Files, NEW t \in Threads \cup {Unbound}, Stage(f, t) PROVE Cleared'
<1>1. /\ status' = [status EXCEPT ![f] = "staged"] /\ job' = [job EXCEPT ![f] = "queued"]
      /\ UNCHANGED <<clean, released, text, purged>>
      BY DEF Stage, findings
<1>2. QED BY <1>1 DEF FilesInv, FilesTypeOK, Cleared, OnlyClearedIsHandedOut, Downloadable, Row,
                      PastScan

LEMMA ReleaseCleared == ASSUME FilesInv, NEW f \in Files, Release(f) PROVE Cleared'
<1>1. /\ status' = [status EXCEPT ![f] = "scanned"] /\ released' = released \cup {f} /\ Row(f)
      /\ UNCHANGED <<clean, text, purged, job>>
      BY DEF Release
<1>2. QED BY <1>1 DEF FilesInv, FilesTypeOK, Cleared, OnlyClearedIsHandedOut, Downloadable, Row

\* The pipeline hands out, and stores text, on a row only, and past its clean scan.
LEMMA PipelineCleared == ASSUME FilesInv, NEW f \in Files, Pipeline(f) PROVE Cleared'
<1>1. CASE JobStarts(f) \/ JobExtracts(f) \/ JobReadies(f)
      BY <1>1 DEF JobStarts, JobExtracts, JobReadies, JobSaves, findings, FilesInv, FilesTypeOK,
                  Cleared, OnlyClearedIsHandedOut, Downloadable, Row, PastScan
<1>2. CASE JobApplies(f)
      BY <1>2 DEF JobApplies, JobSaves, findings, FilesInv, FilesTypeOK,
                  Cleared, OnlyClearedIsHandedOut, Downloadable, Row, PastScan
<1>3. CASE JobScans(f) \/ JobReads(f) \/ JobDies(f)
      BY <1>3 DEF JobScans, JobReads, JobDies, rows, findings, FilesInv, FilesTypeOK,
                  Cleared, OnlyClearedIsHandedOut, Downloadable, Row, PastScan
<1>4. CASE JobRecords(f)
      BY <1>4 DEF JobRecords, rows, FilesInv, FilesTypeOK,
                  Cleared, OnlyClearedIsHandedOut, Downloadable, Row, PastScan
<1>5. CASE JobStores(f)
      BY <1>5 DEF JobStores, rows, FilesInv, FilesTypeOK,
                  Cleared, OnlyClearedIsHandedOut, Downloadable, Row, PastScan
<1>6. CASE JobExcerpts(f)
      BY <1>6 DEF JobExcerpts, rows, FilesInv, FilesTypeOK,
                  Cleared, OnlyClearedIsHandedOut, Downloadable, Row, PastScan
<1>7. QED BY <1>1, <1>2, <1>3, <1>4, <1>5, <1>6 DEF Pipeline

LEMMA PurgingCleared ==
    ASSUME FilesInv, NEW p \in purging, PurgeErases(p) \/ PurgeFails(p) \/ PurgeRecords(p)
    PROVE  Cleared'
<1>1. CASE PurgeErases(p) \/ PurgeFails(p)
      BY <1>1, StaysCleared DEF PurgeErases, PurgeFails, rows, findings, Row
<1>2. CASE PurgeRecords(p)
  <2>1. /\ status' = [status EXCEPT ![p.file] = "purged"] /\ purged' = purged \cup {p.file}
        /\ text' = [text EXCEPT ![p.file] = "none"] /\ Row(p.file) /\ p.file \in Files
        /\ UNCHANGED <<clean, released, job>>
        BY <1>2, PurgeTyped DEF PurgeRecords, FilesInv
  <2>2. QED BY <2>1, StaysCleared DEF FilesInv, FilesTypeOK, Row, HandsOut
<1>3. QED BY <1>1, <1>2

LEMMA ListsCleared ==
    ASSUME FilesInv, SweepLists \/ \E t \in Threads : ThreadDeletes(t) PROVE Cleared'
BY StaysCleared DEF SweepLists, ThreadDeletes, rows, findings, Row

LEMMA CascadeCleared ==
    ASSUME FilesInv, NEW t \in Threads, ThreadGoes(t) \/ ThreadExpires(t) PROVE Cleared'
<1>1. Cascade(t)
      BY DEF ThreadGoes, ThreadExpires
<1>2. \A f \in Files :
         \/ f \in OfThread(t) /\ status'[f] = "gone" /\ text'[f] = "none"
         \/ /\ f \notin OfThread(t) /\ status'[f] = status[f] /\ text'[f] = text[f]
            /\ (f \in clean => f \in clean') /\ (f \in released => f \in released')
      BY <1>1 DEF Cascade
<1>3. job' = job /\ purged' = purged
      BY <1>1 DEF Cascade
<1>4. QED BY <1>2, <1>3, StaysCleared DEF HandsOut, Row

-----------------------------------------------------------------------------

LEMMA FilesStutterKeeps == ASSUME FilesInv, UNCHANGED fileVars PROVE FilesInv'
BY DEF fileVars, rows, findings, calls, FilesInv, FilesTypeOK, Shut, Uploading, PurgedIsErased,
       Cleared, OnlyClearedIsHandedOut, Downloadable, Row

LEMMA FileKeeps == ASSUME FilesInv, NEW f \in Files, FileSteps(f) PROVE FilesInv'
<1>1. CASE Purge(f)
  <2>1. PICK p \in purging : PurgeErases(p) \/ PurgeFails(p) \/ PurgeRecords(p)
        BY <1>1 DEF Purge
  <2>2. FilesTypeOK' /\ Cleared'
        BY <2>1, PurgingTyped, PurgingCleared DEF FilesInv
  <2>3. Shut'
        BY <2>1, ErasesShut, FailsShut, RecordsShut
  <2>4. QED BY <2>2, <2>3 DEF FilesInv
<1>2. CASE VisitorDeletes(f)
      BY <1>2, ListingTyped, ListingShut, WaitingCleared DEF FilesInv
<1>3. CASE \/ Write(f) \/ StageFails(f)
           \/ \E t \in Threads : BindReads(f, t) \/ BindWrites(f, t)
  <2>1. FilesTypeOK' /\ Cleared'
        BY <1>3, UploadTyped, WaitingCleared DEF FilesInv
  <2>2. Shut'
        BY <1>3, WriteShut, FileShut
  <2>3. QED BY <2>1, <2>2 DEF FilesInv
<1>4. CASE \E t \in Threads \cup {Unbound} : Stage(f, t)
      BY <1>4, UploadTyped, FileShut, StageCleared DEF FilesInv
<1>5. CASE Pipeline(f)
      BY <1>5, PipelineTyped, FileShut, PipelineCleared DEF FilesInv
<1>6. CASE Release(f) \/ Quarantine(f) \/ Expire(f)
      BY <1>6, TeamTyped, FileShut, ReleaseCleared, WaitingCleared DEF FilesInv
<1>7. QED BY <1>1, <1>2, <1>3, <1>4, <1>5, <1>6 DEF FileSteps

LEMMA ThreadKeeps ==
    ASSUME FilesInv,
           SweepLists \/ \E t \in Threads : ThreadDeletes(t) \/ ThreadGoes(t) \/ ThreadExpires(t)
    PROVE  FilesInv'
<1>1. CASE SweepLists \/ \E t \in Threads : ThreadDeletes(t)
      BY <1>1, ListingTyped, ListingShut, ListsCleared DEF FilesInv
<1>2. CASE \E t \in Threads : ThreadGoes(t) \/ ThreadExpires(t)
      BY <1>2, CascadeTyped, GoesShut, CascadeCleared DEF FilesInv
<1>3. QED BY <1>1, <1>2

LEMMA FilesNextKeeps == FilesInv /\ [FileNext]_fileVars => FilesInv'
BY FileKeeps, ThreadKeeps, FilesStutterKeeps DEF FileNext

LEMMA FilesInvariance == FileSpec => []FilesInv
<1>1. QED BY FilesInitEstablishes, FilesNextKeeps, PTL DEF FileSpec

\* Type correctness, for every number of files and threads.
THEOREM FilesTypeCorrect == FileSpec => []FilesTypeOK
<1>1. FilesInv => FilesTypeOK
      BY DEF FilesInv
<1>2. QED BY <1>1, FilesInvariance, PTL

\* No interleaving of uploads, purges by visitor, sweep and thread, failures and pipelines
\* records a purge whose bytes are still in the store (retention.purge).
THEOREM PurgeMeansErased == FileSpec => []PurgedIsErased
<1>1. FilesInv => PurgedIsErased
      BY DEF FilesInv, Shut
<1>2. QED BY <1>1, FilesInvariance, PTL

\* What may be fetched or read was scanned clean or released on the record, although the
\* pipeline saves statuses over whatever happened to the row (intake.process, is_downloadable).
THEOREM HandedOutIsCleared == FileSpec => []OnlyClearedIsHandedOut
<1>1. FilesInv => OnlyClearedIsHandedOut
      BY DEF FilesInv, Cleared
<1>2. QED BY <1>1, FilesInvariance, PTL

-----------------------------------------------------------------------------
(* Quiet files *)

Quiet(f) == job[f] = "idle" =>
    /\ status[f] = "quarantined" /\ Downloadable(f)' => status'[f] = "scanned" /\ f \in released'
    /\ f \in purged => /\ status'[f] \in {status[f], "purged", "gone"}
                       /\ text'[f] \in {text[f], "none"}

\* A file whose status and text a step leaves alone, or ends.
LEMMA UntouchedQuiet ==
    ASSUME NEW f, status'[f] \in {status[f], "purged", "gone"}, text'[f] \in {text[f], "none"}
    PROVE  Quiet(f)
BY DEF Quiet, Downloadable

LEMMA UploadQuiet ==
    ASSUME FilesInv, NEW f \in Files, NEW g \in Files,
           \/ Write(f) \/ StageFails(f) \/ \E t \in Threads \cup {Unbound} : Stage(f, t)
           \/ Release(f) \/ Quarantine(f)
    PROVE  Quiet(g)
<1>1. CASE g # f \/ StageFails(f)
      BY <1>1, UntouchedQuiet DEF Write, StageFails, Stage, Release, Quarantine, findings,
                                  FilesInv, FilesTypeOK
<1>2. CASE g = f /\ (Write(f) \/ \E t \in Threads \cup {Unbound} : Stage(f, t))
  <2>1. f \notin purged /\ status[f] # "quarantined"
        BY <1>2 DEF Write, Stage, FilesInv, Shut, Uploading
  <2>2. QED BY <1>2, <2>1 DEF Quiet
<1>3. CASE g = f /\ Release(f)
      BY <1>3 DEF Release, Releasable, Quiet, FilesInv, FilesTypeOK
<1>4. CASE g = f /\ Quarantine(f)
      BY <1>4 DEF Quarantine, Quiet, Downloadable, FilesInv, FilesTypeOK
<1>5. QED BY <1>1, <1>2, <1>3, <1>4

LEMMA PipelineQuiet == ASSUME FilesInv, NEW f \in Files, NEW g \in Files, Pipeline(f) PROVE Quiet(g)
<1>1. CASE g # f
  <2>1. status'[g] = status[g] /\ text'[g] = text[g]
        BY <1>1 DEF Pipeline, JobStarts, JobScans, JobRecords, JobApplies, JobExtracts, JobReads,
                    JobStores, JobReadies, JobExcerpts, JobDies, JobSaves, rows, findings,
                    FilesInv, FilesTypeOK
  <2>2. QED BY <2>1, UntouchedQuiet
<1>2. CASE g = f
  <2>1. job[f] # "idle"
        BY DEF Pipeline, JobStarts, JobScans, JobRecords, JobApplies, JobExtracts, JobReads,
               JobStores, JobReadies, JobExcerpts, JobDies
  <2>2. QED BY <1>2, <2>1 DEF Quiet
<1>3. QED BY <1>1, <1>2

LEMMA RowsQuiet ==
    ASSUME FilesInv, NEW g \in Files,
           \/ UNCHANGED fileVars
           \/ \E f \in Files : \/ Expire(f) \/ VisitorDeletes(f) \/ Purge(f)
                               \/ \E t \in Threads : BindReads(f, t) \/ BindWrites(f, t)
           \/ SweepLists
           \/ \E t \in Threads : ThreadDeletes(t) \/ ThreadGoes(t) \/ ThreadExpires(t)
    PROVE  Quiet(g)
<1>1. CASE \E p \in purging : PurgeRecords(p)
      BY <1>1, UntouchedQuiet DEF PurgeRecords, FilesInv, FilesTypeOK
<1>2. CASE \E t \in Threads : ThreadGoes(t) \/ ThreadExpires(t)
      BY <1>2, UntouchedQuiet DEF ThreadGoes, ThreadExpires, Cascade
<1>3. CASE UNCHANGED <<status, text>>
      BY <1>3, UntouchedQuiet
<1>4. QED BY <1>1, <1>2, <1>3 DEF fileVars, rows, findings, Expire, VisitorDeletes, Purge,
             PurgeErases, PurgeFails, BindReads, BindWrites, SweepLists, ThreadDeletes

LEMMA NextQuiet == ASSUME FilesInv, [FileNext]_fileVars, NEW g \in Files PROVE Quiet(g)
BY UploadQuiet, PipelineQuiet, RowsQuiet DEF FileNext, FileSteps

\* Without a pipeline run that still holds the file, only a release on the record lifts a
\* quarantine, and a purged file stays purged (attachment_review.release, intake.process).
THEOREM QuietFilesAreSafe == FileSpec => QuietFilesStayShut
<1>1. FilesInv /\ [FileNext]_fileVars =>
         [\A f \in Files : job[f] = "idle" =>
            /\ status[f] = "quarantined" /\ Downloadable(f)' =>
                  status'[f] = "scanned" /\ f \in released'
            /\ f \in purged => /\ status'[f] \in {status[f], "purged", "gone"}
                               /\ text'[f] \in {text[f], "none"}]_fileVars
      BY NextQuiet DEF Quiet
<1>2. QED BY <1>1, FilesInvariance, PTL DEF FileSpec, QuietFilesStayShut
=================================================================================
