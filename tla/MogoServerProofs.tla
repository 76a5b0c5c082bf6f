-------------------------- MODULE MogoServerProofs --------------------------
(***************************************************************************)
(* What holds of MogoServer for every number of jobs, uploads and paths.   *)
(***************************************************************************)
EXTENDS MogoServer, TLAPS

(***************************************************************************)
(* Types                                                                   *)
(***************************************************************************)

\* The records memory starts from, and what a child writes, have their types.
LEMMA BlankTypes ==
    /\ NoJob \in JobRecord
    /\ IdlePipe \in PipeRecord
    /\ NoUpload \in UploadRecord
    /\ \A s \in Stage : Outputs(s) \subseteq File
  BY DEF NoJob, JobRecord, Status, IdlePipe, PipeRecord, Stage, Kind,
         NoUpload, UploadRecord, Outputs, File

\* An entry keeps its type when a callback sets its status or a caption.
LEMMA EntryTypes ==
    ASSUME NEW r \in JobRecord
    PROVE  /\ \A s \in Status : [r EXCEPT !.status = s] \in JobRecord
           /\ [r EXCEPT !.vttOriginal = TRUE] \in JobRecord
           /\ [r EXCEPT !.vttEnglish = TRUE] \in JobRecord
  BY DEF JobRecord

LEMMA MemoryLostType ==
    ASSUME MemoryLost
    PROVE  /\ jobs' \in [Jobs -> JobRecord]
           /\ pipe' \in [Jobs -> PipeRecord]
           /\ up' \in [Uploads -> UploadRecord]
  BY BlankTypes DEF MemoryLost

LEMMA CrashType ==
    ASSUME Crash
    PROVE  /\ alive' \in BOOLEAN
           /\ jobs' \in [Jobs -> JobRecord]
           /\ pipe' \in [Jobs -> PipeRecord]
           /\ up' \in [Uploads -> UploadRecord]
  BY MemoryLostType DEF Crash

LEMMA AdvanceType ==
    ASSUME TypeOK, NEW j \in Jobs, NEW r \in JobRecord, NEW s \in Stage,
           Advance(j, r, s)
    PROVE  /\ alive' \in BOOLEAN
           /\ jobs' \in [Jobs -> JobRecord]
           /\ pipe' \in [Jobs -> PipeRecord]
           /\ up' \in [Uploads -> UploadRecord]
  <1>1. [pipe[j] EXCEPT !.stage = s] \in PipeRecord
    BY DEF TypeOK, PipeRecord
  <1>2. QED
    BY <1>1, BlankTypes DEF TypeOK, Advance

LEMMA FailedType ==
    ASSUME TypeOK, NEW j \in Jobs
    PROVE  Failed(j) \in JobRecord
  BY EntryTypes DEF TypeOK, Failed, Status

LEMMA PublishedType ==
    ASSUME TypeOK, NEW j \in Jobs, NEW p \in Paths, NEW listing
    PROVE  Published(j, p, listing) \in JobRecord
  <1>1. jobs[j] \in JobRecord
    BY DEF TypeOK
  <1>2. ("vtt" \in listing) \in BOOLEAN /\ ("vttEn" \in listing) \in BOOLEAN
    OBVIOUS
  <1>3. "r2_done" \in Status
    BY DEF Status
  <1>4. QED
    BY <1>1, <1>2, <1>3 DEF Published, JobRecord

LEMMA UploadFailsType ==
    ASSUME TypeOK, NEW t \in Uploads, up[t].job \in Jobs, UploadFails(t)
    PROVE  /\ alive' \in BOOLEAN
           /\ jobs' \in [Jobs -> JobRecord]
           /\ pipe' \in [Jobs -> PipeRecord]
           /\ up' \in [Uploads -> UploadRecord]
  <1>1. Failed(up[t].job) \in JobRecord
    BY FailedType
  <1>2. CASE Tracked(up[t].job)
    BY <1>1, <1>2, BlankTypes DEF TypeOK, UploadFails
  <1>3. CASE ~Tracked(up[t].job)
    BY <1>3, CrashType DEF UploadFails
  <1>4. QED
    BY <1>2, <1>3

\* An upload works through the listing of one job: what it has dealt with is
\* stored below its path.
UploadInv ==
    \A t \in Uploads :
       \/ up[t] = NoUpload
       \/ /\ up[t].job \in Jobs /\ up[t].path \in Paths
          /\ up[t].cur \in up[t].listing /\ up[t].todo \subseteq up[t].listing
          /\ up[t].listing \ (up[t].todo \cup {up[t].cur}) \subseteq bucket[up[t].path]
          /\ up[t].stored => up[t].cur \in bucket[up[t].path]

\* An upload that is under way belongs to a job.
LEMMA ActiveUpload ==
    ASSUME UploadInv, NEW t \in Uploads, up[t].stored \/ up[t].cur # None
    PROVE  /\ up[t].job \in Jobs /\ up[t].path \in Paths
           /\ up[t].cur \in up[t].listing /\ up[t].todo \subseteq up[t].listing
           /\ up[t].listing \ (up[t].todo \cup {up[t].cur}) \subseteq bucket[up[t].path]
           /\ up[t].stored => up[t].cur \in bucket[up[t].path]
  BY DEF UploadInv, NoUpload

\* Every step of the server, its children, R2 and the pages keeps the types.
LEMMA TypeStep ==
    ASSUME TypeOK, UploadInv, [Next]_vars
    PROVE  TypeOK'
  <1> USE DEF TypeOK
  <1>1. ASSUME NEW j \in Jobs, NEW kind \in Kind, NEW translate \in BOOLEAN,
               Process(j, kind, translate)
        PROVE  TypeOK'
    <2>1. [NoJob EXCEPT !.status = "compressing"] \in JobRecord
      BY BlankTypes, EntryTypes DEF Status
    <2>2. [stage |-> "compress", kind |-> kind, translate |-> translate] \in PipeRecord
      BY DEF PipeRecord, Stage
    <2>3. Outputs("compress") \subseteq File
      BY BlankTypes DEF Stage
    <2>4. QED
      BY <1>1, <2>1, <2>2, <2>3 DEF Process
  <1>2. ASSUME NEW j \in Jobs, RejectPodcast(j)
        PROVE  TypeOK'
    BY <1>2 DEF RejectPodcast
  <1>3. ASSUME NEW j \in Jobs, NEW f \in File, ChildWrites(j, f)
        PROVE  TypeOK'
    BY <1>3 DEF ChildWrites
  <1>4. ASSUME NEW j \in Jobs, ProgressEvent(j)
        PROVE  TypeOK'
    BY <1>4, CrashType DEF ProgressEvent
  <1>5. ASSUME NEW j \in Jobs, CompressEnd(j)
        PROVE  TypeOK'
    <2>1. [jobs[j] EXCEPT !.status = "whisper"] \in JobRecord
      BY EntryTypes DEF Status
    <2>2. "extract" \in Stage /\ Outputs("extract") \subseteq File
      BY BlankTypes DEF Stage
    <2>3. CASE Tracked(j) /\ (pipe[j].kind = "video" => j \in dirs)
      BY <1>5, <2>1, <2>2, <2>3, AdvanceType DEF CompressEnd
    <2>4. CASE ~(Tracked(j) /\ (pipe[j].kind = "video" => j \in dirs))
      BY <1>5, <2>4, CrashType DEF CompressEnd
    <2>5. QED
      BY <2>3, <2>4
  <1>6. ASSUME NEW j \in Jobs,
               \/ CompressError(j)
               \/ ExtractError(j)
               \/ WhisperError(j)
               \/ SpawnError(j)
        PROVE  TypeOK'
    <2>1. Failed(j) \in JobRecord /\ "idle" \in Stage /\ "closing" \in Stage
      BY FailedType DEF Stage
    <2>2. /\ Crash \/ Advance(j, Failed(j), "idle") \/ Advance(j, Failed(j), "closing")
          /\ writer' = [writer EXCEPT ![j] = {}]
          /\ raw' = raw \/ raw' = raw \ {j}
          /\ UNCHANGED <<issued, dirs, files, bucket>>
      BY <1>6 DEF CompressError, ExtractError, WhisperError, SpawnError
    <2>3. QED
      BY <2>1, <2>2, CrashType, AdvanceType
  <1>7. ASSUME NEW j \in Jobs, NEW found \in BOOLEAN, ExtractEnd(j, found)
        PROVE  TypeOK'
    <2>1. Failed(j) \in JobRecord /\ "idle" \in Stage
      BY FailedType DEF Stage
    <2>2. CASE found
      <3>1. [pipe[j] EXCEPT !.stage = "whisper"] \in PipeRecord
        BY DEF PipeRecord, Stage
      <3>2. Outputs("whisper") \subseteq File
        BY BlankTypes DEF Stage
      <3>3. QED
        BY <1>7, <2>2, <3>1, <3>2 DEF ExtractEnd
    <2>3. CASE ~found
      BY <1>7, <2>1, <2>3, CrashType, AdvanceType DEF ExtractEnd
    <2>4. QED
      BY <2>2, <2>3
  <1>8. ASSUME NEW j \in Jobs, NEW found \in BOOLEAN, WhisperSuccess(j, found)
        PROVE  TypeOK'
    <2> DEFINE record == [jobs[j] EXCEPT !.vttOriginal = TRUE]
    <2>1. record \in JobRecord
      BY EntryTypes
    <2>2. /\ [record EXCEPT !.status = "done"] \in JobRecord
          /\ [record EXCEPT !.status = "error"] \in JobRecord
          /\ [record EXCEPT !.status = "translating"] \in JobRecord
      BY <2>1, EntryTypes DEF Status
    <2>3. {"idle", "translate"} \subseteq Stage /\ Outputs("translate") \subseteq File
      BY BlankTypes DEF Stage
    <2>4. CASE ~Tracked(j)
      BY <1>8, <2>4, CrashType DEF WhisperSuccess
    <2>5. CASE Tracked(j) /\ ~pipe[j].translate
      BY <1>8, <2>2, <2>3, <2>5, AdvanceType DEF WhisperSuccess, Finish
    <2>6. CASE Tracked(j) /\ pipe[j].translate
      BY <1>8, <2>2, <2>3, <2>6, AdvanceType DEF WhisperSuccess
    <2>7. QED
      BY <2>4, <2>5, <2>6
  <1>9. ASSUME NEW j \in Jobs, TranslateSuccess(j)
        PROVE  TypeOK'
    <2> DEFINE record == [jobs[j] EXCEPT !.vttEnglish = TRUE]
    <2>1. [record EXCEPT !.status = "done"] \in JobRecord /\ "idle" \in Stage
      BY EntryTypes DEF Status, Stage
    <2>2. CASE Tracked(j)
      BY <1>9, <2>1, <2>2, AdvanceType DEF TranslateSuccess, Finish
    <2>3. CASE ~Tracked(j)
      BY <1>9, <2>3, CrashType DEF TranslateSuccess
    <2>4. QED
      BY <2>2, <2>3
  <1>10. ASSUME NEW t \in Uploads, NEW j \in Jobs, NEW p \in Paths,
                NEW named \in BOOLEAN, UploadToR2(t, j, p, named)
         PROVE  TypeOK'
    <2>1. [jobs[j] EXCEPT !.status = "uploading_r2"] \in JobRecord
      BY EntryTypes DEF Status
    <2>2. Failed(j) \in JobRecord /\ Published(j, p, files[j]) \in JobRecord
      BY FailedType, PublishedType
    <2>3. \A f \in First(files[j]) :
             [job |-> j, path |-> p, listing |-> files[j],
              todo |-> files[j] \ {f}, cur |-> f, stored |-> FALSE] \in UploadRecord
      BY DEF UploadRecord, First
    <2>4. QED
      BY <1>10, <2>1, <2>2, <2>3 DEF UploadToR2, RemoveFolder
  <1>11. ASSUME NEW t \in Uploads, R2Stores(t)
         PROVE  TypeOK'
    <2>1. up[t].cur \in File /\ [up[t] EXCEPT !.stored = TRUE] \in UploadRecord
      BY <1>11 DEF R2Stores, UploadRecord
    <2>2. QED
      BY <1>11, <2>1 DEF R2Stores
  <1>12. ASSUME NEW t \in Uploads, PutNext(t) \/ PutLast(t) \/ PutRejected(t)
         PROVE  TypeOK'
    <2>1. up[t].job \in Jobs /\ up[t].path \in Paths
      BY <1>12, ActiveUpload DEF PutNext, PutLast, PutRejected
    <2>2. CASE UploadFails(t) /\ UNCHANGED <<issued, dirs, files, raw, writer, bucket>>
      BY <2>1, <2>2, UploadFailsType
    <2>3. CASE PutNext(t) /\ ~UploadFails(t)
      <3>1. PICK f \in First(up[t].todo) :
               /\ up' = [up EXCEPT ![t].todo = @ \ {f}, ![t].cur = f, ![t].stored = FALSE]
               /\ UNCHANGED <<alive, jobs, pipe>>
        BY <2>3 DEF PutNext
      <3>2. [up[t] EXCEPT !.todo = @ \ {f}, !.cur = f, !.stored = FALSE] \in UploadRecord
        BY <3>1 DEF UploadRecord, First
      <3>3. QED
        BY <2>3, <3>1, <3>2 DEF PutNext
    <2>4. CASE PutLast(t) /\ ~(UploadFails(t) /\ UNCHANGED <<dirs, files>>)
      <3>1. Published(up[t].job, up[t].path, up[t].listing) \in JobRecord
        BY <2>1, PublishedType
      <3>2. /\ dirs' = dirs \ {up[t].job} /\ files' = [files EXCEPT ![up[t].job] = {}]
            /\ jobs' = [jobs EXCEPT ![up[t].job] =
                           Published(up[t].job, up[t].path, up[t].listing)]
            /\ up' = [up EXCEPT ![t] = NoUpload]
            /\ UNCHANGED <<alive, pipe, issued, raw, writer, bucket>>
        BY <2>4 DEF PutLast, RemoveFolder
      <3>3. QED
        BY <2>1, <3>1, <3>2, BlankTypes
    <2>5. QED
      BY <1>12, <2>2, <2>3, <2>4 DEF PutNext, PutLast, PutRejected
  <1>13. ASSUME NEW j \in Jobs, Cancel(j)
         PROVE  TypeOK'
    BY <1>13, BlankTypes DEF Cancel, RemoveFolder
  <1>14. CASE Restart
    BY <1>14 DEF Restart
  <1>15. CASE Deploy
    BY <1>15, MemoryLostType DEF Deploy
  <1>16. CASE UNCHANGED vars
    BY <1>16 DEF vars
  <1>17. QED
    BY <1>1, <1>2, <1>3, <1>4, <1>5, <1>6, <1>7, <1>8, <1>9, <1>10, <1>11, <1>12,
       <1>13, <1>14, <1>15, <1>16 DEF Next, Work, Requests

-----------------------------------------------------------------------------
(***************************************************************************)
(* Uploads                                                                 *)
(***************************************************************************)

\* A step that leaves R2 alone, and every upload as it is or blank, is harmless.
LEMMA UploadsFrame ==
    ASSUME UploadInv, bucket' = bucket,
           \A t \in Uploads : up'[t] = up[t] \/ up'[t] = NoUpload
    PROVE  UploadInv'
  BY DEF UploadInv

LEMMA CrashUploads ==
    ASSUME MemoryLost
    PROVE  \A t \in Uploads : up'[t] = NoUpload
  BY DEF MemoryLost

LEMMA UploadStep ==
    ASSUME TypeOK, UploadInv, [Next]_vars
    PROVE  UploadInv'
  <1>1. ASSUME NEW j \in Jobs,
               \/ \E kind \in Kind, translate \in BOOLEAN : Process(j, kind, translate)
               \/ RejectPodcast(j) \/ \E f \in File : ChildWrites(j, f)
               \/ ProgressEvent(j) \/ CompressEnd(j) \/ CompressError(j)
               \/ ExtractError(j) \/ \E found \in BOOLEAN : ExtractEnd(j, found)
               \/ SpawnError(j) \/ WhisperError(j)
               \/ \E found \in BOOLEAN : WhisperSuccess(j, found)
               \/ TranslateSuccess(j) \/ Cancel(j)
        PROVE  UploadInv'
    <2>1. bucket' = bucket /\ (UNCHANGED up \/ MemoryLost)
      BY <1>1 DEF Process, RejectPodcast, ChildWrites, ProgressEvent, CompressEnd,
                  CompressError, ExtractError, ExtractEnd, SpawnError, WhisperError,
                  WhisperSuccess, TranslateSuccess, Cancel, Crash, Advance, Finish
    <2>2. QED
      BY <2>1, CrashUploads, UploadsFrame
  <1>2. ASSUME NEW t \in Uploads, NEW j \in Jobs, NEW p \in Paths,
               NEW named \in BOOLEAN, UploadToR2(t, j, p, named)
        PROVE  UploadInv'
    <2>1. CASE UNCHANGED up
      BY <1>2, <2>1, UploadsFrame DEF UploadToR2
    <2>2. CASE ~UNCHANGED up
      <3>1. PICK f \in First(files[j]) :
               up' = [up EXCEPT ![t] =
                        [job |-> j, path |-> p, listing |-> files[j],
                         todo |-> files[j] \ {f}, cur |-> f, stored |-> FALSE]]
        BY <1>2, <2>2 DEF UploadToR2
      <3>2. bucket' = bucket /\ f \in files[j]
        BY <1>2 DEF UploadToR2, First
      <3>3. QED
        BY <3>1, <3>2 DEF UploadInv, TypeOK
    <2>3. QED
      BY <2>1, <2>2
  <1>3. ASSUME NEW t \in Uploads, R2Stores(t)
        PROVE  UploadInv'
    <2>1. /\ up[t].job \in Jobs /\ up[t].path \in Paths
          /\ up[t].cur \in up[t].listing /\ up[t].todo \subseteq up[t].listing
          /\ up[t].listing \ (up[t].todo \cup {up[t].cur}) \subseteq bucket[up[t].path]
      BY <1>3, ActiveUpload DEF R2Stores
    <2>2. /\ up' = [up EXCEPT ![t].stored = TRUE]
          /\ \A p \in Paths : bucket[p] \subseteq bucket'[p]
          /\ up[t].cur \in bucket'[up[t].path]
      BY <1>3, <2>1 DEF R2Stores, TypeOK
    <2>3. \A s \in Uploads \ {t} : up'[s] = up[s]
      BY <2>2 DEF TypeOK
    <2>4. /\ up'[t].job = up[t].job /\ up'[t].path = up[t].path
          /\ up'[t].listing = up[t].listing /\ up'[t].todo = up[t].todo
          /\ up'[t].cur = up[t].cur
      BY <2>2 DEF TypeOK, UploadRecord
    <2>5. QED
      BY <2>1, <2>2, <2>3, <2>4 DEF UploadInv
  <1>4. ASSUME NEW t \in Uploads, PutNext(t) \/ PutLast(t) \/ PutRejected(t)
        PROVE  UploadInv'
    <2>1. /\ up[t].job \in Jobs /\ up[t].path \in Paths
          /\ up[t].cur \in up[t].listing /\ up[t].todo \subseteq up[t].listing
          /\ up[t].listing \ (up[t].todo \cup {up[t].cur}) \subseteq bucket[up[t].path]
          /\ up[t].stored => up[t].cur \in bucket[up[t].path]
      BY <1>4, ActiveUpload DEF PutNext, PutLast, PutRejected
    <2>2. bucket' = bucket
      BY <1>4 DEF PutNext, PutLast, PutRejected
    <2>3. CASE UploadFails(t)
      BY <2>2, <2>3, CrashUploads, UploadsFrame DEF UploadFails, Crash, TypeOK
    <2>4. CASE PutLast(t) /\ ~UploadFails(t)
      BY <2>2, <2>4, UploadsFrame DEF PutLast, TypeOK
    <2>5. CASE PutNext(t) /\ ~UploadFails(t)
      <3>1. PICK f \in First(up[t].todo) :
               up' = [up EXCEPT ![t].todo = @ \ {f}, ![t].cur = f, ![t].stored = FALSE]
        BY <2>5 DEF PutNext
      <3>2. \A s \in Uploads \ {t} : up'[s] = up[s]
        BY <3>1 DEF TypeOK
      <3>3. /\ up'[t].job = up[t].job /\ up'[t].path = up[t].path
            /\ up'[t].listing = up[t].listing /\ up'[t].todo = up[t].todo \ {f}
            /\ up'[t].cur = f /\ ~up'[t].stored
        BY <3>1 DEF TypeOK, UploadRecord
      <3>4. f \in up[t].listing
        BY <2>1 DEF First
      <3>5. QED
        BY <2>1, <2>2, <2>5, <3>2, <3>3, <3>4 DEF UploadInv, PutNext
    <2>6. QED
      BY <1>4, <2>3, <2>4, <2>5 DEF PutRejected
  <1>5. CASE Restart \/ Deploy \/ UNCHANGED vars
    BY <1>5, CrashUploads, UploadsFrame DEF Restart, Deploy, vars
  <1>6. QED
    BY <1>1, <1>2, <1>3, <1>4, <1>5 DEF Next, Work, Requests

-----------------------------------------------------------------------------
(***************************************************************************)
(* What a step does to the entries and to the work of the jobs             *)
(***************************************************************************)

\* The work behind the status of one job.
Backed(j) ==
    /\ jobs[j].status = "compressing" => pipe[j].stage = "compress"
    /\ jobs[j].status = "whisper" => pipe[j].stage \in {"extract", "whisper"}
    /\ jobs[j].status = "translating" => pipe[j].stage = "translate"
    /\ jobs[j].status = "uploading_r2" => \E t \in Uploads : Uploading(t, j)

LEMMA MemoryLostBacked ==
    ASSUME MemoryLost
    PROVE  BusyHasWorker'
  BY DEF MemoryLost, BusyHasWorker, NoJob

\* A callback that sets one entry, and takes no upload away, is safe if the
\* new entry is backed.
LEMMA BackedFrame ==
    ASSUME BusyHasWorker, NEW j \in Jobs, up' = up, Backed(j)',
           \A i \in Jobs \ {j} : jobs'[i] = jobs[i] /\ pipe'[i] = pipe[i]
    PROVE  BusyHasWorker'
  BY DEF BusyHasWorker, Backed, Uploading

\* What Advance leaves behind, field by field.
LEMMA AdvanceEffect ==
    ASSUME TypeOK, NEW j \in Jobs, NEW r, NEW s \in Stage, Advance(j, r, s)
    PROVE  /\ jobs'[j] = r /\ pipe'[j].stage = s
           /\ \A i \in Jobs \ {j} : jobs'[i] = jobs[i] /\ pipe'[i] = pipe[i]
           /\ UNCHANGED <<alive, up>>
  BY DEF TypeOK, Advance, PipeRecord, IdlePipe

\* Handing over to a stage that works for the new status, or to none with a
\* status nobody waits on.
LEMMA AdvanceBacked ==
    ASSUME TypeOK, BusyHasWorker, NEW j \in Jobs, NEW r \in JobRecord, NEW s \in Stage,
           Advance(j, r, s),
           \/ r.status \in {"done", "error"}
           \/ r.status = "whisper" /\ s = "extract"
           \/ r.status = "translating" /\ s = "translate"
    PROVE  BusyHasWorker'
  <1>1. Backed(j)'
    BY AdvanceEffect DEF Backed
  <1>2. QED
    BY <1>1, AdvanceEffect, BackedFrame

LEMMA StatusSet ==
    ASSUME NEW r \in JobRecord, NEW s
    PROVE  [r EXCEPT !.status = s].status = s
  BY DEF JobRecord

\* The catch block leaves an error on the one job whose upload ends.
LEMMA UploadFailsBacked ==
    ASSUME TypeOK, BusyHasWorker, NEW t \in Uploads, up[t].job \in Jobs, UploadFails(t)
    PROVE  BusyHasWorker'
  <1>1. CASE Tracked(up[t].job)
    <2> DEFINE j == up[t].job
    <2>1. /\ jobs' = [jobs EXCEPT ![j] = Failed(j)]
          /\ up' = [up EXCEPT ![t] = NoUpload]
          /\ UNCHANGED pipe
      BY <1>1 DEF UploadFails
    <2>2. jobs'[j].status = "error"
      BY <2>1, StatusSet DEF TypeOK, Failed
    <2>3. \A i \in Jobs \ {j} : jobs'[i] = jobs[i]
      BY <2>1 DEF TypeOK
    <2>4. \A i \in Jobs \ {j} : \A s \in Uploads : Uploading(s, i) => Uploading(s, i)'
      BY <2>1 DEF TypeOK, Uploading
    <2>5. QED
      BY <2>1, <2>2, <2>3, <2>4 DEF BusyHasWorker
  <1>2. CASE ~Tracked(up[t].job)
    BY <1>2, MemoryLostBacked DEF UploadFails, Crash
  <1>3. QED
    BY <1>1, <1>2

LEMMA BusyStep ==
    ASSUME TypeOK, UploadInv, BusyHasWorker, [Next]_vars
    PROVE  BusyHasWorker'
  <1>1. ASSUME NEW j \in Jobs, NEW kind \in Kind, NEW translate \in BOOLEAN,
               Process(j, kind, translate)
        PROVE  BusyHasWorker'
    <2>1. /\ pipe'[j].stage = "compress" /\ up' = up
          /\ jobs'[j] = [NoJob EXCEPT !.status = "compressing"]
          /\ \A i \in Jobs \ {j} : jobs'[i] = jobs[i] /\ pipe'[i] = pipe[i]
      BY <1>1 DEF Process, TypeOK
    <2>2. jobs'[j].status = "compressing"
      BY <2>1, BlankTypes, StatusSet
    <2>3. QED
      BY <2>1, <2>2, BackedFrame DEF Backed
  <1>2. ASSUME NEW j \in Jobs,
               RejectPodcast(j) \/ \E f \in File : ChildWrites(j, f)
        PROVE  BusyHasWorker'
    BY <1>2 DEF RejectPodcast, ChildWrites, BusyHasWorker, Uploading
  <1>3. CASE MemoryLost
    BY <1>3, MemoryLostBacked
  <1>4. ASSUME NEW j \in Jobs, CompressEnd(j), ~MemoryLost
        PROVE  BusyHasWorker'
    <2> DEFINE r == [jobs[j] EXCEPT !.status = "whisper"]
    <2>1. r \in JobRecord /\ r.status = "whisper"
      BY EntryTypes, StatusSet DEF TypeOK, Status
    <2>2. Advance(j, r, "extract") /\ "extract" \in Stage
      BY <1>4 DEF CompressEnd, Crash, Stage
    <2>3. QED
      BY <2>1, <2>2, AdvanceBacked
  <1>5. ASSUME NEW j \in Jobs, ~MemoryLost,
               CompressError(j) \/ ExtractError(j) \/ WhisperError(j) \/ SpawnError(j)
        PROVE  BusyHasWorker'
    <2>1. Failed(j) \in JobRecord /\ Failed(j).status = "error"
      BY FailedType, StatusSet DEF TypeOK, Failed
    <2>2. Advance(j, Failed(j), "idle") \/ Advance(j, Failed(j), "closing")
      BY <1>5 DEF CompressError, ExtractError, WhisperError, SpawnError, Crash
    <2>3. "idle" \in Stage /\ "closing" \in Stage
      BY DEF Stage
    <2>4. QED
      BY <2>1, <2>2, <2>3, AdvanceBacked
  <1>6. ASSUME NEW j \in Jobs, NEW found \in BOOLEAN, ExtractEnd(j, found), ~MemoryLost
        PROVE  BusyHasWorker'
    <2>1. CASE found
      <3>1. /\ pipe[j].stage = "extract" /\ pipe'[j].stage = "whisper"
            /\ \A i \in Jobs \ {j} : pipe'[i] = pipe[i]
            /\ UNCHANGED <<jobs, up>>
        BY <1>6, <2>1 DEF ExtractEnd, TypeOK, PipeRecord
      <3>2. QED
        BY <3>1, BackedFrame DEF BusyHasWorker, Backed, Uploading
    <2>2. CASE ~found
      <3>1. Failed(j) \in JobRecord /\ Failed(j).status = "error" /\ "idle" \in Stage
        BY FailedType, StatusSet DEF TypeOK, Failed, Stage
      <3>2. Advance(j, Failed(j), "idle")
        BY <1>6, <2>2 DEF ExtractEnd, Crash
      <3>3. QED
        BY <3>1, <3>2, AdvanceBacked
    <2>3. QED
      BY <2>1, <2>2
  <1>7. ASSUME NEW j \in Jobs, NEW found \in BOOLEAN, WhisperSuccess(j, found), ~MemoryLost
        PROVE  BusyHasWorker'
    <2> DEFINE record == [jobs[j] EXCEPT !.vttOriginal = TRUE]
               After(s) == [record EXCEPT !.status = s]
    <2>1. record \in JobRecord
      BY EntryTypes DEF TypeOK
    <2>2. \A s \in {"done", "error", "translating"} :
             After(s) \in JobRecord /\ After(s).status = s
      BY <2>1, EntryTypes, StatusSet DEF Status
    <2>3. \/ Advance(j, After("done"), "idle")
          \/ Advance(j, After("error"), "idle")
          \/ Advance(j, After("translating"), "translate")
      BY <1>7 DEF WhisperSuccess, Finish, Crash
    <2>4. "idle" \in Stage /\ "translate" \in Stage
      BY DEF Stage
    <2> HIDE DEF record, After
    <2>5. QED
      BY <2>2, <2>3, <2>4, AdvanceBacked
  <1>8. ASSUME NEW j \in Jobs, TranslateSuccess(j), ~MemoryLost
        PROVE  BusyHasWorker'
    <2> DEFINE record == [jobs[j] EXCEPT !.vttEnglish = TRUE]
               after == [record EXCEPT !.status = "done"]
    <2>1. record \in JobRecord
      BY EntryTypes DEF TypeOK
    <2>2. after \in JobRecord /\ after.status = "done" /\ "idle" \in Stage
      BY <2>1, EntryTypes, StatusSet DEF Status, Stage
    <2>3. Advance(j, after, "idle")
      BY <1>8 DEF TranslateSuccess, Finish, Crash
    <2> HIDE DEF record, after
    <2>4. QED
      BY <2>2, <2>3, AdvanceBacked
  <1>9. ASSUME NEW t \in Uploads, NEW j \in Jobs, NEW p \in Paths,
               NEW named \in BOOLEAN, UploadToR2(t, j, p, named)
        PROVE  BusyHasWorker'
    <2>1. /\ up[t] = NoUpload /\ UNCHANGED pipe
          /\ \A i \in Jobs \ {j} : jobs'[i] = jobs[i]
      BY <1>9 DEF UploadToR2, TypeOK
    <2>2. \A s \in Uploads, i \in Jobs : Uploading(s, i) => Uploading(s, i)'
      BY <1>9, ConstantsAssumption DEF UploadToR2, TypeOK, NoUpload, Uploading
    <2>3. CASE jobs' = [jobs EXCEPT ![j] = Published(j, p, files[j])]
      <3>1. jobs'[j].status = "r2_done"
        BY <2>3 DEF Published, JobRecord, TypeOK
      <3>2. QED
        BY <2>1, <2>2, <3>1 DEF BusyHasWorker
    <2>4. CASE jobs' = [jobs EXCEPT ![j] = Failed(j)]
      <3>1. jobs'[j].status = "error"
        BY <2>4 DEF Failed, JobRecord, TypeOK
      <3>2. QED
        BY <2>1, <2>2, <3>1 DEF BusyHasWorker
    <2>5. CASE jobs' = [jobs EXCEPT ![j].status = "uploading_r2"] /\ Uploading(t, j)'
      <3>1. jobs'[j].status = "uploading_r2"
        BY <2>5 DEF JobRecord, TypeOK
      <3>2. QED
        BY <2>1, <2>2, <2>5, <3>1 DEF BusyHasWorker
    <2>6. QED
      BY <1>9, <2>3, <2>4, <2>5 DEF UploadToR2, Uploading, TypeOK
  <1>10. ASSUME NEW t \in Uploads, R2Stores(t)
         PROVE  BusyHasWorker'
    <2>1. \A s \in Uploads : up'[s].job = up[s].job
      BY <1>10 DEF R2Stores, TypeOK, UploadRecord
    <2>2. QED
      BY <1>10, <2>1 DEF R2Stores, BusyHasWorker, Uploading
  <1>11. ASSUME NEW t \in Uploads, PutNext(t) \/ PutLast(t) \/ PutRejected(t)
         PROVE  BusyHasWorker'
    <2>1. up[t].job \in Jobs
      BY <1>11, ActiveUpload DEF PutNext, PutLast, PutRejected
    <2>2. CASE UploadFails(t)
      BY <2>1, <2>2, UploadFailsBacked
    <2>3. CASE PutNext(t) /\ ~UploadFails(t)
      <3>1. PICK f \in First(up[t].todo) :
               /\ up' = [up EXCEPT ![t].todo = @ \ {f}, ![t].cur = f, ![t].stored = FALSE]
               /\ UNCHANGED <<alive, jobs, pipe>>
        BY <2>3 DEF PutNext
      <3>2. \A s \in Uploads : up'[s].job = up[s].job
        BY <3>1 DEF TypeOK, UploadRecord
      <3>3. jobs' = jobs /\ pipe' = pipe
        BY <3>1
      <3>4. QED
        BY <3>2, <3>3 DEF BusyHasWorker, Uploading
    <2>4. CASE PutLast(t) /\ ~UploadFails(t)
      <3> DEFINE j == up[t].job
      <3>1. /\ jobs' = [jobs EXCEPT ![j] = Published(j, up[t].path, up[t].listing)]
            /\ up' = [up EXCEPT ![t] = NoUpload]
            /\ UNCHANGED pipe
        BY <2>4 DEF PutLast
      <3>2. jobs'[j].status = "r2_done"
        BY <2>1, <3>1 DEF Published, JobRecord, TypeOK
      <3>3. \A i \in Jobs \ {j} :
               /\ jobs'[i] = jobs[i]
               /\ \A s \in Uploads : Uploading(s, i) => Uploading(s, i)'
        BY <2>1, <3>1 DEF TypeOK, Uploading
      <3>4. QED
        BY <2>1, <3>1, <3>2, <3>3 DEF BusyHasWorker
    <2>5. QED
      BY <1>11, <2>2, <2>3, <2>4 DEF PutRejected
  <1>12. ASSUME NEW j \in Jobs, Cancel(j)
         PROVE  BusyHasWorker'
    <2>1. /\ jobs'[j] = NoJob /\ UNCHANGED <<pipe, up>>
          /\ \A i \in Jobs \ {j} : jobs'[i] = jobs[i]
      BY <1>12 DEF Cancel, TypeOK
    <2>2. QED
      BY <2>1, BackedFrame DEF Backed, NoJob
  <1>13. CASE Restart \/ UNCHANGED vars
    BY <1>13 DEF Restart, vars, BusyHasWorker, Uploading
  <1>14. ASSUME NEW j \in Jobs, ProgressEvent(j)
         PROVE  MemoryLost
    BY <1>14 DEF ProgressEvent, Crash
  <1>15. QED
    BY <1>1, <1>2, <1>3, <1>4, <1>5, <1>6, <1>7, <1>8, <1>9, <1>10, <1>11, <1>12,
       <1>13, <1>14 DEF Next, Work, Requests, Deploy

-----------------------------------------------------------------------------
(***************************************************************************)
(* What a step does to the links of a job and to its folder                *)
(***************************************************************************)

SameLinks(old, new) ==
    /\ new.finalUrl = old.finalUrl
    /\ new.finalVttOriginal = old.finalVttOriginal
    /\ new.finalVttEnglish = old.finalVttEnglish

\* A callback writes one entry and leaves its links; it never reports "published".
Reported(j) ==
    /\ SameLinks(jobs[j], jobs'[j])
    /\ jobs'[j].status # "r2_done"

\* An entry is lost or new.
Blank(j) == jobs'[j].finalUrl = None /\ jobs'[j].status # "r2_done"

\* An upload has stored its whole listing, and the folder is gone.
GetsPublished(j) ==
    /\ j \notin dirs'
    /\ \E p \in Paths, listing \in SUBSET File :
          listing \subseteq bucket[p] /\ jobs'[j] = Published(j, p, listing)

EntryEffect(j) ==
    \/ (jobs'[j] = jobs[j] \/ Reported(j)) /\ (j \in dirs' => j \in dirs)
    \/ Blank(j)
    \/ GetsPublished(j)

LEMMA MemoryLostEffect ==
    ASSUME MemoryLost
    PROVE  \A j \in Jobs : EntryEffect(j)
  BY DEF MemoryLost, EntryEffect, Blank, NoJob

\* What a pipeline callback puts into an entry.
LEMMA AdvanceEntry ==
    ASSUME TypeOK, NEW j \in Jobs, NEW r, NEW s \in Stage, Advance(j, r, s),
           SameLinks(jobs[j], r), r.status # "r2_done", UNCHANGED dirs
    PROVE  \A i \in Jobs : EntryEffect(i)
  BY AdvanceEffect DEF EntryEffect, Reported

LEMMA FailedEntry ==
    ASSUME TypeOK, NEW j \in Jobs
    PROVE  SameLinks(jobs[j], Failed(j)) /\ Failed(j).status # "r2_done"
  BY DEF TypeOK, JobRecord, SameLinks, Failed

LEMMA UploadFailsEffect ==
    ASSUME TypeOK, NEW t \in Uploads, up[t].job \in Jobs, UploadFails(t), UNCHANGED dirs
    PROVE  \A i \in Jobs : EntryEffect(i)
  <1>1. CASE Tracked(up[t].job)
    <2> DEFINE j == up[t].job
    <2>1. jobs' = [jobs EXCEPT ![j] = Failed(j)]
      BY <1>1 DEF UploadFails
    <2>2. SameLinks(jobs[j], Failed(j)) /\ Failed(j).status # "r2_done"
      BY FailedEntry
    <2>3. jobs'[j] = Failed(j) /\ \A i \in Jobs \ {j} : jobs'[i] = jobs[i]
      BY <2>1 DEF TypeOK
    <2>4. QED
      BY <2>2, <2>3 DEF EntryEffect, Reported
  <1>2. CASE ~Tracked(up[t].job)
    BY <1>2, MemoryLostEffect DEF UploadFails, Crash
  <1>3. QED
    BY <1>1, <1>2

LEMMA EntryStep ==
    ASSUME TypeOK, UploadInv, [Next]_vars
    PROVE  \A i \in Jobs : EntryEffect(i)
  <1>1. CASE MemoryLost
    BY <1>1, MemoryLostEffect
  <1>2. CASE UNCHANGED jobs /\ dirs' \subseteq dirs
    BY <1>2 DEF EntryEffect
  <1>3. ASSUME NEW j \in Jobs, NEW kind \in Kind, NEW translate \in BOOLEAN,
               Process(j, kind, translate)
        PROVE  \A i \in Jobs : EntryEffect(i)
    <2>1. /\ jobs'[j] = [NoJob EXCEPT !.status = "compressing"]
          /\ \A i \in Jobs \ {j} : jobs'[i] = jobs[i] /\ (i \in dirs' => i \in dirs)
      BY <1>3 DEF Process, TypeOK
    <2>2. QED
      BY <2>1 DEF EntryEffect, Blank, NoJob
  <1>4. ASSUME NEW j \in Jobs, Cancel(j)
        PROVE  \A i \in Jobs : EntryEffect(i)
    <2>1. /\ jobs'[j] = NoJob
          /\ \A i \in Jobs \ {j} : jobs'[i] = jobs[i] /\ (i \in dirs' => i \in dirs)
      BY <1>4 DEF Cancel, RemoveFolder, TypeOK
    <2>2. QED
      BY <2>1 DEF EntryEffect, Blank, NoJob
  <1>5. ASSUME NEW j \in Jobs, ~MemoryLost, ~UNCHANGED jobs,
               \/ CompressEnd(j) \/ CompressError(j) \/ ExtractError(j)
               \/ \E found \in BOOLEAN : ExtractEnd(j, found)
               \/ SpawnError(j) \/ WhisperError(j)
        PROVE  \A i \in Jobs : EntryEffect(i)
    <2>1. \E r \in {[jobs[j] EXCEPT !.status = "whisper"], Failed(j)}, s \in Stage :
             Advance(j, r, s)
      BY <1>5 DEF CompressEnd, CompressError, ExtractError, ExtractEnd, SpawnError,
                  WhisperError, Crash, Stage
    <2>2. UNCHANGED dirs
      BY <1>5 DEF CompressEnd, CompressError, ExtractError, ExtractEnd, SpawnError,
                  WhisperError
    <2>3. \A r \in {[jobs[j] EXCEPT !.status = "whisper"], Failed(j)} :
             SameLinks(jobs[j], r) /\ r.status # "r2_done"
      BY FailedEntry DEF TypeOK, JobRecord, SameLinks
    <2>4. QED
      BY <2>1, <2>2, <2>3, AdvanceEntry
  <1>6. ASSUME NEW j \in Jobs, ~MemoryLost,
               (\E found \in BOOLEAN : WhisperSuccess(j, found)) \/ TranslateSuccess(j)
        PROVE  \A i \in Jobs : EntryEffect(i)
    <2> DEFINE A(st) == [jobs[j] EXCEPT !.vttOriginal = TRUE, !.status = st]
               B(st) == [jobs[j] EXCEPT !.vttEnglish = TRUE, !.status = st]
    <2>1. /\ \A st : A(st) = [[jobs[j] EXCEPT !.vttOriginal = TRUE] EXCEPT !.status = st]
          /\ \A st : B(st) = [[jobs[j] EXCEPT !.vttEnglish = TRUE] EXCEPT !.status = st]
      OBVIOUS
    <2>2. \E r \in {A("done"), A("translating"), A("error"), B("done")}, s \in Stage :
             Advance(j, r, s)
      BY <1>6, <2>1 DEF WhisperSuccess, TranslateSuccess, Finish, Crash, Stage
    <2>3. UNCHANGED dirs
      BY <1>6 DEF WhisperSuccess, TranslateSuccess
    <2>4. \A r \in {A("done"), A("translating"), A("error"), B("done")} :
             SameLinks(jobs[j], r) /\ r.status # "r2_done"
      BY DEF TypeOK, JobRecord, SameLinks
    <2> HIDE DEF A, B
    <2>5. QED
      BY <2>2, <2>3, <2>4, AdvanceEntry
  <1>7. ASSUME NEW t \in Uploads, NEW j \in Jobs, NEW p \in Paths,
               NEW named \in BOOLEAN, UploadToR2(t, j, p, named)
        PROVE  \A i \in Jobs : EntryEffect(i)
    <2>1. \A i \in Jobs \ {j} : jobs'[i] = jobs[i] /\ (i \in dirs' => i \in dirs)
      BY <1>7 DEF UploadToR2, RemoveFolder, TypeOK
    <2>2. CASE jobs' = [jobs EXCEPT ![j] = Failed(j)] /\ UNCHANGED dirs
      <3>1. jobs'[j] = Failed(j) /\ SameLinks(jobs[j], Failed(j)) /\ Failed(j).status # "r2_done"
        BY <2>2, FailedEntry DEF TypeOK
      <3>2. QED
        BY <2>1, <2>2, <3>1 DEF EntryEffect, Reported
    <2>3. CASE jobs' = [jobs EXCEPT ![j].status = "uploading_r2"] /\ UNCHANGED dirs
      <3>1. jobs'[j] = [jobs[j] EXCEPT !.status = "uploading_r2"]
        BY <2>3 DEF TypeOK
      <3>2. SameLinks(jobs[j], jobs'[j]) /\ jobs'[j].status # "r2_done"
        BY <3>1 DEF TypeOK, JobRecord, SameLinks
      <3>3. QED
        BY <2>1, <2>3, <3>2 DEF EntryEffect, Reported
    <2>4. CASE /\ jobs' = [jobs EXCEPT ![j] = Published(j, p, files[j])]
               /\ files[j] = {} /\ dirs' = dirs \ {j}
      <3>1. jobs'[j] = Published(j, p, {})
        BY <2>4 DEF TypeOK
      <3>2. QED
        BY <2>1, <2>4, <3>1 DEF EntryEffect, GetsPublished
    <2>5. QED
      BY <1>7, <2>2, <2>3, <2>4 DEF UploadToR2, RemoveFolder
  <1>8. ASSUME NEW t \in Uploads, PutNext(t) \/ PutLast(t) \/ PutRejected(t), ~UNCHANGED jobs
        PROVE  \A i \in Jobs : EntryEffect(i)
    <2>1. /\ up[t].job \in Jobs /\ up[t].path \in Paths
          /\ up[t].listing \ (up[t].todo \cup {up[t].cur}) \subseteq bucket[up[t].path]
          /\ up[t].stored => up[t].cur \in bucket[up[t].path]
      BY <1>8, ActiveUpload DEF PutNext, PutLast, PutRejected
    <2>2. CASE UploadFails(t) /\ UNCHANGED dirs
      BY <2>1, <2>2, UploadFailsEffect
    <2>3. CASE PutLast(t) /\ ~(UploadFails(t) /\ UNCHANGED <<dirs, files>>)
      <3> DEFINE j == up[t].job
      <3>1. /\ jobs' = [jobs EXCEPT ![j] = Published(j, up[t].path, up[t].listing)]
            /\ dirs' = dirs \ {j}
            /\ up[t].todo = {} /\ up[t].stored
        BY <2>3 DEF PutLast, RemoveFolder
      <3>2. jobs'[j] = Published(j, up[t].path, up[t].listing)
        BY <2>1, <3>1 DEF TypeOK
      <3>3. up[t].listing \subseteq bucket[up[t].path] /\ up[t].listing \in SUBSET File
        BY <2>1, <3>1 DEF TypeOK, UploadRecord
      <3>4. GetsPublished(j)
        BY <2>1, <3>1, <3>2, <3>3 DEF GetsPublished
      <3>5. \A i \in Jobs \ {j} : jobs'[i] = jobs[i] /\ (i \in dirs' => i \in dirs)
        BY <3>1 DEF TypeOK
      <3>6. QED
        BY <3>4, <3>5 DEF EntryEffect
    <2>4. QED
      BY <1>8, <2>2, <2>3 DEF PutNext, PutLast, PutRejected
  <1>9. QED
    <2>1. ASSUME NEW j \in Jobs, ProgressEvent(j)
          PROVE  MemoryLost
      BY <2>1 DEF ProgressEvent, Crash
    <2>2. ASSUME NEW j \in Jobs, RejectPodcast(j) \/ \E f \in File : ChildWrites(j, f)
          PROVE  UNCHANGED <<jobs, dirs>>
      BY <2>2 DEF RejectPodcast, ChildWrites
    <2>3. ASSUME NEW t \in Uploads, UNCHANGED jobs,
                 PutNext(t) \/ PutLast(t) \/ PutRejected(t)
          PROVE  dirs' \subseteq dirs
      BY <2>3 DEF PutNext, PutLast, PutRejected, RemoveFolder
    <2>4. ASSUME NEW t \in Uploads, R2Stores(t)
          PROVE  UNCHANGED <<jobs, dirs>>
      BY <2>4 DEF R2Stores
    <2>5. ASSUME NEW j \in Jobs,
                 \/ CompressEnd(j) \/ CompressError(j) \/ ExtractError(j)
                 \/ \E found \in BOOLEAN : ExtractEnd(j, found)
                 \/ SpawnError(j) \/ WhisperError(j)
          PROVE  UNCHANGED dirs
      BY <2>5 DEF CompressEnd, CompressError, ExtractError, ExtractEnd, SpawnError,
                  WhisperError
    <2>6. Deploy => MemoryLost
      BY DEF Deploy
    <2>7. Restart \/ UNCHANGED vars => UNCHANGED <<jobs, dirs>>
      BY DEF Restart, vars
    <2>8. ASSUME NEW j \in Jobs,
                 \/ CompressEnd(j) \/ CompressError(j) \/ ExtractError(j)
                 \/ \E found \in BOOLEAN : ExtractEnd(j, found)
                 \/ SpawnError(j) \/ WhisperError(j)
                 \/ \E found \in BOOLEAN : WhisperSuccess(j, found)
                 \/ TranslateSuccess(j)
          PROVE  \A i \in Jobs : EntryEffect(i)
      BY <1>1, <1>2, <1>5, <1>6, <2>5, <2>8
    <2>9. ASSUME NEW t \in Uploads, PutNext(t) \/ PutLast(t) \/ PutRejected(t)
          PROVE  \A i \in Jobs : EntryEffect(i)
      BY <1>2, <1>8, <2>3, <2>9
    <2>10. CASE Work
      BY <1>1, <1>2, <1>3, <2>1, <2>2, <2>4, <2>6, <2>7, <2>8, <2>9, <2>10 DEF Work
    <2>11. CASE Requests
      BY <1>4, <1>7, <2>11 DEF Requests
    <2>12. QED
      BY <1>2, <2>7, <2>10, <2>11 DEF Next

\* R2 never loses an object.
LEMMA BucketGrows ==
    ASSUME TypeOK, UploadInv, [Next]_vars
    PROVE  \A p \in Paths : bucket[p] \subseteq bucket'[p]
  <1>1. ASSUME NEW t \in Uploads, R2Stores(t)
        PROVE  \A p \in Paths : bucket[p] \subseteq bucket'[p]
    BY <1>1 DEF R2Stores, TypeOK
  <1>2. CASE UNCHANGED bucket
    BY <1>2
  <1>3. QED
    BY <1>1, <1>2, ZenonT(40) DEF Next, Work, Requests, vars, Process, RejectPodcast, ChildWrites,
       ProgressEvent, CompressEnd, CompressError, ExtractError, ExtractEnd, SpawnError,
       WhisperError, WhisperSuccess, TranslateSuccess, Cancel, UploadToR2, PutNext,
       PutLast, PutRejected, Restart, Deploy

LEMMA PublishedFields ==
    ASSUME TypeOK, NEW j \in Jobs, NEW p \in Paths, NEW listing \in SUBSET File
    PROVE  /\ Published(j, p, listing).status = "r2_done"
           /\ Published(j, p, listing).finalUrl = p
           /\ Published(j, p, listing).finalVttOriginal = ("vtt" \in listing)
           /\ Published(j, p, listing).finalVttEnglish = ("vttEn" \in listing)
  BY DEF TypeOK, JobRecord, Published

LEMMA LinksStep ==
    ASSUME TypeOK, UploadInv, LinksAreStored, [Next]_vars
    PROVE  LinksAreStored'
  <1> SUFFICES ASSUME NEW j \in Jobs, NEW p \in Paths, jobs'[j].finalUrl = p
               PROVE  /\ jobs'[j].finalVttOriginal => "vtt" \in bucket'[p]
                      /\ jobs'[j].finalVttEnglish => "vttEn" \in bucket'[p]
    BY DEF LinksAreStored
  <1>1. EntryEffect(j) /\ bucket[p] \subseteq bucket'[p]
    BY EntryStep, BucketGrows
  <1>2. CASE SameLinks(jobs[j], jobs'[j])
    BY <1>1, <1>2 DEF SameLinks, LinksAreStored
  <1>3. CASE GetsPublished(j)
    <2>1. PICK q \in Paths, listing \in SUBSET File :
             listing \subseteq bucket[q] /\ jobs'[j] = Published(j, q, listing)
      BY <1>3 DEF GetsPublished
    <2>2. /\ q = p
          /\ jobs'[j].finalVttOriginal = ("vtt" \in listing)
          /\ jobs'[j].finalVttEnglish = ("vttEn" \in listing)
      BY <2>1, PublishedFields
    <2>3. QED
      BY <1>1, <2>1, <2>2
  <1>4. ~Blank(j)
    BY ConstantsAssumption DEF Blank
  <1>5. QED
    BY <1>1, <1>2, <1>3, <1>4 DEF EntryEffect, Reported, SameLinks

LEMMA ClearedStep ==
    ASSUME TypeOK, UploadInv, PublishedIsCleared, [Next]_vars
    PROVE  PublishedIsCleared'
  <1> SUFFICES ASSUME NEW j \in Jobs, jobs'[j].status = "r2_done"
               PROVE  j \notin dirs'
    BY DEF PublishedIsCleared
  <1>1. EntryEffect(j)
    BY EntryStep
  <1>2. QED
    BY <1>1 DEF EntryEffect, Reported, Blank, GetsPublished, PublishedIsCleared

-----------------------------------------------------------------------------
(***************************************************************************)
(* The invariant of the server under any client                            *)
(***************************************************************************)

ServerInv ==
    /\ TypeOK
    /\ UploadInv
    /\ BusyHasWorker
    /\ LinksAreStored
    /\ PublishedIsCleared

LEMMA ServerInvInit == Init => ServerInv
  <1> SUFFICES ASSUME Init
               PROVE  ServerInv
    OBVIOUS
  <1>1. TypeOK
    BY BlankTypes DEF Init, TypeOK
  <1>2. UploadInv
    BY DEF Init, UploadInv
  <1>3. BusyHasWorker /\ PublishedIsCleared
    BY DEF Init, BusyHasWorker, PublishedIsCleared, NoJob
  <1>4. LinksAreStored
    BY DEF Init, LinksAreStored, NoJob
  <1>5. QED
    BY <1>1, <1>2, <1>3, <1>4 DEF ServerInv

LEMMA ServerInvStep == ServerInv /\ [Next]_vars => ServerInv'
  BY TypeStep, UploadStep, BusyStep, LinksStep, ClearedStep DEF ServerInv

LEMMA ServerInvariance == Spec => []ServerInv
  BY ServerInvInit, ServerInvStep, PTL DEF Spec

\* Whatever the clients send, the state of the server keeps its types.
THEOREM TypeCorrect == Spec => []TypeOK
  <1>1. ServerInv => TypeOK
    BY DEF ServerInv
  <1>2. QED
    BY <1>1, ServerInvariance, PTL

\* Whatever the clients send, a status of work in progress has work behind it.
THEOREM StatusIsBacked == Spec => []BusyHasWorker
  <1>1. ServerInv => BusyHasWorker
    BY DEF ServerInv
  <1>2. QED
    BY <1>1, ServerInvariance, PTL

\* Whatever the clients send, the captions a job links to are in R2.
THEOREM LinksLeadSomewhere == Spec => []LinksAreStored
  <1>1. ServerInv => LinksAreStored
    BY DEF ServerInv
  <1>2. QED
    BY <1>1, ServerInvariance, PTL

\* Whatever the clients send, a published job has no folder.
THEOREM PublishingClears == Spec => []PublishedIsCleared
  <1>1. ServerInv => PublishedIsCleared
    BY DEF ServerInv
  <1>2. QED
    BY <1>1, ServerInvariance, PTL

-----------------------------------------------------------------------------
(***************************************************************************)
(* A deleted job stays deleted                                             *)
(***************************************************************************)

\* An entry only appears for a folder that is there, or for a fresh id.
LEMMA GoneStep ==
    ASSUME TypeOK, UploadInv, [Next]_vars, NEW j \in Jobs, Gone(j)
    PROVE  Gone(j)'
  <1>1. CASE MemoryLost /\ dirs' \subseteq dirs /\ issued' = issued
    BY <1>1 DEF MemoryLost, Gone, Tracked, NoJob
  <1>2. CASE jobs'[j] = jobs[j] /\ (j \in dirs' => j \in dirs) /\ j \in issued'
    BY <1>2 DEF Gone, Tracked
  <1>3. ASSUME NEW i \in Jobs,
               \/ \E kind \in Kind, translate \in BOOLEAN : Process(i, kind, translate)
               \/ RejectPodcast(i) \/ \E f \in File : ChildWrites(i, f)
               \/ Cancel(i)
        PROVE  Gone(j)'
    BY <1>3 DEF Process, RejectPodcast, ChildWrites, Cancel, RemoveFolder, Gone,
                Tracked, TypeOK, NoJob
  <1>4. ASSUME NEW i \in Jobs,
               \/ ProgressEvent(i) \/ CompressEnd(i) \/ CompressError(i)
               \/ \E found \in BOOLEAN : ExtractEnd(i, found)
               \/ ExtractError(i) \/ SpawnError(i) \/ WhisperError(i)
               \/ \E found \in BOOLEAN : WhisperSuccess(i, found)
               \/ TranslateSuccess(i)
        PROVE  Gone(j)'
    <2>1. UNCHANGED <<dirs, issued>>
      BY <1>4 DEF ProgressEvent, CompressEnd, CompressError, ExtractEnd, ExtractError,
                  SpawnError, WhisperError, WhisperSuccess, TranslateSuccess
    <2>2. MemoryLost \/ UNCHANGED jobs
             \/ (Tracked(i) /\ \E r, s : jobs' = [jobs EXCEPT ![i] = r])
      BY <1>4 DEF ProgressEvent, CompressEnd, CompressError, ExtractEnd, ExtractError,
                  SpawnError, WhisperError, WhisperSuccess, TranslateSuccess, Crash,
                  Advance, Finish
    <2>3. Tracked(i) => i # j
      BY DEF Gone
    <2>4. QED
      BY <1>1, <1>2, <2>1, <2>2, <2>3 DEF Gone, TypeOK
  <1>5. ASSUME NEW t \in Uploads, NEW i \in Jobs, NEW p \in Paths,
               NEW named \in BOOLEAN, UploadToR2(t, i, p, named)
        PROVE  Gone(j)'
    <2>1. i # j
      BY <1>5 DEF UploadToR2, Gone
    <2>2. jobs'[j] = jobs[j] /\ dirs' \subseteq dirs /\ issued' = issued
      BY <1>5, <2>1 DEF UploadToR2, RemoveFolder, TypeOK
    <2>3. QED
      BY <1>2, <2>2 DEF Gone
  <1>6. ASSUME NEW t \in Uploads, PutNext(t) \/ PutLast(t) \/ PutRejected(t)
        PROVE  Gone(j)'
    <2>1. dirs' \subseteq dirs /\ issued' = issued
      BY <1>6 DEF PutNext, PutLast, PutRejected, RemoveFolder
    <2>2. MemoryLost \/ UNCHANGED jobs
             \/ (Tracked(up[t].job) /\ \E r : jobs' = [jobs EXCEPT ![up[t].job] = r])
      BY <1>6 DEF PutNext, PutLast, PutRejected, UploadFails, Crash
    <2>3. Tracked(up[t].job) => up[t].job # j
      BY DEF Gone
    <2>4. QED
      BY <1>1, <1>2, <2>1, <2>2, <2>3 DEF Gone, TypeOK
  <1>7. ASSUME NEW t \in Uploads, R2Stores(t)
        PROVE  Gone(j)'
    BY <1>2, <1>7 DEF R2Stores, Gone
  <1>8. CASE Restart \/ Deploy \/ UNCHANGED vars
    BY <1>1, <1>2, <1>8 DEF Restart, Deploy, vars, Gone
  <1>9. QED
    BY <1>3, <1>4, <1>5, <1>6, <1>7, <1>8 DEF Next, Work, Requests

\* Whatever the clients send, nothing brings a deleted job back.
THEOREM DeletedForGood == Spec => GoneStaysGone
  <1>1. ServerInv /\ [Next]_vars => \A j \in Jobs : Gone(j) => Gone(j)'
    BY GoneStep DEF ServerInv
  <1>2. ServerInv /\ [Next]_vars => [\A j \in Jobs : Gone(j) => Gone(j)']_vars
    BY <1>1
  <1>3. QED
    BY <1>2, ServerInvariance, PTL DEF Spec, GoneStaysGone
=============================================================================
