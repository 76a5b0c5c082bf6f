----------------------------- MODULE MogoServer -----------------------------
(***************************************************************************)
(* The Node process of server.js: the in-memory table `jobs`, the folders  *)
(* under TEMP_DIR, the ffmpeg and whisper-cli children of every job, the   *)
(* background uploads to R2, and what R2 has stored.                       *)
(*                                                                         *)
(* Node runs one callback at a time, so every callback is one action.  A   *)
(* callback that touches jobs[folderId] after /cancel deleted the entry    *)
(* throws; nothing catches it and the process dies (Crash).                *)
(***************************************************************************)
EXTENDS Integers, FiniteSets

CONSTANTS
    Jobs,          \* folder ids: crypto.randomBytes(16), so never issued twice
    Uploads,       \* background upload executions that may run at one time
    Paths,         \* R2 folder prefixes: series name and episode number
    None           \* "no job", "no path", "no file"

ASSUME ConstantsAssumption ==
    /\ None \notin Jobs
    /\ None \notin Paths
    /\ None \notin {"playlist", "segment", "wav", "vtt", "vttEn"}

VARIABLES
    alive,    \* is the Node process running?
    issued,   \* folder ids already drawn
    jobs,     \* the table `jobs`; an entry that is not there is NoJob
    pipe,     \* the pipeline closure of a job: which child it waits for
    dirs,     \* the output folders that exist
    files,    \* what each output folder holds
    raw,      \* jobs whose uploaded input is still in TEMP_DIR
    writer,   \* files the job's child process has yet to write
    up,       \* the background uploads
    bucket    \* R2: the files stored below each path, by whichever job

vars == <<alive, issued, jobs, pipe, dirs, files, raw, writer, up, bucket>>

-----------------------------------------------------------------------------

\* playlist.m3u8, playlistN.ts, audio.wav, original.vtt, english.vtt
File == {"playlist", "segment", "wav", "vtt", "vttEn"}

Kind == {"video", "podcast"}

Stage == {"idle", "compress", "extract", "whisper", "translate", "closing"}

Status == {"absent", "compressing", "whisper", "translating", "done",
           "uploading_r2", "r2_done", "error"}

JobRecord == [status: Status, vttOriginal: BOOLEAN, vttEnglish: BOOLEAN,
              finalUrl: Paths \cup {None},
              finalVttOriginal: BOOLEAN, finalVttEnglish: BOOLEAN]

PipeRecord == [stage: Stage, kind: Kind, translate: BOOLEAN]

UploadRecord == [job: Jobs \cup {None}, path: Paths \cup {None},
                 listing: SUBSET File, todo: SUBSET File,
                 cur: File \cup {None}, stored: BOOLEAN]

TypeOK ==
    /\ alive \in BOOLEAN
    /\ issued \subseteq Jobs
    /\ jobs \in [Jobs -> JobRecord]
    /\ pipe \in [Jobs -> PipeRecord]
    /\ dirs \subseteq Jobs
    /\ files \in [Jobs -> SUBSET File]
    /\ raw \subseteq Jobs
    /\ writer \in [Jobs -> SUBSET File]
    /\ up \in [Uploads -> UploadRecord]
    /\ bucket \in [Paths -> SUBSET File]

\* Reading a missing key gives undefined; `jobs[folderId] = {}` adds an entry
\* with none of its fields set, which differs from NoJob in its status only.
NoJob == [status |-> "absent", vttOriginal |-> FALSE, vttEnglish |-> FALSE,
          finalUrl |-> None, finalVttOriginal |-> FALSE, finalVttEnglish |-> FALSE]

IdlePipe == [stage |-> "idle", kind |-> "video", translate |-> FALSE]

NoUpload == [job |-> None, path |-> None, listing |-> {}, todo |-> {},
             cur |-> None, stored |-> FALSE]

\* What the child of a stage writes into the output folder.
Outputs(stage) ==
    CASE stage = "compress"  -> {"playlist", "segment"}
      [] stage = "extract"   -> {"wav"}
      [] stage = "whisper"   -> {"vtt"}
      [] stage = "translate" -> {"vttEn"}
      [] OTHER               -> {}

\* readdirSync lists names in alphabetical order: audio.wav, english.vtt,
\* original.vtt, playlist.m3u8, playlistN.ts.
Rank == [f \in File |-> CASE f = "wav" -> 1 [] f = "vttEn" -> 2 [] f = "vtt" -> 3
                          [] f = "playlist" -> 4 [] f = "segment" -> 5]

First(listing) == {f \in listing : \A g \in listing : Rank[f] <= Rank[g]}

Tracked(j) == jobs[j].status # "absent"

Running(j) == pipe[j].stage # "idle"

Uploading(t, j) == up[t].job = j

Busy(j) == Running(j) \/ \E t \in Uploads : Uploading(t, j)

Init ==
    /\ alive = TRUE
    /\ issued = {}
    /\ jobs = [j \in Jobs |-> NoJob]
    /\ pipe = [j \in Jobs |-> IdlePipe]
    /\ dirs = {}
    /\ files = [j \in Jobs |-> {}]
    /\ raw = {}
    /\ writer = [j \in Jobs |-> {}]
    /\ up = [t \in Uploads |-> NoUpload]
    /\ bucket = [p \in Paths |-> {}]

-----------------------------------------------------------------------------
(***************************************************************************)
(* The process ends on an uncaught exception: everything in memory goes,   *)
(* TEMP_DIR and R2 stay, and the children are left running.                *)
(***************************************************************************)

MemoryLost ==
    /\ jobs' = [j \in Jobs |-> NoJob]
    /\ pipe' = [j \in Jobs |-> IdlePipe]
    /\ up' = [t \in Uploads |-> NoUpload]

Crash == alive' = FALSE /\ MemoryLost

\* A pipeline callback sets jobs[j] and hands over to the next stage.
Advance(j, record, stage) ==
    /\ jobs' = [jobs EXCEPT ![j] = record]
    /\ pipe' = [pipe EXCEPT ![j] =
                   IF stage = "idle" THEN IdlePipe ELSE [@ EXCEPT !.stage = stage]]
    /\ UNCHANGED <<alive, up>>

Failed(j) == [jobs[j] EXCEPT !.status = "error"]

(***************************************************************************)
(* POST /process and POST /process-podcast                                 *)
(***************************************************************************)

Process(j, kind, translate) ==
    /\ alive
    /\ j \notin issued
    /\ issued' = issued \cup {j}
    /\ raw' = raw \cup {j}
    /\ dirs' = dirs \cup {j}
    /\ writer' = [writer EXCEPT ![j] = Outputs("compress")]
    /\ jobs' = [jobs EXCEPT ![j] = [NoJob EXCEPT !.status = "compressing"]]
    /\ pipe' = [pipe EXCEPT ![j] =
                   [stage |-> "compress", kind |-> kind, translate |-> translate]]
    /\ UNCHANGED <<alive, files, up, bucket>>

\* multer has stored the one part that was sent when the handler answers 400.
RejectPodcast(j) ==
    /\ alive
    /\ j \notin issued
    /\ issued' = issued \cup {j}
    /\ raw' = raw \cup {j}
    /\ UNCHANGED <<alive, jobs, pipe, dirs, files, writer, up, bucket>>

(***************************************************************************)
(* The children.  They write into the folder whether or not Node is alive. *)
(***************************************************************************)

ChildWrites(j, f) ==
    /\ j \in dirs
    /\ f \in writer[j]
    /\ files' = [files EXCEPT ![j] = @ \cup {f}]
    /\ writer' = [writer EXCEPT ![j] = @ \ {f}]
    /\ UNCHANGED <<alive, issued, jobs, pipe, dirs, raw, up, bucket>>

\* ffmpeg ends well once it has written everything; a child whose folder was
\* removed under it may do so too, its open files having no name any more.
Finished(j) == writer[j] = {} \/ j \notin dirs

\* codecData, progress and the stdout of whisper-cli only move percentages,
\* which are left out, unless the entry they write to is gone.
ProgressEvent(j) ==
    /\ alive
    /\ pipe[j].kind = "video"
    /\ pipe[j].stage \in {"compress", "whisper", "translate"}
    /\ ~Tracked(j)
    /\ Crash
    /\ UNCHANGED <<issued, dirs, files, raw, writer, bucket>>

\* Mutant: the captions are started while ffmpeg still writes segments.
CompressEndEarly(j) ==
    /\ alive
    /\ pipe[j].stage = "compress"
    /\ IF Tracked(j) /\ (pipe[j].kind = "video" => j \in dirs)
         THEN /\ Advance(j, [jobs[j] EXCEPT !.status = "whisper"], "extract")
              /\ writer' = [writer EXCEPT ![j] = Outputs("extract")]
         ELSE Crash /\ UNCHANGED writer
    /\ UNCHANGED <<issued, dirs, files, raw, bucket>>

CompressEnd(j) ==
    /\ alive
    /\ pipe[j].stage = "compress"
    /\ Finished(j)
    /\ IF Tracked(j) /\ (pipe[j].kind = "video" => j \in dirs)
         THEN /\ Advance(j, [jobs[j] EXCEPT !.status = "whisper"], "extract")
              /\ writer' = [writer EXCEPT ![j] = Outputs("extract")]
         ELSE Crash /\ UNCHANGED writer
    /\ UNCHANGED <<issued, dirs, files, raw, bucket>>

CompressError(j) ==
    /\ alive
    /\ pipe[j].stage = "compress"
    /\ raw' = IF pipe[j].kind = "video" THEN raw \ {j} ELSE raw
    /\ writer' = [writer EXCEPT ![j] = {}]
    /\ IF Tracked(j) THEN Advance(j, Failed(j), "idle") ELSE Crash
    /\ UNCHANGED <<issued, dirs, files, bucket>>

\* Mutant: the handler cleans up and forgets to report.
ExtractErrorUnreported(j) ==
    /\ alive
    /\ pipe[j].stage = "extract"
    /\ writer' = [writer EXCEPT ![j] = {}]
    /\ IF Tracked(j) THEN Advance(j, jobs[j], "idle") ELSE Crash
    /\ UNCHANGED <<issued, dirs, files, raw, bucket>>

ExtractError(j) ==
    /\ alive
    /\ pipe[j].stage = "extract"
    /\ writer' = [writer EXCEPT ![j] = {}]
    /\ IF Tracked(j) THEN Advance(j, Failed(j), "idle") ELSE Crash
    /\ UNCHANGED <<issued, dirs, files, raw, bucket>>

\* Without the model file or the whisper binary there is nothing to spawn.
ExtractEnd(j, whisperFound) ==
    /\ alive
    /\ pipe[j].stage = "extract"
    /\ Finished(j)
    /\ \/ /\ whisperFound
          /\ pipe' = [pipe EXCEPT ![j].stage = "whisper"]
          /\ writer' = [writer EXCEPT ![j] = Outputs("whisper")]
          /\ UNCHANGED <<alive, jobs, up>>
       \/ /\ ~whisperFound
          /\ IF Tracked(j) THEN Advance(j, Failed(j), "idle") ELSE Crash
          /\ UNCHANGED writer
    /\ UNCHANGED <<issued, dirs, files, raw, bucket>>

(***************************************************************************)
(* spawnWhisper's handlers                                                 *)
(***************************************************************************)

\* Mutant: the handler deletes the entry, and 'close' is still to come.
SpawnErrorDeletes(j) ==
    /\ alive
    /\ pipe[j].stage \in {"whisper", "translate"}
    /\ writer' = [writer EXCEPT ![j] = {}]
    /\ IF Tracked(j) THEN Advance(j, NoJob, "closing") ELSE Crash
    /\ UNCHANGED <<issued, dirs, files, raw, bucket>>

\* A child that cannot be started reports 'error' and then 'close'.
SpawnError(j) ==
    /\ alive
    /\ pipe[j].stage \in {"whisper", "translate"}
    /\ writer' = [writer EXCEPT ![j] = {}]
    /\ IF Tracked(j) THEN Advance(j, Failed(j), "closing") ELSE Crash
    /\ UNCHANGED <<issued, dirs, files, raw, bucket>>

WhisperError(j) ==
    /\ alive
    /\ pipe[j].stage \in {"whisper", "translate", "closing"}
    /\ writer' = [writer EXCEPT ![j] = {}]
    /\ IF Tracked(j) THEN Advance(j, Failed(j), "idle") ELSE Crash
    /\ UNCHANGED <<issued, dirs, files, raw, bucket>>

\* finishSuccess and finishJob: the input goes, the job can be previewed. Only
\* the video pipeline removes audio.wav.
Finish(j, record) ==
    /\ Advance(j, [record EXCEPT !.status = "done"], "idle")
    /\ raw' = raw \ {j}
    /\ files' = IF pipe[j].kind = "video"
                  THEN [files EXCEPT ![j] = @ \ {"wav"}] ELSE files

\* whisper-cli also returns 0 when it could not read the audio or open the
\* caption file, so success does not mean that the captions were written.
WhisperSuccess(j, whisperFound) ==
    /\ alive
    /\ pipe[j].stage = "whisper"
    /\ LET record == [jobs[j] EXCEPT !.vttOriginal = TRUE]
       IN  \/ ~Tracked(j) /\ Crash /\ UNCHANGED <<raw, files, writer>>
           \/ /\ Tracked(j)
              /\ ~pipe[j].translate
              /\ writer' = [writer EXCEPT ![j] = {}]
              /\ Finish(j, record)
           \/ /\ Tracked(j)
              /\ pipe[j].translate
              /\ whisperFound
              /\ Advance(j, [record EXCEPT !.status = "translating"], "translate")
              /\ writer' = [writer EXCEPT ![j] = Outputs("translate")]
              /\ UNCHANGED <<raw, files>>
           \/ /\ Tracked(j)
              /\ pipe[j].translate
              /\ ~whisperFound
              /\ Advance(j, [record EXCEPT !.status = "error"], "idle")
              /\ writer' = [writer EXCEPT ![j] = {}]
              /\ UNCHANGED <<raw, files>>
    /\ UNCHANGED <<issued, dirs, bucket>>

TranslateSuccess(j) ==
    /\ alive
    /\ pipe[j].stage = "translate"
    /\ IF Tracked(j)
         THEN /\ Finish(j, [jobs[j] EXCEPT !.vttEnglish = TRUE])
              /\ writer' = [writer EXCEPT ![j] = {}]
         ELSE Crash /\ UNCHANGED <<raw, files, writer>>
    /\ UNCHANGED <<issued, dirs, bucket>>

-----------------------------------------------------------------------------
(***************************************************************************)
(* POST /upload-to-r2: the answer goes out at once, the files follow one   *)
(* PutObject at a time.  Between two of them the handler is suspended in   *)
(* an await, and every other callback may run.                             *)
(***************************************************************************)

RemoveFolder(j) ==
    /\ dirs' = dirs \ {j}
    /\ files' = [files EXCEPT ![j] = {}]

\* Mutant: the captions are announced because whisper-cli ended well.
PublishedAsReported(j, path, listing) ==
    [jobs[j] EXCEPT !.status = "r2_done",
                    !.finalUrl = path,
                    !.finalVttOriginal = jobs[j].vttOriginal,
                    !.finalVttEnglish = jobs[j].vttEnglish]

\* The entry of a published job; captions are announced by the listing.
Published(j, path, listing) ==
    [jobs[j] EXCEPT !.status = "r2_done",
                    !.finalUrl = path,
                    !.finalVttOriginal = "vtt" \in listing,
                    !.finalVttEnglish = "vttEn" \in listing]

\* A listing that is not empty is stored file by file, an empty one is at once
\* announced as published.  Without R2_BUCKET_NAME in .env the catch block runs.
UploadToR2(t, j, path, bucketNamed) ==
    /\ alive
    /\ up[t] = NoUpload
    /\ j \in dirs
    /\ LET listing == files[j]
       IN  \/ /\ bucketNamed
              /\ jobs' = [jobs EXCEPT ![j].status = "uploading_r2"]
              /\ \E f \in First(listing) :
                    up' = [up EXCEPT ![t] =
                             [job |-> j, path |-> path, listing |-> listing,
                              todo |-> listing \ {f}, cur |-> f, stored |-> FALSE]]
              /\ UNCHANGED <<dirs, files>>
           \/ /\ bucketNamed
              /\ listing = {}
              /\ jobs' = [jobs EXCEPT ![j] = Published(j, path, listing)]
              /\ RemoveFolder(j)
              /\ UNCHANGED up
           \/ /\ ~bucketNamed
              /\ jobs' = [jobs EXCEPT ![j] = Failed(j)]
              /\ UNCHANGED <<up, dirs, files>>
    /\ UNCHANGED <<alive, issued, pipe, raw, writer, bucket>>

\* R2 stores the object; the reply is still on its way.
R2Stores(t) ==
    /\ up[t].cur # None
    /\ ~up[t].stored
    /\ bucket' = [bucket EXCEPT ![up[t].path] = @ \cup {up[t].cur}]
    /\ up' = [up EXCEPT ![t].stored = TRUE]
    /\ UNCHANGED <<alive, issued, jobs, pipe, dirs, files, raw, writer>>

\* Mutant: the catch block only logs.
UploadFailsUnreported(t) ==
    /\ up' = [up EXCEPT ![t] = NoUpload]
    /\ UNCHANGED <<alive, pipe, jobs>>

\* Mutant: the catch block adds the entry it does not find.
UploadFailsRevives(t) ==
    /\ jobs' = [jobs EXCEPT ![up[t].job] = Failed(up[t].job)]
    /\ up' = [up EXCEPT ![t] = NoUpload]
    /\ UNCHANGED <<alive, pipe>>

\* Mutant: the catch block offers the preview again, for a second attempt.
UploadFailsReopens(t) ==
    IF Tracked(up[t].job)
      THEN /\ jobs' = [jobs EXCEPT ![up[t].job].status = "done"]
           /\ up' = [up EXCEPT ![t] = NoUpload]
           /\ UNCHANGED <<alive, pipe>>
      ELSE Crash

\* The catch block: it reports the failure on the entry, if there is one.
UploadFails(t) ==
    IF Tracked(up[t].job)
      THEN /\ jobs' = [jobs EXCEPT ![up[t].job] = Failed(up[t].job)]
           /\ up' = [up EXCEPT ![t] = NoUpload]
           /\ UNCHANGED <<alive, pipe>>
      ELSE Crash

\* Mutant: the job is reported as published with its playlist.
PutNextAnnounces(t) ==
    /\ alive
    /\ up[t].stored
    /\ \E f \in First(up[t].todo) :
          IF Tracked(up[t].job) /\ f \in files[up[t].job]
            THEN /\ up' = [up EXCEPT ![t].todo = @ \ {f},
                                     ![t].cur = f,
                                     ![t].stored = FALSE]
                 /\ jobs' = IF up[t].cur = "playlist"
                              THEN [jobs EXCEPT ![up[t].job] =
                                      Published(up[t].job, up[t].path, up[t].listing)]
                              ELSE jobs
                 /\ UNCHANGED <<alive, pipe>>
            ELSE UploadFails(t)
    /\ UNCHANGED <<issued, dirs, files, raw, writer, bucket>>

\* The await returns and there are files left: readFileSync takes the next.
PutNext(t) ==
    /\ alive
    /\ up[t].stored
    /\ \E f \in First(up[t].todo) :
          IF Tracked(up[t].job) /\ f \in files[up[t].job]
            THEN /\ up' = [up EXCEPT ![t].todo = @ \ {f},
                                     ![t].cur = f,
                                     ![t].stored = FALSE]
                 /\ UNCHANGED <<alive, jobs, pipe>>
            ELSE UploadFails(t)
    /\ UNCHANGED <<issued, dirs, files, raw, writer, bucket>>

\* Mutant: the promise of the last PutObject is not awaited.
PutLastUnawaited(t) ==
    /\ alive
    /\ up[t].cur # None
    /\ up[t].todo = {}
    /\ LET j == up[t].job
       IN  IF Tracked(j) /\ up[t].listing \subseteq files[j]
             THEN /\ RemoveFolder(j)
                  /\ jobs' = [jobs EXCEPT ![j] = Published(j, up[t].path, up[t].listing)]
                  /\ up' = [up EXCEPT ![t] = NoUpload]
                  /\ UNCHANGED <<alive, pipe>>
             ELSE UploadFails(t) /\ UNCHANGED <<dirs, files>>
    /\ UNCHANGED <<issued, raw, writer, bucket>>

\* Mutant: the result is reported and the folder is left.
PutLastKeepsFolder(t) ==
    /\ alive
    /\ up[t].stored
    /\ up[t].todo = {}
    /\ LET j == up[t].job
       IN  IF Tracked(j) /\ up[t].listing \subseteq files[j]
             THEN /\ jobs' = [jobs EXCEPT ![j] = Published(j, up[t].path, up[t].listing)]
                  /\ up' = [up EXCEPT ![t] = NoUpload]
                  /\ UNCHANGED <<alive, pipe>>
             ELSE UploadFails(t)
    /\ UNCHANGED <<issued, dirs, files, raw, writer, bucket>>

\* The last await returns: statSync on every file, rmSync, then the result.
PutLast(t) ==
    /\ alive
    /\ up[t].stored
    /\ up[t].todo = {}
    /\ LET j == up[t].job
       IN  IF Tracked(j) /\ up[t].listing \subseteq files[j]
             THEN /\ RemoveFolder(j)
                  /\ jobs' = [jobs EXCEPT ![j] = Published(j, up[t].path, up[t].listing)]
                  /\ up' = [up EXCEPT ![t] = NoUpload]
                  /\ UNCHANGED <<alive, pipe>>
             ELSE UploadFails(t) /\ UNCHANGED <<dirs, files>>
    /\ UNCHANGED <<issued, raw, writer, bucket>>

\* s3.send rejects, whether or not R2 has stored the object.
PutRejected(t) ==
    /\ alive
    /\ up[t].cur # None
    /\ UploadFails(t)
    /\ UNCHANGED <<issued, dirs, files, raw, writer, bucket>>

(***************************************************************************)
(* POST /cancel, and the restarts                                          *)
(***************************************************************************)

\* Mutant: the entry stays, with a status of its own.
CancelMarks(j) ==
    /\ alive
    /\ RemoveFolder(j)
    /\ jobs' = [jobs EXCEPT ![j].status = "cancelled"]
    /\ UNCHANGED <<alive, issued, pipe, raw, writer, up, bucket>>

Cancel(j) ==
    /\ alive
    /\ RemoveFolder(j)
    /\ jobs' = [jobs EXCEPT ![j] = NoJob]
    /\ UNCHANGED <<alive, issued, pipe, raw, writer, up, bucket>>

\* pm2 starts a process that died.
Restart ==
    /\ ~alive
    /\ alive' = TRUE
    /\ UNCHANGED <<issued, jobs, pipe, dirs, files, raw, writer, up, bucket>>

\* deploy.sh: pm2 kills the process with its children and starts it again.
Deploy ==
    /\ alive
    /\ MemoryLost
    /\ writer' = [j \in Jobs |-> {}]
    /\ UNCHANGED <<alive, issued, dirs, files, raw, bucket>>

-----------------------------------------------------------------------------
(***************************************************************************)
(* The pages may send their requests whenever they like: a page that was   *)
(* left open, or a second tab, still holds the id of the job.              *)
(***************************************************************************)

Work ==
    \/ \E j \in Jobs :
          \/ \E kind \in Kind, translate \in BOOLEAN : Process(j, kind, translate)
          \/ RejectPodcast(j)
          \/ \E f \in File : ChildWrites(j, f)
          \/ ProgressEvent(j)
          \/ CompressEnd(j)
          \/ CompressError(j)
          \/ \E whisperFound \in BOOLEAN : ExtractEnd(j, whisperFound)
          \/ ExtractError(j)
          \/ SpawnError(j)
          \/ WhisperError(j)
          \/ \E whisperFound \in BOOLEAN : WhisperSuccess(j, whisperFound)
          \/ TranslateSuccess(j)
    \/ \E t \in Uploads :
          \/ R2Stores(t)
          \/ PutNext(t)
          \/ PutLast(t)
          \/ PutRejected(t)
    \/ Restart
    \/ Deploy

Requests ==
    \E j \in Jobs :
       \/ \E t \in Uploads, path \in Paths, bucketNamed \in BOOLEAN :
             UploadToR2(t, j, path, bucketNamed)
       \/ Cancel(j)

Next == Work \/ Requests

Spec == Init /\ [][Next]_vars

(***************************************************************************)
(* What a single, patient page does: it asks for a job to be published or  *)
(* deleted when it has seen the preview and nothing else works on the job. *)
(* After a restart the entry is gone but the page still shows the preview. *)
(***************************************************************************)

Previewable(j) ==
    \/ jobs[j].status = "done"
    \/ /\ jobs[j].status = "absent"
       /\ {"playlist", "segment"} \subseteq files[j]
       /\ writer[j] = {}
       /\ j \notin raw

PoliteRequests ==
    \E j \in Jobs :
       /\ Previewable(j)
       /\ \/ \E t \in Uploads, path \in Paths, bucketNamed \in BOOLEAN :
                UploadToR2(t, j, path, bucketNamed)
          \/ Cancel(j)

PoliteNext == Work \/ PoliteRequests

PoliteSpec == Init /\ [][PoliteNext]_vars

-----------------------------------------------------------------------------
(***************************************************************************)
(* The children end, R2 answers or the connection to it breaks, and pm2    *)
(* starts the process again.  Nothing is assumed of the clients.           *)
(***************************************************************************)

ChildEnds(j) ==
    \/ CompressEnd(j) \/ CompressError(j)
    \/ \E whisperFound \in BOOLEAN : ExtractEnd(j, whisperFound)
    \/ ExtractError(j)
    \/ WhisperError(j)
    \/ \E whisperFound \in BOOLEAN : WhisperSuccess(j, whisperFound)
    \/ TranslateSuccess(j)

R2Replies(t) == R2Stores(t) \/ PutNext(t) \/ PutLast(t) \/ PutRejected(t)

Fairness ==
    /\ \A j \in Jobs : WF_vars(ChildEnds(j))
    /\ \A t \in Uploads : WF_vars(R2Replies(t))
    /\ WF_vars(Restart)

FairSpec == Spec /\ Fairness

-----------------------------------------------------------------------------
(* What holds whatever the clients send, and when.                         *)

\* A page polls /status for as long as it reads a status of work in progress.
\* Whatever was cancelled, uploaded twice or lost in a restart, such a status
\* is backed by a child or an upload that is still going to change it: every
\* callback of server.js leaves the status and the work of a job in step.
BusyHasWorker ==
    \A j \in Jobs :
       /\ jobs[j].status = "compressing" => pipe[j].stage = "compress"
       /\ jobs[j].status = "whisper" => pipe[j].stage \in {"extract", "whisper"}
       /\ jobs[j].status = "translating" => pipe[j].stage = "translate"
       /\ jobs[j].status = "uploading_r2" => \E t \in Uploads : Uploading(t, j)

\* The links /status gives after an upload lead to objects R2 has stored: the
\* captions it names are below the path of the playlist, even when two uploads
\* of one job, or of two jobs with one path, took turns.
LinksAreStored ==
    \A j \in Jobs : \A p \in Paths :
       jobs[j].finalUrl = p =>
          /\ jobs[j].finalVttOriginal => "vtt" \in bucket[p]
          /\ jobs[j].finalVttEnglish => "vttEn" \in bucket[p]

\* A job reported as published has no folder left on the server: no late
\* callback of its pipeline, and no second upload, brings it back.
PublishedIsCleared ==
    \A j \in Jobs : jobs[j].status = "r2_done" => j \notin dirs

\* A deleted job does not come back: once its entry and its folder are gone,
\* no child, upload or request that comes late re-creates one of them.
Gone(j) == j \in issued /\ ~Tracked(j) /\ j \notin dirs

GoneStaysGone == [][\A j \in Jobs : Gone(j) => Gone(j)']_vars

\* Whatever happens, a job does not stay in a status the pages wait on.
Settled(j) == jobs[j].status \in {"absent", "done", "r2_done", "error"}

Settles == \A j \in Jobs : []<>Settled(j)

-----------------------------------------------------------------------------
(* What holds when the pages wait for the preview (PoliteSpec).            *)

\* No callback ever finds its entry gone: the process is never killed by a
\* TypeError on jobs[folderId] or by a folder removed under ffmpeg's 'end'.
ServerStaysUp == alive

\* What is reported as ready can be played: the playlist and its segments are
\* in the folder, and the uploaded input was deleted.
PreviewIsBacked ==
    \A j \in Jobs :
       jobs[j].status = "done" =>
          /\ {"playlist", "segment"} \subseteq files[j]
          /\ j \in dirs
          /\ j \notin raw

\* The final link leads to a whole video: playlist and segments are in R2.
PublishedIsWhole ==
    \A j \in Jobs : \A p \in Paths :
       jobs[j].finalUrl = p =>
          {"playlist", "segment"} \subseteq bucket[p]

\* "Published" is the last thing a client hears of a job, until a restart.
PublishedIsFinal ==
    [][\A j \in Jobs :
          jobs[j].status = "r2_done" => jobs'[j] = jobs[j] \/ jobs'[j] = NoJob]_vars

-----------------------------------------------------------------------------
(* The server implements Lifecycle, as seen through GET /status and R2.    *)

PhaseOf(status) ==
    CASE status \in {"compressing", "whisper", "translating"} -> "working"
      [] status = "done"         -> "ready"
      [] status = "uploading_r2" -> "publishing"
      [] status = "r2_done"      -> "published"
      [] status = "error"        -> "failed"
      [] OTHER                   -> "unknown"

Phases == [j \in Jobs |-> PhaseOf(jobs[j].status)]

Urls == [j \in Jobs |-> jobs[j].finalUrl]

Online == {p \in Paths : {"playlist", "segment"} \subseteq bucket[p]}

Promise == INSTANCE Lifecycle WITH phase <- Phases, url <- Urls, online <- Online

\* Every callback of server.js, however it interleaves with the others, is one
\* step of a job's life cycle or changes nothing a page can see: no phase is
\* skipped, a failure is final, and a link comes after the episode it leads to.
KeepsPromise == Promise!Spec
=============================================================================
