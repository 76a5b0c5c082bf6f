-------------------------- MODULE MogoPoliteProofs --------------------------
(***************************************************************************)
(* What holds of MogoServer when the pages wait for the preview: nothing   *)
(* kills the process, and it implements Lifecycle.                         *)
(***************************************************************************)
EXTENDS MogoServerProofs

Playable == {"playlist", "segment"}

\* The pipeline has its folder to itself, and the status follows its stages.
PipelineInv(j) ==
    Running(j) =>
       /\ j \in dirs
       /\ \A t \in Uploads : ~Uploading(t, j)
       /\ pipe[j].stage = "compress" =>
             jobs[j].status = "compressing" /\ Playable \subseteq files[j] \cup writer[j]
       /\ pipe[j].stage \in {"extract", "whisper"} => jobs[j].status = "whisper"
       /\ pipe[j].stage = "translate" => jobs[j].status = "translating"
       /\ pipe[j].stage = "closing" => jobs[j].status = "error"
       /\ pipe[j].stage # "compress" => Playable \subseteq files[j]

\* One upload at a time works on a job, and finds all it has listed.
UploadingInv(j) ==
    \A t \in Uploads :
       Uploading(t, j) =>
          /\ jobs[j].status = "uploading_r2"
          /\ j \in dirs
          /\ Playable \subseteq up[t].listing
          /\ up[t].listing \subseteq files[j]
          /\ \A s \in Uploads : Uploading(s, j) => s = t

\* A ready job has everything in place.
ReadyInv(j) ==
    jobs[j].status = "done" => j \in dirs /\ Playable \subseteq files[j] /\ j \notin raw

\* Nothing is known of an id that was not drawn.
FreshInv(j) == Tracked(j) \/ j \in dirs \/ files[j] # {} => j \in issued

JobInv(j) == PipelineInv(j) /\ UploadingInv(j) /\ ReadyInv(j) /\ FreshInv(j)

PoliteInv ==
    /\ alive
    /\ \A j \in Jobs : JobInv(j)
    /\ PublishedIsWhole

-----------------------------------------------------------------------------
(***************************************************************************)
(* Frames                                                                  *)
(***************************************************************************)

LEMMA PoliteIsNext == PoliteNext => Next
  BY DEF PoliteNext, PoliteRequests, Next, Requests

\* A job nobody waits for has neither a child nor an upload.
LEMMA Resting ==
    ASSUME TypeOK, NEW j \in Jobs, JobInv(j),
           jobs[j].status \in {"absent", "done", "r2_done"}
    PROVE  ~Running(j) /\ \A t \in Uploads : ~Uploading(t, j)
  BY DEF TypeOK, PipeRecord, Stage, JobInv, PipelineInv, UploadingInv, Running

\* What the invariant reads of a job stays, or only gets better.
Untouched(i) ==
    /\ jobs'[i] = jobs[i] /\ pipe'[i] = pipe[i]
    /\ i \in dirs <=> i \in dirs'
    /\ i \in raw' => i \in raw
    /\ i \in issued => i \in issued'
    /\ files[i] \subseteq files'[i]
    /\ files'[i] # {} => files[i] # {} \/ i \in dirs
    /\ files[i] \cup writer[i] \subseteq files'[i] \cup writer'[i]
    /\ \A t \in Uploads : up'[t].job = i => up[t].job = i /\ up'[t].listing = up[t].listing

LEMMA UntouchedJob ==
    ASSUME NEW i \in Jobs, JobInv(i), Untouched(i)
    PROVE  JobInv(i)'
  <1>1. PipelineInv(i)'
    BY DEF JobInv, PipelineInv, Untouched, Running, Uploading
  <1>2. UploadingInv(i)'
    BY DEF JobInv, UploadingInv, Untouched, Uploading
  <1>3. ReadyInv(i)' /\ FreshInv(i)'
    BY DEF JobInv, ReadyInv, FreshInv, Untouched, Tracked
  <1>4. QED
    BY <1>1, <1>2, <1>3 DEF JobInv

\* No link is new, so none is broken.
LEMMA WholeFrame ==
    ASSUME TypeOK, UploadInv, PublishedIsWhole, [Next]_vars,
           \A j \in Jobs : jobs'[j].status = "r2_done" => jobs'[j] = jobs[j]
    PROVE  PublishedIsWhole'
  <1> SUFFICES ASSUME NEW j \in Jobs, NEW p \in Paths, jobs'[j].finalUrl = p
               PROVE  Playable \subseteq bucket'[p]
    BY DEF PublishedIsWhole, Playable
  <1>1. EntryEffect(j) /\ bucket[p] \subseteq bucket'[p]
    BY EntryStep, BucketGrows
  <1>2. CASE jobs'[j].finalUrl = jobs[j].finalUrl
    BY <1>1, <1>2 DEF PublishedIsWhole, Playable
  <1>3. CASE GetsPublished(j)
    BY <1>2, <1>3, PublishedFields DEF GetsPublished
  <1>4. ~Blank(j)
    BY ConstantsAssumption DEF Blank
  <1>5. QED
    BY <1>1, <1>2, <1>3, <1>4 DEF EntryEffect, Reported, SameLinks

\* A pipeline callback that leaves the folders alone disturbs only its own job.
LEMMA CallbackFrame ==
    ASSUME TypeOK, NEW j \in Jobs, NEW r, NEW s \in Stage, Advance(j, r, s),
           UNCHANGED <<issued, dirs>>,
           \A i \in Jobs \ {j} : /\ files'[i] = files[i] /\ writer'[i] = writer[i]
                                 /\ i \in raw' => i \in raw
    PROVE  \A i \in Jobs \ {j} : Untouched(i)
  BY AdvanceEffect DEF Untouched

\* A pipeline that ends, well or not, leaves a job that meets the invariant.
LEMMA StageLeft ==
    ASSUME TypeOK, NEW j \in Jobs, JobInv(j), Running(j), NEW r, Advance(j, r, "idle"),
           r.status \in {"error", "done"}, Tracked(j), UNCHANGED <<issued, dirs>>,
           r.status = "done" => Playable \subseteq files'[j] /\ j \notin raw'
    PROVE  JobInv(j)'
  <1>1. /\ jobs'[j] = r /\ pipe'[j].stage = "idle" /\ up' = up
    BY AdvanceEffect DEF Stage
  <1>2. j \in dirs' /\ \A t \in Uploads : ~Uploading(t, j)'
    BY <1>1 DEF JobInv, PipelineInv, Uploading
  <1>3. PipelineInv(j)' /\ UploadingInv(j)'
    BY <1>1, <1>2 DEF PipelineInv, UploadingInv, Running
  <1>4. ReadyInv(j)' /\ FreshInv(j)'
    BY <1>1, <1>2 DEF JobInv, ReadyInv, FreshInv
  <1>5. QED
    BY <1>3, <1>4 DEF JobInv

\* A pipeline that goes on, with the status of its next stage.
LEMMA StageEntered ==
    ASSUME TypeOK, NEW j \in Jobs, JobInv(j), Running(j), NEW r, NEW s \in Stage,
           Advance(j, r, s), Tracked(j), UNCHANGED <<issued, dirs>>,
           \/ s = "extract" /\ r.status = "whisper"
           \/ s = "translate" /\ r.status = "translating"
           \/ s = "closing" /\ r.status = "error",
           Playable \subseteq files'[j]
    PROVE  JobInv(j)'
  <1>1. /\ jobs'[j] = r /\ pipe'[j].stage = s /\ up' = up
    BY AdvanceEffect
  <1>2. j \in dirs' /\ \A t \in Uploads : ~Uploading(t, j)'
    BY <1>1 DEF JobInv, PipelineInv, Uploading
  <1>3. PipelineInv(j)' /\ UploadingInv(j)'
    BY <1>1, <1>2 DEF PipelineInv, UploadingInv, Running
  <1>4. ReadyInv(j)' /\ FreshInv(j)'
    BY <1>1, <1>2 DEF JobInv, ReadyInv, FreshInv
  <1>5. QED
    BY <1>3, <1>4 DEF JobInv

-----------------------------------------------------------------------------
(***************************************************************************)
(* The steps                                                               *)
(***************************************************************************)

\* The invariant again, but for the links, which WholeFrame is about.
JobsStayUp == alive' /\ \A i \in Jobs : JobInv(i)'

NoneNewlyPublished ==
    \A i \in Jobs : jobs'[i].status = "r2_done" => jobs'[i] = jobs[i]

LEMMA ProcessStep ==
    ASSUME TypeOK, PoliteInv, NEW j \in Jobs, NEW kind \in Kind,
           NEW translate \in BOOLEAN, Process(j, kind, translate)
    PROVE  JobsStayUp /\ NoneNewlyPublished
  <1>1. jobs[j].status = "absent"
    BY DEF Process, PoliteInv, JobInv, FreshInv, Tracked
  <1>2. ~Running(j) /\ \A t \in Uploads : ~Uploading(t, j)
    BY <1>1, Resting DEF PoliteInv
  <1>3. /\ jobs'[j] = [NoJob EXCEPT !.status = "compressing"]
        /\ pipe'[j].stage = "compress" /\ writer'[j] = Playable
        /\ j \in dirs' /\ j \in issued' /\ up' = up /\ alive'
    BY DEF Process, TypeOK, Outputs, Playable
  <1>4. jobs'[j].status = "compressing"
    BY <1>3 DEF NoJob
  <1>5. \A i \in Jobs \ {j} : Untouched(i)
    BY DEF Process, TypeOK, Untouched
  <1>6. JobInv(j)'
    BY <1>2, <1>3, <1>4
       DEF JobInv, PipelineInv, UploadingInv, ReadyInv, FreshInv, Uploading
  <1>7. \A i \in Jobs : JobInv(i)'
    BY <1>5, <1>6, UntouchedJob DEF PoliteInv
  <1>8. QED
    BY <1>3, <1>4, <1>5, <1>7 DEF JobsStayUp, NoneNewlyPublished, Untouched

LEMMA QuietStep ==
    ASSUME TypeOK, PoliteInv, NEW j \in Jobs,
           RejectPodcast(j) \/ \E f \in File : ChildWrites(j, f)
    PROVE  JobsStayUp /\ NoneNewlyPublished
  <1>1. CASE RejectPodcast(j)
    <2>1. \A i \in Jobs \ {j} : Untouched(i)
      BY <1>1 DEF RejectPodcast, Untouched
    <2>2. ~Tracked(j) /\ j \notin issued
      BY <1>1 DEF RejectPodcast, PoliteInv, JobInv, FreshInv
    <2>3. UNCHANGED <<alive, jobs, pipe, dirs, files, writer, up>>
      BY <1>1 DEF RejectPodcast
    <2>4. JobInv(j)'
      BY <2>2, <2>3
         DEF PoliteInv, JobInv, PipelineInv, UploadingInv, ReadyInv, FreshInv,
             Running, Uploading, Tracked
    <2>5. QED
      BY <2>1, <2>3, <2>4, UntouchedJob DEF PoliteInv, JobsStayUp, NoneNewlyPublished
  <1>2. ASSUME NEW f \in File, ChildWrites(j, f)
        PROVE  JobsStayUp /\ NoneNewlyPublished
    <2>1. \A i \in Jobs : Untouched(i)
      BY <1>2 DEF ChildWrites, Untouched, TypeOK
    <2>2. alive' /\ UNCHANGED jobs
      BY <1>2 DEF ChildWrites, PoliteInv
    <2>3. QED
      BY <2>1, <2>2, UntouchedJob DEF PoliteInv, JobsStayUp, NoneNewlyPublished
  <1>3. QED
    BY <1>1, <1>2

\* While a pipeline runs, its entry is there and has a status of its own.
LEMMA RunningJob ==
    ASSUME TypeOK, PoliteInv, NEW j \in Jobs, Running(j)
    PROVE  /\ Tracked(j) /\ j \in dirs /\ JobInv(j)
           /\ pipe[j].stage # "compress" => Playable \subseteq files[j]
           /\ Playable \subseteq files[j] \cup writer[j]
  BY DEF TypeOK, PipeRecord, Stage, PoliteInv, JobInv, PipelineInv, Running, Tracked

LEMMA CompressEndStep ==
    ASSUME TypeOK, PoliteInv, NEW j \in Jobs, CompressEnd(j)
    PROVE  JobsStayUp /\ NoneNewlyPublished
  <1> DEFINE r == [jobs[j] EXCEPT !.status = "whisper"]
  <1>1. Running(j)
    BY DEF CompressEnd, Running
  <1>2. Tracked(j) /\ j \in dirs /\ JobInv(j) /\ Playable \subseteq files[j]
    BY <1>1, RunningJob DEF CompressEnd, Finished
  <1>3. /\ Advance(j, r, "extract") /\ UNCHANGED <<issued, dirs, files, raw>>
        /\ writer' = [writer EXCEPT ![j] = Outputs("extract")]
    BY <1>2 DEF CompressEnd
  <1>4. r.status = "whisper" /\ "extract" \in Stage
    BY DEF TypeOK, JobRecord, Stage
  <1>5. JobInv(j)'
    BY <1>1, <1>2, <1>3, <1>4, StageEntered
  <1>6. \A i \in Jobs \ {j} : Untouched(i)
    BY <1>3, <1>4, CallbackFrame DEF TypeOK
  <1>7. alive' /\ jobs'[j].status = "whisper"
    BY <1>3, <1>4, AdvanceEffect DEF PoliteInv
  <1>8. QED
    BY <1>5, <1>6, <1>7, UntouchedJob DEF PoliteInv, JobsStayUp, NoneNewlyPublished, Untouched

\* A failed child, the first or the last event of one that did not start.
LEMMA ErrorStep ==
    ASSUME TypeOK, PoliteInv, NEW j \in Jobs,
           CompressError(j) \/ ExtractError(j) \/ WhisperError(j) \/ SpawnError(j)
    PROVE  JobsStayUp /\ NoneNewlyPublished
  <1>1. Running(j)
    BY DEF CompressError, ExtractError, WhisperError, SpawnError, Running
  <1>2. Tracked(j) /\ JobInv(j)
    BY <1>1, RunningJob
  <1>3. /\ UNCHANGED <<issued, dirs, files>>
        /\ \A i \in Jobs : i \in raw' => i \in raw
        /\ writer' = [writer EXCEPT ![j] = {}]
        /\ \/ Advance(j, Failed(j), "idle")
           \/ Advance(j, Failed(j), "closing") /\ Playable \subseteq files[j]
    BY <1>1, <1>2, RunningJob DEF CompressError, ExtractError, WhisperError, SpawnError
  <1>4. Failed(j).status = "error" /\ {"idle", "closing"} \subseteq Stage
    BY DEF TypeOK, JobRecord, Failed, Stage
  <1>5. JobInv(j)'
    BY <1>1, <1>2, <1>3, <1>4, StageLeft, StageEntered
  <1>6. \A i \in Jobs \ {j} : Untouched(i)
    BY <1>3, <1>4, CallbackFrame DEF TypeOK
  <1>7. alive' /\ jobs'[j].status = "error"
    BY <1>3, <1>4, AdvanceEffect DEF PoliteInv
  <1>8. QED
    BY <1>5, <1>6, <1>7, UntouchedJob DEF PoliteInv, JobsStayUp, NoneNewlyPublished, Untouched

LEMMA ExtractEndStep ==
    ASSUME TypeOK, PoliteInv, NEW j \in Jobs, NEW found \in BOOLEAN, ExtractEnd(j, found)
    PROVE  JobsStayUp /\ NoneNewlyPublished
  <1>1. Running(j)
    BY DEF ExtractEnd, Running
  <1>2. Tracked(j) /\ JobInv(j)
    BY <1>1, RunningJob
  <1>3. CASE found
    <2>1. /\ pipe'[j].stage = "whisper" /\ pipe[j].stage = "extract"
          /\ UNCHANGED <<alive, jobs, up, issued, dirs, files, raw>>
      BY <1>3 DEF ExtractEnd, TypeOK, PipeRecord
    <2>2. \A i \in Jobs \ {j} : Untouched(i)
      BY <1>3, <2>1 DEF ExtractEnd, Untouched, TypeOK
    <2>3. PipelineInv(j)'
      BY <1>1, <1>2, <2>1 DEF JobInv, PipelineInv, Running, Uploading
    <2>4. UploadingInv(j)' /\ ReadyInv(j)' /\ FreshInv(j)'
      BY <1>2, <2>1 DEF JobInv, UploadingInv, ReadyInv, FreshInv, Uploading, Tracked
    <2>5. JobInv(j)'
      BY <2>3, <2>4 DEF JobInv
    <2>6. QED
      BY <2>1, <2>2, <2>5, UntouchedJob DEF PoliteInv, JobsStayUp, NoneNewlyPublished
  <1>4. CASE ~found
    <2>1. Advance(j, Failed(j), "idle") /\ UNCHANGED <<issued, dirs, files, raw, writer>>
      BY <1>2, <1>4 DEF ExtractEnd
    <2>2. Failed(j).status = "error" /\ "idle" \in Stage
      BY DEF TypeOK, JobRecord, Failed, Stage
    <2>3. JobInv(j)'
      BY <1>1, <1>2, <2>1, <2>2, StageLeft
    <2>4. \A i \in Jobs \ {j} : Untouched(i)
      BY <2>1, <2>2, CallbackFrame
    <2>5. alive' /\ jobs'[j].status = "error"
      BY <2>1, <2>2, AdvanceEffect DEF PoliteInv
    <2>6. QED
      BY <2>3, <2>4, <2>5, UntouchedJob
         DEF PoliteInv, JobsStayUp, NoneNewlyPublished, Untouched
  <1>5. QED
    BY <1>3, <1>4

\* finishSuccess and finishJob.
LEMMA FinishStep ==
    ASSUME TypeOK, PoliteInv, NEW j \in Jobs, Running(j), pipe[j].stage # "compress",
           NEW r \in JobRecord, Finish(j, r), UNCHANGED <<issued, dirs>>,
           \A i \in Jobs \ {j} : writer'[i] = writer[i]
    PROVE  JobsStayUp /\ NoneNewlyPublished
  <1> DEFINE done == [r EXCEPT !.status = "done"]
  <1>1. Tracked(j) /\ JobInv(j) /\ Playable \subseteq files[j]
    BY RunningJob
  <1>2. Advance(j, done, "idle") /\ raw' = raw \ {j}
    BY DEF Finish
  <1>3. done.status = "done" /\ "idle" \in Stage
    BY DEF JobRecord, Stage
  <1>4. Playable \subseteq files'[j] /\ \A i \in Jobs \ {j} : files'[i] = files[i]
    BY <1>1 DEF Finish, TypeOK, Playable
  <1> HIDE DEF done
  <1>5. JobInv(j)'
    BY <1>1, <1>2, <1>3, <1>4, StageLeft
  <1>6. \A i \in Jobs \ {j} : Untouched(i)
    BY <1>2, <1>3, <1>4, CallbackFrame
  <1>7. alive' /\ jobs'[j].status = "done"
    BY <1>2, <1>3, AdvanceEffect DEF PoliteInv
  <1>8. QED
    BY <1>5, <1>6, <1>7, UntouchedJob DEF PoliteInv, JobsStayUp, NoneNewlyPublished, Untouched

LEMMA WhisperSuccessStep ==
    ASSUME TypeOK, PoliteInv, NEW j \in Jobs, NEW found \in BOOLEAN, WhisperSuccess(j, found)
    PROVE  JobsStayUp /\ NoneNewlyPublished
  <1> DEFINE record == [jobs[j] EXCEPT !.vttOriginal = TRUE]
             After(s) == [record EXCEPT !.status = s]
  <1>1. Running(j) /\ pipe[j].stage = "whisper" /\ record \in JobRecord
    BY EntryTypes DEF WhisperSuccess, Running, TypeOK
  <1>2. Tracked(j) /\ JobInv(j) /\ Playable \subseteq files[j]
    BY <1>1, RunningJob
  <1>3. /\ UNCHANGED <<issued, dirs>>
        /\ \A i \in Jobs \ {j} : writer'[i] = writer[i]
    BY <1>2 DEF WhisperSuccess, TypeOK
  <1>4. \A s \in {"translating", "error"} : After(s).status = s
    BY <1>1, StatusSet
  <1>5. CASE ~pipe[j].translate
    <2>1. Finish(j, record)
      BY <1>2, <1>5 DEF WhisperSuccess
    <2> HIDE DEF record
    <2>2. QED
      BY <1>1, <1>3, <2>1, FinishStep
  <1>6. CASE pipe[j].translate
    <2>1. /\ UNCHANGED <<raw, files>>
          /\ \/ Advance(j, After("translating"), "translate")
             \/ Advance(j, After("error"), "idle")
      BY <1>2, <1>6 DEF WhisperSuccess
    <2>2. {"idle", "translate"} \subseteq Stage
      BY DEF Stage
    <2> HIDE DEF record, After
    <2>3. JobInv(j)'
      BY <1>1, <1>2, <1>3, <1>4, <2>1, <2>2, StageLeft, StageEntered
    <2>4. \A i \in Jobs \ {j} : Untouched(i)
      BY <1>3, <2>1, <2>2, CallbackFrame
    <2>5. alive' /\ jobs'[j].status \in {"translating", "error"}
      BY <1>4, <2>1, <2>2, AdvanceEffect DEF PoliteInv
    <2>6. QED
      BY <2>3, <2>4, <2>5, UntouchedJob
         DEF PoliteInv, JobsStayUp, NoneNewlyPublished, Untouched
  <1>7. QED
    BY <1>5, <1>6

LEMMA TranslateSuccessStep ==
    ASSUME TypeOK, PoliteInv, NEW j \in Jobs, TranslateSuccess(j)
    PROVE  JobsStayUp /\ NoneNewlyPublished
  <1> DEFINE record == [jobs[j] EXCEPT !.vttEnglish = TRUE]
  <1>1. Running(j) /\ pipe[j].stage = "translate" /\ record \in JobRecord
    BY EntryTypes DEF TranslateSuccess, Running, TypeOK
  <1>2. Tracked(j)
    BY <1>1, RunningJob
  <1>3. /\ UNCHANGED <<issued, dirs>> /\ Finish(j, record)
        /\ \A i \in Jobs \ {j} : writer'[i] = writer[i]
    BY <1>2 DEF TranslateSuccess, TypeOK
  <1> HIDE DEF record
  <1>4. QED
    BY <1>1, <1>3, FinishStep

-----------------------------------------------------------------------------
(* Uploads                                                                 *)

\* An upload under way finds its entry and every file it has listed.
LEMMA ActiveJob ==
    ASSUME TypeOK, UploadInv, PoliteInv, NEW t \in Uploads, up[t].stored \/ up[t].cur # None
    PROVE  /\ up[t].job \in Jobs /\ up[t].path \in Paths
           /\ Tracked(up[t].job) /\ ~Running(up[t].job)
           /\ Playable \subseteq up[t].listing /\ up[t].listing \subseteq files[up[t].job]
           /\ \A s \in Uploads : up[s].job = up[t].job => s = t
  <1>1. up[t].job \in Jobs /\ up[t].path \in Paths
    BY ActiveUpload
  <1>2. UploadingInv(up[t].job) /\ PipelineInv(up[t].job) /\ Uploading(t, up[t].job)
    BY <1>1 DEF PoliteInv, JobInv, Uploading
  <1>3. QED
    BY <1>1, <1>2 DEF UploadingInv, PipelineInv, Tracked, Uploading

LEMMA R2StoresStep ==
    ASSUME TypeOK, PoliteInv, NEW t \in Uploads, R2Stores(t)
    PROVE  JobsStayUp /\ NoneNewlyPublished
  <1>1. \A s \in Uploads : up'[s].job = up[s].job /\ up'[s].listing = up[s].listing
    BY DEF R2Stores, TypeOK, UploadRecord
  <1>2. UNCHANGED <<alive, issued, jobs, pipe, dirs, files, raw, writer>>
    BY DEF R2Stores
  <1>3. \A i \in Jobs : Untouched(i)
    BY <1>1, <1>2 DEF Untouched
  <1>4. QED
    BY <1>2, <1>3, UntouchedJob DEF PoliteInv, JobsStayUp, NoneNewlyPublished

\* An upload that ends leaves a job nothing works on.
LEMMA UploadLeft ==
    ASSUME TypeOK, UploadInv, PoliteInv, NEW t \in Uploads, up[t].stored \/ up[t].cur # None,
           NEW j \in Jobs, j = up[t].job, up' = [up EXCEPT ![t] = NoUpload],
           jobs'[j].status \in {"error", "r2_done"},
           UNCHANGED <<alive, pipe, issued, raw, writer>>, dirs' \subseteq dirs,
           \A i \in Jobs \ {j} : /\ jobs'[i] = jobs[i] /\ files'[i] = files[i]
                                 /\ i \in dirs => i \in dirs'
    PROVE  JobsStayUp
  <1>1. /\ Tracked(j) /\ ~Running(j) /\ JobInv(j)
        /\ \A s \in Uploads : up[s].job = j => s = t
    BY ActiveJob DEF PoliteInv
  <1>2. up'[t] = NoUpload /\ \A s \in Uploads \ {t} : up'[s] = up[s]
    BY DEF TypeOK
  <1>3. \A i \in Jobs : up'[t].job # i
    BY <1>2, ConstantsAssumption DEF NoUpload
  <1>4. \A i \in Jobs \ {j} : Untouched(i)
    BY <1>2, <1>3 DEF Untouched
  <1>5. JobInv(j)'
    <2>1. \A s \in Uploads : ~Uploading(s, j)'
      BY <1>1, <1>2, <1>3 DEF Uploading
    <2>2. PipelineInv(j)' /\ UploadingInv(j)'
      BY <1>1, <2>1 DEF PipelineInv, UploadingInv, Running
    <2>3. ReadyInv(j)' /\ FreshInv(j)'
      BY <1>1 DEF JobInv, ReadyInv, FreshInv
    <2>4. QED
      BY <2>2, <2>3 DEF JobInv
  <1>6. QED
    BY <1>4, <1>5, UntouchedJob DEF PoliteInv, JobsStayUp

LEMMA PutRejectedStep ==
    ASSUME TypeOK, UploadInv, PoliteInv, NEW t \in Uploads, PutRejected(t)
    PROVE  JobsStayUp /\ NoneNewlyPublished
  <1>1. PICK j \in Jobs : j = up[t].job /\ up[t].cur # None /\ Tracked(j)
    BY ActiveJob DEF PutRejected
  <1>2. /\ jobs' = [jobs EXCEPT ![j] = Failed(j)]
        /\ up' = [up EXCEPT ![t] = NoUpload]
        /\ UNCHANGED <<alive, pipe, issued, dirs, files, raw, writer>>
    BY <1>1 DEF PutRejected, UploadFails
  <1>3. Failed(j).status = "error"
    BY <1>1 DEF Failed, TypeOK, JobRecord
  <1>4. jobs'[j].status = "error" /\ \A i \in Jobs \ {j} : jobs'[i] = jobs[i]
    BY <1>2, <1>3 DEF TypeOK
  <1>5. JobsStayUp
    BY <1>1, <1>2, <1>4, UploadLeft
  <1>6. QED
    BY <1>4, <1>5 DEF NoneNewlyPublished

LEMMA PutNextStep ==
    ASSUME TypeOK, UploadInv, PoliteInv, NEW t \in Uploads, PutNext(t)
    PROVE  JobsStayUp /\ NoneNewlyPublished
  <1>1. /\ up[t].todo \subseteq up[t].listing
        /\ Tracked(up[t].job) /\ up[t].listing \subseteq files[up[t].job]
    BY ActiveJob, ActiveUpload DEF PutNext
  <1>2. PICK f \in First(up[t].todo) :
           /\ up' = [up EXCEPT ![t].todo = @ \ {f}, ![t].cur = f, ![t].stored = FALSE]
           /\ UNCHANGED <<alive, jobs, pipe>>
    BY <1>1 DEF PutNext, First
  <1>3. \A s \in Uploads : up'[s].job = up[s].job /\ up'[s].listing = up[s].listing
    BY <1>2 DEF TypeOK, UploadRecord
  <1>4. UNCHANGED <<alive, issued, jobs, pipe, dirs, files, raw, writer>>
    BY <1>2 DEF PutNext
  <1>5. \A i \in Jobs : Untouched(i)
    BY <1>3, <1>4 DEF Untouched
  <1>6. QED
    BY <1>4, <1>5, UntouchedJob DEF PoliteInv, JobsStayUp, NoneNewlyPublished

\* The one step that announces a link: every file of the listing is in R2.
LEMMA PutLastStep ==
    ASSUME TypeOK, UploadInv, PoliteInv, NEW t \in Uploads, PutLast(t)
    PROVE  JobsStayUp /\ PublishedIsWhole'
  <1>1. PICK j \in Jobs :
           /\ j = up[t].job /\ Tracked(j) /\ up[t].path \in Paths
           /\ Playable \subseteq up[t].listing /\ up[t].listing \subseteq files[j]
    BY ActiveJob DEF PutLast
  <1> DEFINE r == Published(j, up[t].path, up[t].listing)
  <1>2. up[t].listing \subseteq bucket[up[t].path]
    BY ActiveUpload DEF PutLast
  <1>3. /\ jobs' = [jobs EXCEPT ![j] = r]
        /\ dirs' = dirs \ {j} /\ files' = [files EXCEPT ![j] = {}]
        /\ up' = [up EXCEPT ![t] = NoUpload]
        /\ UNCHANGED <<alive, pipe, issued, raw, writer, bucket>>
    BY <1>1 DEF PutLast, RemoveFolder
  <1>4. r.status = "r2_done" /\ r.finalUrl = up[t].path
    BY <1>1 DEF Published, TypeOK, JobRecord
  <1>5. /\ dirs' \subseteq dirs
        /\ \A i \in Jobs \ {j} : (i \in dirs => i \in dirs') /\ files'[i] = files[i]
    BY <1>3 DEF TypeOK
  <1>6. up[t].stored
    BY DEF PutLast
  <1> HIDE DEF r
  <1>7. jobs'[j] = r /\ \A i \in Jobs \ {j} : jobs'[i] = jobs[i]
    BY <1>1, <1>3 DEF TypeOK
  <1>8. JobsStayUp
    <2>1. up' = [up EXCEPT ![t] = NoUpload] /\ UNCHANGED <<alive, pipe, issued, raw, writer>>
      BY <1>3
    <2>2. jobs'[j].status \in {"error", "r2_done"} /\ j = up[t].job
      BY <1>1, <1>4, <1>7
    <2>3. QED
      BY <1>5, <1>6, <1>7, <2>1, <2>2, UploadLeft
  <1>9. PublishedIsWhole'
    BY <1>1, <1>2, <1>3, <1>4, <1>7 DEF PoliteInv, PublishedIsWhole, Playable
  <1>10. QED
    BY <1>8, <1>9

-----------------------------------------------------------------------------
(* Requests                                                                *)

LEMMA UploadToR2Step ==
    ASSUME TypeOK, PoliteInv, NEW t \in Uploads, NEW j \in Jobs, NEW p \in Paths,
           NEW named \in BOOLEAN, Previewable(j), UploadToR2(t, j, p, named)
    PROVE  JobsStayUp /\ NoneNewlyPublished
  <1>1. Playable \subseteq files[j] /\ JobInv(j) /\ jobs[j].status \in {"absent", "done"}
    BY DEF Previewable, PoliteInv, JobInv, ReadyInv, Playable
  <1>2. ~Running(j) /\ \A s \in Uploads : ~Uploading(s, j)
    BY <1>1, Resting
  <1>3. files[j] # {}
    BY <1>1 DEF Playable
  <1>4. /\ up[t] = NoUpload /\ j \in dirs
        /\ UNCHANGED <<alive, issued, pipe, dirs, files, raw, writer>>
    BY <1>3 DEF UploadToR2
  <1>5. j \in issued
    BY <1>1, <1>4 DEF JobInv, FreshInv
  <1>6. CASE named
    <2>1. PICK f \in First(files[j]) :
             up' = [up EXCEPT ![t] =
                      [job |-> j, path |-> p, listing |-> files[j],
                       todo |-> files[j] \ {f}, cur |-> f, stored |-> FALSE]]
      BY <1>3, <1>6 DEF UploadToR2
    <2>2. jobs' = [jobs EXCEPT ![j].status = "uploading_r2"]
      BY <1>3, <1>6 DEF UploadToR2
    <2>3. /\ jobs'[j].status = "uploading_r2"
          /\ \A i \in Jobs \ {j} : jobs'[i] = jobs[i]
      BY <2>2 DEF TypeOK, JobRecord
    <2>4. /\ up'[t].job = j /\ up'[t].listing = files[j]
          /\ \A s \in Uploads \ {t} : up'[s] = up[s]
      BY <2>1 DEF TypeOK
    <2>5. \A i \in Jobs \ {j} : Untouched(i)
      BY <1>4, <2>3, <2>4 DEF Untouched
    <2>6. PipelineInv(j)' /\ UploadingInv(j)'
      BY <1>1, <1>2, <1>4, <2>3, <2>4 DEF PipelineInv, UploadingInv, Running, Uploading
    <2>7. ReadyInv(j)' /\ FreshInv(j)'
      BY <1>4, <1>5, <2>3 DEF ReadyInv, FreshInv
    <2>8. \A i \in Jobs : JobInv(i)'
      BY <2>5, <2>6, <2>7, UntouchedJob DEF PoliteInv, JobInv
    <2>9. QED
      BY <1>4, <2>3, <2>8 DEF PoliteInv, JobsStayUp, NoneNewlyPublished
  <1>7. CASE ~named
    <2>1. up' = up /\ jobs' = [jobs EXCEPT ![j] = Failed(j)]
      BY <1>7 DEF UploadToR2
    <2>2. /\ jobs'[j].status = "error"
          /\ \A i \in Jobs \ {j} : jobs'[i] = jobs[i]
      BY <2>1 DEF TypeOK, JobRecord, Failed
    <2>3. \A i \in Jobs \ {j} : Untouched(i)
      BY <1>4, <2>1, <2>2 DEF Untouched
    <2>4. JobInv(j)'
      BY <1>2, <1>4, <1>5, <2>1, <2>2
         DEF JobInv, PipelineInv, UploadingInv, ReadyInv, FreshInv, Running, Uploading
    <2>5. QED
      BY <1>4, <2>2, <2>3, <2>4, UntouchedJob DEF PoliteInv, JobsStayUp, NoneNewlyPublished
  <1>8. QED
    BY <1>6, <1>7

LEMMA CancelStep ==
    ASSUME TypeOK, PoliteInv, NEW j \in Jobs, Previewable(j), Cancel(j)
    PROVE  JobsStayUp /\ NoneNewlyPublished
  <1>1. JobInv(j) /\ jobs[j].status \in {"absent", "done"}
    BY DEF Previewable, PoliteInv
  <1>2. ~Running(j) /\ \A s \in Uploads : ~Uploading(s, j)
    BY <1>1, Resting
  <1>3. /\ jobs'[j] = NoJob /\ UNCHANGED <<alive, issued, pipe, raw, writer, up>>
        /\ j \notin dirs' /\ files'[j] = {} /\ \A i \in Jobs \ {j} : Untouched(i)
    BY DEF Cancel, RemoveFolder, TypeOK, Untouched
  <1>4. JobInv(j)'
    BY <1>2, <1>3
       DEF JobInv, PipelineInv, UploadingInv, ReadyInv, FreshInv, Running, Uploading,
           Tracked, NoJob
  <1>5. \A i \in Jobs : JobInv(i)'
    BY <1>3, <1>4, UntouchedJob DEF PoliteInv
  <1>6. NoneNewlyPublished
    BY <1>3 DEF NoneNewlyPublished, Untouched, NoJob
  <1>7. QED
    BY <1>3, <1>5, <1>6 DEF PoliteInv, JobsStayUp

LEMMA DeployStep ==
    ASSUME TypeOK, PoliteInv, Deploy
    PROVE  JobsStayUp /\ NoneNewlyPublished
  <1>1. /\ alive' /\ issued' = issued /\ dirs' = dirs /\ files' = files
        /\ \A i \in Jobs : jobs'[i] = NoJob /\ pipe'[i] = IdlePipe
        /\ \A s \in Uploads : up'[s] = NoUpload
    BY DEF Deploy, MemoryLost
  <1>2. \A i \in Jobs : JobInv(i)'
    BY <1>1, ConstantsAssumption
       DEF PoliteInv, JobInv, PipelineInv, UploadingInv, ReadyInv, FreshInv, Running,
           Uploading, Tracked, NoJob, IdlePipe, NoUpload
  <1>3. QED
    BY <1>1, <1>2 DEF JobsStayUp, NoneNewlyPublished, NoJob

-----------------------------------------------------------------------------
(***************************************************************************)
(* The invariant of the server under patient pages                         *)
(***************************************************************************)

LEMMA PoliteInvInit == Init => PoliteInv
  <1> SUFFICES ASSUME Init
               PROVE  PoliteInv
    OBVIOUS
  <1>1. alive /\ PublishedIsWhole
    BY ConstantsAssumption DEF Init, PublishedIsWhole, NoJob
  <1>2. \A j \in Jobs : JobInv(j)
    BY ConstantsAssumption
       DEF Init, JobInv, PipelineInv, UploadingInv, ReadyInv, FreshInv, Running,
           Uploading, Tracked, NoJob, IdlePipe, NoUpload
  <1>3. QED
    BY <1>1, <1>2 DEF PoliteInv

LEMMA PoliteInvStep ==
    ASSUME TypeOK, UploadInv, PoliteInv, [PoliteNext]_vars
    PROVE  PoliteInv'
  <1>1. [Next]_vars
    BY PoliteIsNext
  <1>2. ASSUME JobsStayUp, NoneNewlyPublished
        PROVE  PoliteInv'
    BY <1>1, <1>2, WholeFrame DEF PoliteInv, JobsStayUp, NoneNewlyPublished
  <1>3. ASSUME NEW j \in Jobs, ProgressEvent(j)
        PROVE  FALSE
    BY <1>3, RunningJob DEF ProgressEvent, Running
  <1>4. CASE Work
    BY <1>2, <1>3, <1>4, ProcessStep, QuietStep, CompressEndStep, ErrorStep,
       ExtractEndStep, WhisperSuccessStep, TranslateSuccessStep, R2StoresStep,
       PutNextStep, PutLastStep, PutRejectedStep, DeployStep
       DEF Work, Restart, PoliteInv, JobsStayUp
  <1>5. CASE PoliteRequests
    BY <1>2, <1>5, UploadToR2Step, CancelStep DEF PoliteRequests
  <1>6. CASE UNCHANGED vars
    <2>1. \A i \in Jobs : Untouched(i)
      BY <1>6 DEF vars, Untouched
    <2>2. QED
      BY <1>6, <2>1, UntouchedJob DEF vars, PoliteInv, PublishedIsWhole
  <1>7. QED
    BY <1>4, <1>5, <1>6 DEF PoliteNext

LEMMA PoliteInvariance == PoliteSpec => [](ServerInv /\ PoliteInv)
  <1>1. Init => ServerInv /\ PoliteInv
    BY ServerInvInit, PoliteInvInit
  <1>2. ServerInv /\ PoliteInv /\ [PoliteNext]_vars => (ServerInv /\ PoliteInv)'
    BY ServerInvStep, PoliteInvStep, PoliteIsNext DEF ServerInv
  <1>3. QED
    BY <1>1, <1>2, PTL DEF PoliteSpec

\* Patient pages, however many, never take the process down.
THEOREM NothingKillsTheServer == PoliteSpec => []ServerStaysUp
  <1>1. PoliteInv => ServerStaysUp
    BY DEF PoliteInv, ServerStaysUp
  <1>2. QED
    BY <1>1, PoliteInvariance, PTL

\* Under patient pages a ready job can be played and its input is gone.
THEOREM PreviewCanBePlayed == PoliteSpec => []PreviewIsBacked
  <1>1. PoliteInv => PreviewIsBacked
    BY DEF PoliteInv, JobInv, ReadyInv, PreviewIsBacked, Playable
  <1>2. QED
    BY <1>1, PoliteInvariance, PTL

\* Under patient pages a link leads to a playlist and its segments.
THEOREM LinkCanBePlayed == PoliteSpec => []PublishedIsWhole
  <1>1. PoliteInv => PublishedIsWhole
    BY DEF PoliteInv
  <1>2. QED
    BY <1>1, PoliteInvariance, PTL

-----------------------------------------------------------------------------
(***************************************************************************)
(* The implementation of Lifecycle                                         *)
(***************************************************************************)

\* What a page sees when one entry changes.
LEMMA OneEntry ==
    ASSUME TypeOK, NEW j \in Jobs, \A i \in Jobs \ {j} : jobs'[i] = jobs[i]
    PROVE  /\ Phases' = [Phases EXCEPT ![j] = PhaseOf(jobs'[j].status)]
           /\ Urls' = [Urls EXCEPT ![j] = jobs'[j].finalUrl]
  BY DEF Phases, Urls

LEMMA SameUrl ==
    ASSUME TypeOK, NEW j \in Jobs, \A i \in Jobs \ {j} : jobs'[i] = jobs[i],
           jobs'[j].finalUrl = jobs[j].finalUrl
    PROVE  Urls' = Urls
  BY DEF Urls

LEMMA SamePhase ==
    ASSUME TypeOK, NEW j \in Jobs, \A i \in Jobs \ {j} : jobs'[i] = jobs[i],
           PhaseOf(jobs'[j].status) = PhaseOf(jobs[j].status)
    PROVE  Phases' = Phases
  BY DEF Phases

LEMMA SameOnline ==
    ASSUME UNCHANGED bucket
    PROVE  Online' = Online
  BY DEF Online

\* A pipeline callback gets the job ready, fails it, or keeps it working.
LEMMA CallbackRefines ==
    ASSUME TypeOK, NEW j \in Jobs, NEW r, NEW s \in Stage, Advance(j, r, s),
           SameLinks(jobs[j], r), UNCHANGED <<issued, bucket>>,
           \/ /\ jobs[j].status \in {"compressing", "whisper", "translating"}
              /\ r.status \in {"whisper", "translating", "done", "error"}
           \/ jobs[j].status = "error" /\ r.status = "error"
    PROVE  Promise!Next \/ UNCHANGED <<issued, Phases, Urls, Online>>
  <1>1. jobs'[j] = r /\ \A i \in Jobs \ {j} : jobs'[i] = jobs[i]
    BY AdvanceEffect
  <1>2. Urls' = Urls /\ Online' = Online
    BY <1>1, SameUrl, SameOnline DEF SameLinks
  <1>3. Phases' = [Phases EXCEPT ![j] = PhaseOf(r.status)]
    BY <1>1, OneEntry
  <1>4. CASE PhaseOf(jobs[j].status) = PhaseOf(r.status)
    BY <1>1, <1>2, <1>4, SamePhase
  <1>5. CASE PhaseOf(jobs[j].status) # PhaseOf(r.status)
    <2>1. Phases[j] = "working" /\ PhaseOf(r.status) \in {"ready", "failed"}
      BY <1>5 DEF Phases, PhaseOf
    <2>2. Promise!GetReady(j) \/ Promise!Fail(j)
      BY <1>2, <1>3, <2>1 DEF Promise!GetReady, Promise!Fail, Promise!MoveTo
    <2>3. QED
      BY <2>2 DEF Promise!Next
  <1>6. QED
    BY <1>4, <1>5

\* The status a page reads while the pipeline of a job runs.
LEMMA RunningStatus ==
    ASSUME TypeOK, PoliteInv, NEW j \in Jobs, Running(j)
    PROVE  /\ pipe[j].stage # "closing" =>
                 jobs[j].status \in {"compressing", "whisper", "translating"}
           /\ pipe[j].stage = "closing" => jobs[j].status = "error"
  BY DEF TypeOK, PipeRecord, Stage, PoliteInv, JobInv, PipelineInv, Running

LEMMA PipelineRefines ==
    ASSUME TypeOK, PoliteInv, NEW j \in Jobs,
           \/ CompressEnd(j) \/ CompressError(j) \/ ExtractError(j)
           \/ \E found \in BOOLEAN : ExtractEnd(j, found)
           \/ SpawnError(j) \/ WhisperError(j)
           \/ \E found \in BOOLEAN : WhisperSuccess(j, found)
           \/ TranslateSuccess(j)
    PROVE  Promise!Next \/ UNCHANGED <<issued, Phases, Urls, Online>>
  <1> DEFINE A(st) == [jobs[j] EXCEPT !.vttOriginal = TRUE, !.status = st]
             B(st) == [jobs[j] EXCEPT !.vttEnglish = TRUE, !.status = st]
             records == {[jobs[j] EXCEPT !.status = "whisper"], Failed(j),
                         A("done"), A("translating"), A("error"), B("done")}
  <1>1. Running(j) /\ UNCHANGED <<issued, bucket>>
    BY DEF CompressEnd, CompressError, ExtractError, ExtractEnd, SpawnError,
           WhisperError, WhisperSuccess, TranslateSuccess, Running
  <1>2. Tracked(j) /\ j \in dirs
    BY <1>1, RunningJob
  <1>3. \A r \in records :
           /\ SameLinks(jobs[j], r)
           /\ r.status \in {"whisper", "translating", "done", "error"}
    BY DEF TypeOK, JobRecord, SameLinks, Failed
  <1>4. Failed(j) \in records /\ Failed(j).status = "error"
    BY DEF Failed, TypeOK, JobRecord
  <1>5. /\ \A st : A(st) = [[jobs[j] EXCEPT !.vttOriginal = TRUE] EXCEPT !.status = st]
        /\ \A st : B(st) = [[jobs[j] EXCEPT !.vttEnglish = TRUE] EXCEPT !.status = st]
    OBVIOUS
  <1>6. CASE WhisperError(j)
    <2>1. Advance(j, Failed(j), "idle") /\ "idle" \in Stage
      BY <1>2, <1>6 DEF WhisperError, Stage
    <2> HIDE DEF records
    <2>2. QED
      BY <1>1, <1>3, <1>4, <2>1, RunningStatus, CallbackRefines
  <1>7. CASE ~WhisperError(j) /\ ~UNCHANGED jobs
    <2>1. \E r \in records, s \in Stage : Advance(j, r, s)
      BY <1>2, <1>5, <1>7
         DEF CompressEnd, CompressError, ExtractError, ExtractEnd, SpawnError,
             WhisperSuccess, TranslateSuccess, Finish, Stage
    <2>2. pipe[j].stage # "closing"
      BY <1>7 DEF CompressEnd, CompressError, ExtractError, ExtractEnd, SpawnError,
                  WhisperSuccess, TranslateSuccess
    <2> HIDE DEF records
    <2>3. QED
      BY <1>1, <1>3, <2>1, <2>2, RunningStatus, CallbackRefines
  <1>8. CASE UNCHANGED jobs
    BY <1>1, <1>8 DEF Phases, Urls, Online
  <1>9. QED
    BY <1>6, <1>7, <1>8

LEMMA CancelRefines ==
    ASSUME TypeOK, PoliteInv, NEW j \in Jobs, Previewable(j), Cancel(j)
    PROVE  Promise!Next
  <1>1. \/ jobs[j].status = "done"
        \/ jobs[j].status = "absent" /\ j \in issued
    BY DEF Previewable, PoliteInv, JobInv, FreshInv
  <1>2. /\ jobs'[j] = NoJob /\ UNCHANGED <<issued, bucket>>
        /\ \A i \in Jobs \ {j} : jobs'[i] = jobs[i]
    BY DEF Cancel, TypeOK
  <1>3. /\ Phases' = [Phases EXCEPT ![j] = "unknown"]
        /\ Urls' = [Urls EXCEPT ![j] = None] /\ Online' = Online
    BY <1>2, OneEntry, SameOnline DEF PhaseOf, NoJob
  <1>4. Phases[j] = "ready" \/ (Phases[j] = "unknown" /\ j \in issued)
    BY <1>1 DEF Phases, PhaseOf
  <1>5. Promise!Delete(j)
    BY <1>2, <1>3, <1>4 DEF Promise!Delete, Promise!Known, Promise!MoveTo
  <1>6. QED
    BY <1>5 DEF Promise!Next

LEMMA UploadToR2Refines ==
    ASSUME TypeOK, PoliteInv, NEW t \in Uploads, NEW j \in Jobs, NEW p \in Paths,
           NEW named \in BOOLEAN, Previewable(j), UploadToR2(t, j, p, named)
    PROVE  Promise!Next
  <1>1. /\ files[j] # {}
        /\ \/ jobs[j].status = "done"
           \/ jobs[j].status = "absent" /\ j \in issued
    BY DEF Previewable, PoliteInv, JobInv, ReadyInv, FreshInv, Playable
  <1>2. /\ UNCHANGED <<issued, bucket>>
        /\ \/ jobs' = [jobs EXCEPT ![j].status = "uploading_r2"]
           \/ jobs' = [jobs EXCEPT ![j].status = "error"]
    BY <1>1 DEF UploadToR2, Failed
  <1>3. /\ \A i \in Jobs \ {j} : jobs'[i] = jobs[i]
        /\ jobs'[j].status \in {"uploading_r2", "error"}
        /\ jobs'[j].finalUrl = jobs[j].finalUrl
    BY <1>2 DEF TypeOK, JobRecord
  <1>4. /\ Phases' = [Phases EXCEPT ![j] = PhaseOf(jobs'[j].status)]
        /\ Urls' = Urls /\ Online' = Online
    BY <1>2, <1>3, OneEntry, SameUrl, SameOnline
  <1>5. PhaseOf(jobs'[j].status) \in {"publishing", "failed"}
    BY <1>3 DEF PhaseOf
  <1>6. Phases[j] = "ready" \/ (Phases[j] = "unknown" /\ j \in issued)
    BY <1>1 DEF Phases, PhaseOf
  <1>7. Promise!Publish(j) \/ Promise!Fail(j)
    BY <1>2, <1>4, <1>5, <1>6
       DEF Promise!Publish, Promise!Fail, Promise!Known, Promise!MoveTo
  <1>8. QED
    BY <1>7 DEF Promise!Next

LEMMA UploadRefines ==
    ASSUME TypeOK, UploadInv, PoliteInv, NEW t \in Uploads,
           R2Stores(t) \/ PutNext(t) \/ PutLast(t) \/ PutRejected(t)
    PROVE  Promise!Next \/ UNCHANGED <<issued, Phases, Urls, Online>>
  <1>1. PICK j \in Jobs :
           /\ j = up[t].job /\ Tracked(j) /\ up[t].path \in Paths
           /\ Playable \subseteq up[t].listing /\ up[t].listing \subseteq files[j]
    BY ActiveJob DEF R2Stores, PutNext, PutLast, PutRejected
  <1>2. Phases[j] = "publishing"
    BY <1>1 DEF PoliteInv, JobInv, UploadingInv, Uploading, Phases, PhaseOf
  <1>3. CASE R2Stores(t)
    <2>1. UNCHANGED <<issued, jobs>>
      BY <1>3 DEF R2Stores
    <2>2. Online' = Online \/ Online' = Online \cup {up[t].path}
      BY <1>1, <1>3 DEF R2Stores, Online, TypeOK
    <2>3. Phases' = Phases /\ Urls' = Urls
      BY <2>1 DEF Phases, Urls
    <2>4. CASE Online' = Online \cup {up[t].path}
      <3>1. Promise!ComesOnline(up[t].path)
        BY <1>2, <2>1, <2>3, <2>4 DEF Promise!ComesOnline
      <3>2. QED
        BY <1>1, <3>1 DEF Promise!Next
    <2>5. QED
      BY <2>1, <2>2, <2>3, <2>4
  <1>4. CASE PutNext(t)
    <2>1. up[t].todo \subseteq up[t].listing
      BY <1>4, ActiveUpload DEF PutNext
    <2>2. UNCHANGED <<issued, jobs, bucket>>
      BY <1>1, <1>4, <2>1 DEF PutNext, First
    <2>3. QED
      BY <2>2 DEF Phases, Urls, Online
  <1>5. CASE PutLast(t)
    <2>1. up[t].listing \subseteq bucket[up[t].path]
      BY <1>5, ActiveUpload DEF PutLast
    <2>2. /\ jobs' = [jobs EXCEPT ![j] = Published(j, up[t].path, up[t].listing)]
          /\ UNCHANGED <<issued, bucket>>
      BY <1>1, <1>5 DEF PutLast
    <2>3. /\ jobs'[j].status = "r2_done" /\ jobs'[j].finalUrl = up[t].path
          /\ \A i \in Jobs \ {j} : jobs'[i] = jobs[i]
      BY <2>2 DEF TypeOK, JobRecord, Published
    <2>4. /\ Phases' = [Phases EXCEPT ![j] = "published"]
          /\ Urls' = [Urls EXCEPT ![j] = up[t].path] /\ Online' = Online
      BY <2>2, <2>3, OneEntry, SameOnline DEF PhaseOf
    <2>5. up[t].path \in Online
      BY <1>1, <2>1 DEF Online, Playable
    <2>6. Promise!Announce(j, up[t].path)
      BY <1>2, <2>2, <2>4, <2>5 DEF Promise!Announce, Promise!MoveTo
    <2>7. QED
      BY <1>1, <2>6 DEF Promise!Next
  <1>6. CASE PutRejected(t)
    <2>1. jobs' = [jobs EXCEPT ![j].status = "error"] /\ UNCHANGED <<issued, bucket>>
      BY <1>1, <1>6 DEF PutRejected, UploadFails, Failed
    <2>2. /\ jobs'[j].status = "error" /\ jobs'[j].finalUrl = jobs[j].finalUrl
          /\ \A i \in Jobs \ {j} : jobs'[i] = jobs[i]
      BY <2>1 DEF TypeOK, JobRecord
    <2>3. /\ Phases' = [Phases EXCEPT ![j] = "failed"] /\ Urls' = Urls /\ Online' = Online
      BY <2>1, <2>2, OneEntry, SameUrl, SameOnline DEF PhaseOf
    <2>4. Promise!Fail(j)
      BY <1>2, <2>1, <2>3 DEF Promise!Fail, Promise!MoveTo
    <2>5. QED
      BY <2>4 DEF Promise!Next
  <1>7. QED
    BY <1>3, <1>4, <1>5, <1>6

LEMMA ProcessRefines ==
    ASSUME TypeOK, PoliteInv, NEW j \in Jobs, NEW kind \in Kind,
           NEW translate \in BOOLEAN, Process(j, kind, translate)
    PROVE  Promise!Next
  <1>1. jobs[j].status = "absent" /\ j \notin issued
    BY DEF Process, PoliteInv, JobInv, FreshInv, Tracked
  <1>2. /\ jobs'[j] = [NoJob EXCEPT !.status = "compressing"]
        /\ issued' = issued \cup {j} /\ UNCHANGED bucket
        /\ \A i \in Jobs \ {j} : jobs'[i] = jobs[i]
    BY DEF Process, TypeOK
  <1>3. jobs'[j].status = "compressing" /\ jobs'[j].finalUrl = None
    BY <1>2 DEF NoJob
  <1>4. /\ Phases' = [Phases EXCEPT ![j] = "working"]
        /\ Urls' = [Urls EXCEPT ![j] = None] /\ Online' = Online
    BY <1>2, <1>3, OneEntry, SameOnline DEF PhaseOf
  <1>5. Phases[j] = "unknown"
    BY <1>1 DEF Phases, PhaseOf
  <1>6. Promise!Accept(j)
    BY <1>1, <1>2, <1>4, <1>5 DEF Promise!Accept, Promise!MoveTo
  <1>7. QED
    BY <1>6 DEF Promise!Next

LEMMA InitRefines == Init => Promise!Init
  BY ConstantsAssumption
     DEF Init, Promise!Init, Phases, PhaseOf, Urls, Online, NoJob

LEMMA StepRefines ==
    ASSUME TypeOK, UploadInv, PoliteInv, [PoliteNext]_vars
    PROVE  Promise!Next \/ UNCHANGED <<issued, Phases, Urls, Online>>
  <1>1. ASSUME NEW j \in Jobs, RejectPodcast(j)
        PROVE  Promise!Next
    <2>1. Promise!Draw(j)
      BY <1>1 DEF RejectPodcast, Promise!Draw, Phases, Urls, Online
    <2>2. QED
      BY <2>1 DEF Promise!Next
  <1>2. ASSUME NEW j \in Jobs, NEW f \in File, ChildWrites(j, f)
        PROVE  UNCHANGED <<issued, Phases, Urls, Online>>
    BY <1>2 DEF ChildWrites, Phases, Urls, Online
  <1>3. ASSUME NEW j \in Jobs, ProgressEvent(j)
        PROVE  FALSE
    BY <1>3, RunningJob DEF ProgressEvent, Running
  <1>4. CASE Deploy
    <2>1. /\ Phases' = [j \in Jobs |-> "unknown"] /\ Urls' = [j \in Jobs |-> None]
          /\ UNCHANGED <<issued, Online>>
      BY <1>4 DEF Deploy, MemoryLost, Phases, PhaseOf, Urls, NoJob, Online
    <2>2. Promise!Forget
      BY <2>1 DEF Promise!Forget
    <2>3. QED
      BY <2>2 DEF Promise!Next
  <1>5. CASE UNCHANGED vars
    BY <1>5 DEF vars, Phases, Urls, Online
  <1>6. CASE Work
    BY <1>1, <1>2, <1>3, <1>4, <1>6, ProcessRefines, PipelineRefines, UploadRefines
       DEF Work, Restart, PoliteInv
  <1>7. CASE PoliteRequests
    BY <1>7, CancelRefines, UploadToR2Refines DEF PoliteRequests
  <1>8. QED
    BY <1>5, <1>6, <1>7 DEF PoliteNext

\* The server, its children and R2 implement the life cycle of a job.
THEOREM ServerKeepsPromise == PoliteSpec => KeepsPromise
  <1>1. ServerInv /\ PoliteInv /\ [PoliteNext]_vars => [Promise!Next]_(Promise!vars)
    BY StepRefines DEF ServerInv, Promise!vars
  <1>2. QED
    BY <1>1, InitRefines, PoliteInvariance, PTL DEF PoliteSpec, KeepsPromise, Promise!Spec

-----------------------------------------------------------------------------
(***************************************************************************)
(* "Published" is final                                                    *)
(***************************************************************************)

LEMMA FinalStep ==
    ASSUME TypeOK, UploadInv, PoliteInv, [PoliteNext]_vars,
           NEW j \in Jobs, jobs[j].status = "r2_done"
    PROVE  jobs'[j] = jobs[j] \/ jobs'[j] = NoJob
  <1>1. /\ ~Running(j) /\ j \in issued /\ ~Previewable(j)
        /\ \A t \in Uploads : up[t].job # j
    BY Resting DEF PoliteInv, JobInv, FreshInv, Tracked, Previewable, Uploading
  <1>2. ASSUME NEW i \in Jobs, Running(i),
               \/ ProgressEvent(i) \/ CompressEnd(i) \/ CompressError(i)
               \/ \E found \in BOOLEAN : ExtractEnd(i, found)
               \/ ExtractError(i) \/ SpawnError(i) \/ WhisperError(i)
               \/ \E found \in BOOLEAN : WhisperSuccess(i, found)
               \/ TranslateSuccess(i)
        PROVE  jobs'[j] = jobs[j] \/ jobs'[j] = NoJob
    <2>1. UNCHANGED jobs \/ MemoryLost \/ \E r : jobs' = [jobs EXCEPT ![i] = r]
      BY <1>2 DEF ProgressEvent, CompressEnd, CompressError, ExtractEnd, ExtractError,
                  SpawnError, WhisperError, WhisperSuccess, TranslateSuccess, Crash,
                  Advance, Finish
    <2>2. QED
      BY <1>1, <1>2, <2>1 DEF MemoryLost, TypeOK
  <1>3. ASSUME NEW i \in Jobs,
               \/ ProgressEvent(i) \/ CompressEnd(i) \/ CompressError(i)
               \/ \E found \in BOOLEAN : ExtractEnd(i, found)
               \/ ExtractError(i) \/ SpawnError(i) \/ WhisperError(i)
               \/ \E found \in BOOLEAN : WhisperSuccess(i, found)
               \/ TranslateSuccess(i)
        PROVE  Running(i)
    BY <1>3 DEF ProgressEvent, CompressEnd, CompressError, ExtractEnd, ExtractError,
                SpawnError, WhisperError, WhisperSuccess, TranslateSuccess, Running
  <1>4. ASSUME NEW i \in Jobs,
               \/ \E kind \in Kind, translate \in BOOLEAN : Process(i, kind, translate)
               \/ RejectPodcast(i) \/ \E f \in File : ChildWrites(i, f)
        PROVE  jobs'[j] = jobs[j]
    BY <1>1, <1>4 DEF Process, RejectPodcast, ChildWrites, TypeOK
  <1>5. ASSUME NEW t \in Uploads,
               R2Stores(t) \/ PutNext(t) \/ PutLast(t) \/ PutRejected(t)
        PROVE  jobs'[j] = jobs[j] \/ jobs'[j] = NoJob
    <2>1. \/ UNCHANGED jobs \/ MemoryLost
          \/ \E r : jobs' = [jobs EXCEPT ![up[t].job] = r]
      BY <1>5 DEF R2Stores, PutNext, PutLast, PutRejected, UploadFails, Crash
    <2>2. QED
      BY <1>1, <2>1 DEF MemoryLost, TypeOK
  <1>6. ASSUME NEW i \in Jobs, Previewable(i),
               \/ Cancel(i)
               \/ \E t \in Uploads, p \in Paths, named \in BOOLEAN : UploadToR2(t, i, p, named)
        PROVE  jobs'[j] = jobs[j]
    BY <1>1, <1>6 DEF Cancel, UploadToR2, TypeOK
  <1>7. CASE Restart \/ Deploy \/ UNCHANGED vars
    BY <1>7 DEF Restart, Deploy, MemoryLost, vars
  <1>8. QED
    BY <1>2, <1>3, <1>4, <1>5, <1>6, <1>7 DEF PoliteNext, Work, PoliteRequests

\* Under patient pages only a restart changes the entry of a published job.
THEOREM PublishedForGood == PoliteSpec => PublishedIsFinal
  <1>1. /\ ServerInv /\ PoliteInv /\ [PoliteNext]_vars
        => [\A j \in Jobs :
               jobs[j].status = "r2_done" => jobs'[j] = jobs[j] \/ jobs'[j] = NoJob]_vars
    BY FinalStep DEF ServerInv
  <1>2. QED
    BY <1>1, PoliteInvariance, PTL DEF PoliteSpec, PublishedIsFinal
=============================================================================
