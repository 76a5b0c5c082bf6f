-------------------------- MODULE StudioPoliteProofs --------------------------
(***************************************************************************)
(* A page whose user waits for answers and whose polls do not overlap is   *)
(* one of the clients PoliteSpec describes.                                *)
(***************************************************************************)
EXTENDS StudioProofs

-----------------------------------------------------------------------------
(***************************************************************************)
(* What the page may still ask for stays on offer while the server works   *)
(***************************************************************************)

\* A deletion whose answer was lost has left nothing of the job.
Deleted(j) == j \in issued /\ jobs[j] = NoJob /\ j \notin dirs /\ files[j] = {}

\* A job the page may publish or delete without disturbing anything.
Offer(j) == j \in Jobs /\ (Previewable(j) \/ Deleted(j))

SameJob(j) ==
    /\ jobs'[j] = jobs[j] /\ files'[j] = files[j] /\ writer'[j] = writer[j]
    /\ j \in dirs' => j \in dirs
    /\ j \in raw' => j \in raw
    /\ j \in issued => j \in issued'

LEMMA SameJobOffer ==
    ASSUME NEW j, Offer(j), SameJob(j)
    PROVE  Offer(j)'
  BY DEF Offer, SameJob, Previewable, Deleted

LEMMA OfferRests ==
    ASSUME TypeOK, PoliteInv, NEW j, Offer(j)
    PROVE  /\ j \in Jobs /\ j \in issued /\ pipe[j].stage = "idle"
           /\ \A t \in Uploads : up[t].job # j
  <1>1. j \in Jobs /\ JobInv(j)
    BY DEF Offer, PoliteInv
  <1>2. jobs[j].status \in {"absent", "done"}
    BY DEF Offer, Previewable, Deleted, NoJob
  <1>3. j \in issued
    BY <1>1 DEF Offer, Previewable, Deleted, JobInv, FreshInv, Tracked
  <1>4. QED
    BY <1>1, <1>2, <1>3, Resting DEF Running, Uploading

LEMMA ChildKeepsOffer ==
    ASSUME TypeOK, NEW j \in Jobs, Offer(j), NEW i \in Jobs, NEW f \in File, ChildWrites(i, f)
    PROVE  Offer(j)'
  <1>1. CASE i # j
    BY <1>1, SameJobOffer DEF ChildWrites, SameJob, TypeOK
  <1>2. CASE i = j
    <2>1. jobs[j].status = "done"
      BY <1>2 DEF ChildWrites, Offer, Previewable, Deleted
    <2>2. jobs' = jobs
      BY DEF ChildWrites
    <2>3. QED
      BY <2>1, <2>2 DEF Offer, Previewable
  <1>3. QED
    BY <1>1, <1>2

LEMMA PipelineKeepsOffer ==
    ASSUME TypeOK, PoliteInv, NEW j, Offer(j), alive', NEW i \in Jobs,
           \/ ProgressEvent(i) \/ CompressEnd(i) \/ CompressError(i)
           \/ \E found \in BOOLEAN : ExtractEnd(i, found)
           \/ ExtractError(i) \/ SpawnError(i) \/ WhisperError(i)
           \/ \E found \in BOOLEAN : WhisperSuccess(i, found)
           \/ TranslateSuccess(i)
    PROVE  Offer(j)'
  <1>1. i # j
    BY OfferRests DEF ProgressEvent, CompressEnd, CompressError, ExtractEnd, ExtractError,
                      SpawnError, WhisperError, WhisperSuccess, TranslateSuccess
  <1>2. ~Crash
    BY DEF Crash
  <1>3. UNCHANGED jobs \/ \E r : jobs' = [jobs EXCEPT ![i] = r]
    BY <1>2 DEF ProgressEvent, CompressEnd, CompressError, ExtractEnd, ExtractError,
                SpawnError, WhisperError, WhisperSuccess, TranslateSuccess, Advance, Finish
  <1>4. /\ UNCHANGED <<dirs, issued>> /\ raw' \subseteq raw
        /\ UNCHANGED files \/ \E r : files' = [files EXCEPT ![i] = r]
        /\ UNCHANGED writer \/ \E r : writer' = [writer EXCEPT ![i] = r]
    BY <1>2 DEF ProgressEvent, CompressEnd, CompressError, ExtractEnd, ExtractError,
                SpawnError, WhisperError, WhisperSuccess, TranslateSuccess, Finish
  <1>5. SameJob(j)
    BY <1>1, <1>3, <1>4, OfferRests DEF SameJob, TypeOK
  <1>6. QED
    BY <1>5, SameJobOffer

LEMMA UploadKeepsOffer ==
    ASSUME TypeOK, PoliteInv, NEW j, Offer(j), alive', NEW t \in Uploads,
           R2Stores(t) \/ PutNext(t) \/ PutLast(t) \/ PutRejected(t)
    PROVE  Offer(j)'
  <1>1. up[t].job # j
    BY OfferRests
  <1>2. ~Crash
    BY DEF Crash
  <1>3. /\ UNCHANGED <<issued, raw, writer>> /\ dirs' \subseteq dirs
        /\ UNCHANGED jobs \/ \E r : jobs' = [jobs EXCEPT ![up[t].job] = r]
        /\ UNCHANGED files \/ \E r : files' = [files EXCEPT ![up[t].job] = r]
    BY <1>2 DEF R2Stores, PutNext, PutLast, PutRejected, UploadFails, RemoveFolder
  <1>4. SameJob(j)
    BY <1>1, <1>3, OfferRests DEF SameJob, TypeOK
  <1>5. QED
    BY <1>4, SameJobOffer

\* A restart forgets the entry of a ready job, but not what can be published.
LEMMA DeployKeepsOffer ==
    ASSUME TypeOK, PoliteInv, NEW j, Offer(j), Deploy
    PROVE  Offer(j)'
  <1>1. j \in Jobs /\ JobInv(j)
    BY DEF Offer, PoliteInv
  <1>2. jobs'[j] = NoJob /\ writer'[j] = {} /\ UNCHANGED <<issued, dirs, files, raw>>
    BY <1>1 DEF Deploy, MemoryLost
  <1>3. CASE Deleted(j)
    BY <1>1, <1>2, <1>3 DEF Deleted, Offer
  <1>4. CASE Previewable(j)
    <2>1. Playable \subseteq files[j] /\ j \notin raw
      BY <1>1, <1>4 DEF Previewable, JobInv, ReadyInv, Playable
    <2>2. QED
      BY <1>1, <1>2, <2>1 DEF Previewable, Offer, NoJob, Playable
  <1>5. QED
    BY <1>3, <1>4 DEF Offer

LEMMA WorkKeepsOffer ==
    ASSUME TypeOK, UploadInv, PoliteInv, Work, NEW j, Offer(j)
    PROVE  Offer(j)'
  <1>1. alive' /\ j \in Jobs /\ j \in issued
    BY PoliteInvStep, OfferRests DEF PoliteNext, PoliteInv
  <1>2. ASSUME NEW i \in Jobs,
               \/ \E kind \in Kind, translate \in BOOLEAN : Process(i, kind, translate)
               \/ RejectPodcast(i)
        PROVE  Offer(j)'
    <2>1. i # j
      BY <1>1, <1>2 DEF Process, RejectPodcast
    <2>2. SameJob(j)
      BY <1>1, <1>2, <2>1 DEF Process, RejectPodcast, SameJob, TypeOK
    <2>3. QED
      BY <2>2, SameJobOffer
  <1>3. CASE Restart
    BY <1>3, SameJobOffer DEF Restart, SameJob
  <1>4. QED
    BY <1>1, <1>2, <1>3, ChildKeepsOffer, PipelineKeepsOffer, UploadKeepsOffer,
       DeployKeepsOffer DEF Work

-----------------------------------------------------------------------------
(***************************************************************************)
(* A patient page has one request under way, and asks for jobs on offer    *)
(***************************************************************************)

\* The jobs the page may come to publish or to delete.
Wants(j) ==
    \/ "preview" \in shown /\ current = j
    \/ \E r \in Posts : /\ posts[r].kind \in {"upload", "cancel"}
                        /\ posts[r].at = "sent"
                        /\ posts[r].job = j
    \/ \E q \in Polls : polls[q].at = "answered" /\ polls[q].status = "done" /\ current = j

Deleting(r) ==
    posts[r].kind = "cancel" /\ posts[r].awaited /\ shown = {"preview"} /\ countdown = {}

OneRequest ==
    /\ \A r \in Posts : posts[r] # FreePost => Asking(r) \/ Deleting(r)
    /\ \A r, s \in Posts : posts[r] # FreePost /\ posts[s] # FreePost => r = s

WantsOffers == \A j : Wants(j) => Offer(j)

LEMMA PatientLoad ==
    ASSUME Patient, StudioTypeOK, NEW j, Load(j)
    PROVE  OneRequest' /\ \A i : ~Wants(i)'
  <1>1. \A r \in Posts : posts'[r] = FreePost
    BY DEF Load, Abandoned
  <1>2. \A q \in Polls : polls'[q].at # "answered"
    BY DEF Load, FreePoll, Asked
  <1>3. "preview" \notin shown'
    BY DEF Load
  <1>4. OneRequest'
    BY <1>1 DEF OneRequest
  <1>5. \A i : ~Wants(i)'
    BY <1>1, <1>2, <1>3 DEF Wants, FreePost
  <1>6. QED
    BY <1>4, <1>5

\* A request sent when no other is under way.
LEMMA FirstRequest ==
    ASSUME StudioTypeOK, Quiet, NEW r \in Posts, NEW answer,
           posts' = [posts EXCEPT ![r] = answer], Asking(r)' \/ Deleting(r)'
    PROVE  OneRequest'
  BY DEF Quiet, OneRequest, StudioTypeOK

LEMMA QuietModes ==
    ASSUME Modes, OneRequest
    PROVE  /\ ~Waits /\ ~Offers => Quiet
           /\ Offers /\ countdown # {} => Quiet
           /\ \A r \in Posts : Asking(r) => Waits
  <1>1. \A r \in Posts : Asking(r) => Waits
    BY DEF Modes, Follows, Offers, Rests, NoneAsks
  <1>2. \A r \in Posts : Deleting(r) => Offers /\ countdown = {}
    BY DEF Deleting, Modes, Waits, Follows, Rests
  <1>3. ~(Waits /\ Offers)
    BY DEF Waits, Offers
  <1>4. QED
    BY <1>1, <1>2, <1>3 DEF OneRequest, Quiet

LEMMA PatientUser ==
    ASSUME Patient, StudioTypeOK, Modes, OneRequest, User \/ Timers
    PROVE  OneRequest' /\ \A j : Wants(j)' => Wants(j)
  <1>1. ASSUME NEW r \in Posts, Submit(r)
        PROVE  OneRequest' /\ \A j : Wants(j)' => Wants(j)
    <2>1. Quiet
      BY <1>1, QuietModes DEF Submit, Waits, Offers
    <2>2. posts'[r] = Request("process", None)
      BY <1>1 DEF Submit, StudioTypeOK
    <2>3. Asking(r)'
      BY <2>2 DEF Asking, Request
    <2>4. OneRequest'
      BY <1>1, <2>1, <2>3, FirstRequest DEF Submit
    <2>5. \A j : Wants(j)' => Wants(j)
      BY <1>1, <2>2 DEF Submit, Wants, Request, StudioTypeOK
    <2>6. QED
      BY <2>4, <2>5
  <1>2. ASSUME NEW r \in Posts, RequestUpload(r), Offers, Quiet
        PROVE  OneRequest' /\ \A j : Wants(j)' => Wants(j)
    <2>1. posts'[r] = Request("upload", current)
      BY <1>2 DEF RequestUpload, StudioTypeOK
    <2>2. Asking(r)'
      BY <2>1 DEF Asking, Request
    <2>3. OneRequest'
      BY <1>2, <2>2, FirstRequest DEF RequestUpload
    <2>4. \A j : Wants(j)' => Wants(j)
      BY <1>2, <2>1 DEF RequestUpload, Offers, Wants, Request, StudioTypeOK
    <2>5. QED
      BY <2>3, <2>4
  <1>3. ASSUME NEW r \in Posts, PressCancel(r)
        PROVE  OneRequest' /\ \A j : Wants(j)' => Wants(j)
    <2>1. Quiet
      BY <1>3 DEF PressCancel, MayAct
    <2>2. Offers
      BY <1>3 DEF PressCancel, Modes, Waits, Follows, Rests
    <2>3. posts'[r] = Request("cancel", current)
      BY <1>3 DEF PressCancel, StudioTypeOK
    <2>4. Deleting(r)'
      BY <1>3, <2>2, <2>3 DEF PressCancel, Deleting, Request, Offers, Cleared
    <2>5. OneRequest'
      BY <1>3, <2>1, <2>4, FirstRequest DEF PressCancel
    <2>6. \A j : Wants(j)' => Wants(j)
      BY <1>3, <2>2, <2>3 DEF PressCancel, Offers, Wants, Request, StudioTypeOK
    <2>7. QED
      BY <2>5, <2>6
  <1>4. CASE LeaveFinal \/ ResetPage \/ Refresh
    BY <1>4, PatientLoad DEF LeaveFinal, ResetPage, Refresh, ClearStateAndReload
  <1>5. ASSUME NEW q \in Polls, PollTick(q)
        PROVE  OneRequest' /\ \A j : Wants(j)' => Wants(j)
    BY <1>5 DEF PollTick, OneRequest, Asking, Deleting, Wants, Asked, FreePoll, StudioTypeOK
  <1>6. ASSUME NEW r \in Posts,
               PressUpload(r) \/ \E timer \in Timer : CountdownEnds(timer, r)
        PROVE  RequestUpload(r) /\ Offers /\ Quiet
    <2>1. Offers
      BY <1>6 DEF PressUpload, CountdownEnds, Modes, Waits, Follows, Rests
    <2>2. QED
      BY <1>6, <2>1, QuietModes DEF PressUpload, CountdownEnds, MayAct
  <1>7. QED
    BY <1>1, <1>2, <1>3, <1>4, <1>5, <1>6 DEF User, Timers

LEMMA PatientAnswer ==
    ASSUME Patient, OnePoll, StudioTypeOK, PageInv, Modes, OneRequest, Answers
    PROVE  OneRequest' /\ \A j : Wants(j)' => Wants(j)
  <1>1. ASSUME NEW q \in Polls, polls[q] # FreePoll
        PROVE  Follows /\ Quiet
    <2>1. Follows /\ ~Waits /\ ~Offers
      BY <1>1 DEF Modes, Follows, Waits, Offers, Rests, NoPolls
    <2>2. QED
      BY <2>1, QuietModes
  <1>2. ASSUME NEW q \in Polls,
               PollWaits(q) \/ PollFails(q) \/ ShowPreview(q) \/ ShowPublishedLink(q)
        PROVE  OneRequest' /\ \A j : Wants(j)' => Wants(j)
    <2>1. posts' = posts /\ current' = current /\ polls[q] # FreePoll
      BY <1>2 DEF PollWaits, PollFails, ShowPreview, ShowPublishedLink, PollRead, FreePoll
    <2>2. OneRequest'
      BY <1>1, <2>1 DEF Quiet, OneRequest
    <2>3. \A s \in Polls : polls'[s].at = "answered" => polls'[s] = polls[s]
      BY <1>2 DEF PollWaits, PollFails, ShowPreview, ShowPublishedLink, FreePoll, StudioTypeOK
    <2>4. "preview" \in shown' =>
             \/ "preview" \in shown
             \/ polls[q].at = "answered" /\ polls[q].status = "done"
      BY <1>2 DEF PollWaits, PollFails, ShowPreview, ShowPublishedLink, PollRead
    <2>5. \A j : Wants(j)' => Wants(j)
      BY <2>1, <2>3, <2>4 DEF Wants
    <2>6. QED
      BY <2>2, <2>5
  <1>3. CASE ClearStateAndReload
    BY <1>3, PatientLoad DEF ClearStateAndReload
  <1>4. ASSUME NEW r \in Posts, ProcessReturns(r) \/ UploadReturns(r)
        PROVE  OneRequest' /\ \A j : Wants(j)' => Wants(j)
    <2>1. Asking(r) /\ posts[r] # FreePost
      BY <1>4 DEF ProcessReturns, UploadReturns, PageInv, Asking, FreePost
    <2>2. Waits
      BY <2>1, QuietModes
    <2>3. \A s \in Posts : posts'[s] = FreePost
      BY <1>4, <2>1 DEF ProcessReturns, UploadReturns, OneRequest, StudioTypeOK
    <2>4. \A q \in Polls : polls'[q].at # "answered"
      BY <1>4, <2>2 DEF ProcessReturns, UploadReturns, StartPolling, Waits, NoPolls, Asked,
                        FreePoll, StudioTypeOK
    <2>5. "preview" \notin shown'
      BY <1>4, <2>2 DEF ProcessReturns, UploadReturns, Waits
    <2>6. OneRequest'
      BY <2>3 DEF OneRequest
    <2>7. \A j : ~Wants(j)'
      BY <2>3, <2>4, <2>5 DEF Wants, FreePost
    <2>8. QED
      BY <2>6, <2>7
  <1>5. ASSUME NEW r \in Posts, PostDropped(r) \/ PostFails(r), ~ClearStateAndReload
        PROVE  OneRequest' /\ \A j : Wants(j)' => Wants(j)
    <2>1. posts' = [posts EXCEPT ![r] = FreePost]
      BY <1>5 DEF PostDropped, PostFails, Abandoned
    <2>2. UnchangedButPosts
      BY <1>5 DEF PostDropped, PostFails
    <2>3. \A s \in Posts : posts'[s] = FreePost \/ posts'[s] = posts[s]
      BY <2>1 DEF StudioTypeOK
    <2>4. OneRequest'
      BY <2>2, <2>3 DEF UnchangedButPosts, OneRequest, Asking, Deleting
    <2>5. \A j : Wants(j)' => Wants(j)
      BY <2>2, <2>3 DEF UnchangedButPosts, Wants, FreePost
    <2>6. QED
      BY <2>4, <2>5
  <1>6. QED
    BY <1>2, <1>3, <1>4, <1>5
       DEF Answers, PollActs, PostReturns, ShowError, CancelReturns

LEMMA PatientAnswered ==
    ASSUME StudioTypeOK, OneRequest, NEW r \in Posts, posts[r].awaited,
           NEW answer, Answered(r, answer), UnchangedButPosts,
           answer.kind = posts[r].kind, answer.awaited = posts[r].awaited,
           answer.at # "sent"
    PROVE  /\ OneRequest'
           /\ \A s \in Posts : posts'[s] # FreePost => s = r
           /\ \A j : Wants(j)' => Wants(j)
  <1>1. posts[r] # FreePost
    BY DEF FreePost
  <1>2. posts'[r] = answer /\ \A s \in Posts \ {r} : posts'[s] = posts[s]
    BY DEF Answered, StudioTypeOK
  <1>3. \A s \in Posts \ {r} : posts'[s] = FreePost
    BY <1>1, <1>2 DEF OneRequest
  <1>4. OneRequest'
    BY <1>1, <1>2, <1>3 DEF OneRequest, Asking, Deleting, UnchangedButPosts
  <1>5. \A j : Wants(j)' => Wants(j)
    BY <1>2, <1>3 DEF Wants, FreePost, UnchangedButPosts
  <1>6. QED
    BY <1>3, <1>4, <1>5

-----------------------------------------------------------------------------
(***************************************************************************)
(* What a patient page sends is polite                                     *)
(***************************************************************************)

LEMMA OfferSame ==
    ASSUME UNCHANGED vars, NEW j, Offer(j)
    PROVE  Offer(j)'
  BY SameJobOffer DEF vars, SameJob

\* A deletion leaves nothing of its own job and the others alone.
LEMMA CancelKeepsOffer ==
    ASSUME TypeOK, PoliteInv, NEW i, NEW j, Offer(i), Offer(j), Cancel(i)
    PROVE  Offer(j)'
  <1>1. i \in Jobs /\ j \in Jobs /\ j \in issued
    BY OfferRests
  <1>2. CASE i = j
    BY <1>1, <1>2 DEF Cancel, RemoveFolder, TypeOK, Offer, Deleted
  <1>3. CASE i # j
    BY <1>1, <1>3, SameJobOffer DEF Cancel, RemoveFolder, TypeOK, SameJob
  <1>4. QED
    BY <1>2, <1>3

LEMMA OfferIsPolite ==
    ASSUME TypeOK, NEW j, Offer(j),
           \/ Cancel(j)
           \/ \E t \in Uploads, path \in Paths, bucketNamed \in BOOLEAN :
                 UploadToR2(t, j, path, bucketNamed)
    PROVE  [PoliteNext]_vars
  <1>1. j \in Jobs
    BY DEF Offer
  <1>2. CASE Previewable(j)
    BY <1>1, <1>2 DEF PoliteNext, PoliteRequests
  <1>3. CASE Deleted(j)
    <2>1. Cancel(j)
      BY <1>3 DEF Deleted, UploadToR2
    <2>2. QED
      BY <1>1, <1>3, <2>1 DEF Deleted, Cancel, RemoveFolder, TypeOK, vars
  <1>4. QED
    BY <1>2, <1>3 DEF Offer

LEMMA PatientProcess ==
    ASSUME StudioTypeOK, Modes, OneRequest, NEW r \in Posts, NEW j \in Jobs,
           NEW translate \in BOOLEAN, ProcessArrives(r, j, translate)
    PROVE  OneRequest' /\ WantsOffers' /\ [PoliteNext]_vars
  <1>1. Asking(r)
    BY DEF ProcessArrives, OneRequest, Deleting, FreePost
  <1>2. Waits
    BY <1>1, QuietModes
  <1>3. LET answer == [posts[r] EXCEPT !.at = "ok", !.job = j]
        IN  /\ answer.kind = posts[r].kind /\ answer.awaited = posts[r].awaited
            /\ answer.at = "ok"
    BY DEF StudioTypeOK, PostRecord
  <1>4. /\ OneRequest'
        /\ \A s \in Posts : posts'[s] # FreePost => s = r
    BY <1>1, <1>3, PatientAnswered DEF ProcessArrives, Asking
  <1>5. posts'[r].at = "ok"
    BY <1>1, <1>3 DEF ProcessArrives, Answered, Asking, StudioTypeOK
  <1>6. \A i : ~Wants(i)'
    BY <1>2, <1>4, <1>5
       DEF ProcessArrives, UnchangedButPosts, Waits, NoPolls, Wants, FreePost, FreePoll
  <1>7. [PoliteNext]_vars
    BY StudioAssumption DEF ProcessArrives, PoliteNext, Work
  <1>8. QED
    BY <1>4, <1>6, <1>7 DEF WantsOffers

LEMMA PatientUpload ==
    ASSUME TypeOK, StudioTypeOK, Modes, OneRequest, WantsOffers, NEW r \in Posts,
           NEW t \in Uploads, NEW path \in Paths, NEW bucketNamed \in BOOLEAN,
           UploadArrives(r, t, path, bucketNamed)
    PROVE  OneRequest' /\ WantsOffers' /\ [PoliteNext]_vars
  <1>1. Asking(r)
    BY DEF UploadArrives, OneRequest, Deleting, FreePost
  <1>2. Waits
    BY <1>1, QuietModes
  <1>3. LET answer == [posts[r] EXCEPT !.at = "ok"]
        IN  /\ answer.kind = posts[r].kind /\ answer.awaited = posts[r].awaited
            /\ answer.at = "ok"
    BY DEF StudioTypeOK, PostRecord
  <1>4. /\ OneRequest'
        /\ \A s \in Posts : posts'[s] # FreePost => s = r
    BY <1>1, <1>3, PatientAnswered DEF UploadArrives, Asking
  <1>5. posts'[r].at = "ok"
    BY <1>1, <1>3 DEF UploadArrives, Answered, Asking, StudioTypeOK
  <1>6. \A i : ~Wants(i)'
    BY <1>2, <1>4, <1>5
       DEF UploadArrives, UnchangedButPosts, Waits, NoPolls, Wants, FreePost, FreePoll
  <1>7. Offer(posts[r].job)
    BY DEF UploadArrives, Wants, WantsOffers
  <1>8. [PoliteNext]_vars
    BY <1>7, OfferIsPolite DEF UploadArrives
  <1>9. QED
    BY <1>4, <1>6, <1>8 DEF WantsOffers

LEMMA PatientRefusedOrCancel ==
    ASSUME TypeOK, PoliteInv, StudioTypeOK, OneRequest, WantsOffers, NEW r \in Posts,
           UploadRefused(r) \/ CancelArrives(r)
    PROVE  OneRequest' /\ WantsOffers' /\ [PoliteNext]_vars
  <1>1. posts[r].awaited
    BY DEF UploadRefused, CancelArrives, OneRequest, Asking, Deleting, FreePost
  <1>2. ASSUME NEW at \in {"ok", "refused"}
        PROVE  LET answer == [posts[r] EXCEPT !.at = at]
               IN  /\ answer.kind = posts[r].kind /\ answer.awaited = posts[r].awaited
                   /\ answer.at # "sent"
    BY DEF StudioTypeOK, PostRecord
  <1>3. OneRequest' /\ \A j : Wants(j)' => Wants(j)
    BY <1>1, <1>2, PatientAnswered DEF UploadRefused, CancelArrives
  <1>4. CASE UploadRefused(r)
    BY <1>3, <1>4, OfferSame DEF UploadRefused, WantsOffers
  <1>5. CASE CancelArrives(r)
    <2>1. Offer(posts[r].job) /\ Cancel(posts[r].job)
      BY <1>5 DEF CancelArrives, Wants, WantsOffers
    <2>2. QED
      BY <1>3, <2>1, CancelKeepsOffer, OfferIsPolite DEF WantsOffers
  <1>6. QED
    BY <1>4, <1>5

LEMMA PatientStatus ==
    ASSUME StudioTypeOK, PageInv, OneRequest, WantsOffers, NEW q \in Polls, StatusAnswers(q)
    PROVE  OneRequest' /\ WantsOffers' /\ [PoliteNext]_vars
  <1>1. current \in Jobs
    BY DEF StatusAnswers, PageInv, StudioTypeOK, FreePoll
  <1>2. OneRequest'
    BY DEF StatusAnswers, OneRequest, Asking, Deleting
  <1>3. \A s \in Polls : polls'[s] = polls[s] \/ polls'[s].status = jobs[current].status
    BY DEF StatusAnswers, StudioTypeOK
  <1>4. ASSUME NEW j, Wants(j)'
        PROVE  Wants(j) \/ (j = current /\ Previewable(j))
    BY <1>3, <1>4 DEF StatusAnswers, Wants, Previewable
  <1>5. \A j : Wants(j)' => Offer(j)
    BY <1>1, <1>4 DEF WantsOffers, Offer
  <1>6. WantsOffers'
    BY <1>5, OfferSame DEF StatusAnswers, WantsOffers
  <1>7. QED
    BY <1>2, <1>6 DEF StatusAnswers

-----------------------------------------------------------------------------

\* The link is set when the final area is shown, and gone with a reload.
LinkIsFinal == link # None => shown = {"final"}

LEMMA LinkIsFinalStep ==
    ASSUME Modes, LinkIsFinal, [StudioNext]_studioVars
    PROVE  LinkIsFinal'
  <1>1. ASSUME NEW j, Load(j)
        PROVE  LinkIsFinal'
    BY <1>1 DEF Load, LinkIsFinal
  <1>2. ASSUME UNCHANGED <<shown, link>>
        PROVE  LinkIsFinal'
    BY <1>2 DEF LinkIsFinal
  <1>3. ASSUME NEW r \in Posts, Submit(r)
        PROVE  LinkIsFinal'
    BY <1>3 DEF Submit, LinkIsFinal
  <1>4. ASSUME NEW r \in Posts,
               PressUpload(r) \/ \E timer \in Timer : CountdownEnds(timer, r)
        PROVE  LinkIsFinal'
    <2>1. Offers
      BY <1>4 DEF PressUpload, CountdownEnds, Modes, Waits, Follows, Rests
    <2>2. QED
      BY <1>4, <2>1 DEF PressUpload, CountdownEnds, RequestUpload, Offers, LinkIsFinal
  <1>5. ASSUME NEW q \in Polls, ShowPreview(q) \/ ShowPublishedLink(q)
        PROVE  LinkIsFinal'
    <2>1. Follows
      BY <1>5 DEF ShowPreview, ShowPublishedLink, PollRead, FreePoll, Modes, Waits, Offers,
                  Rests, NoPolls
    <2>2. QED
      BY <1>5, <2>1 DEF ShowPreview, ShowPublishedLink, Follows, LinkIsFinal
  <1>6. CASE User \/ Timers
    BY <1>1, <1>2, <1>3, <1>4, <1>6
       DEF User, Timers, PressCancel, LeaveFinal, ResetPage, Refresh, ClearStateAndReload,
           PollTick
  <1>7. CASE Arrivals
    BY <1>2, <1>7 DEF Arrivals, ProcessArrives, UploadArrives, UploadRefused, CancelArrives,
                      StatusAnswers, UnchangedButPosts
  <1>8. CASE Answers
    BY <1>1, <1>2, <1>5, <1>8
       DEF Answers, PollActs, PostReturns, PollWaits, PollFails, ShowError, ProcessReturns,
           UploadReturns, CancelReturns, PostFails, PostDropped, ClearStateAndReload,
           UnchangedButPosts
  <1>9. CASE UNCHANGED pageVars
    BY <1>2, <1>9 DEF pageVars
  <1>10. QED
    BY <1>6, <1>7, <1>8, <1>9 DEF StudioNext, ServerWorks, studioVars

-----------------------------------------------------------------------------
(***************************************************************************)
(* The theorems                                                            *)
(***************************************************************************)

PatientInv ==
    StudioInv /\ PoliteInv /\ Modes /\ OneRequest /\ WantsOffers /\ LinkIsFinal

LEMMA PatientInvInit == StudioInit => PatientInv
  <1> SUFFICES ASSUME StudioInit PROVE PatientInv
    OBVIOUS
  <1>1. StudioInv /\ PoliteInv /\ Modes
    BY StudioInvInit, PoliteInvInit, ModesInit DEF StudioInit
  <1>2. OneRequest /\ WantsOffers /\ LinkIsFinal
    BY DEF StudioInit, OneRequest, WantsOffers, Wants, LinkIsFinal, FreePost, FreePoll
  <1>3. QED
    BY <1>1, <1>2 DEF PatientInv

\* A step of the page, or of the server and other pages beside it.
LEMMA PatientStep ==
    ASSUME Patient, OnePoll, PatientInv, [StudioNext]_studioVars
    PROVE  OneRequest' /\ WantsOffers' /\ [PoliteNext]_vars
  <1>1. /\ TypeOK /\ UploadInv /\ PoliteInv /\ StudioTypeOK /\ PageInv
        /\ Modes /\ OneRequest /\ WantsOffers
    BY DEF PatientInv, StudioInv, ServerInv
  <1>2. CASE ServerWorks
    <2>1. OneRequest' /\ \A j : Wants(j)' => Wants(j)
      BY <1>1, <1>2 DEF ServerWorks, pageVars, OneRequest, Asking, Deleting, Wants
    <2>2. WantsOffers'
      BY <1>1, <1>2, <2>1, WorkKeepsOffer DEF ServerWorks, WantsOffers
    <2>3. QED
      BY <1>2, <2>1, <2>2 DEF ServerWorks, PoliteNext
  <1>3. CASE User \/ Timers \/ Answers
    <2>1. OneRequest' /\ \A j : Wants(j)' => Wants(j)
      BY <1>1, <1>3, PatientUser, PatientAnswer
    <2>2. UNCHANGED vars
      BY <1>3, PageLeavesServer
    <2>3. WantsOffers'
      BY <1>1, <2>1, <2>2, OfferSame DEF WantsOffers
    <2>4. QED
      BY <2>1, <2>2, <2>3
  <1>4. CASE Arrivals
    BY <1>1, <1>4, PatientProcess, PatientUpload, PatientRefusedOrCancel, PatientStatus
       DEF Arrivals
  <1>5. CASE UNCHANGED studioVars
    <2>1. OneRequest' /\ \A j : Wants(j)' => Wants(j)
      BY <1>1, <1>5 DEF studioVars, pageVars, OneRequest, Asking, Deleting, Wants
    <2>2. UNCHANGED vars
      BY <1>5 DEF studioVars
    <2>3. WantsOffers'
      BY <1>1, <2>1, <2>2, OfferSame DEF WantsOffers
    <2>4. QED
      BY <2>1, <2>2, <2>3
  <1>6. QED
    BY <1>2, <1>3, <1>4, <1>5 DEF StudioNext

LEMMA PatientInvStep ==
    ASSUME Patient, OnePoll, PatientInv, [StudioNext]_studioVars
    PROVE  PatientInv'
  <1>1. OneRequest' /\ WantsOffers' /\ [PoliteNext]_vars
    BY PatientStep
  <1>2. /\ TypeOK /\ UploadInv /\ PoliteInv /\ StudioTypeOK /\ PageInv
        /\ Modes /\ LinkIsFinal /\ StudioInv
    BY DEF PatientInv, StudioInv, ServerInv
  <1>3. PoliteInv'
    BY <1>1, <1>2, PoliteInvStep
  <1>4. StudioInv' /\ Modes' /\ LinkIsFinal'
    BY <1>2, StudioInvStep, ModesStep, LinkIsFinalStep
  <1>5. QED
    BY <1>1, <1>3, <1>4 DEF PatientInv

LEMMA PatientInvariance ==
    ASSUME Patient, OnePoll
    PROVE  StudioSpec => []PatientInv
  <1>1. PatientInv /\ [StudioNext]_studioVars => PatientInv'
    BY PatientInvStep
  <1>2. QED
    BY <1>1, PatientInvInit, PTL DEF StudioSpec

\* With a user who waits for answers, and polls that do not overlap, the page
\* asks to publish or delete only a job that has its preview and that nothing
\* else works on: all that is proved of PoliteSpec holds.
THEOREM PatientPageIsPolite ==
    ASSUME Patient, OnePoll
    PROVE  StudioSpec => PageIsPolite
  <1>1. PatientInv /\ [StudioNext]_studioVars => [PoliteNext]_vars
    BY PatientStep
  <1>2. StudioInit => Init
    BY DEF StudioInit
  <1>3. QED
    BY <1>1, <1>2, PatientInvariance, PTL DEF StudioSpec, PageIsPolite, PoliteSpec

\* The link a patient user sees stays on the screen: nothing is left that could
\* reload the page.
THEOREM LinkStaysUndisturbed ==
    ASSUME Patient, OnePoll
    PROVE  StudioSpec => []LinkIsUndisturbed
  <1>1. PatientInv => LinkIsUndisturbed
    <2> SUFFICES ASSUME PatientInv, link # None PROVE LinkIsUndisturbed
      BY DEF LinkIsUndisturbed
    <2>1. shown = {"final"} /\ Modes /\ OneRequest
      BY DEF PatientInv, LinkIsFinal
    <2>2. Rests /\ ~Waits /\ ~Offers
      BY <2>1 DEF Modes, Waits, Follows, Offers, Rests
    <2>3. Quiet
      BY <2>1, <2>2, QuietModes
    <2>4. QED
      BY <2>2, <2>3 DEF Rests, NoPolls, LinkIsUndisturbed
  <1>2. QED
    BY <1>1, PatientInvariance, PTL
=============================================================================
