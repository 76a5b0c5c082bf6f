---------------------------- MODULE StudioProofs ----------------------------
(***************************************************************************)
(* What holds of an open page for every number of jobs and requests, and   *)
(* why a patient page is one of the clients PoliteSpec describes.          *)
(***************************************************************************)
EXTENDS Studio, MogoPoliteProofs

-----------------------------------------------------------------------------
(***************************************************************************)
(* Types                                                                   *)
(***************************************************************************)

\* A page without a job has nothing to poll for, to upload or to delete, and a
\* request whose answer has come is one the page waits for.
PageInv ==
    /\ current = None =>
          /\ polling = {} /\ countdown = {}
          /\ \A q \in Polls : polls[q] = FreePoll
          /\ "preview" \notin shown
          /\ \A r \in Posts : posts[r].awaited => posts[r].kind = "process"
    /\ \A r \in Posts :
          posts[r].at # "sent" =>
             /\ posts[r].awaited
             /\ posts[r].kind = "process" => posts[r].job \in Jobs

LEMMA FreeTypes ==
    /\ FreePoll \in PollRecord /\ Asked \in PollRecord
    /\ FreePost \in PostRecord
    /\ \A kind \in {"process", "upload", "cancel"}, j \in Jobs \cup {None} :
          Request(kind, j) \in PostRecord
  BY DEF FreePoll, Asked, PollRecord, FreePost, PostRecord, Request, Status

LEMMA AbandonedType ==
    ASSUME NEW post \in PostRecord
    PROVE  /\ Abandoned(post) \in PostRecord
           /\ Abandoned(post).at = "sent" /\ ~Abandoned(post).awaited
  BY FreeTypes DEF Abandoned, PostRecord, FreePost

LEMMA LoadType ==
    ASSUME StudioTypeOK, NEW j \in Jobs \cup {None}, Load(j)
    PROVE  StudioTypeOK'
  <1>1. \A r \in Posts : Abandoned(posts[r]) \in PostRecord
    BY AbandonedType DEF StudioTypeOK
  <1>2. polls' \in [Polls -> PollRecord]
    BY FreeTypes DEF Load
  <1>3. QED
    BY <1>1, <1>2 DEF Load, StudioTypeOK, Area, Timer

LEMMA TimerTypes ==
    ASSUME NEW timers \in SUBSET Timer
    PROVE  SetTimer(timers) \subseteq Timer /\ Cleared(timers) \subseteq Timer
  BY DEF SetTimer, Cleared, Timer

LEMMA StartPollingType ==
    ASSUME StudioTypeOK, StartPolling
    PROVE  polling' \subseteq Timer /\ polls' \in [Polls -> PollRecord]
  BY FreeTypes, TimerTypes DEF StudioTypeOK, StartPolling

LEMMA UserTypes ==
    ASSUME StudioTypeOK, User \/ Timers
    PROVE  StudioTypeOK'
  <1> USE FreeTypes
  <1>1. ASSUME NEW r \in Posts, Submit(r)
        PROVE  StudioTypeOK'
    BY <1>1 DEF Submit, StudioTypeOK, Area
  <1>2. ASSUME NEW r \in Posts, RequestUpload(r)
        PROVE  StudioTypeOK'
    BY <1>2, TimerTypes DEF RequestUpload, StudioTypeOK, Area
  <1>3. ASSUME NEW r \in Posts, PressCancel(r)
        PROVE  StudioTypeOK'
    BY <1>3, TimerTypes DEF PressCancel, StudioTypeOK
  <1>4. CASE LeaveFinal \/ ResetPage \/ Refresh
    BY <1>4, LoadType DEF LeaveFinal, ResetPage, Refresh, ClearStateAndReload, StudioTypeOK
  <1>5. ASSUME NEW q \in Polls, PollTick(q)
        PROVE  StudioTypeOK'
    BY <1>5 DEF PollTick, StudioTypeOK
  <1>6. QED
    BY <1>1, <1>2, <1>3, <1>4, <1>5 DEF User, Timers, PressUpload, CountdownEnds

LEMMA ArrivalTypes ==
    ASSUME TypeOK, StudioTypeOK, PageInv, Arrivals
    PROVE  StudioTypeOK'
  <1> USE FreeTypes
  <1>1. ASSUME NEW r \in Posts, NEW answer \in PostRecord,
               Answered(r, answer), UnchangedButPosts
        PROVE  StudioTypeOK'
    BY <1>1 DEF Answered, UnchangedButPosts, StudioTypeOK
  <1>2. ASSUME NEW r \in Posts
        PROVE  /\ [posts[r] EXCEPT !.at = "ok"] \in PostRecord
               /\ [posts[r] EXCEPT !.at = "refused"] \in PostRecord
               /\ \A j \in Jobs : [posts[r] EXCEPT !.at = "ok", !.job = j] \in PostRecord
    BY ZenonT(40) DEF StudioTypeOK, PostRecord
  <1>3. ASSUME NEW q \in Polls, StatusAnswers(q)
        PROVE  StudioTypeOK'
    <2>1. current \in Jobs
      BY <1>3 DEF StatusAnswers, PageInv, StudioTypeOK, FreePoll
    <2>2. jobs[current].status \in Status /\ jobs[current].finalUrl \in Paths \cup {None}
      BY <2>1 DEF TypeOK, JobRecord
    <2>3. QED
      BY <1>3, <2>2 DEF StatusAnswers, StudioTypeOK, PollRecord
  <1>4. ASSUME NEW r \in Posts, NEW j \in Jobs, NEW translate \in BOOLEAN,
               ProcessArrives(r, j, translate)
        PROVE  StudioTypeOK'
    BY <1>1, <1>2, <1>4 DEF ProcessArrives
  <1>5. ASSUME NEW r \in Posts, NEW t \in Uploads, NEW path \in Paths,
               NEW bucketNamed \in BOOLEAN, UploadArrives(r, t, path, bucketNamed)
        PROVE  StudioTypeOK'
    BY <1>1, <1>2, <1>5 DEF UploadArrives
  <1>6. ASSUME NEW r \in Posts, UploadRefused(r) \/ CancelArrives(r)
        PROVE  StudioTypeOK'
    BY <1>1, <1>2, <1>6 DEF UploadRefused, CancelArrives
  <1>7. QED
    BY <1>3, <1>4, <1>5, <1>6 DEF Arrivals

LEMMA AnswerTypes ==
    ASSUME StudioTypeOK, PageInv, Answers
    PROVE  StudioTypeOK'
  <1> USE FreeTypes
  <1>1. ASSUME NEW q \in Polls, PollWaits(q) \/ PollFails(q)
        PROVE  StudioTypeOK'
    BY <1>1 DEF PollWaits, PollFails, StudioTypeOK
  <1>2. ASSUME NEW q \in Polls, ShowPreview(q)
        PROVE  StudioTypeOK'
    BY <1>2, TimerTypes DEF ShowPreview, StudioTypeOK, Area
  <1>3. ASSUME NEW q \in Polls, ShowPublishedLink(q)
        PROVE  StudioTypeOK'
    BY <1>3, TimerTypes DEF ShowPublishedLink, StudioTypeOK, Area, PollRecord
  <1>4. CASE ClearStateAndReload
    BY <1>4, LoadType DEF ClearStateAndReload
  <1>5. ASSUME NEW r \in Posts, ProcessReturns(r)
        PROVE  StudioTypeOK'
    BY <1>5, StartPollingType DEF ProcessReturns, StudioTypeOK, PostRecord
  <1>6. ASSUME NEW r \in Posts, UploadReturns(r)
        PROVE  StudioTypeOK'
    BY <1>6, StartPollingType DEF UploadReturns, StudioTypeOK
  <1>7. ASSUME NEW r \in Posts, PostDropped(r) \/ PostFails(r), ~ClearStateAndReload
        PROVE  StudioTypeOK'
    <2>1. posts' \in [Posts -> PostRecord]
      BY <1>7, AbandonedType DEF PostDropped, PostFails, StudioTypeOK
    <2>2. QED
      BY <1>7, <2>1 DEF PostDropped, PostFails, UnchangedButPosts, StudioTypeOK
  <1>8. QED
    BY <1>1, <1>2, <1>3, <1>4, <1>5, <1>6, <1>7
       DEF Answers, PollActs, PostReturns, ShowError, CancelReturns

-----------------------------------------------------------------------------
(***************************************************************************)
(* For the server the page is one of its clients                           *)
(***************************************************************************)

LEMMA ArrivalIsNext ==
    ASSUME TypeOK, StudioTypeOK, Arrivals
    PROVE  [Next]_vars
  <1>1. ASSUME NEW r \in Posts, NEW j \in Jobs, NEW translate \in BOOLEAN,
               ProcessArrives(r, j, translate)
        PROVE  Next
    BY <1>1, StudioAssumption DEF ProcessArrives, Next, Work
  <1>2. ASSUME NEW r \in Posts, NEW t \in Uploads, NEW path \in Paths,
               NEW bucketNamed \in BOOLEAN, UploadArrives(r, t, path, bucketNamed)
        PROVE  Next
    <2>1. posts[r].job \in Jobs /\ UploadToR2(t, posts[r].job, path, bucketNamed)
      BY <1>2 DEF UploadArrives, UploadToR2, TypeOK
    <2>2. QED
      BY <2>1 DEF Next, Requests
  <1>3. ASSUME NEW r \in Posts, CancelArrives(r)
        PROVE  [Next]_vars
    <2>1. CASE posts[r].job \in Jobs
      BY <1>3, <2>1 DEF CancelArrives, Next, Requests
    <2>2. CASE posts[r].job = None
      BY <1>3, <2>2, ConstantsAssumption DEF CancelArrives, Cancel, RemoveFolder, TypeOK, vars
    <2>3. QED
      BY <2>1, <2>2 DEF StudioTypeOK, PostRecord
  <1>4. ASSUME NEW r \in Posts, UploadRefused(r)
        PROVE  UNCHANGED vars
    BY <1>4 DEF UploadRefused
  <1>5. ASSUME NEW q \in Polls, StatusAnswers(q)
        PROVE  UNCHANGED vars
    BY <1>5 DEF StatusAnswers
  <1>6. QED
    BY <1>1, <1>2, <1>3, <1>4, <1>5 DEF Arrivals

LEMMA PageLeavesServer ==
    ASSUME User \/ Timers \/ Answers
    PROVE  UNCHANGED vars
  BY DEF User, Timers, Answers, Submit, PressUpload, PressCancel, LeaveFinal, ResetPage,
         Refresh, CountdownEnds, RequestUpload, PollTick, PollActs, PostReturns,
         ProcessReturns, UploadReturns, CancelReturns, PostFails, PostDropped,
         PollFails, PollWaits, ShowPreview, ShowPublishedLink, ShowError

LEMMA StudioStepIsNext ==
    ASSUME TypeOK, StudioTypeOK, [StudioNext]_studioVars
    PROVE  [Next]_vars
  BY ArrivalIsNext, PageLeavesServer DEF StudioNext, ServerWorks, Next, studioVars

-----------------------------------------------------------------------------
(***************************************************************************)
(* The page's own invariant                                                *)
(***************************************************************************)

LEMMA LoadPage ==
    ASSUME StudioTypeOK, NEW j \in Jobs \cup {None}, Load(j)
    PROVE  PageInv'
  <1>1. \A r \in Posts : posts'[r] = Abandoned(posts[r])
    BY DEF Load
  <1>2. \A r \in Posts : posts'[r].at = "sent" /\ ~posts'[r].awaited
    BY <1>1, AbandonedType DEF StudioTypeOK
  <1>3. QED
    BY <1>2, ConstantsAssumption DEF Load, PageInv

LEMMA UserPage ==
    ASSUME StudioTypeOK, PageInv, User \/ Timers
    PROVE  PageInv'
  <1>1. ASSUME NEW r \in Posts, Submit(r)
        PROVE  PageInv'
    BY <1>1 DEF Submit, Request, PageInv, StudioTypeOK
  <1>2. ASSUME NEW r \in Posts, RequestUpload(r), current # None
        PROVE  PageInv'
    BY <1>2 DEF RequestUpload, Request, PageInv, StudioTypeOK
  <1>3. ASSUME NEW r \in Posts, PressCancel(r)
        PROVE  PageInv'
    BY <1>3 DEF PressCancel, Request, PageInv, StudioTypeOK
  <1>4. CASE LeaveFinal \/ ResetPage \/ Refresh
    BY <1>4, LoadPage DEF LeaveFinal, ResetPage, Refresh, ClearStateAndReload, StudioTypeOK
  <1>5. ASSUME NEW q \in Polls, PollTick(q)
        PROVE  PageInv'
    BY <1>5 DEF PollTick, PageInv
  <1>6. QED
    BY <1>1, <1>2, <1>3, <1>4, <1>5 DEF User, Timers, PressUpload, CountdownEnds, PageInv

LEMMA ArrivalPage ==
    ASSUME StudioTypeOK, PageInv, Arrivals
    PROVE  PageInv'
  <1>1. ASSUME NEW r \in Posts, NEW answer \in PostRecord,
               Answered(r, answer), UnchangedButPosts,
               answer.kind = posts[r].kind, answer.awaited = posts[r].awaited,
               answer.kind = "process" => answer.job \in Jobs
        PROVE  PageInv'
    BY <1>1 DEF Answered, UnchangedButPosts, FreePost, PageInv, StudioTypeOK
  <1>2. ASSUME NEW r \in Posts, NEW at \in {"ok", "refused"}
        PROVE  LET answer == [posts[r] EXCEPT !.at = at]
               IN  /\ answer \in PostRecord /\ answer.kind = posts[r].kind
                   /\ answer.awaited = posts[r].awaited
    BY DEF StudioTypeOK, PostRecord
  <1>3. ASSUME NEW r \in Posts, NEW j \in Jobs
        PROVE  LET answer == [posts[r] EXCEPT !.at = "ok", !.job = j]
               IN  /\ answer \in PostRecord /\ answer.kind = posts[r].kind
                   /\ answer.awaited = posts[r].awaited /\ answer.job \in Jobs
    BY DEF StudioTypeOK, PostRecord
  <1>4. ASSUME NEW r \in Posts, NEW j \in Jobs, NEW translate \in BOOLEAN,
               ProcessArrives(r, j, translate)
        PROVE  PageInv'
    BY <1>1, <1>3, <1>4 DEF ProcessArrives
  <1>5. ASSUME NEW r \in Posts,
               \/ \E t \in Uploads, path \in Paths, bucketNamed \in BOOLEAN :
                     UploadArrives(r, t, path, bucketNamed)
               \/ UploadRefused(r) \/ CancelArrives(r)
        PROVE  PageInv'
    <2>1. posts[r].kind # "process"
      BY <1>5 DEF UploadArrives, UploadRefused, CancelArrives
    <2>2. QED
      BY <1>1, <1>2, <1>5, <2>1 DEF UploadArrives, UploadRefused, CancelArrives
  <1>6. ASSUME NEW q \in Polls, StatusAnswers(q)
        PROVE  PageInv'
    BY <1>6 DEF StatusAnswers, PageInv, FreePoll
  <1>7. QED
    BY <1>4, <1>5, <1>6 DEF Arrivals

LEMMA AnswerPage ==
    ASSUME StudioTypeOK, PageInv, Answers
    PROVE  PageInv'
  <1>1. ASSUME NEW q \in Polls, PollWaits(q) \/ PollFails(q)
        PROVE  PageInv'
    BY <1>1 DEF PollWaits, PollFails, PageInv, StudioTypeOK
  <1>2. ASSUME NEW q \in Polls, ShowPreview(q) \/ ShowPublishedLink(q)
        PROVE  PageInv'
    <2>1. current # None
      BY <1>2 DEF ShowPreview, ShowPublishedLink, PollRead, PageInv, FreePoll
    <2>2. current' = current /\ posts' = posts
      BY <1>2 DEF ShowPreview, ShowPublishedLink
    <2>3. QED
      BY <2>1, <2>2 DEF PageInv
  <1>3. CASE ClearStateAndReload
    BY <1>3, LoadPage DEF ClearStateAndReload
  <1>4. ASSUME NEW r \in Posts, ProcessReturns(r)
        PROVE  PageInv'
    <2>1. current' \in Jobs
      BY <1>4 DEF ProcessReturns, PageInv
    <2>2. QED
      BY <1>4, <2>1, ConstantsAssumption DEF ProcessReturns, PageInv, FreePost, StudioTypeOK
  <1>5. ASSUME NEW r \in Posts, UploadReturns(r)
        PROVE  PageInv'
    <2>1. current # None
      BY <1>5 DEF UploadReturns, PageInv
    <2>2. QED
      BY <1>5, <2>1 DEF UploadReturns, PageInv, FreePost, StudioTypeOK
  <1>6. ASSUME NEW r \in Posts, PostDropped(r) \/ PostFails(r), ~ClearStateAndReload
        PROVE  PageInv'
    <2>1. posts'[r].at = "sent" /\ ~posts'[r].awaited
      BY <1>6, AbandonedType DEF PostDropped, PostFails, FreePost, StudioTypeOK
    <2>2. \A s \in Posts \ {r} : posts'[s] = posts[s]
      BY <1>6 DEF PostDropped, PostFails, StudioTypeOK
    <2>3. UnchangedButPosts
      BY <1>6 DEF PostDropped, PostFails
    <2>4. QED
      BY <2>1, <2>2, <2>3 DEF UnchangedButPosts, PageInv
  <1>7. QED
    BY <1>1, <1>2, <1>3, <1>4, <1>5, <1>6
       DEF Answers, PollActs, PostReturns, ShowError, CancelReturns

StudioInv == ServerInv /\ StudioTypeOK /\ PageInv

LEMMA StudioInvInit == StudioInit => StudioInv
  <1> SUFFICES ASSUME StudioInit PROVE StudioInv
    OBVIOUS
  <1>1. ServerInv
    BY ServerInvInit DEF StudioInit
  <1>2. StudioTypeOK /\ PageInv
    BY FreeTypes DEF StudioInit, StudioTypeOK, PageInv, Area, FreePost
  <1>3. QED
    BY <1>1, <1>2 DEF StudioInv

LEMMA StudioInvStep ==
    ASSUME StudioInv, [StudioNext]_studioVars
    PROVE  StudioInv'
  <1>1. TypeOK /\ StudioTypeOK /\ PageInv
    BY DEF StudioInv, ServerInv
  <1>2. ServerInv'
    BY <1>1, StudioStepIsNext, ServerInvStep DEF StudioInv
  <1>3. CASE User \/ Timers \/ Arrivals \/ Answers
    BY <1>1, <1>2, <1>3, UserTypes, ArrivalTypes, AnswerTypes, UserPage, ArrivalPage,
       AnswerPage DEF StudioInv
  <1>4. CASE UNCHANGED pageVars
    BY <1>1, <1>2, <1>4 DEF pageVars, StudioInv, StudioTypeOK, PageInv
  <1>5. QED
    BY <1>3, <1>4 DEF StudioNext, ServerWorks, studioVars

LEMMA StudioInvariance == StudioSpec => []StudioInv
  <1>1. StudioInv /\ [StudioNext]_studioVars => StudioInv'
    BY StudioInvStep
  <1>2. QED
    BY <1>1, StudioInvInit, PTL DEF StudioSpec

\* Whatever its user and its timers do, the page keeps its types: it reads the
\* status of a job only when it has one.
THEOREM StudioTypeCorrect == StudioSpec => []StudioTypeOK
  <1>1. StudioInv => StudioTypeOK
    BY DEF StudioInv
  <1>2. QED
    BY <1>1, StudioInvariance, PTL

\* An open page does nothing to the server that Spec does not allow, so all that
\* is proved of Spec holds with the page.
THEOREM PageIsAClient == StudioSpec => Spec
  <1>1. StudioInv /\ [StudioNext]_studioVars => [Next]_vars
    BY StudioStepIsNext DEF StudioInv, ServerInv
  <1>2. StudioInit => Init
    BY DEF StudioInit
  <1>3. QED
    BY <1>1, <1>2, StudioInvariance, PTL DEF StudioSpec, Spec

-----------------------------------------------------------------------------
(***************************************************************************)
(* A progress bar of index.html is followed.  A deletion under way does    *)
(* not keep a page informed, its failure changing nothing on the screen.   *)
(***************************************************************************)

Followed ==
    "loading" \in shown =>
       polling # {} \/ \E r \in Posts : posts[r].awaited /\ posts[r].kind # "cancel"

LEMMA UserFollowed ==
    ASSUME StudioTypeOK, Followed, User \/ Timers
    PROVE  Followed'
  <1>1. ASSUME NEW r \in Posts, NEW kind \in {"process", "upload"},
               posts' = [posts EXCEPT ![r] = Request(kind, posts'[r].job)]
        PROVE  Followed'
    BY <1>1 DEF Followed, StudioTypeOK, Request
  <1>2. ASSUME NEW r \in Posts, Submit(r) \/ RequestUpload(r)
        PROVE  Followed'
    <2>1. PICK kind \in {"process", "upload"} :
             \E j : posts' = [posts EXCEPT ![r] = Request(kind, j)]
      BY <1>2 DEF Submit, RequestUpload
    <2>2. posts' = [posts EXCEPT ![r] = Request(kind, posts'[r].job)]
      BY <2>1 DEF StudioTypeOK, Request
    <2>3. QED
      BY <1>1, <2>2
  <1>3. ASSUME NEW r \in Posts, PressCancel(r)
        PROVE  Followed'
    BY <1>3 DEF PressCancel, Request, FreePost, Followed, StudioTypeOK
  <1>4. ASSUME NEW j, Load(j)
        PROVE  Followed'
    BY <1>4 DEF Load, Followed
  <1>5. ASSUME NEW q \in Polls, PollTick(q)
        PROVE  Followed'
    BY <1>5 DEF PollTick, Followed
  <1>6. QED
    BY <1>2, <1>3, <1>4, <1>5 DEF User, Timers, PressUpload, CountdownEnds, LeaveFinal,
       ResetPage, Refresh, ClearStateAndReload

LEMMA ArrivalFollowed ==
    ASSUME StudioTypeOK, Followed, Arrivals
    PROVE  Followed'
  <1>1. ASSUME NEW r \in Posts, NEW answer, Answered(r, answer), UnchangedButPosts,
               answer.kind = posts[r].kind, answer.awaited = posts[r].awaited
        PROVE  Followed'
    BY <1>1 DEF Answered, UnchangedButPosts, Followed, StudioTypeOK
  <1>2. ASSUME NEW r \in Posts, NEW at \in {"ok", "refused"}
        PROVE  LET answer == [posts[r] EXCEPT !.at = at]
               IN  answer.kind = posts[r].kind /\ answer.awaited = posts[r].awaited
    BY DEF StudioTypeOK, PostRecord
  <1>3. ASSUME NEW r \in Posts, NEW j \in Jobs
        PROVE  LET answer == [posts[r] EXCEPT !.at = "ok", !.job = j]
               IN  answer.kind = posts[r].kind /\ answer.awaited = posts[r].awaited
    BY DEF StudioTypeOK, PostRecord
  <1>4. ASSUME NEW r \in Posts, NEW j \in Jobs, NEW translate \in BOOLEAN,
               ProcessArrives(r, j, translate)
        PROVE  Followed'
    BY <1>1, <1>3, <1>4 DEF ProcessArrives
  <1>5. ASSUME NEW r \in Posts,
               \/ \E t \in Uploads, path \in Paths, bucketNamed \in BOOLEAN :
                     UploadArrives(r, t, path, bucketNamed)
               \/ UploadRefused(r) \/ CancelArrives(r)
        PROVE  Followed'
    BY <1>1, <1>2, <1>5 DEF UploadArrives, UploadRefused, CancelArrives
  <1>6. ASSUME NEW q \in Polls, StatusAnswers(q)
        PROVE  Followed'
    BY <1>6 DEF StatusAnswers, Followed
  <1>7. QED
    BY <1>4, <1>5, <1>6 DEF Arrivals

LEMMA AnswerFollowed ==
    ASSUME StudioTypeOK, PageInv, Followed, Answers, PageKind = "video"
    PROVE  Followed'
  <1>1. ASSUME NEW q \in Polls, PollWaits(q) \/ PollFails(q)
        PROVE  Followed'
    BY <1>1 DEF PollWaits, PollFails, Followed
  <1>2. ASSUME NEW q \in Polls, ShowPreview(q) \/ ShowPublishedLink(q)
        PROVE  Followed'
    BY <1>2 DEF ShowPreview, ShowPublishedLink, Followed
  <1>3. CASE ClearStateAndReload
    BY <1>3 DEF ClearStateAndReload, Load, Followed
  <1>4. ASSUME NEW r \in Posts, ProcessReturns(r) \/ UploadReturns(r)
        PROVE  Followed'
    BY <1>4 DEF ProcessReturns, UploadReturns, StartPolling, SetTimer, Timer, Followed
  <1>5. ASSUME NEW r \in Posts, PostDropped(r) \/ PostFails(r), ~ClearStateAndReload
        PROVE  Followed'
    <2>1. ~posts[r].awaited \/ posts[r].kind = "cancel"
      BY <1>5 DEF PostDropped, PostFails
    <2>2. \A s \in Posts \ {r} : posts'[s] = posts[s]
      BY <1>5 DEF PostDropped, PostFails, StudioTypeOK
    <2>3. UnchangedButPosts
      BY <1>5 DEF PostDropped, PostFails
    <2>4. QED
      BY <2>1, <2>2, <2>3 DEF UnchangedButPosts, Followed
  <1>6. QED
    BY <1>1, <1>2, <1>3, <1>4, <1>5
       DEF Answers, PollActs, PostReturns, ShowError, CancelReturns

\* Whatever its user does, and however its requests overtake each other, a page
\* of index.html with a progress bar on the screen polls, or waits for an answer
\* that makes it poll or reload.
THEOREM VideoProgressIsFollowed ==
    ASSUME PageKind = "video"
    PROVE  StudioSpec => []ProgressIsFollowed
  <1>1. StudioInit => Followed
    BY DEF StudioInit, Followed
  <1>2. StudioInv /\ Followed /\ [StudioNext]_studioVars => Followed'
    <2> SUFFICES ASSUME StudioInv, Followed, [StudioNext]_studioVars PROVE Followed'
      OBVIOUS
    <2>1. StudioTypeOK /\ PageInv
      BY DEF StudioInv
    <2>2. CASE UNCHANGED pageVars
      BY <2>2 DEF pageVars, Followed
    <2>3. QED
      BY <2>1, <2>2, UserFollowed, ArrivalFollowed, AnswerFollowed
         DEF StudioNext, ServerWorks, studioVars
  <1>3. Followed => ProgressIsFollowed
    BY DEF Followed, ProgressIsFollowed
  <1>4. QED
    BY <1>1, <1>2, <1>3, StudioInvariance, PTL DEF StudioSpec

-----------------------------------------------------------------------------
(***************************************************************************)
(* Polls that do not overlap keep the page in one of a few modes           *)
(***************************************************************************)

OnePoll == \A p, q \in Polls : p = q

NoPolls == \A q \in Polls : polls[q] = FreePoll

\* A request that moves the page on when its answer comes.
Asking(r) == posts[r].awaited /\ posts[r].kind \in {"process", "upload"}

NoneAsks == \A r \in Posts : ~Asking(r)

Waits == shown = {"loading"} /\ polling = {} /\ countdown = {} /\ NoPolls

Follows == shown = {"loading"} /\ polling = {"current"} /\ countdown = {} /\ NoneAsks

Offers == shown = {"preview"} /\ polling = {} /\ countdown \subseteq {"current"} /\ NoPolls /\ NoneAsks

Rests == shown \in {{"form"}, {"final"}} /\ polling = {} /\ countdown = {} /\ NoPolls /\ NoneAsks

Modes ==
    /\ \A r, s \in Posts : Asking(r) /\ Asking(s) => r = s
    /\ Waits \/ Follows \/ Offers \/ Rests

LEMMA LoadMode ==
    ASSUME StudioTypeOK, NEW j, Load(j)
    PROVE  NoneAsks' /\ Modes'
  <1>1. \A r \in Posts : posts'[r] = Abandoned(posts[r])
    BY DEF Load
  <1>2. \A r \in Posts : ~posts'[r].awaited
    BY <1>1, AbandonedType DEF StudioTypeOK
  <1>3. NoneAsks'
    BY <1>2 DEF NoneAsks, Asking
  <1>4. QED
    BY <1>3 DEF Load, Modes, Follows, Rests, NoPolls, NoneAsks

\* The page waits when a request that moves it on is its only one.
LEMMA WaitsAfter ==
    ASSUME StudioTypeOK, NoneAsks, NEW r \in Posts, NEW answer,
           posts' = [posts EXCEPT ![r] = answer], Waits'
    PROVE  Modes'
  BY DEF Modes, NoneAsks, Asking, StudioTypeOK

LEMMA UserMode ==
    ASSUME StudioTypeOK, Modes, User \/ Timers
    PROVE  Modes'
  <1>1. ASSUME NEW r \in Posts, Submit(r)
        PROVE  Modes'
    <2>1. Rests /\ Waits'
      BY <1>1 DEF Submit, Modes, Waits, Follows, Offers, Rests, NoPolls
    <2>2. QED
      BY <1>1, <2>1, WaitsAfter DEF Submit, Rests
  <1>2. ASSUME NEW r \in Posts, RequestUpload(r), Offers
        PROVE  Modes'
    <2>1. Waits'
      BY <1>2 DEF RequestUpload, Waits, Offers, Cleared, NoPolls
    <2>2. QED
      BY <1>2, <2>1, WaitsAfter DEF RequestUpload, Offers
  <1>3. ASSUME NEW r \in Posts, PressCancel(r)
        PROVE  Modes'
    <2>1. Offers
      BY <1>3 DEF PressCancel, Modes, Waits, Follows, Rests
    <2>2. NoneAsks'
      BY <1>3, <2>1 DEF PressCancel, Offers, NoneAsks, Asking, Request, StudioTypeOK
    <2>3. Offers'
      BY <1>3, <2>1, <2>2 DEF PressCancel, Offers, Cleared, NoPolls
    <2>4. QED
      BY <2>2, <2>3 DEF Modes, NoneAsks
  <1>4. CASE LeaveFinal \/ ResetPage \/ Refresh
    BY <1>4, LoadMode DEF LeaveFinal, ResetPage, Refresh, ClearStateAndReload
  <1>5. ASSUME NEW q \in Polls, PollTick(q)
        PROVE  Modes'
    BY <1>5 DEF PollTick, Modes, Waits, Follows, Offers, Rests, NoneAsks, Asking
  <1>6. ASSUME NEW r \in Posts,
               PressUpload(r) \/ \E timer \in Timer : CountdownEnds(timer, r)
        PROVE  RequestUpload(r) /\ Offers
    BY <1>6 DEF PressUpload, CountdownEnds, Modes, Waits, Follows, Rests
  <1>7. QED
    BY <1>1, <1>2, <1>3, <1>4, <1>5, <1>6 DEF User, Timers

LEMMA ArrivalMode ==
    ASSUME StudioTypeOK, Modes, Arrivals
    PROVE  Modes'
  <1>1. ASSUME NEW r \in Posts, NEW answer, Answered(r, answer), UnchangedButPosts,
               answer.kind = posts[r].kind, answer.awaited = posts[r].awaited
        PROVE  Modes'
    <2>1. \A s \in Posts : Asking(s)' => Asking(s)
      BY <1>1 DEF Answered, Asking, FreePost, StudioTypeOK
    <2>2. QED
      BY <1>1, <2>1
         DEF UnchangedButPosts, Modes, Waits, Follows, Offers, Rests, NoneAsks, NoPolls
  <1>2. ASSUME NEW r \in Posts, NEW at \in {"ok", "refused"}
        PROVE  LET answer == [posts[r] EXCEPT !.at = at]
               IN  answer.kind = posts[r].kind /\ answer.awaited = posts[r].awaited
    BY DEF StudioTypeOK, PostRecord
  <1>3. ASSUME NEW r \in Posts, NEW j \in Jobs
        PROVE  LET answer == [posts[r] EXCEPT !.at = "ok", !.job = j]
               IN  answer.kind = posts[r].kind /\ answer.awaited = posts[r].awaited
    BY DEF StudioTypeOK, PostRecord
  <1>4. ASSUME NEW r \in Posts, NEW j \in Jobs, NEW translate \in BOOLEAN,
               ProcessArrives(r, j, translate)
        PROVE  Modes'
    BY <1>1, <1>3, <1>4 DEF ProcessArrives
  <1>5. ASSUME NEW r \in Posts,
               \/ \E t \in Uploads, path \in Paths, bucketNamed \in BOOLEAN :
                     UploadArrives(r, t, path, bucketNamed)
               \/ UploadRefused(r) \/ CancelArrives(r)
        PROVE  Modes'
    BY <1>1, <1>2, <1>5 DEF UploadArrives, UploadRefused, CancelArrives
  <1>6. ASSUME NEW q \in Polls, StatusAnswers(q)
        PROVE  Modes'
    <2>1. Follows
      BY <1>6 DEF StatusAnswers, FreePoll, Modes, Waits, Offers, Rests, NoPolls
    <2>2. QED
      BY <1>6, <2>1 DEF StatusAnswers, Follows, Modes, NoneAsks, Asking
  <1>7. QED
    BY <1>4, <1>5, <1>6 DEF Arrivals

LEMMA AnswerMode ==
    ASSUME OnePoll, StudioTypeOK, PageInv, Modes, Answers
    PROVE  Modes'
  <1>1. ASSUME NEW q \in Polls, polls[q] # FreePoll
        PROVE  Follows
    BY <1>1 DEF Modes, Waits, Offers, Rests, NoPolls
  <1>2. ASSUME NEW q \in Polls, PollWaits(q) \/ PollFails(q)
        PROVE  Modes'
    <2>1. Follows
      BY <1>1, <1>2 DEF PollWaits, PollFails, PollRead, FreePoll
    <2>2. QED
      BY <1>2, <2>1 DEF PollWaits, PollFails, Follows, Modes, NoneAsks, Asking
  <1>3. ASSUME NEW q \in Polls, ShowPreview(q) \/ ShowPublishedLink(q)
        PROVE  Modes'
    <2>1. Follows
      BY <1>1, <1>3 DEF ShowPreview, ShowPublishedLink, PollRead, FreePoll
    <2>2. NoneAsks' /\ \A r, s \in Posts : Asking(r)' /\ Asking(s)' => r = s
      BY <1>3, <2>1 DEF ShowPreview, ShowPublishedLink, Follows, NoneAsks, Asking
    <2>3. NoPolls' /\ polling' = {}
      BY <1>3, <2>1 DEF ShowPreview, ShowPublishedLink, OnePoll, NoPolls, Cleared, Follows,
                        StudioTypeOK
    <2>4. Offers' \/ Rests'
      BY <1>3, <2>1, <2>2, <2>3
         DEF ShowPreview, ShowPublishedLink, Follows, SetTimer, Offers, Rests
    <2>5. QED
      BY <2>2, <2>4 DEF Modes
  <1>4. CASE ClearStateAndReload
    BY <1>4, LoadMode DEF ClearStateAndReload
  <1>5. ASSUME NEW r \in Posts, ProcessReturns(r) \/ UploadReturns(r)
        PROVE  Modes'
    <2>1. Asking(r)
      BY <1>5 DEF ProcessReturns, UploadReturns, PageInv, Asking
    <2>2. Waits
      BY <2>1 DEF Modes, Follows, Offers, Rests, NoneAsks
    <2>3. NoneAsks' /\ \A t, s \in Posts : Asking(t)' /\ Asking(s)' => t = s
      BY <1>5, <2>1 DEF ProcessReturns, UploadReturns, Modes, NoneAsks, Asking, FreePost,
                        StudioTypeOK
    <2>4. Waits' \/ Follows'
      BY <1>5, <2>2, <2>3 DEF ProcessReturns, UploadReturns, StartPolling, SetTimer, Waits,
                              Follows, NoPolls
    <2>5. QED
      BY <2>3, <2>4 DEF Modes
  <1>6. ASSUME NEW r \in Posts, PostDropped(r) \/ PostFails(r), ~ClearStateAndReload
        PROVE  Modes'
    <2>1. ~posts'[r].awaited
      BY <1>6, AbandonedType DEF PostDropped, PostFails, FreePost, StudioTypeOK
    <2>2. \A s \in Posts \ {r} : posts'[s] = posts[s]
      BY <1>6 DEF PostDropped, PostFails, StudioTypeOK
    <2>3. \A s \in Posts : Asking(s)' => Asking(s)
      BY <2>1, <2>2 DEF Asking
    <2>4. UnchangedButPosts
      BY <1>6 DEF PostDropped, PostFails
    <2>5. QED
      BY <2>3, <2>4
         DEF UnchangedButPosts, Modes, Waits, Follows, Offers, Rests, NoneAsks, NoPolls
  <1>7. QED
    BY <1>2, <1>3, <1>4, <1>5, <1>6
       DEF Answers, PollActs, PostReturns, ShowError, CancelReturns

LEMMA ModesStep ==
    ASSUME OnePoll, StudioTypeOK, PageInv, Modes, [StudioNext]_studioVars
    PROVE  Modes'
  <1>1. CASE UNCHANGED pageVars
    BY <1>1 DEF pageVars, Modes, Waits, Follows, Offers, Rests, NoPolls, NoneAsks, Asking
  <1>2. QED
    BY <1>1, UserMode, ArrivalMode, AnswerMode DEF StudioNext, ServerWorks, studioVars

LEMMA ModesInit == StudioInit => Modes
  BY DEF StudioInit, Modes, Rests, NoPolls, NoneAsks, Asking, FreePost

\* As long as polls do not overlap, whatever the user presses and however often
\* the page is reloaded, the countdown runs only beside the preview it belongs to.
THEOREM TimerStaysShown ==
    ASSUME OnePoll
    PROVE  StudioSpec => []TimerIsShown
  <1>1. StudioInv /\ Modes /\ [StudioNext]_studioVars => Modes'
    BY ModesStep DEF StudioInv
  <1>2. Modes => TimerIsShown
    BY DEF Modes, Waits, Follows, Offers, Rests, TimerIsShown
  <1>3. QED
    BY <1>1, <1>2, ModesInit, StudioInvariance, PTL DEF StudioSpec

-----------------------------------------------------------------------------
(***************************************************************************)
(* The link on the screen.  The page asks for a job to be published only   *)
(* when its preview was offered, and a video that was whole once stays     *)
(* whole in its folder for as long as it has one.                          *)
(***************************************************************************)

Ripe(j) == j \in issued /\ (j \in dirs => Playable \subseteq files[j])

\* ffmpeg has written the video when its stage is left; whatever the clients do.
Shelved(j) ==
    /\ pipe[j].stage = "compress" =>
          j \in issued /\ (j \in dirs => Playable \subseteq files[j] \cup writer[j])
    /\ pipe[j].stage \notin {"idle", "compress"} => Ripe(j)
    /\ jobs[j].status = "done" => Ripe(j)

\* What a step may do to the folder of a job that has its id: it is not filled
\* a second time, and only audio.wav is taken out of it.
FolderKept(j) ==
    /\ j \in issued'
    /\ j \in dirs' => j \in dirs /\ files[j] \ {"wav"} \subseteq files'[j]

LEMMA FolderStep ==
    ASSUME TypeOK, UploadInv, [Next]_vars, NEW j \in Jobs, j \in issued
    PROVE  FolderKept(j)
  <1>1. CASE UNCHANGED <<issued, dirs, files>>
    BY <1>1 DEF FolderKept
  <1>2. ASSUME NEW i \in Jobs,
               \/ \E kind \in Kind, translate \in BOOLEAN : Process(i, kind, translate)
               \/ RejectPodcast(i) \/ \E f \in File : ChildWrites(i, f)
        PROVE  FolderKept(j)
    BY <1>2 DEF FolderKept, Process, RejectPodcast, ChildWrites, TypeOK
  <1>3. ASSUME NEW i \in Jobs, issued' = issued, RemoveFolder(i)
        PROVE  FolderKept(j)
    BY <1>3 DEF FolderKept, RemoveFolder, TypeOK
  <1>4. ASSUME NEW i \in Jobs,
               (\E found \in BOOLEAN : WhisperSuccess(i, found)) \/ TranslateSuccess(i)
        PROVE  FolderKept(j)
    BY <1>4 DEF FolderKept, WhisperSuccess, TranslateSuccess, Finish, TypeOK
  <1>5. ASSUME NEW i \in Jobs,
               \/ ProgressEvent(i) \/ CompressEnd(i) \/ CompressError(i)
               \/ ExtractError(i) \/ SpawnError(i) \/ WhisperError(i)
               \/ \E found \in BOOLEAN : ExtractEnd(i, found)
        PROVE  UNCHANGED <<issued, dirs, files>>
    BY <1>5 DEF ProgressEvent, CompressEnd, CompressError, ExtractError, SpawnError,
                WhisperError, ExtractEnd
  <1>6. ASSUME NEW t \in Uploads, R2Stores(t) \/ PutNext(t) \/ PutRejected(t)
        PROVE  UNCHANGED <<issued, dirs, files>>
    BY <1>6 DEF R2Stores, PutNext, PutRejected
  <1>7. ASSUME NEW t \in Uploads, PutLast(t)
        PROVE  FolderKept(j)
    <2>1. up[t].job \in Jobs
      BY <1>7, ActiveUpload DEF PutLast
    <2>2. issued' = issued /\ (UNCHANGED <<dirs, files>> \/ RemoveFolder(up[t].job))
      BY <1>7 DEF PutLast
    <2>3. QED
      BY <1>1, <1>3, <2>1, <2>2
  <1>8. ASSUME NEW i \in Jobs,
               \/ Cancel(i)
               \/ \E t \in Uploads, p \in Paths, named \in BOOLEAN : UploadToR2(t, i, p, named)
        PROVE  FolderKept(j)
    <2>1. issued' = issued /\ (UNCHANGED <<dirs, files>> \/ RemoveFolder(i))
      BY <1>8 DEF Cancel, UploadToR2
    <2>2. QED
      BY <1>1, <1>3, <2>1
  <1>9. Restart \/ Deploy \/ UNCHANGED vars => UNCHANGED <<issued, dirs, files>>
    BY DEF Restart, Deploy, vars
  <1>10. QED
    BY <1>1, <1>2, <1>4, <1>5, <1>6, <1>7, <1>8, <1>9 DEF Next, Work, Requests

LEMMA RipeStays ==
    ASSUME TypeOK, UploadInv, [Next]_vars, NEW j \in Jobs, Ripe(j)
    PROVE  Ripe(j)'
  BY FolderStep DEF Ripe, FolderKept, Playable

\* A step that sets nothing of a job but, perhaps, a status that offers nothing,
\* or that clears its pipeline.
LEMMA ShelvedFrame ==
    ASSUME TypeOK, UploadInv, [Next]_vars, NEW j \in Jobs, Shelved(j),
           \/ pipe'[j] = pipe[j] /\ (j \in dirs' => writer[j] \subseteq writer'[j] \cup files'[j])
           \/ pipe'[j].stage = "idle"
           \/ pipe[j].stage \notin {"idle", "compress"} /\ pipe'[j].stage # "compress",
           jobs'[j].status = "done" =>
              jobs[j].status = "done" \/ pipe[j].stage \notin {"idle", "compress"}
    PROVE  Shelved(j)'
  <1>1. Ripe(j) => Ripe(j)'
    BY RipeStays
  <1>2. j \in issued => FolderKept(j)
    BY FolderStep
  <1>3. QED
    BY <1>1, <1>2 DEF Shelved, FolderKept, Playable

LEMMA ShelfStep ==
    ASSUME TypeOK, UploadInv, \A j \in Jobs : Shelved(j), [Next]_vars
    PROVE  \A j \in Jobs : Shelved(j)'
  <1> USE DEF TypeOK
  <1>1. CASE MemoryLost
    BY <1>1, ShelvedFrame DEF MemoryLost, IdlePipe, NoJob
  <1>2. CASE UNCHANGED <<jobs, pipe, writer>>
    BY <1>2, ShelvedFrame
  <1>3. ASSUME NEW i \in Jobs, NEW kind \in Kind, NEW translate \in BOOLEAN,
               Process(i, kind, translate)
        PROVE  \A j \in Jobs : Shelved(j)'
    <2>1. \A j \in Jobs \ {i} :
             jobs'[j] = jobs[j] /\ pipe'[j] = pipe[j] /\ writer'[j] = writer[j]
      BY <1>3 DEF Process
    <2>2. /\ pipe'[i].stage = "compress" /\ writer'[i] = Playable /\ i \in issued'
          /\ jobs'[i].status = "compressing"
      BY <1>3 DEF Process, Outputs, Playable, NoJob
    <2>3. QED
      BY <2>1, <2>2, ShelvedFrame DEF Shelved
  <1>4. ASSUME NEW i \in Jobs, NEW f \in File, ChildWrites(i, f)
        PROVE  \A j \in Jobs : Shelved(j)'
    BY <1>4, ShelvedFrame DEF ChildWrites
  <1>5. ASSUME NEW i \in Jobs, CompressEnd(i), ~MemoryLost
        PROVE  \A j \in Jobs : Shelved(j)'
    <2> DEFINE r == [jobs[i] EXCEPT !.status = "whisper"]
    <2>1. Advance(i, r, "extract") /\ writer' = [writer EXCEPT ![i] = Outputs("extract")]
      BY <1>5 DEF CompressEnd, Crash
    <2>2. r.status = "whisper"
      BY DEF JobRecord
    <2> HIDE DEF r
    <2>3. /\ jobs'[i].status = "whisper" /\ pipe'[i].stage = "extract"
          /\ \A j \in Jobs \ {i} :
                jobs'[j] = jobs[j] /\ pipe'[j] = pipe[j] /\ writer'[j] = writer[j]
      BY <2>1, <2>2, AdvanceEffect DEF Stage
    <2>4. Ripe(i)
      BY <1>5 DEF CompressEnd, Finished, Shelved, Ripe
    <2>5. Shelved(i)'
      BY <2>3, <2>4, RipeStays DEF Shelved
    <2>6. QED
      BY <2>3, <2>5, ShelvedFrame
  <1>6. ASSUME NEW i \in Jobs, ~MemoryLost,
               \/ CompressError(i) \/ ExtractError(i) \/ SpawnError(i) \/ WhisperError(i)
               \/ ExtractEnd(i, FALSE)
        PROVE  \A j \in Jobs : Shelved(j)'
    <2>1. /\ \/ Advance(i, Failed(i), "idle")
             \/ Advance(i, Failed(i), "closing") /\ pipe[i].stage \notin {"idle", "compress"}
          /\ \A j \in Jobs \ {i} : writer'[j] = writer[j]
      BY <1>6 DEF CompressError, ExtractError, SpawnError, WhisperError, ExtractEnd, Crash
    <2>2. Failed(i).status = "error"
      BY DEF Failed, JobRecord
    <2>3. /\ jobs'[i].status = "error"
          /\ \/ pipe'[i].stage = "idle"
             \/ pipe'[i].stage = "closing" /\ pipe[i].stage \notin {"idle", "compress"}
          /\ \A j \in Jobs \ {i} :
                jobs'[j] = jobs[j] /\ pipe'[j] = pipe[j] /\ writer'[j] = writer[j]
      BY <2>1, <2>2, AdvanceEffect DEF Stage
    <2>4. QED
      BY <2>3, ShelvedFrame
  <1>7. ASSUME NEW i \in Jobs, ExtractEnd(i, TRUE)
        PROVE  \A j \in Jobs : Shelved(j)'
    <2>1. /\ jobs' = jobs
          /\ pipe[i].stage = "extract" /\ pipe'[i].stage = "whisper"
          /\ \A j \in Jobs \ {i} : pipe'[j] = pipe[j] /\ writer'[j] = writer[j]
      BY <1>7 DEF ExtractEnd, PipeRecord
    <2>2. QED
      BY <2>1, ShelvedFrame
  <1>8. ASSUME NEW i \in Jobs, ~MemoryLost,
               (\E found \in BOOLEAN : WhisperSuccess(i, found)) \/ TranslateSuccess(i)
        PROVE  \A j \in Jobs : Shelved(j)'
    <2>1. /\ pipe[i].stage \notin {"idle", "compress"}
          /\ \/ pipe' = [pipe EXCEPT ![i] = IdlePipe]
             \/ pipe' = [pipe EXCEPT ![i].stage = "translate"]
          /\ \A j \in Jobs \ {i} : writer'[j] = writer[j] /\ jobs'[j] = jobs[j]
      BY <1>8 DEF WhisperSuccess, TranslateSuccess, Finish, Crash, Advance
    <2>2. /\ pipe'[i].stage # "compress"
          /\ \A j \in Jobs \ {i} : pipe'[j] = pipe[j]
      BY <2>1 DEF IdlePipe, PipeRecord
    <2>3. QED
      BY <2>1, <2>2, ShelvedFrame
  <1>9. ASSUME UNCHANGED <<pipe, writer>>, NEW i \in Jobs, jobs'[i].status # "done",
               \A j \in Jobs \ {i} : jobs'[j] = jobs[j]
        PROVE  \A j \in Jobs : Shelved(j)'
    BY <1>9, ShelvedFrame
  <1>10. ASSUME NEW i \in Jobs, NEW p \in Paths, NEW listing \in SUBSET File
         PROVE  Failed(i).status # "done" /\ Published(i, p, listing).status # "done"
    BY PublishedFields DEF Failed, JobRecord
  <1>11. ASSUME NEW t \in Uploads, NEW i \in Jobs, NEW p \in Paths, NEW named \in BOOLEAN,
                UploadToR2(t, i, p, named)
         PROVE  \A j \in Jobs : Shelved(j)'
    <2>1. jobs'[i].status # "done"
      <3>1. /\ Failed(i).status # "done" /\ Published(i, p, files[i]).status # "done"
            /\ [jobs[i] EXCEPT !.status = "uploading_r2"].status # "done"
        BY <1>10 DEF JobRecord
      <3>2. \E record \in {Failed(i), Published(i, p, files[i]),
                           [jobs[i] EXCEPT !.status = "uploading_r2"]} : jobs'[i] = record
        BY <1>11 DEF UploadToR2
      <3>3. QED
        BY <3>1, <3>2
    <2>2. UNCHANGED <<pipe, writer>> /\ \A j \in Jobs \ {i} : jobs'[j] = jobs[j]
      BY <1>11 DEF UploadToR2
    <2>3. QED
      BY <1>9, <2>1, <2>2
  <1>12. ASSUME NEW t \in Uploads, PutNext(t) \/ PutLast(t) \/ PutRejected(t), ~MemoryLost,
                ~UNCHANGED jobs
         PROVE  \A j \in Jobs : Shelved(j)'
    <2>1. up[t].job \in Jobs /\ up[t].path \in Paths /\ up[t].listing \in SUBSET File
      BY <1>12, ActiveUpload DEF PutNext, PutLast, PutRejected, UploadRecord
    <2>2. /\ UNCHANGED <<pipe, writer>>
          /\ \/ jobs' = [jobs EXCEPT ![up[t].job] = Failed(up[t].job)]
             \/ jobs' = [jobs EXCEPT ![up[t].job] =
                            Published(up[t].job, up[t].path, up[t].listing)]
      BY <1>12 DEF PutNext, PutLast, PutRejected, UploadFails, Crash
    <2>3. /\ Failed(up[t].job).status # "done"
          /\ Published(up[t].job, up[t].path, up[t].listing).status # "done"
      BY <1>10, <2>1
    <2>4. /\ jobs'[up[t].job].status # "done"
          /\ \A j \in Jobs \ {up[t].job} : jobs'[j] = jobs[j]
      BY <2>1, <2>2, <2>3
    <2>5. QED
      BY <1>9, <2>1, <2>2, <2>4
  <1>13. ASSUME NEW i \in Jobs, Cancel(i)
         PROVE  \A j \in Jobs : Shelved(j)'
    BY <1>9, <1>13 DEF Cancel, NoJob
  <1>14. ASSUME NEW t \in Uploads, PutNext(t) \/ PutLast(t) \/ PutRejected(t), UNCHANGED jobs
         PROVE  MemoryLost \/ UNCHANGED <<jobs, pipe, writer>>
    BY <1>14 DEF PutNext, PutLast, PutRejected, UploadFails, Crash
  <1>15. ASSUME NEW i \in Jobs, RejectPodcast(i) \/ ProgressEvent(i)
         PROVE  MemoryLost \/ UNCHANGED <<jobs, pipe, writer>>
    BY <1>15 DEF RejectPodcast, ProgressEvent, Crash
  <1>16. ASSUME NEW t \in Uploads, R2Stores(t)
         PROVE  UNCHANGED <<jobs, pipe, writer>>
    BY <1>16 DEF R2Stores
  <1>17. Restart \/ Deploy \/ UNCHANGED vars => MemoryLost \/ UNCHANGED <<jobs, pipe, writer>>
    BY DEF Restart, Deploy, vars
  <1>18. CASE Requests
    BY <1>11, <1>13, <1>18 DEF Requests
  <1>19. ASSUME NEW t \in Uploads,
                R2Stores(t) \/ PutNext(t) \/ PutLast(t) \/ PutRejected(t)
         PROVE  \A j \in Jobs : Shelved(j)'
    BY <1>1, <1>2, <1>12, <1>14, <1>16, <1>19
  <1>20. CASE Work
    BY <1>1, <1>2, <1>3, <1>4, <1>5, <1>6, <1>7, <1>8, <1>15, <1>17, <1>19, <1>20 DEF Work
  <1>21. QED
    BY <1>1, <1>2, <1>17, <1>18, <1>20 DEF Next

-----------------------------------------------------------------------------
(* What the page asks the server for, with the folders it asks about.      *)

RipeNext ==
    \/ Work
    \/ \E j \in Jobs :
          \/ Cancel(j)
          \/ /\ Ripe(j)
             /\ \E t \in Uploads, p \in Paths, named \in BOOLEAN : UploadToR2(t, j, p, named)

WholeListings == \A t \in Uploads : up[t] = NoUpload \/ Playable \subseteq up[t].listing

\* A pipeline callback starts no upload and announces no link.
LEMMA PipelineAnnouncesNothing ==
    ASSUME TypeOK, NEW j \in Jobs,
           \/ \E kind \in Kind, translate \in BOOLEAN : Process(j, kind, translate)
           \/ CompressEnd(j) \/ CompressError(j) \/ ExtractError(j)
           \/ \E found \in BOOLEAN : ExtractEnd(j, found) \/ WhisperSuccess(j, found)
           \/ SpawnError(j) \/ WhisperError(j) \/ TranslateSuccess(j)
    PROVE  /\ UNCHANGED up \/ MemoryLost
           /\ \A i \in Jobs : jobs'[i].status = "r2_done" => jobs'[i] = jobs[i]
  <1> DEFINE original == [jobs[j] EXCEPT !.vttOriginal = TRUE]
             english == [jobs[j] EXCEPT !.vttEnglish = TRUE]
             Entries == {[NoJob EXCEPT !.status = "compressing"],
                         [jobs[j] EXCEPT !.status = "whisper"], Failed(j),
                         [original EXCEPT !.status = "done"],
                         [original EXCEPT !.status = "translating"],
                         [original EXCEPT !.status = "error"],
                         [english EXCEPT !.status = "done"]}
  <1>1. /\ UNCHANGED up \/ MemoryLost
        /\ UNCHANGED jobs \/ MemoryLost \/ \E r \in Entries : jobs' = [jobs EXCEPT ![j] = r]
    BY DEF Process, CompressEnd, CompressError, ExtractError, ExtractEnd, SpawnError,
           WhisperError, WhisperSuccess, TranslateSuccess, Finish, Advance, Crash
  <1>2. \A r \in Entries : r.status # "r2_done"
    BY DEF TypeOK, JobRecord, NoJob, Failed
  <1>3. CASE MemoryLost
    BY <1>1, <1>3 DEF MemoryLost, NoJob
  <1> HIDE DEF Entries
  <1>4. CASE \E r \in Entries : jobs' = [jobs EXCEPT ![j] = r]
    BY <1>1, <1>2, <1>4 DEF TypeOK
  <1>5. QED
    BY <1>1, <1>3, <1>4

\* A listing is taken when an upload starts and kept until it ends, and the link
\* is announced when every file of the listing is stored.
LEMMA PublishStep ==
    ASSUME TypeOK, UploadInv, WholeListings, PublishedIsWhole, [RipeNext]_vars
    PROVE  WholeListings' /\ PublishedIsWhole'
  <1> USE DEF TypeOK
  <1>1. [Next]_vars
    BY DEF RipeNext, Next, Requests
  <1>2. CASE /\ UNCHANGED up \/ MemoryLost
             /\ \A j \in Jobs : jobs'[j].status = "r2_done" => jobs'[j] = jobs[j]
    BY <1>1, <1>2, WholeFrame DEF WholeListings, MemoryLost
  <1>3. CASE MemoryLost
    BY <1>2, <1>3 DEF MemoryLost, NoJob
  <1>4. CASE UNCHANGED <<up, jobs>>
    BY <1>2, <1>4
  <1>5. ASSUME NEW j \in Jobs, Cancel(j)
        PROVE  WholeListings' /\ PublishedIsWhole'
    BY <1>2, <1>5 DEF Cancel, NoJob
  <1>6. ASSUME NEW t \in Uploads, NEW j \in Jobs, NEW p \in Paths, NEW named \in BOOLEAN,
               UploadToR2(t, j, p, named), Ripe(j)
        PROVE  WholeListings' /\ PublishedIsWhole'
    <2>1. Playable \subseteq files[j]
      BY <1>6 DEF UploadToR2, Ripe
    <2>2. WholeListings'
      <3>1. CASE UNCHANGED up
        BY <3>1 DEF WholeListings
      <3>2. CASE ~UNCHANGED up
        BY <1>6, <2>1, <3>2 DEF UploadToR2, WholeListings
      <3>3. QED
        BY <3>1, <3>2
    <2>3. \E r \in {Failed(j), [jobs[j] EXCEPT !.status = "uploading_r2"]} :
             jobs' = [jobs EXCEPT ![j] = r]
      BY <1>6, <2>1 DEF UploadToR2, Playable
    <2>4. \A r \in {Failed(j), [jobs[j] EXCEPT !.status = "uploading_r2"]} :
             r.status # "r2_done"
      BY DEF Failed, JobRecord
    <2>5. \A i \in Jobs : jobs'[i].status = "r2_done" => jobs'[i] = jobs[i]
      BY <2>3, <2>4
    <2>6. QED
      BY <1>1, <2>2, <2>5, WholeFrame
  <1>7. ASSUME NEW t \in Uploads, UploadFails(t), up[t].job \in Jobs
        PROVE  WholeListings' /\ PublishedIsWhole'
    <2>1. CASE ~Tracked(up[t].job)
      BY <1>3, <1>7, <2>1 DEF UploadFails, Crash
    <2>2. CASE Tracked(up[t].job)
      <3>1. /\ up' = [up EXCEPT ![t] = NoUpload]
            /\ jobs' = [jobs EXCEPT ![up[t].job] = Failed(up[t].job)]
        BY <1>7, <2>2 DEF UploadFails
      <3>2. Failed(up[t].job).status # "r2_done"
        BY <1>7 DEF Failed, JobRecord
      <3>3. WholeListings'
        BY <3>1 DEF WholeListings
      <3>4. \A i \in Jobs : jobs'[i].status = "r2_done" => jobs'[i] = jobs[i]
        BY <1>7, <3>1, <3>2
      <3>5. QED
        BY <1>1, <3>3, <3>4, WholeFrame
    <2>3. QED
      BY <2>1, <2>2
  <1>8. ASSUME NEW t \in Uploads, R2Stores(t)
        PROVE  WholeListings' /\ PublishedIsWhole'
    <2>1. up[t] # NoUpload
      BY <1>8 DEF R2Stores, NoUpload
    <2>2. up'[t].listing = up[t].listing /\ \A s \in Uploads \ {t} : up'[s] = up[s]
      BY <1>8 DEF R2Stores, UploadRecord
    <2>3. QED
      BY <1>1, <1>8, <2>1, <2>2, WholeFrame DEF WholeListings, R2Stores
  <1>9. ASSUME NEW t \in Uploads, PutNext(t), ~UploadFails(t)
        PROVE  WholeListings' /\ PublishedIsWhole'
    <2>1. PICK f \in First(up[t].todo) :
             /\ up' = [up EXCEPT ![t].todo = @ \ {f}, ![t].cur = f, ![t].stored = FALSE]
             /\ UNCHANGED jobs
      BY <1>9 DEF PutNext
    <2>2. up[t] # NoUpload
      BY <1>9 DEF PutNext, NoUpload
    <2>3. up'[t].listing = up[t].listing /\ \A s \in Uploads \ {t} : up'[s] = up[s]
      BY <2>1 DEF UploadRecord
    <2>4. QED
      BY <1>1, <2>1, <2>2, <2>3, WholeFrame DEF WholeListings
  <1>10. ASSUME NEW t \in Uploads, PutLast(t), ~UploadFails(t), up[t].job \in Jobs
         PROVE  WholeListings' /\ PublishedIsWhole'
    <2> DEFINE j == up[t].job
               r == Published(j, up[t].path, up[t].listing)
    <2>1. up[t].listing \subseteq bucket[up[t].path] /\ up[t].path \in Paths
      BY <1>10, ActiveUpload DEF PutLast
    <2>2. Playable \subseteq up[t].listing
      BY <1>10 DEF PutLast, WholeListings, NoUpload
    <2>3. /\ jobs' = [jobs EXCEPT ![j] = r]
          /\ up' = [up EXCEPT ![t] = NoUpload]
          /\ UNCHANGED bucket
      BY <1>10 DEF PutLast
    <2>4. r.finalUrl = up[t].path
      BY <1>10, <2>1, PublishedFields DEF UploadRecord
    <2> HIDE DEF r
    <2>5. WholeListings'
      BY <2>3 DEF WholeListings
    <2>6. PublishedIsWhole'
      BY <1>10, <2>1, <2>2, <2>3, <2>4 DEF PublishedIsWhole, Playable
    <2>7. QED
      BY <2>5, <2>6
  <1>11. ASSUME NEW t \in Uploads,
                R2Stores(t) \/ PutNext(t) \/ PutLast(t) \/ PutRejected(t)
         PROVE  WholeListings' /\ PublishedIsWhole'
    <2>1. R2Stores(t) \/ up[t].job \in Jobs
      BY <1>11, ActiveUpload DEF PutNext, PutLast, PutRejected
    <2>2. QED
      BY <1>7, <1>8, <1>9, <1>10, <1>11, <2>1 DEF PutRejected
  <1>12. ASSUME NEW j \in Jobs,
                RejectPodcast(j) \/ ProgressEvent(j) \/ \E f \in File : ChildWrites(j, f)
         PROVE  MemoryLost \/ UNCHANGED <<up, jobs>>
    BY <1>12 DEF RejectPodcast, ProgressEvent, ChildWrites, Crash
  <1>13. Restart \/ Deploy \/ UNCHANGED vars => MemoryLost \/ UNCHANGED <<up, jobs>>
    BY DEF Restart, Deploy, vars
  <1>14. CASE Work
    BY <1>2, <1>3, <1>4, <1>11, <1>12, <1>13, <1>14, PipelineAnnouncesNothing DEF Work
  <1>15. QED
    BY <1>3, <1>4, <1>5, <1>6, <1>13, <1>14 DEF RipeNext

-----------------------------------------------------------------------------
(* The page shows and asks about whole videos only.                        *)

Whole(p) == Playable \subseteq bucket[p]

\* A submission whose answer the page still reads.
Submits(r) == posts[r].awaited /\ posts[r].kind = "process"

\* The page learns the id of a job once, before it offers or polls anything.
SubmitInv ==
    /\ \A r \in Posts : Submits(r) => current = None /\ "form" \notin shown
    /\ \A r, s \in Posts : Submits(r) /\ Submits(s) => r = s
    /\ "form" \in shown => current = None

OfferInv == "preview" \in shown \/ countdown # {} => current \in Jobs /\ Ripe(current)

AnswerInv ==
    \A q \in Polls :
       polls[q].at = "answered" =>
          /\ polls[q].status = "done" => current \in Jobs /\ Ripe(current)
          /\ polls[q].url # None => Whole(polls[q].url)

RequestInv ==
    \A r \in Posts : posts[r].kind = "upload" => posts[r].job \in Jobs /\ Ripe(posts[r].job)

LinkInv == link # None => Whole(link)

WatchInv == SubmitInv /\ OfferInv /\ AnswerInv /\ RequestInv /\ LinkInv

\* What is ripe stays ripe, and what is online stays online.
Lasting ==
    /\ \A j \in Jobs : Ripe(j) => Ripe(j)'
    /\ \A p \in Paths : Whole(p) => Whole(p)'

LEMMA LastingStep ==
    ASSUME TypeOK, UploadInv, [Next]_vars
    PROVE  Lasting
  BY RipeStays, BucketGrows DEF Lasting, Whole

LEMMA WatchFrame ==
    ASSUME StudioTypeOK, Lasting, WatchInv, UNCHANGED pageVars
    PROVE  WatchInv'
  BY DEF WatchInv, SubmitInv, OfferInv, AnswerInv, RequestInv, LinkInv, Submits,
         Lasting, pageVars, StudioTypeOK, PollRecord

LEMMA AbandonedUpload ==
    ASSUME NEW post \in PostRecord, Abandoned(post).kind = "upload"
    PROVE  post.kind = "upload" /\ Abandoned(post).job = post.job
  BY DEF Abandoned, PostRecord, FreePost

LEMMA LoadWatch ==
    ASSUME StudioTypeOK, WatchInv, NEW j \in Jobs \cup {None}, Load(j), UNCHANGED vars
    PROVE  WatchInv'
  <1>1. \A r \in Posts : /\ posts'[r] = Abandoned(posts[r])
                         /\ posts[r] \in PostRecord
    BY DEF Load, StudioTypeOK
  <1>2. \A r \in Posts : ~posts'[r].awaited
    BY <1>1, AbandonedType
  <1>3. \A r \in Posts :
           posts'[r].kind = "upload" =>
              posts[r].kind = "upload" /\ posts'[r].job = posts[r].job
    BY <1>1, AbandonedUpload
  <1>4. \A q \in Polls : polls'[q].at # "answered"
    BY DEF Load, FreePoll, Asked
  <1>5. \A i \in Jobs : Ripe(i) => Ripe(i)'
    BY DEF Ripe, vars
  <1>6. SubmitInv'
    BY <1>2 DEF Load, SubmitInv, Submits
  <1>7. OfferInv' /\ LinkInv'
    BY DEF Load, OfferInv, LinkInv
  <1>8. AnswerInv' /\ RequestInv'
    BY <1>3, <1>4, <1>5 DEF WatchInv, AnswerInv, RequestInv
  <1>9. QED
    BY <1>6, <1>7, <1>8 DEF WatchInv

LEMMA UserWatch ==
    ASSUME StudioTypeOK, PageInv, WatchInv, User \/ Timers
    PROVE  WatchInv'
  <1>1. UNCHANGED vars
    BY PageLeavesServer
  <1>2. (\A j : Ripe(j)' = Ripe(j)) /\ (\A p : Whole(p)' = Whole(p))
    BY <1>1 DEF Ripe, Whole, vars
  <1>3. ASSUME NEW r \in Posts, Submit(r)
        PROVE  WatchInv'
    <2>1. /\ shown = {"form"} /\ shown' = {"loading"}
          /\ posts' = [posts EXCEPT ![r] = Request("process", None)]
          /\ UNCHANGED <<current, link, countdown, polls>>
      BY <1>3 DEF Submit
    <2>2. current = None /\ \A s \in Posts : ~Submits(s)
      BY <2>1 DEF WatchInv, SubmitInv
    <2>3. /\ posts'[r] = Request("process", None)
          /\ \A s \in Posts \ {r} : posts'[s] = posts[s] /\ ~Submits(s)'
      BY <2>1, <2>2 DEF StudioTypeOK, Submits
    <2>4. SubmitInv'
      BY <2>1, <2>2, <2>3 DEF SubmitInv, Submits
    <2>5. RequestInv'
      BY <1>2, <2>3 DEF WatchInv, RequestInv, Request
    <2>6. OfferInv' /\ AnswerInv' /\ LinkInv'
      BY <1>2, <2>1 DEF WatchInv, OfferInv, AnswerInv, LinkInv
    <2>7. QED
      BY <2>4, <2>5, <2>6 DEF WatchInv
  <1>4. ASSUME NEW r \in Posts, RequestUpload(r), "preview" \in shown \/ countdown # {}
        PROVE  WatchInv'
    <2>1. current \in Jobs /\ Ripe(current)
      BY <1>4 DEF WatchInv, OfferInv
    <2>2. /\ posts'[r] = Request("upload", current)
          /\ \A s \in Posts \ {r} : posts'[s] = posts[s]
          /\ UNCHANGED <<current, link, polls>>
      BY <1>4 DEF RequestUpload, StudioTypeOK
    <2>3. current # None
      BY <2>1, ConstantsAssumption
    <2>4. SubmitInv'
      BY <1>4, <2>2, <2>3 DEF WatchInv, SubmitInv, Submits, Request, RequestUpload
    <2>5. RequestInv'
      BY <1>2, <2>1, <2>2 DEF WatchInv, RequestInv, Request
    <2>6. OfferInv' /\ AnswerInv' /\ LinkInv'
      BY <1>2, <2>1, <2>2 DEF WatchInv, OfferInv, AnswerInv, LinkInv
    <2>7. QED
      BY <2>4, <2>5, <2>6 DEF WatchInv
  <1>5. ASSUME NEW r \in Posts, PressCancel(r)
        PROVE  WatchInv'
    <2>1. /\ posts'[r] = Request("cancel", current)
          /\ \A s \in Posts \ {r} : posts'[s] = posts[s]
          /\ countdown' \subseteq countdown
          /\ UNCHANGED <<current, link, polls, shown>>
      BY <1>5 DEF PressCancel, StudioTypeOK, Cleared
    <2>2. SubmitInv' /\ RequestInv'
      BY <1>2, <2>1 DEF WatchInv, SubmitInv, Submits, RequestInv, Request
    <2>3. OfferInv' /\ AnswerInv' /\ LinkInv'
      BY <1>2, <2>1 DEF WatchInv, OfferInv, AnswerInv, LinkInv
    <2>4. QED
      BY <2>2, <2>3 DEF WatchInv
  <1>6. CASE LeaveFinal \/ ResetPage \/ Refresh
    BY <1>1, <1>6, LoadWatch
       DEF LeaveFinal, ResetPage, Refresh, ClearStateAndReload, StudioTypeOK
  <1>7. ASSUME NEW q \in Polls, PollTick(q)
        PROVE  WatchInv'
    <2>1. /\ polls'[q] = Asked /\ \A s \in Polls \ {q} : polls'[s] = polls[s]
          /\ UNCHANGED <<current, link, posts, shown, countdown>>
      BY <1>7 DEF PollTick, StudioTypeOK
    <2>2. QED
      BY <1>2, <2>1 DEF WatchInv, SubmitInv, Submits, RequestInv, OfferInv, AnswerInv,
                        LinkInv, Asked, FreePoll
  <1>8. QED
    BY <1>3, <1>4, <1>5, <1>6, <1>7 DEF User, Timers, PressUpload, CountdownEnds

LEMMA ArrivalWatch ==
    ASSUME TypeOK, StudioTypeOK, PageInv, PublishedIsWhole, Lasting,
           \A j \in Jobs : Shelved(j), WatchInv, Arrivals
    PROVE  WatchInv'
  <1>1. ASSUME NEW r \in Posts, NEW answer, Answered(r, answer), UnchangedButPosts,
               answer.kind = posts[r].kind, answer.awaited = posts[r].awaited,
               answer.kind = "process" \/ answer.job = posts[r].job
        PROVE  WatchInv'
    <2>1. /\ posts'[r] \in {answer, FreePost}
          /\ \A s \in Posts \ {r} : posts'[s] = posts[s]
      BY <1>1 DEF Answered, StudioTypeOK
    <2>2. \A s \in Posts : Submits(s)' => Submits(s)
      BY <1>1, <2>1 DEF Submits, FreePost
    <2>3. UNCHANGED <<shown, current, link, countdown, polls>>
      BY <1>1 DEF UnchangedButPosts
    <2>4. SubmitInv'
      BY <2>2, <2>3 DEF WatchInv, SubmitInv
    <2>5. RequestInv'
      BY <1>1, <2>1 DEF WatchInv, RequestInv, Lasting, FreePost
    <2>6. OfferInv' /\ AnswerInv' /\ LinkInv'
      BY <2>3 DEF WatchInv, OfferInv, AnswerInv, LinkInv, Lasting, StudioTypeOK, PollRecord
    <2>7. QED
      BY <2>4, <2>5, <2>6 DEF WatchInv
  <1>2. ASSUME NEW r \in Posts, NEW at \in {"ok", "refused"}
        PROVE  LET answer == [posts[r] EXCEPT !.at = at]
               IN  /\ answer.kind = posts[r].kind /\ answer.awaited = posts[r].awaited
                   /\ answer.job = posts[r].job
    BY DEF StudioTypeOK, PostRecord
  <1>3. ASSUME NEW r \in Posts, NEW j \in Jobs
        PROVE  LET answer == [posts[r] EXCEPT !.at = "ok", !.job = j]
               IN  answer.kind = posts[r].kind /\ answer.awaited = posts[r].awaited
    BY DEF StudioTypeOK, PostRecord
  <1>4. ASSUME NEW r \in Posts, NEW j \in Jobs, NEW translate \in BOOLEAN,
               ProcessArrives(r, j, translate)
        PROVE  WatchInv'
    BY <1>1, <1>3, <1>4 DEF ProcessArrives
  <1>5. ASSUME NEW r \in Posts,
               \/ \E t \in Uploads, path \in Paths, bucketNamed \in BOOLEAN :
                     UploadArrives(r, t, path, bucketNamed)
               \/ UploadRefused(r) \/ CancelArrives(r)
        PROVE  WatchInv'
    BY <1>1, <1>2, <1>5 DEF UploadArrives, UploadRefused, CancelArrives
  <1>6. ASSUME NEW q \in Polls, StatusAnswers(q)
        PROVE  WatchInv'
    <2>1. current \in Jobs
      BY <1>6 DEF StatusAnswers, PageInv, StudioTypeOK, FreePoll
    <2>2. /\ polls'[q].status = jobs[current].status
          /\ polls'[q].url = jobs[current].finalUrl
          /\ \A s \in Polls \ {q} : polls'[s] = polls[s]
          /\ UNCHANGED <<vars, shown, current, link, countdown, posts>>
      BY <1>6 DEF StatusAnswers, StudioTypeOK
    <2>3. (\A j : Ripe(j)' = Ripe(j)) /\ (\A p : Whole(p)' = Whole(p))
      BY <2>2 DEF Ripe, Whole, vars
    <2>4. /\ jobs[current].status = "done" => Ripe(current)
          /\ jobs[current].finalUrl # None => Whole(jobs[current].finalUrl)
      BY <2>1 DEF Shelved, PublishedIsWhole, Whole, Playable, TypeOK, JobRecord
    <2>5. AnswerInv'
      BY <2>1, <2>2, <2>3, <2>4 DEF WatchInv, AnswerInv
    <2>6. SubmitInv' /\ OfferInv' /\ RequestInv' /\ LinkInv'
      BY <2>2, <2>3 DEF WatchInv, SubmitInv, Submits, OfferInv, RequestInv, LinkInv
    <2>7. QED
      BY <2>5, <2>6 DEF WatchInv
  <1>7. QED
    BY <1>4, <1>5, <1>6 DEF Arrivals

LEMMA AnswerWatch ==
    ASSUME StudioTypeOK, PageInv, WatchInv, Answers
    PROVE  WatchInv'
  <1>1. UNCHANGED vars
    BY PageLeavesServer
  <1>2. (\A j : Ripe(j)' = Ripe(j)) /\ (\A p : Whole(p)' = Whole(p))
    BY <1>1 DEF Ripe, Whole, vars
  <1>3. ASSUME NEW q \in Polls, polls' = [polls EXCEPT ![q] = FreePoll],
               UNCHANGED <<current, posts>>
        PROVE  AnswerInv' /\ RequestInv'
    BY <1>2, <1>3 DEF WatchInv, AnswerInv, RequestInv, FreePoll, StudioTypeOK
  <1>4. ASSUME NEW q \in Polls, PollWaits(q) \/ PollFails(q)
        PROVE  WatchInv'
    <2>1. /\ polls' = [polls EXCEPT ![q] = FreePoll]
          /\ UNCHANGED <<shown, current, link, countdown, posts>>
      BY <1>4 DEF PollWaits, PollFails
    <2>2. SubmitInv' /\ OfferInv' /\ LinkInv'
      BY <1>2, <2>1 DEF WatchInv, SubmitInv, Submits, OfferInv, LinkInv
    <2>3. QED
      BY <1>3, <2>1, <2>2 DEF WatchInv
  <1>5. ASSUME NEW q \in Polls, ShowPreview(q)
        PROVE  WatchInv'
    <2>1. current \in Jobs /\ Ripe(current)
      BY <1>5 DEF ShowPreview, PollRead, WatchInv, AnswerInv
    <2>2. /\ polls' = [polls EXCEPT ![q] = FreePoll]
          /\ "form" \in shown' => "form" \in shown
          /\ UNCHANGED <<current, link, posts>>
      BY <1>5 DEF ShowPreview
    <2>3. SubmitInv' /\ OfferInv' /\ LinkInv'
      BY <1>2, <2>1, <2>2 DEF WatchInv, SubmitInv, Submits, OfferInv, LinkInv
    <2>4. QED
      BY <1>3, <2>2, <2>3 DEF WatchInv
  <1>6. ASSUME NEW q \in Polls, ShowPublishedLink(q)
        PROVE  WatchInv'
    <2>1. link' # None => Whole(link')
      BY <1>6 DEF ShowPublishedLink, PollRead, WatchInv, AnswerInv
    <2>2. /\ polls' = [polls EXCEPT ![q] = FreePoll]
          /\ shown' = (shown \ {"loading"}) \cup {"final"}
          /\ UNCHANGED <<current, countdown, posts>>
      BY <1>6 DEF ShowPublishedLink
    <2>3. SubmitInv' /\ OfferInv' /\ LinkInv'
      BY <1>2, <2>1, <2>2 DEF WatchInv, SubmitInv, Submits, OfferInv, LinkInv
    <2>4. QED
      BY <1>3, <2>2, <2>3 DEF WatchInv
  <1>7. CASE ClearStateAndReload
    BY <1>1, <1>7, LoadWatch DEF ClearStateAndReload
  <1>8. ASSUME NEW r \in Posts, ProcessReturns(r)
        PROVE  WatchInv'
    <2>1. Submits(r) /\ posts[r].job \in Jobs
      BY <1>8 DEF ProcessReturns, PageInv, Submits
    <2>2. /\ current = None /\ "form" \notin shown
          /\ \A s \in Posts : Submits(s) => s = r
      BY <2>1 DEF WatchInv, SubmitInv
    <2>3. "preview" \notin shown /\ countdown = {} /\ \A q \in Polls : polls[q] = FreePoll
      BY <2>2 DEF PageInv
    <2>4. /\ posts' = [posts EXCEPT ![r] = FreePost]
          /\ UNCHANGED <<shown, link, countdown>>
      BY <1>8 DEF ProcessReturns
    <2>5. \A q \in Polls : polls'[q].at # "answered"
      BY <1>8, <2>3 DEF ProcessReturns, StartPolling, Asked, FreePoll, StudioTypeOK
    <2>6. SubmitInv'
      BY <2>2, <2>4 DEF SubmitInv, Submits, FreePost, StudioTypeOK
    <2>7. OfferInv' /\ AnswerInv' /\ LinkInv'
      BY <1>2, <2>3, <2>4, <2>5 DEF WatchInv, OfferInv, AnswerInv, LinkInv
    <2>8. RequestInv'
      BY <1>2, <2>4 DEF WatchInv, RequestInv, FreePost, StudioTypeOK
    <2>9. QED
      BY <2>6, <2>7, <2>8 DEF WatchInv
  <1>9. ASSUME NEW r \in Posts, UploadReturns(r)
         PROVE  WatchInv'
    <2>1. /\ posts' = [posts EXCEPT ![r] = FreePost]
          /\ UNCHANGED <<shown, current, link, countdown>>
      BY <1>9 DEF UploadReturns
    <2>2. \A q \in Polls : polls'[q] = polls[q] \/ polls'[q].at # "answered"
      BY <1>9 DEF UploadReturns, StartPolling, Asked, FreePoll, StudioTypeOK
    <2>3. SubmitInv' /\ RequestInv'
      BY <1>2, <2>1 DEF WatchInv, SubmitInv, Submits, RequestInv, FreePost, StudioTypeOK
    <2>4. OfferInv' /\ AnswerInv' /\ LinkInv'
      BY <1>2, <2>1, <2>2 DEF WatchInv, OfferInv, AnswerInv, LinkInv
    <2>5. QED
      BY <2>3, <2>4 DEF WatchInv
  <1>10. ASSUME NEW r \in Posts, PostDropped(r) \/ PostFails(r), ~ClearStateAndReload
         PROVE  WatchInv'
    <2>1. posts[r] \in PostRecord
      BY DEF StudioTypeOK
    <2>2. /\ posts'[r] \in {FreePost, Abandoned(posts[r])}
          /\ \A s \in Posts \ {r} : posts'[s] = posts[s]
          /\ UNCHANGED <<shown, current, link, countdown, polls>>
      BY <1>10 DEF PostDropped, PostFails, UnchangedButPosts, StudioTypeOK
    <2>3. /\ ~Submits(r)'
          /\ posts'[r].kind = "upload" =>
                posts[r].kind = "upload" /\ posts'[r].job = posts[r].job
      BY <2>1, <2>2, AbandonedType, AbandonedUpload DEF Submits, FreePost
    <2>4. SubmitInv' /\ RequestInv'
      BY <1>2, <2>2, <2>3 DEF WatchInv, SubmitInv, Submits, RequestInv
    <2>5. OfferInv' /\ AnswerInv' /\ LinkInv'
      BY <1>2, <2>2 DEF WatchInv, OfferInv, AnswerInv, LinkInv
    <2>6. QED
      BY <2>4, <2>5 DEF WatchInv
  <1>11. QED
    BY <1>4, <1>5, <1>6, <1>7, <1>8, <1>9, <1>10
       DEF Answers, PollActs, PostReturns, ShowError, CancelReturns

\* The page publishes nothing that was not offered to its user.
LEMMA StudioStepIsRipe ==
    ASSUME TypeOK, StudioTypeOK, RequestInv, [StudioNext]_studioVars
    PROVE  [RipeNext]_vars
  <1>1. ASSUME NEW r \in Posts, NEW j \in Jobs, NEW translate \in BOOLEAN,
               ProcessArrives(r, j, translate)
        PROVE  RipeNext
    BY <1>1, StudioAssumption DEF ProcessArrives, RipeNext, Work
  <1>2. ASSUME NEW r \in Posts, NEW t \in Uploads, NEW path \in Paths,
               NEW bucketNamed \in BOOLEAN, UploadArrives(r, t, path, bucketNamed)
        PROVE  RipeNext
    BY <1>2 DEF UploadArrives, RequestInv, RipeNext
  <1>3. ASSUME NEW r \in Posts, CancelArrives(r)
        PROVE  [RipeNext]_vars
    <2>1. CASE posts[r].job \in Jobs
      BY <1>3, <2>1 DEF CancelArrives, RipeNext
    <2>2. CASE posts[r].job = None
      BY <1>3, <2>2, ConstantsAssumption DEF CancelArrives, Cancel, RemoveFolder, TypeOK, vars
    <2>3. QED
      BY <2>1, <2>2 DEF StudioTypeOK, PostRecord
  <1>4. ASSUME NEW r \in Posts, UploadRefused(r)
        PROVE  UNCHANGED vars
    BY <1>4 DEF UploadRefused
  <1>5. ASSUME NEW q \in Polls, StatusAnswers(q)
        PROVE  UNCHANGED vars
    BY <1>5 DEF StatusAnswers
  <1>6. CASE Arrivals
    BY <1>1, <1>2, <1>3, <1>4, <1>5, <1>6 DEF Arrivals
  <1>7. QED
    BY <1>6, PageLeavesServer DEF StudioNext, ServerWorks, RipeNext, studioVars

WholeInv ==
    /\ \A j \in Jobs : Shelved(j)
    /\ WholeListings
    /\ PublishedIsWhole
    /\ WatchInv

LEMMA WholeInvInit == StudioInit => WholeInv
  <1> SUFFICES ASSUME StudioInit PROVE WholeInv
    OBVIOUS
  <1>1. \A j \in Jobs : Shelved(j)
    BY DEF StudioInit, Init, Shelved, IdlePipe, NoJob
  <1>2. WholeListings /\ PublishedIsWhole
    BY ConstantsAssumption DEF StudioInit, Init, WholeListings, PublishedIsWhole, NoJob
  <1>3. SubmitInv /\ OfferInv /\ AnswerInv /\ RequestInv /\ LinkInv
    BY DEF StudioInit, SubmitInv, Submits, OfferInv, AnswerInv, RequestInv, LinkInv, FreePoll,
           FreePost
  <1>4. QED
    BY <1>1, <1>2, <1>3 DEF WholeInv, WatchInv

LEMMA WholeInvStep ==
    ASSUME StudioInv, WholeInv, [StudioNext]_studioVars
    PROVE  WholeInv'
  <1>1. TypeOK /\ UploadInv /\ StudioTypeOK /\ PageInv /\ WatchInv
    BY DEF StudioInv, ServerInv, WholeInv
  <1>2. [Next]_vars /\ [RipeNext]_vars
    BY <1>1, StudioStepIsNext, StudioStepIsRipe DEF WatchInv
  <1>3. (\A j \in Jobs : Shelved(j)') /\ WholeListings' /\ PublishedIsWhole' /\ Lasting
    BY <1>1, <1>2, ShelfStep, PublishStep, LastingStep DEF WholeInv
  <1>4. WatchInv'
    <2>1. CASE UNCHANGED pageVars
      BY <1>1, <1>3, <2>1, WatchFrame
    <2>2. CASE User \/ Timers \/ Answers
      BY <1>1, <2>2, UserWatch, AnswerWatch
    <2>3. CASE Arrivals
      BY <1>1, <1>3, <2>3, ArrivalWatch DEF WholeInv
    <2>4. QED
      BY <2>1, <2>2, <2>3 DEF StudioNext, ServerWorks, studioVars
  <1>5. QED
    BY <1>3, <1>4 DEF WholeInv

\* However polls, uploads, deletions and restarts take turns, whatever other jobs
\* the server works on and whether or not the user waits for an answer, the link
\* that the page shows leads to a playlist and its segments in R2.
THEOREM LinkShownCanBePlayed == StudioSpec => []LinkOnScreenIsWhole
  <1>1. StudioInv /\ WholeInv /\ [StudioNext]_studioVars => WholeInv'
    BY WholeInvStep
  <1>2. WholeInv => LinkOnScreenIsWhole
    BY DEF WholeInv, WatchInv, LinkInv, Whole, Playable, LinkOnScreenIsWhole
  <1>3. QED
    BY <1>1, <1>2, WholeInvInit, StudioInvariance, PTL DEF StudioSpec

\* The same of every link /status gives while such a page is the only one that
\* asks for jobs to be published: an impatient user cannot break it.
THEOREM PageLinkCanBePlayed == StudioSpec => []PublishedIsWhole
  <1>1. StudioInv /\ WholeInv /\ [StudioNext]_studioVars => WholeInv'
    BY WholeInvStep
  <1>2. WholeInv => PublishedIsWhole
    BY DEF WholeInv
  <1>3. QED
    BY <1>1, <1>2, WholeInvInit, StudioInvariance, PTL DEF StudioSpec
=============================================================================
