------------------------------- MODULE Studio -------------------------------
(***************************************************************************)
(* One open page, index.html or podcast.html, and the server of            *)
(* MogoServer.  The page polls /status on an interval timer, shows a       *)
(* preview with a countdown, and publishes or deletes the job.             *)
(*                                                                         *)
(* A callback of the page is one action.  A request is one action of the   *)
(* page that sends it, one of the server that answers it, and one of the   *)
(* page that reads the answer, unless the connection breaks.               *)
(***************************************************************************)
EXTENDS MogoServer

CONSTANTS
    Polls,      \* GET /status requests that may be under way at one time
    Posts,      \* POST requests that may be under way at one time
    PageKind,   \* "video" for index.html, "podcast" for podcast.html
    Patient     \* does the user wait for answers, and are no requests on their way left behind?

ASSUME StudioAssumption == PageKind \in Kind /\ Patient \in BOOLEAN

VARIABLES
    shown,      \* the areas that are displayed
    saved,      \* localStorage: active_mogo_job or active_podcast_job
    current,    \* currentFolderId
    link,       \* the link in finalArea
    polling,    \* interval timers that poll
    countdown,  \* interval timers that count down to the upload
    polls,      \* the GET /status requests
    posts       \* the POST requests

pageVars == <<shown, saved, current, link, polling, countdown, polls, posts>>

studioVars == <<vars, pageVars>>

-----------------------------------------------------------------------------

Area == {"form", "loading", "preview", "final"}

\* pollingInterval and countdownTimer name the last timer that was set. One
\* that ran when the next was set can no longer be cleared: an orphan.
Timer == {"current", "orphan"}

PollRecord == [at: {"free", "asked", "answered"}, status: Status, url: Paths \cup {None}]

PostRecord == [kind: {"none", "process", "upload", "cancel"}, job: Jobs \cup {None},
               at: {"sent", "ok", "refused"}, awaited: BOOLEAN]

FreePoll == [at |-> "free", status |-> "absent", url |-> None]

Asked == [FreePoll EXCEPT !.at = "asked"]

FreePost == [kind |-> "none", job |-> None, at |-> "sent", awaited |-> FALSE]

Request(kind, j) == [kind |-> kind, job |-> j, at |-> "sent", awaited |-> TRUE]

StudioTypeOK ==
    /\ shown \subseteq Area
    /\ saved \in Jobs \cup {None}
    /\ current \in Jobs \cup {None}
    /\ link \in Paths \cup {None}
    /\ polling \subseteq Timer
    /\ countdown \subseteq Timer
    /\ polls \in [Polls -> PollRecord]
    /\ posts \in [Posts -> PostRecord]

StudioInit ==
    /\ Init
    /\ shown = {"form"}
    /\ saved = None
    /\ current = None
    /\ link = None
    /\ polling = {}
    /\ countdown = {}
    /\ polls = [q \in Polls |-> FreePoll]
    /\ posts = [r \in Posts |-> FreePost]

-----------------------------------------------------------------------------
(* Timers, polls and page loads.                                           *)

\* x = setInterval(...) where an earlier timer may be running.
SetTimer(timers) == IF "current" \in timers THEN Timer ELSE timers \cup {"current"}

\* clearInterval(x)
Cleared(timers) == timers \ {"current"}

\* startPolling: one poll at once, then one at every tick.
StartPolling ==
    /\ polling' = SetTimer(polling)
    /\ \E q \in Polls : /\ polls[q] = FreePoll
                        /\ polls' = [polls EXCEPT ![q] = Asked]

\* What a page that goes away, or a connection that breaks, leaves of a request:
\* nothing, or a request that is on its way and whose answer nobody reads.  With a
\* patient user it is nothing: that no request arrives late is part of the assumption.
Abandoned(post) ==
    IF post.at = "sent" /\ post.kind # "none" /\ ~Patient
      THEN [post EXCEPT !.awaited = FALSE] ELSE FreePost

\* The page is loaded with j in localStorage: window.onload.
Load(j) ==
    /\ saved' = j
    /\ current' = j
    /\ link' = None
    /\ countdown' = {}
    /\ posts' = [r \in Posts |-> Abandoned(posts[r])]
    /\ IF j = None
         THEN /\ shown' = {"form"}
              /\ polling' = {}
              /\ polls' = [q \in Polls |-> FreePoll]
         ELSE /\ shown' = {"loading"}
              /\ polling' = {"current"}
              /\ \E q \in Polls : polls' = [[s \in Polls |-> FreePoll] EXCEPT ![q] = Asked]

ClearStateAndReload == Load(None)

\* A patient user presses and reloads when no request is under way.
Quiet == \A r \in Posts : posts[r] = FreePost

MayAct == Patient => Quiet

(***************************************************************************)
(* What the user and the timers do                                         *)
(***************************************************************************)

Submit(r) ==
    /\ shown = {"form"}
    /\ posts[r] = FreePost
    /\ shown' = {"loading"}
    /\ posts' = [posts EXCEPT ![r] = Request("process", None)]
    /\ UNCHANGED <<vars, saved, current, link, polling, countdown, polls>>

\* Mutant: a press does not stop the timer.
RequestUploadOnly(r) ==
    /\ posts[r] = FreePost
    /\ posts' = [posts EXCEPT ![r] = Request("upload", current)]
    /\ shown' = (shown \ {"preview"}) \cup {"loading"}
    /\ UNCHANGED <<vars, saved, current, link, polling, countdown, polls>>

\* uploadToR2, up to its await.
RequestUpload(r) ==
    /\ posts[r] = FreePost
    /\ posts' = [posts EXCEPT ![r] = Request("upload", current)]
    /\ countdown' = Cleared(countdown)
    /\ shown' = (shown \ {"preview"}) \cup {"loading"}
    /\ UNCHANGED <<vars, saved, current, link, polling, polls>>

\* An orphan goes on at every tick, its own timer not being the one it clears.
CountdownEnds(timer, r) ==
    /\ timer \in countdown
    /\ RequestUpload(r)

PressUpload(r) ==
    /\ "preview" \in shown
    /\ MayAct
    /\ RequestUpload(r)

PressCancel(r) ==
    /\ "preview" \in shown
    /\ MayAct
    /\ posts[r] = FreePost
    /\ posts' = [posts EXCEPT ![r] = Request("cancel", current)]
    /\ countdown' = Cleared(countdown)
    /\ UNCHANGED <<vars, shown, saved, current, link, polling, polls>>

\* "Convert Another Episode"
LeaveFinal ==
    /\ "final" \in shown
    /\ ClearStateAndReload
    /\ UNCHANGED vars

\* "Stuck? Click here to Reset Page", on podcast.html only.
ResetPage ==
    /\ PageKind = "podcast"
    /\ MayAct
    /\ ClearStateAndReload
    /\ UNCHANGED vars

\* The user reloads the page, or closes it and opens it again.
Refresh ==
    /\ MayAct
    /\ Load(saved)
    /\ UNCHANGED vars

PollTick(q) ==
    /\ polling # {}
    /\ polls[q] = FreePoll
    /\ polls' = [polls EXCEPT ![q] = Asked]
    /\ UNCHANGED <<vars, shown, saved, current, link, polling, countdown, posts>>

(***************************************************************************)
(* What the server does with a request                                     *)
(***************************************************************************)

\* A request nobody waits for leaves no trace in the page.
Answered(r, answer) ==
    posts' = [posts EXCEPT ![r] =
                IF posts[r].awaited THEN answer ELSE FreePost]

UnchangedButPosts ==
    UNCHANGED <<shown, saved, current, link, polling, countdown, polls>>

ProcessArrives(r, j, translate) ==
    /\ posts[r].kind = "process"
    /\ posts[r].at = "sent"
    /\ Process(j, PageKind, translate)
    /\ Answered(r, [posts[r] EXCEPT !.at = "ok", !.job = j])
    /\ UnchangedButPosts

UploadArrives(r, t, path, bucketNamed) ==
    /\ posts[r].kind = "upload"
    /\ posts[r].at = "sent"
    /\ UploadToR2(t, posts[r].job, path, bucketNamed)
    /\ Answered(r, [posts[r] EXCEPT !.at = "ok"])
    /\ UnchangedButPosts

\* Mutant: an answer the page does not know.
UploadMissing(r) ==
    /\ alive
    /\ posts[r].kind = "upload"
    /\ posts[r].at = "sent"
    /\ posts[r].job \notin dirs
    /\ Answered(r, [posts[r] EXCEPT !.at = "missing"])
    /\ UNCHANGED vars
    /\ UnchangedButPosts

\* 400, Files not found
UploadRefused(r) ==
    /\ alive
    /\ posts[r].kind = "upload"
    /\ posts[r].at = "sent"
    /\ posts[r].job \notin dirs
    /\ Answered(r, [posts[r] EXCEPT !.at = "refused"])
    /\ UNCHANGED vars
    /\ UnchangedButPosts

CancelArrives(r) ==
    /\ posts[r].kind = "cancel"
    /\ posts[r].at = "sent"
    /\ Cancel(posts[r].job)
    /\ Answered(r, [posts[r] EXCEPT !.at = "ok"])
    /\ UnchangedButPosts

StatusAnswers(q) ==
    /\ alive
    /\ polls[q].at = "asked"
    /\ polls' = [polls EXCEPT ![q] = [at |-> "answered",
                                      status |-> jobs[current].status,
                                      url |-> jobs[current].finalUrl]]
    /\ UNCHANGED <<vars, shown, saved, current, link, polling, countdown, posts>>

(***************************************************************************)
(* What the page does with an answer                                       *)
(***************************************************************************)

ProcessReturns(r) ==
    /\ posts[r].kind = "process"
    /\ posts[r].at = "ok"
    /\ current' = posts[r].job
    /\ saved' = posts[r].job
    /\ StartPolling
    /\ posts' = [posts EXCEPT ![r] = FreePost]
    /\ UNCHANGED <<vars, shown, link, countdown>>

\* Mutant: the answer is taken for the end of the upload.
UploadReturnsOnly(r) ==
    /\ posts[r].kind = "upload"
    /\ posts[r].at = "ok"
    /\ posts' = [posts EXCEPT ![r] = FreePost]
    /\ UNCHANGED <<vars, shown, saved, current, link, polling, countdown, polls>>

\* Only index.html polls again. podcast.html leaves that to a poll it stopped.
UploadReturns(r) ==
    /\ posts[r].kind = "upload"
    /\ posts[r].at = "ok"
    /\ IF PageKind = "video" THEN StartPolling ELSE UNCHANGED <<polling, polls>>
    /\ posts' = [posts EXCEPT ![r] = FreePost]
    /\ UNCHANGED <<vars, shown, saved, current, link, countdown>>

CancelReturns(r) ==
    /\ posts[r].kind = "cancel"
    /\ posts[r].at = "ok"
    /\ ClearStateAndReload
    /\ UNCHANGED vars

\* A failed upload or submission ends in an alert and a reload, a failed
\* cancellation in an exception that nothing shows.
PostFails(r) ==
    /\ posts[r].awaited
    /\ IF posts[r].kind = "cancel"
         THEN /\ posts' = [posts EXCEPT ![r] = Abandoned(@)]
              /\ UnchangedButPosts
         ELSE ClearStateAndReload
    /\ UNCHANGED vars

\* The connection breaks under a request whose answer nobody reads.
PostDropped(r) ==
    /\ posts[r] # FreePost
    /\ ~posts[r].awaited
    /\ posts' = [posts EXCEPT ![r] = FreePost]
    /\ UNCHANGED vars
    /\ UnchangedButPosts

\* The catch block of checkStatus is empty.
PollFails(q) ==
    /\ polls[q] # FreePoll
    /\ polls' = [polls EXCEPT ![q] = FreePoll]
    /\ UNCHANGED <<vars, shown, saved, current, link, polling, countdown, posts>>

PollRead(q, status) ==
    /\ polls[q].at = "answered"
    /\ polls[q].status = status

\* Progress, or {error: 'Not found'}, which comes with status 200: no branch
\* of checkStatus stops polling.
PollWaits(q) ==
    /\ \E status \in {"absent", "compressing", "whisper", "translating", "uploading_r2"} :
          PollRead(q, status)
    /\ polls' = [polls EXCEPT ![q] = FreePoll]
    /\ UNCHANGED <<vars, shown, saved, current, link, polling, countdown, posts>>

\* Mutant: the preview is offered while the captions are made.
ShowPreviewEarly(q) ==
    /\ PollRead(q, "done") \/ PollRead(q, "whisper")
    /\ polls' = [polls EXCEPT ![q] = FreePoll]
    /\ polling' = Cleared(polling)
    /\ shown' = (shown \ {"loading"}) \cup {"preview"}
    /\ countdown' = SetTimer(countdown)
    /\ UNCHANGED <<vars, saved, current, link, posts>>

\* Mutant: the preview does not stop polling.
ShowPreviewPolling(q) ==
    /\ PollRead(q, "done")
    /\ polls' = [polls EXCEPT ![q] = FreePoll]
    /\ shown' = (shown \ {"loading"}) \cup {"preview"}
    /\ countdown' = SetTimer(countdown)
    /\ UNCHANGED <<vars, saved, current, link, polling, posts>>

ShowPreview(q) ==
    /\ PollRead(q, "done")
    /\ polls' = [polls EXCEPT ![q] = FreePoll]
    /\ polling' = Cleared(polling)
    /\ shown' = (shown \ {"loading"}) \cup {"preview"}
    /\ countdown' = SetTimer(countdown)
    /\ UNCHANGED <<vars, saved, current, link, posts>>

ShowPublishedLink(q) ==
    /\ PollRead(q, "r2_done")
    /\ polls' = [polls EXCEPT ![q] = FreePoll]
    /\ polling' = Cleared(polling)
    /\ shown' = (shown \ {"loading"}) \cup {"final"}
    /\ link' = polls[q].url
    /\ saved' = None
    /\ UNCHANGED <<vars, current, countdown, posts>>

ShowError(q) ==
    /\ PollRead(q, "error")
    /\ ClearStateAndReload
    /\ UNCHANGED vars

-----------------------------------------------------------------------------

User ==
    \/ \E r \in Posts : Submit(r) \/ PressUpload(r) \/ PressCancel(r)
    \/ LeaveFinal
    \/ ResetPage
    \/ Refresh

Timers ==
    \/ \E timer \in Timer, r \in Posts : CountdownEnds(timer, r)
    \/ \E q \in Polls : PollTick(q)

Arrivals ==
    \/ \E r \in Posts :
          \/ \E j \in Jobs, translate \in BOOLEAN : ProcessArrives(r, j, translate)
          \/ \E t \in Uploads, path \in Paths, bucketNamed \in BOOLEAN :
                UploadArrives(r, t, path, bucketNamed)
          \/ UploadRefused(r)
          \/ CancelArrives(r)
    \/ \E q \in Polls : StatusAnswers(q)

PollActs(q) == PollWaits(q) \/ ShowPreview(q) \/ ShowPublishedLink(q) \/ ShowError(q)

PostReturns(r) ==
    ProcessReturns(r) \/ UploadReturns(r) \/ CancelReturns(r) \/ PostFails(r) \/ PostDropped(r)

Answers == (\E q \in Polls : PollActs(q) \/ PollFails(q)) \/ (\E r \in Posts : PostReturns(r))

\* The server's callbacks, and the jobs that other pages submit.
ServerWorks == Work /\ UNCHANGED pageVars

StudioNext == ServerWorks \/ User \/ Timers \/ Arrivals \/ Answers

StudioSpec == StudioInit /\ [][StudioNext]_studioVars

(***************************************************************************)
(* Ticks come, requests are answered or fail, and a poll that is repeated  *)
(* for ever is not lost every time, not even by reloading.  Nothing is     *)
(* assumed of the user.                                                    *)
(***************************************************************************)

StudioFairness ==
    /\ Fairness
    /\ \A r \in Posts : WF_studioVars(PostReturns(r))
    /\ \A q \in Polls : /\ WF_studioVars(PollTick(q))
                        /\ SF_studioVars(StatusAnswers(q))
                        /\ SF_studioVars(PollActs(q))

FairStudioSpec == StudioSpec /\ StudioFairness

-----------------------------------------------------------------------------

\* The timer that uploads runs only while the preview shows it, and a request
\* to publish or to delete stops it: "Upload Now (Skip Timer)".
TimerIsShown == countdown # {} => shown = {"preview"}

\* A page that shows a progress bar will hear of its job: it polls, or waits for
\* the answer to a request.
ProgressIsFollowed ==
    "loading" \in shown => polling # {} \/ \E r \in Posts : posts[r].awaited

\* "Successfully Published": the link on the screen leads to a video that can be
\* played, however polls, uploads, deletions and restarts took turns.
LinkOnScreenIsWhole ==
    link # None => {"playlist", "segment"} \subseteq bucket[link]

\* The link stays on the screen until the user leaves it: no timer, poll or
\* request is left that could reload the page or show something else.
LinkIsUndisturbed ==
    link # None =>
       /\ polling = {} /\ countdown = {}
       /\ \A q \in Polls : polls[q] = FreePoll
       /\ Quiet

\* A page that shows a progress bar comes to show the preview, the link or the
\* form again, unless the server has forgotten its job in a restart.
Forgotten == current # None /\ jobs[current].status = "absent"

WaitIsAnswered == "loading" \in shown ~> "loading" \notin shown \/ Forgotten

\* A page whose user waits, and whose polls do not overtake each other, sends its
\* requests as PoliteSpec says: only for a job that has its preview, and while
\* nothing else works on it.  All that PoliteSpec promises then holds.
PageIsPolite == PoliteSpec
=============================================================================
